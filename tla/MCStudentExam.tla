---------------------------- MODULE MCStudentExam ----------------------------
(* The attempts of a student, the proctor sessions and the sockets of a    *)
(* live class: they share no row, and a behaviour is about one of them.    *)
EXTENDS CourseAttempt, ProctorSession, LiveSocket

CONSTANTS Main, Home
VARIABLE part

\* Processes are alike: Main is a thread of Home, and others are or are not.
Init ==
    /\ CourseInit /\ ProctorInit /\ SocketInit
    /\ part \in {"attempt", "session", "socket"}
    /\ process[Main] = Home
    /\ part # "attempt" => standalone
    /\ part = "socket" => \A w \in Workers : process[w] = Home

OfAttempt(A) == part = "attempt" /\ A /\ UNCHANGED <<proctorVars, socketVars, part>>
OfSocket(A) == part = "socket" /\ A /\ UNCHANGED <<courseVars, proctorVars, part>>

Next ==
    \/ OfAttempt(CourseNext)
    \/ part = "session" /\ ProctorNext /\ UNCHANGED <<courseVars, socketVars, part>>
    \/ OfSocket(SocketNext)

vars == <<courseVars, proctorVars, socketVars, part>>

\* The fairness of the parts.
Spec ==
    /\ Init /\ [][Next]_vars
    /\ \A w \in Workers : WF_vars(OfAttempt(Proceed(w)))
    /\ WF_vars(OfSocket(\E s \in Sockets : TimesOut(s)))

\* What each part keeps.
StudentTypeOK == CourseTypeOK /\ ProctorTypeOK /\ SocketTypeOK

\* Attempts are made in turn, and what they leave behind agrees.
AttemptsStand == AttemptsInTurn /\ ResultsStand

\* What a proctor saw is counted and on file, and nothing a recruiter or an
\* administrator relies on is taken back: a revoked certificate, a flag, risk.
ProctoringHolds ==
    /\ [](SignalsCounted /\ EvidenceStored)
    /\ RevokedForGood /\ SignalsStand

\* Whoever waits for a lock is answered, and whoever waits for the event loop,
\* and no connection gets lost for which requests would wait.
WaitsEnd == StartsEnd /\ LoopGoesOn /\ []PoolIsWhole
=============================================================================
