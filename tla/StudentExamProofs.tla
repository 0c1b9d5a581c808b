------------------------ MODULE StudentExamProofs ------------------------
(***************************************************************************)
(* What holds of the attempts of a student, of the proctor sessions and of *)
(* the sockets of a live class, for any number of processes, threads,      *)
(* exams, rows, sessions and connections.  Each part has an inductive      *)
(* invariant and a lemma that its steps keep it; at the end they are put   *)
(* together for the specification MCStudentExam checks.                    *)
(***************************************************************************)
EXTENDS MCStudentExam, FiniteSetTheorems, TLAPS

-----------------------------------------------------------------------------
(* The attempts of a student. *)

\* A row that is not there is empty; an attempt is one of one exam.
RowsInv ==
    /\ \A a \in Rows : attempts[a].status = "none" => attempts[a] = NoAttempt
    /\ \A a \in Rows : attempts[a].status # "none" => \E e \in Exams : attempts[a].exam = {e}
    /\ \A a \in Rows : ~results[a].row => results[a] = NoResult

Commits(w) == At(w, "submit", "commit")

\* The lock of a process is with its call that has read and not committed.
LocksInv ==
    /\ startLock = [p \in Processes |-> {w \in Starting : process[w] = p}]
    /\ submitLock = [p \in Processes |-> {w \in Workers : process[w] = p /\ Commits(w)}]
    /\ \A v, w \in Starting : process[v] = process[w] => v = w
    /\ \A v, w \in Workers : Commits(v) /\ Commits(w) /\ process[v] = process[w] => v = w

\* Calls that were never under way at once are not now.
MetInv ==
    /\ "starts" \notin met => \A v, w \in Starting : v = w
    /\ "submits" \notin met => \A a \in Rows : \A v, w \in Submitting(a) : v = w
    /\ "save" \notin met => \A a \in Rows : Saving(a) = {} \/ Submitting(a) = {}

\* What a start has read still stands when it commits, if no other process
\* starts an attempt; attempts are left in any case.
StartOK(w) ==
    call[w].op = "start" =>
        /\ \E e \in Exams : call[w].exam = {e}
        /\ call[w].step = "commit" =>
             /\ call[w].row < MaxAttempts
             /\ "starts" \notin met => /\ Running = {}
                                       /\ call[w].row = Cardinality(Of(call[w].exam))

SaveOK(w) ==
    call[w].op = "save" =>
        /\ call[w].step = "commit" /\ call[w].row \in Rows
        /\ \E q \in Questions : call[w].question = {q}
        /\ attempts[call[w].row].status # "none"
        /\ "save" \notin met => attempts[call[w].row].status = "in_progress"

\* What a submit has computed counts the answers as they are, if no save has
\* met it; and it finds a result only when two processes submit.
SubmitOK(w) ==
    call[w].op = "submit" =>
        /\ call[w].step \in {"commit", "certify"} /\ call[w].row \in Rows
        /\ attempts[call[w].row].status # "none"
        /\ call[w].step = "commit" =>
             /\ call[w].known => results[call[w].row].row
             /\ results[call[w].row].row => "submits" \in met
             /\ "save" \notin met => call[w].score = Score(attempts[call[w].row].answers)
        /\ call[w].step = "certify" =>
             /\ results[call[w].row].row /\ attempts[call[w].row].exam \subseteq Certified
             /\ "submits" \in met \/ results[call[w].row].passed

CallsInv == \A w \in Workers : StartOK(w) /\ SaveOK(w) /\ SubmitOK(w)

CourseInv ==
    /\ CourseTypeOK /\ RowsInv /\ LocksInv /\ MetInv /\ CallsInv
    /\ AttemptsInTurn /\ ResultsStand

LEMMA RowSets ==
  ASSUME NEW S \in SUBSET Rows
  PROVE  /\ IsFiniteSet(S) /\ Cardinality(S) \in Nat /\ Cardinality(S) <= MaxRows
<1>1. IsFiniteSet(Rows) /\ Cardinality(Rows) = MaxRows
  BY FS_Interval, CourseAssumption DEF Rows
<1> QED BY <1>1, FS_Subset, FS_CardinalityType

LEMMA Marks ==
  ASSUME NEW answers
  PROVE  Score(answers) \in Nat /\ Passed(Score(answers)) \in BOOLEAN
<1> DEFINE right == {q \in Questions : answers[q] = "right"}
<1>0. right \in SUBSET Questions /\ Score(answers) = Cardinality(right)
  BY DEF Score
<1> HIDE DEF right
<1>1. IsFiniteSet(Questions)
  BY CourseAssumption
<1>2. IsFiniteSet(right)
  BY <1>0, <1>1, FS_Subset
<1>3. Score(answers) \in Nat
  BY <1>0, <1>2, FS_CardinalityType
<1>4. Passed(Score(answers)) \in BOOLEAN
  BY DEF Passed
<1> QED BY <1>3, <1>4

LEMMA AttemptRow ==
  ASSUME NEW r \in Attempt
  PROVE  /\ r.exam \subseteq Exams /\ r.number \in 0..MaxAttempts
         /\ r.answers \in [Questions -> {"none", "right", "wrong"}]
         /\ r.status \in {"none", "in_progress", "submitted"} /\ r.score \in Int
         /\ r.passed \in BOOLEAN
  BY DEF Attempt, Answers

LEMMA NoAttemptOK ==
    /\ NoAttempt \in Attempt /\ NoAttempt.status = "none" /\ NoAttempt.exam = {}
    /\ NoAttempt.answers = Unanswered /\ NoAttempt.score = 0 /\ NoAttempt.passed = FALSE
<1>1. 0 \in 0..MaxAttempts
  BY CourseAssumption
<1> QED BY <1>1 DEF NoAttempt, Attempt, Answers, Unanswered

LEMMA NoCallOK ==
    /\ NoCall \in Call /\ NoCall.op = "idle" /\ NoCall.step = "wait" /\ NoCall.exam = {}
    /\ NoCall.row = 0 /\ NoCall.enrol = FALSE
<1>1. 0 \in 0..MaxRows
  BY CourseAssumption
<1> QED BY <1>1 DEF NoCall, Call

LEMMA NoResultOK == NoResult \in Result /\ NoResult.row = FALSE /\ NoResult.passed = FALSE
  BY DEF NoResult, Result

LEMMA CourseStart == CourseInit => CourseInv
<1> SUFFICES ASSUME CourseInit PROVE CourseInv
  OBVIOUS
<1>1. /\ \A a \in Rows : attempts[a] = NoAttempt /\ results[a] = NoResult /\ certificates[a] = "none"
      /\ \A w \in Workers : call[w] = NoCall
      /\ met = {}
  BY DEF CourseInit
<1>2. CourseTypeOK
  BY NoAttemptOK, NoCallOK, NoResultOK
  DEF CourseInit, DeploymentInit, NoHolders, CourseTypeOK, Enrollment, CertificateStatus
<1>3. RowsInv
  BY <1>1, NoAttemptOK DEF RowsInv
<1>4. Starting = {} /\ \A w \in Workers : ~Commits(w)
  BY <1>1, NoCallOK DEF Starting, Commits, At
<1>5. LocksInv
  BY <1>4 DEF LocksInv, CourseInit, NoHolders
<1>6. MetInv
  BY <1>4 DEF MetInv, Submitting, Commits
<1>7. CallsInv
  BY <1>1, NoCallOK DEF CallsInv, StartOK, SaveOK, SubmitOK
<1>8. AttemptsInTurn
  <2>1. Running = {} /\ \A e \in Exams : Of({e}) = {}
    BY <1>1, NoAttemptOK DEF Running, Of
  <2>2. Cardinality({}) = 0
    BY FS_EmptySet
  <2>3. 1..0 = {} /\ 0 <= MaxAttempts
    BY CourseAssumption
  <2>4. \A e \in Exams : {attempts[a].number : a \in Of({e})} = {}
    BY <2>1
  <2> QED BY <2>1, <2>2, <2>3, <2>4 DEF AttemptsInTurn
<1>9. ResultsStand
  BY <1>1, NoAttemptOK, NoResultOK
  DEF ResultsStand, ResultMatches, AnswersCounted, CertificatesEarned, Confirmed, Shown
<1> QED BY <1>2, <1>3, <1>5, <1>6, <1>7, <1>8, <1>9 DEF CourseInv

\* A certificate that is revoked is not given back.
RevokedKept ==
    \A a \in Rows : certificates[a] = "revoked" => certificates'[a] = "revoked"

\* Attempts stay in turn when no attempt changes its exam or its number, and none is
\* opened again.
LEMMA SameTurns ==
  ASSUME AttemptsInTurn, met \subseteq met', Running' \subseteq Running,
         \A a \in Rows : /\ attempts'[a].exam = attempts[a].exam
                         /\ attempts'[a].number = attempts[a].number
  PROVE  AttemptsInTurn'
<1> SUFFICES ASSUME "starts" \notin met' PROVE AttemptsInTurn'
  BY DEF AttemptsInTurn
<1>1. ASSUME NEW e \in Exams
      PROVE  /\ {attempts'[a].number : a \in Of({e})'} = 1..Cardinality(Of({e})')
             /\ Cardinality(Of({e})') <= MaxAttempts
  <2>1. Of({e})' = Of({e})
    BY DEF Of
  <2>2. {attempts'[a].number : a \in Of({e})} = {attempts[a].number : a \in Of({e})}
    <3>1. \A a \in Of({e}) : attempts'[a].number = attempts[a].number
      BY DEF Of
    <3> HIDE DEF Of
    <3> QED BY <3>1
  <2>3. /\ {attempts[a].number : a \in Of({e})} = 1..Cardinality(Of({e}))
        /\ Cardinality(Of({e})) <= MaxAttempts
    BY DEF AttemptsInTurn
  <2> QED BY <2>1, <2>2, <2>3
<1>2. Cardinality(Running)' <= 1
  <2>1. /\ Running \in SUBSET Rows /\ Running' \in SUBSET Running
        /\ Cardinality(Running) <= 1
    BY DEF AttemptsInTurn, Running
  <2>2. Running' \in SUBSET Rows
    BY <2>1
  <2>3. IsFiniteSet(Running) /\ Cardinality(Running) \in Nat /\ Cardinality(Running') \in Nat
    BY <2>1, <2>2, RowSets
  <2>4. Cardinality(Running') <= Cardinality(Running)
    BY <2>1, <2>3, FS_Subset
  <2> QED BY <2>1, <2>3, <2>4
<1> QED BY <1>1, <1>2 DEF AttemptsInTurn

\* A step that changes one call, and no row: what is left to show of it.
LEMMA CallKeeps ==
  ASSUME CourseInv, NEW w \in Workers, NEW c \in Call, call' = [call EXCEPT ![w] = c],
         UNCHANGED <<fixed, rows>>, enrollment' \in Enrollment, completed' \in BOOLEAN,
         met \subseteq met', met' \subseteq {"starts", "save", "submits"},
         LocksInv', MetInv', StartOK(w)', SaveOK(w)', SubmitOK(w)'
  PROVE  CourseInv' /\ RevokedKept
<1>1. /\ attempts' = attempts /\ results' = results /\ certificates' = certificates
      /\ process' = process /\ standalone' = standalone
  BY DEF fixed, rows
<1>2. /\ process \in [Workers -> Processes] /\ call \in [Workers -> Call]
  BY DEF CourseInv, CourseTypeOK
<1>3. CourseTypeOK'
  <2>1. call' \in [Workers -> Call]
    BY <1>2
  <2>2. startLock' \in [Processes -> SUBSET Workers] /\ submitLock' \in [Processes -> SUBSET Workers]
    BY DEF LocksInv, Starting
  <2> QED BY <1>1, <2>1, <2>2 DEF CourseInv, CourseTypeOK
<1>4. RowsInv' /\ Running' = Running
  BY <1>1 DEF CourseInv, RowsInv, Running
<1>5. CallsInv'
  <2> SUFFICES ASSUME NEW v \in Workers PROVE StartOK(v)' /\ SaveOK(v)' /\ SubmitOK(v)'
    BY DEF CallsInv
  <2>1. CASE v = w
    BY <2>1
  <2>2. CASE v # w
    <3>1. call'[v] = call[v] /\ StartOK(v) /\ SaveOK(v) /\ SubmitOK(v)
      BY <1>2, <2>2 DEF CourseInv, CallsInv
    <3>2. StartOK(v)'
      BY <1>1, <1>4, <3>1 DEF StartOK, Of
    <3>3. SaveOK(v)'
      BY <1>1, <3>1 DEF SaveOK
    <3>4. SubmitOK(v)'
      BY <1>1, <3>1 DEF SubmitOK
    <3> QED BY <3>2, <3>3, <3>4
  <2> QED BY <2>1, <2>2
<1>6. AttemptsInTurn'
  BY <1>1, <1>4, SameTurns DEF CourseInv
<1>7. ResultsStand'
  BY <1>1 DEF CourseInv, ResultsStand, ResultMatches, AnswersCounted, CertificatesEarned, Confirmed, Shown
<1> QED BY <1>1, <1>3, <1>4, <1>5, <1>6, <1>7 DEF CourseInv, RevokedKept

\* A call that does not come to hold a lock, and overlaps nothing.
LEMMA QuietCall ==
  ASSUME CourseInv, NEW w \in Workers, NEW c \in Call, call' = [call EXCEPT ![w] = c],
         process' = process, met \subseteq met',
         c.op = "idle" \/ c.step # "commit"
  PROVE  /\ MetInv' /\ Starting' = Starting \ {w}
         /\ \A v \in Workers : Commits(v)' <=> Commits(v) /\ v # w
<1>1. /\ call \in [Workers -> Call]
  BY DEF CourseInv, CourseTypeOK
<1>2. call'[w] = c /\ \A v \in Workers \ {w} : call'[v] = call[v]
  BY <1>1
<1>3. Starting' = Starting \ {w}
  BY <1>2 DEF Starting, At
<1>4. \A v \in Workers : Commits(v)' <=> Commits(v) /\ v # w
  BY <1>2 DEF Commits, At
<1>5. MetInv'
  BY <1>2, <1>3 DEF CourseInv, MetInv, Submitting, Saving, At
<1> QED BY <1>3, <1>4, <1>5

\* The locks after a call that gives its own back, and holds none.
LEMMA LocksReleased ==
  ASSUME CourseInv, NEW w \in Workers, process' = process,
         Starting' = Starting \ {w},
         \A v \in Workers : Commits(v)' <=> Commits(v) /\ v # w,
         IF w \in Starting THEN startLock' = Unlocked(startLock, w)
                           ELSE startLock' = startLock,
         IF Commits(w) THEN submitLock' = Unlocked(submitLock, w)
                       ELSE submitLock' = submitLock
  PROVE  LocksInv'
<1>1. LocksInv /\ process \in [Workers -> Processes]
  BY DEF CourseInv, CourseTypeOK
<1>2. startLock' = [p \in Processes |-> {v \in Starting : process[v] = p} \ {w}]
  BY <1>1 DEF LocksInv, Unlocked
<1>3. submitLock' = [p \in Processes |-> {v \in Workers : process[v] = p /\ Commits(v)} \ {w}]
  BY <1>1 DEF LocksInv, Unlocked
<1> QED BY <1>1, <1>2, <1>3 DEF LocksInv

\* A step of no call.
LEMMA SameCalls ==
  ASSUME CourseInv, UNCHANGED <<fixed, rows, locks, call, met>>,
         enrollment' \in Enrollment, completed' \in BOOLEAN
  PROVE  CourseInv' /\ RevokedKept
<1>2. /\ attempts' = attempts /\ results' = results /\ certificates' = certificates
      /\ process' = process /\ standalone' = standalone /\ startLock' = startLock
      /\ submitLock' = submitLock /\ call' = call /\ met' = met
  BY DEF fixed, rows, locks
<1>3. CourseTypeOK' /\ RowsInv' /\ Running' = Running /\ Starting' = Starting
  BY <1>2 DEF CourseInv, CourseTypeOK, RowsInv, Running, Starting, At
<1>4. LocksInv'
  BY <1>2, <1>3 DEF CourseInv, LocksInv, Commits, At
<1>5. MetInv'
  BY <1>2, <1>3 DEF CourseInv, MetInv, Submitting, Saving, At
<1>6. CallsInv'
  BY <1>2, <1>3 DEF CourseInv, CallsInv, StartOK, SaveOK, SubmitOK, Of
<1>7. AttemptsInTurn'
  BY <1>2, <1>3, SameTurns DEF CourseInv
<1>8. ResultsStand'
  BY <1>2 DEF CourseInv, ResultsStand, ResultMatches, AnswersCounted, CertificatesEarned, Confirmed, Shown
<1> QED BY <1>2, <1>3, <1>4, <1>5, <1>6, <1>7, <1>8 DEF CourseInv, RevokedKept

LEMMA EnrollmentSteps ==
  ASSUME CourseInv, Enroll \/ CompleteCourse \/ CompleteClass
  PROVE  CourseInv' /\ RevokedKept
<1>1. UNCHANGED <<fixed, rows, locks, call, met>> /\ completed' \in BOOLEAN
  BY DEF Enroll, CompleteCourse, CompleteClass, CourseInv, CourseTypeOK
<1>2. enrollment' \in Enrollment
  <2>1. /\ [row |-> TRUE, eligible |-> FALSE] \in Enrollment
        /\ [enrollment EXCEPT !.eligible = TRUE] \in Enrollment
    BY DEF Enrollment, CourseInv, CourseTypeOK
  <2> QED BY <2>1 DEF Enroll, CompleteCourse, CompleteClass
<1> QED BY <1>1, <1>2, SameCalls

LEMMA StartBeginKeeps ==
  ASSUME CourseInv, NEW w \in Workers, NEW e \in Exams, StartBegin(w, e)
  PROVE  CourseInv' /\ RevokedKept
<1> DEFINE c == [NoCall EXCEPT !.op = "start", !.exam = {e}, !.enrol = ~enrollment.eligible]
<1>1. /\ call' = [call EXCEPT ![w] = c] /\ UNCHANGED <<fixed, rows>>
      /\ enrollment' = enrollment /\ completed' = completed
      /\ process' = process /\ met' = met /\ startLock' = startLock /\ submitLock' = submitLock
      /\ call[w].op = "idle"
  BY DEF StartBegin, Set, Idle, locks, courseRow, fixed
<1>2. c \in Call /\ c.op = "start" /\ c.step = "wait" /\ c.exam = {e}
  <2>1. (~enrollment.eligible) \in BOOLEAN /\ {e} \in SUBSET Exams
    OBVIOUS
  <2> QED BY <2>1, NoCallOK DEF Call
<1> HIDE DEF c
<1>3. call'[w] = c
  BY <1>1 DEF CourseInv, CourseTypeOK
<1>4. w \notin Starting /\ ~Commits(w)
  BY <1>1 DEF Starting, Commits, At
<1>5. LocksInv' /\ MetInv'
  BY <1>1, <1>2, <1>4, QuietCall, LocksReleased
<1>6. StartOK(w)' /\ SaveOK(w)' /\ SubmitOK(w)'
  BY <1>2, <1>3 DEF StartOK, SaveOK, SubmitOK
<1> QED BY <1>1, <1>2, <1>5, <1>6, CallKeeps DEF CourseInv, CourseTypeOK

LEMMA StartReadKeeps ==
  ASSUME CourseInv, NEW w \in Workers, StartRead(w)
  PROVE  CourseInv' /\ RevokedKept
<1> DEFINE n == Cardinality(Of(call[w].exam))
           c == [call[w] EXCEPT !.step = "commit", !.row = n]
<1>1. /\ call' = [call EXCEPT ![w] = c] /\ UNCHANGED <<fixed, rows>>
      /\ attempts' = attempts
      /\ enrollment' = enrollment /\ completed' = completed
      /\ process' = process /\ submitLock' = submitLock
      /\ startLock' = Locked(startLock, w) /\ startLock[process[w]] = {}
      /\ call[w].op = "start" /\ call[w].step = "wait"
      /\ Running = {} /\ n < MaxAttempts
      /\ met' = met \union Met("starts", Starting \intersect Elsewhere(w))
  BY DEF StartRead, Set, At, courseRow, fixed, rows, LockTaken, LockFree, AttemptsLeft
<1>2. /\ c \in Call /\ c.op = "start" /\ c.step = "commit" /\ c.exam = call[w].exam
      /\ c.row = n
  <2>1. n \in Nat /\ n <= MaxRows /\ call[w] \in Call
    BY RowSets DEF Of, CourseInv, CourseTypeOK
  <2>2. n \in 0..MaxRows
    BY <2>1, CourseAssumption
  <2> HIDE DEF n
  <2> QED BY <1>1, <2>1, <2>2 DEF Call
<1> HIDE DEF c
<1>3. call'[w] = c /\ \A v \in Workers \ {w} : call'[v] = call[v]
  BY <1>1 DEF CourseInv, CourseTypeOK
<1>4. /\ w \notin Starting /\ ~Commits(w) /\ Starting' = Starting \union {w}
      /\ \A v \in Workers : Commits(v)' <=> Commits(v)
  BY <1>1, <1>2, <1>3 DEF Starting, Commits, At
<1>5. \A v \in Starting : process[v] # process[w]
  BY <1>1 DEF CourseInv, CourseTypeOK, LocksInv
<1>6. LocksInv'
  <2>1. process \in [Workers -> Processes] /\ LocksInv
    BY DEF CourseInv, CourseTypeOK
  <2>2. startLock' = [p \in Processes |-> {v \in Starting' : process[v] = p}]
    <3>1. startLock' = [p \in Processes |-> IF p = process[w] THEN {w} ELSE {v \in Starting : process[v] = p}]
      BY <1>1, <2>1 DEF LocksInv, Locked
    <3>2. ASSUME NEW p \in Processes
          PROVE  (IF p = process[w] THEN {w} ELSE {v \in Starting : process[v] = p})
                   = {v \in Starting \union {w} : process[v] = p}
      BY <1>5
    <3> QED BY <1>4, <3>1, <3>2
  <2> QED BY <1>1, <1>4, <1>5, <2>1, <2>2 DEF LocksInv
<1>7. "starts" \notin met' => Starting = {}
  <2>1. Starting \subseteq Elsewhere(w)
    BY <1>5 DEF Elsewhere, Starting
  <2> QED BY <1>1, <2>1 DEF Met
<1>8. MetInv'
  <2>1. \A a \in Rows : Saving(a)' = Saving(a) /\ Submitting(a)' = Submitting(a)
    BY <1>1, <1>2, <1>3 DEF Saving, Submitting, At
  <2>2. met \subseteq met'
    BY <1>1
  <2> QED BY <1>4, <1>7, <2>1, <2>2 DEF CourseInv, MetInv
<1>9. StartOK(w)'
  <2>1. Running' = {} /\ call'[w].exam = call[w].exam
    BY <1>1, <1>2, <1>3 DEF Running
  <2>2. Of(call[w].exam)' = Of(call[w].exam)
    BY <1>1, <2>1 DEF Of
  <2>3. StartOK(w)
    BY DEF CourseInv, CallsInv
  <2> QED BY <1>1, <1>2, <1>3, <2>1, <2>2, <2>3 DEF StartOK
<1>10. SaveOK(w)' /\ SubmitOK(w)'
  BY <1>2, <1>3 DEF SaveOK, SubmitOK
<1>11. met \subseteq met' /\ met' \subseteq {"starts", "save", "submits"}
  BY <1>1 DEF Met, CourseInv, CourseTypeOK
<1> QED BY <1>1, <1>2, <1>6, <1>8, <1>9, <1>10, <1>11, CallKeeps DEF CourseInv, CourseTypeOK

LEMMA StartRefusedKeeps ==
  ASSUME CourseInv, NEW w \in Workers, StartRefused(w)
  PROVE  CourseInv' /\ RevokedKept
<1>1. /\ call' = [call EXCEPT ![w] = NoCall] /\ UNCHANGED <<fixed, rows>>
      /\ enrollment' = enrollment /\ completed' = completed
      /\ process' = process /\ met' = met /\ submitLock' = submitLock
      /\ startLock' = Unlocked(startLock, w) /\ startLock[process[w]] = {}
      /\ call[w].op = "start" /\ call[w].step = "wait"
  BY DEF StartRefused, Set, At, courseRow, fixed, LockTaken, LockFree, Released
<1>2. startLock' = startLock
  BY <1>1 DEF Unlocked, CourseInv, CourseTypeOK
<1>3. w \notin Starting /\ ~Commits(w)
  BY <1>1 DEF Starting, Commits, At
<1>4. LocksInv' /\ MetInv'
  BY <1>1, <1>2, <1>3, NoCallOK, QuietCall, LocksReleased
<1>5. StartOK(w)' /\ SaveOK(w)' /\ SubmitOK(w)'
  BY <1>1, NoCallOK DEF StartOK, SaveOK, SubmitOK, CourseInv, CourseTypeOK
<1> QED BY <1>1, <1>4, <1>5, NoCallOK, CallKeeps DEF CourseInv, CourseTypeOK

LEMMA SaveReadKeeps ==
  ASSUME CourseInv, NEW w \in Workers, NEW a \in Rows, NEW q \in Questions,
         NEW answer \in {"right", "wrong"}, SaveRead(w, a, q, answer)
  PROVE  CourseInv' /\ RevokedKept
<1> DEFINE c == [NoCall EXCEPT !.op = "save", !.step = "commit", !.row = a, !.question = {q},
                               !.answer = answer, !.known = attempts[a].answers[q] # "none"]
<1>1. /\ call' = [call EXCEPT ![w] = c] /\ UNCHANGED <<fixed, rows>>
      /\ attempts' = attempts
      /\ enrollment' = enrollment /\ completed' = completed
      /\ process' = process /\ startLock' = startLock /\ submitLock' = submitLock
      /\ call[w].op = "idle" /\ attempts[a].status = "in_progress"
      /\ met' = met \union Met("save", Submitting(a))
  BY DEF SaveRead, Set, Idle, locks, courseRow, fixed, rows, Open
<1>2. c \in Call /\ c.op = "save" /\ c.step = "commit" /\ c.row = a /\ c.question = {q}
  <2>1. (attempts[a].answers[q] # "none") \in BOOLEAN /\ {q} \in SUBSET Questions /\ a \in 0..MaxRows
    BY CourseAssumption DEF Rows
  <2> QED BY <2>1, NoCallOK DEF Call
<1> HIDE DEF c
<1>3. call'[w] = c /\ \A v \in Workers \ {w} : call'[v] = call[v]
  BY <1>1 DEF CourseInv, CourseTypeOK
<1>4. /\ w \notin Starting /\ ~Commits(w) /\ Starting' = Starting
      /\ \A v \in Workers : Commits(v)' <=> Commits(v)
  BY <1>1, <1>2, <1>3 DEF Starting, Commits, At
<1>5. LocksInv'
  BY <1>1, <1>4 DEF CourseInv, LocksInv
<1>6. MetInv'
  <2>1. ASSUME NEW b \in Rows PROVE Submitting(b)' = Submitting(b)
    BY <1>1, <1>2, <1>3 DEF Submitting, At
  <2>2. ASSUME NEW b \in Rows, b # a PROVE Saving(b)' = Saving(b)
    BY <1>1, <1>2, <1>3, <2>2 DEF Saving, At
  <2>3. met \subseteq met' /\ ("save" \notin met' => Submitting(a) = {})
    BY <1>1 DEF Met
  <2> QED BY <1>4, <2>1, <2>2, <2>3 DEF CourseInv, MetInv
<1>7. StartOK(w)' /\ SaveOK(w)' /\ SubmitOK(w)'
  BY <1>1, <1>2, <1>3 DEF StartOK, SaveOK, SubmitOK
<1>8. met \subseteq met' /\ met' \subseteq {"starts", "save", "submits"}
  BY <1>1 DEF Met, CourseInv, CourseTypeOK
<1> QED BY <1>1, <1>2, <1>5, <1>6, <1>7, <1>8, CallKeeps DEF CourseInv, CourseTypeOK

LEMMA SubmitReadKeeps ==
  ASSUME CourseInv, NEW w \in Workers, NEW a \in Rows, SubmitRead(w, a)
  PROVE  CourseInv' /\ RevokedKept
<1> DEFINE s == Score(attempts[a].answers)
           c == [NoCall EXCEPT !.op = "submit", !.step = "commit", !.row = a,
                               !.score = s, !.known = FALSE]
<1>1. /\ call' = [call EXCEPT ![w] = c] /\ UNCHANGED <<fixed, rows>>
      /\ attempts' = attempts /\ results' = results
      /\ enrollment' = enrollment /\ completed' = completed
      /\ process' = process /\ startLock' = startLock
      /\ submitLock' = Locked(submitLock, w) /\ submitLock[process[w]] = {}
      /\ call[w].op = "idle" /\ attempts[a].status = "in_progress"
      /\ met' = met \union Met("submits", Submitting(a) \intersect Elsewhere(w))
                    \union Met("save", Saving(a))
  BY DEF SubmitRead, Set, Idle, courseRow, fixed, rows, LockTaken, LockFree
<1>2. /\ c \in Call /\ c.op = "submit" /\ c.step = "commit" /\ c.row = a /\ c.known = FALSE
      /\ c.score = s
  <2>1. s \in Int /\ a \in 0..MaxRows
    BY Marks, CourseAssumption DEF Rows
  <2> HIDE DEF s
  <2> QED BY <2>1, NoCallOK DEF Call
<1> HIDE DEF c
<1>3. call'[w] = c /\ \A v \in Workers \ {w} : call'[v] = call[v]
  BY <1>1 DEF CourseInv, CourseTypeOK
<1>4. /\ w \notin Starting /\ ~Commits(w) /\ Starting' = Starting /\ Commits(w)'
      /\ \A v \in Workers \ {w} : Commits(v)' <=> Commits(v)
  BY <1>1, <1>2, <1>3 DEF Starting, Commits, At
<1>5. \A v \in Workers : Commits(v) => process[v] # process[w]
  BY <1>1 DEF CourseInv, CourseTypeOK, LocksInv
<1>6. LocksInv'
  <2>1. process \in [Workers -> Processes] /\ LocksInv
    BY DEF CourseInv, CourseTypeOK
  <2>2. submitLock' = [p \in Processes |-> {v \in Workers : process[v] = p /\ Commits(v)'}]
    <3>1. submitLock' = [p \in Processes |-> IF p = process[w] THEN {w}
                                             ELSE {v \in Workers : process[v] = p /\ Commits(v)}]
      BY <1>1, <2>1 DEF LocksInv, Locked
    <3>2. ASSUME NEW p \in Processes
          PROVE  (IF p = process[w] THEN {w} ELSE {v \in Workers : process[v] = p /\ Commits(v)})
                   = {v \in Workers : process[v] = p /\ Commits(v)'}
      BY <1>4, <1>5
    <3> QED BY <3>1, <3>2
  <2> QED BY <1>1, <1>4, <1>5, <2>1, <2>2 DEF LocksInv
<1>7. /\ "submits" \notin met' => Submitting(a) = {}
      /\ "save" \notin met' => Saving(a) = {}
      /\ met \subseteq met' /\ met' \subseteq {"starts", "save", "submits"}
  <2>1. Submitting(a) \subseteq Elsewhere(w)
    BY <1>5 DEF Elsewhere, Submitting, Commits
  <2> QED BY <1>1, <2>1 DEF Met, CourseInv, CourseTypeOK
<1>8. MetInv'
  <2>1. ASSUME NEW b \in Rows PROVE Saving(b)' = Saving(b)
    BY <1>1, <1>2, <1>3 DEF Saving, At
  <2>2. ASSUME NEW b \in Rows, b # a PROVE Submitting(b)' = Submitting(b)
    BY <1>1, <1>2, <1>3, <2>2 DEF Submitting, At
  <2>3. Submitting(a)' = Submitting(a) \union {w}
    BY <1>1, <1>2, <1>3 DEF Submitting, At
  <2> QED BY <1>4, <1>7, <2>1, <2>2, <2>3 DEF CourseInv, MetInv
<1>9. StartOK(w)' /\ SaveOK(w)'
  BY <1>2, <1>3 DEF StartOK, SaveOK
<1>10. SubmitOK(w)'
  BY <1>1, <1>2, <1>3 DEF SubmitOK, CourseInv, ResultsStand, ResultMatches
<1> QED BY <1>1, <1>2, <1>6, <1>7, <1>8, <1>9, <1>10, CallKeeps DEF CourseInv, CourseTypeOK

LEMMA SubmitLookupKeeps ==
  ASSUME CourseInv, NEW w \in Workers, SubmitLookup(w)
  PROVE  CourseInv' /\ RevokedKept
<1> DEFINE c == [call[w] EXCEPT !.known = TRUE]
<1>1. /\ call' = [call EXCEPT ![w] = c] /\ UNCHANGED <<fixed, rows>>
      /\ attempts' = attempts /\ results' = results
      /\ enrollment' = enrollment /\ completed' = completed
      /\ process' = process /\ startLock' = startLock /\ submitLock' = submitLock /\ met' = met
      /\ call[w].op = "submit" /\ call[w].step = "commit" /\ results[call[w].row].row
  BY DEF SubmitLookup, Set, At, courseRow, fixed, rows, locks
<1>2. /\ c \in Call /\ c.op = "submit" /\ c.step = "commit" /\ c.row = call[w].row
      /\ c.score = call[w].score
  BY <1>1 DEF Call, CourseInv, CourseTypeOK
<1> HIDE DEF c
<1>3. call'[w] = c /\ \A v \in Workers \ {w} : call'[v] = call[v]
  BY <1>1 DEF CourseInv, CourseTypeOK
<1>4. /\ Starting' = Starting /\ \A v \in Workers : Commits(v)' <=> Commits(v)
  BY <1>1, <1>2, <1>3 DEF Starting, Commits, At
<1>5. LocksInv'
  BY <1>1, <1>4 DEF CourseInv, LocksInv
<1>6. MetInv'
  <2>1. ASSUME NEW b \in Rows PROVE Submitting(b)' = Submitting(b) /\ Saving(b)' = Saving(b)
    BY <1>1, <1>2, <1>3 DEF Submitting, Saving, At
  <2> QED BY <1>1, <1>4, <2>1 DEF CourseInv, MetInv
<1>7. StartOK(w)' /\ SaveOK(w)'
  BY <1>2, <1>3 DEF StartOK, SaveOK
<1>8. SubmitOK(w)'
  <2>1. SubmitOK(w)
    BY DEF CourseInv, CallsInv
  <2> QED BY <1>1, <1>2, <1>3, <2>1 DEF SubmitOK
<1> QED BY <1>1, <1>2, <1>5, <1>6, <1>7, <1>8, CallKeeps DEF CourseInv, CourseTypeOK

\* What is confirmed of an attempt whose certificate changes.
LEMMA CertificateKeeps ==
  ASSUME CourseInv, NEW a \in Rows, NEW c \in {Issued(a), certificates[a], "revoked"},
         certificates' = [certificates EXCEPT ![a] = c],
         UNCHANGED <<attempts, results, met>>,
         /\ results[a].row /\ attempts[a].exam \subseteq Certified
         /\ "submits" \in met \/ results[a].passed
  PROVE  /\ CertificatesEarned' /\ RevokedKept
         /\ certificates' \in [Rows -> CertificateStatus]
<1>1. certificates \in [Rows -> CertificateStatus] /\ CertificatesEarned
  BY DEF CourseInv, CourseTypeOK, ResultsStand
<1>2. /\ c \in CertificateStatus
      /\ certificates[a] = "revoked" => c = "revoked"
  BY <1>1 DEF Issued, CertificateStatus
<1>3. certificates'[a] = c /\ \A b \in Rows \ {a} : certificates'[b] = certificates[b]
  BY <1>1
<1>4. CertificatesEarned'
  BY <1>1, <1>2, <1>3 DEF CertificatesEarned, Confirmed, Shown
<1> QED BY <1>1, <1>2, <1>3, <1>4 DEF RevokedKept

LEMMA CertificateSteps ==
  ASSUME CourseInv, NEW a \in Rows, Generate(a) \/ Revoke(a)
  PROVE  CourseInv' /\ RevokedKept
<1>1. /\ attempts' = attempts /\ results' = results /\ enrollment' = enrollment
      /\ completed' = completed /\ process' = process /\ standalone' = standalone
      /\ startLock' = startLock /\ submitLock' = submitLock /\ call' = call /\ met' = met
  BY DEF Generate, Revoke, fixed, courseRow, locks
<1>2. PICK c \in {Issued(a), certificates[a], "revoked"} :
         /\ certificates' = [certificates EXCEPT ![a] = c]
         /\ results[a].row /\ attempts[a].exam \subseteq Certified
         /\ "submits" \in met \/ results[a].passed
  <2>1. CASE Generate(a)
    BY <2>1, NoResultOK DEF Generate, Eligible, CourseInv, RowsInv
  <2>2. CASE Revoke(a)
    BY <2>2 DEF Revoke, CourseInv, ResultsStand, CertificatesEarned, Shown
  <2> QED BY <2>1, <2>2
<1>3. /\ CertificatesEarned' /\ RevokedKept
      /\ certificates' \in [Rows -> CertificateStatus]
  BY <1>1, <1>2, CertificateKeeps
<1>4. CourseTypeOK' /\ RowsInv' /\ Running' = Running /\ Starting' = Starting
  BY <1>1, <1>3 DEF CourseInv, CourseTypeOK, RowsInv, Running, Starting, At
<1>5. LocksInv'
  BY <1>1, <1>4 DEF CourseInv, LocksInv, Commits, At
<1>6. MetInv'
  BY <1>1, <1>4 DEF CourseInv, MetInv, Submitting, Saving, At
<1>7. CallsInv'
  BY <1>1, <1>4 DEF CourseInv, CallsInv, StartOK, SaveOK, SubmitOK, Of
<1>8. AttemptsInTurn'
  BY <1>1, <1>4, SameTurns DEF CourseInv
<1>9. ResultsStand'
  BY <1>1, <1>3 DEF CourseInv, ResultsStand, ResultMatches, AnswersCounted
<1> QED BY <1>3, <1>4, <1>5, <1>6, <1>7, <1>8, <1>9 DEF CourseInv

LEMMA SubmitCertifyKeeps ==
  ASSUME CourseInv, NEW w \in Workers, SubmitCertify(w)
  PROVE  CourseInv' /\ RevokedKept
<1> DEFINE a == call[w].row
<1>1. /\ attempts' = attempts /\ results' = results /\ enrollment' = enrollment
      /\ completed' = completed /\ process' = process /\ standalone' = standalone
      /\ startLock' = startLock /\ submitLock' = submitLock /\ met' = met
      /\ call' = [call EXCEPT ![w] = NoCall]
      /\ call[w].op = "submit" /\ call[w].step = "certify"
  BY DEF SubmitCertify, At, Set, fixed, courseRow, locks
<1>2. /\ a \in Rows /\ results[a].row /\ attempts[a].exam \subseteq Certified
      /\ "submits" \in met \/ results[a].passed
  BY <1>1 DEF CourseInv, CallsInv, SubmitOK
<1>3. PICK c \in {Issued(a), certificates[a], "revoked"} :
         certificates' = [certificates EXCEPT ![a] = c]
  BY DEF SubmitCertify
<1> HIDE DEF a
<1>4. /\ CertificatesEarned' /\ RevokedKept
      /\ certificates' \in [Rows -> CertificateStatus]
  BY <1>1, <1>2, <1>3, CertificateKeeps
<1>5. /\ call \in [Workers -> Call] /\ call' \in [Workers -> Call]
      /\ call'[w] = NoCall /\ \A v \in Workers \ {w} : call'[v] = call[v]
  BY <1>1, NoCallOK DEF CourseInv, CourseTypeOK
<1>6. CourseTypeOK' /\ RowsInv' /\ Running' = Running
  BY <1>1, <1>4, <1>5 DEF CourseInv, CourseTypeOK, RowsInv, Running
<1>7. w \notin Starting /\ ~Commits(w)
  BY <1>1 DEF Starting, Commits, At
<1>8. LocksInv' /\ MetInv'
  BY <1>1, <1>7, NoCallOK, QuietCall, LocksReleased
<1>9. CallsInv'
  <2> SUFFICES ASSUME NEW v \in Workers PROVE StartOK(v)' /\ SaveOK(v)' /\ SubmitOK(v)'
    BY DEF CallsInv
  <2>1. CASE v = w
    BY <1>5, <2>1, NoCallOK DEF StartOK, SaveOK, SubmitOK
  <2>2. CASE v # w
    <3>1. call'[v] = call[v] /\ StartOK(v) /\ SaveOK(v) /\ SubmitOK(v)
      BY <1>5, <2>2 DEF CourseInv, CallsInv
    <3> QED BY <1>1, <1>6, <3>1 DEF StartOK, SaveOK, SubmitOK, Of
  <2> QED BY <2>1, <2>2
<1>10. AttemptsInTurn'
  BY <1>1, <1>6, SameTurns DEF CourseInv
<1>11. ResultsStand'
  BY <1>1, <1>4 DEF CourseInv, ResultsStand, ResultMatches, AnswersCounted
<1> QED BY <1>4, <1>6, <1>8, <1>9, <1>10, <1>11 DEF CourseInv

\* A call that is over: what is left to show of it and of the attempt it wrote.
LEMMA CommitKeeps ==
  ASSUME CourseInv, NEW w \in Workers, NEW c \in Call, call' = [call EXCEPT ![w] = c],
         NEW a \in Rows, NEW row \in Attempt, attempts' = [attempts EXCEPT ![a] = row],
         NEW result \in Result, results' = [results EXCEPT ![a] = result],
         UNCHANGED <<fixed, completed, certificates, met>>, enrollment' \in Enrollment,
         startLock' \in [Processes -> SUBSET Workers], submitLock' \in [Processes -> SUBSET Workers],
         row.status # "none", \E e \in Exams : row.exam = {e},
         ~result.row => result = NoResult,
         attempts[a].status # "none" => row.exam = attempts[a].exam,
         results[a].row => result = results[a],
         LocksInv', MetInv', AttemptsInTurn',
         \A v \in Workers : StartOK(v)' /\ SaveOK(v)' /\ SubmitOK(v)',
         result.row <=> row.status = "submitted",
         "submits" \in met \/ ~result.row
           \/ (result.score = row.score /\ result.passed = row.passed),
         result.row /\ "save" \notin met => result.score = Score(row.answers)
  PROVE  CourseInv' /\ RevokedKept
<1>1. /\ process' = process /\ standalone' = standalone /\ completed' = completed
      /\ certificates' = certificates /\ met' = met
  BY DEF fixed
<1>2. /\ attempts \in [Rows -> Attempt] /\ results \in [Rows -> Result]
      /\ call \in [Workers -> Call]
  BY DEF CourseInv, CourseTypeOK
<1>3. /\ attempts'[a] = row /\ \A b \in Rows \ {a} : attempts'[b] = attempts[b]
      /\ results'[a] = result /\ \A b \in Rows \ {a} : results'[b] = results[b]
  BY <1>2
<1>4. CourseTypeOK'
  <2>1. attempts' \in [Rows -> Attempt] /\ results' \in [Rows -> Result] /\ call' \in [Workers -> Call]
    BY <1>2
  <2> QED BY <1>1, <2>1 DEF CourseInv, CourseTypeOK
<1>5. RowsInv'
  BY <1>3 DEF CourseInv, RowsInv
<1>6. CallsInv'
  BY DEF CallsInv
<1>7. ResultMatches' /\ AnswersCounted'
  <2>1. ResultMatches'
    BY <1>1, <1>3 DEF CourseInv, ResultsStand, ResultMatches
  <2>2. AnswersCounted'
    BY <1>1, <1>3 DEF CourseInv, ResultsStand, AnswersCounted
  <2> QED BY <2>1, <2>2
<1>8. CertificatesEarned'
  <2>1. \A b \in Rows : results[b].row => /\ attempts'[b].exam = attempts[b].exam
                                         /\ results'[b] = results[b]
    BY <1>3, NoAttemptOK DEF CourseInv, ResultsStand, ResultMatches
  <2>2. \A b \in Rows : certificates[b] # "none" => results[b].row
    BY DEF CourseInv, ResultsStand, CertificatesEarned, Shown
  <2> QED BY <1>1, <2>1, <2>2 DEF CourseInv, ResultsStand, CertificatesEarned, Confirmed, Shown
<1> QED BY <1>1, <1>4, <1>5, <1>6, <1>7, <1>8 DEF CourseInv, ResultsStand, RevokedKept

LEMMA StartCommitKeeps ==
  ASSUME CourseInv, NEW w \in Workers, StartCommit(w)
  PROVE  CourseInv' /\ RevokedKept
<1> DEFINE number == call[w].row + 1
           row == [NoAttempt EXCEPT !.exam = call[w].exam, !.number = number, !.status = "in_progress"]
<1>1. PICK a \in Free : attempts' = [attempts EXCEPT ![a] = row]
  BY DEF StartCommit
<1>2. /\ call' = [call EXCEPT ![w] = NoCall] /\ results' = results /\ certificates' = certificates
      /\ enrollment' = IF call[w].enrol THEN [row |-> TRUE, eligible |-> TRUE] ELSE enrollment
      /\ UNCHANGED fixed /\ process' = process /\ completed' = completed /\ met' = met
      /\ submitLock' = submitLock /\ startLock' = Unlocked(startLock, w)
      /\ call[w].op = "start" /\ call[w].step = "commit"
  BY DEF StartCommit, Set, At, fixed, Released
<1>3. PICK e \in Exams : call[w].exam = {e}
  BY <1>2 DEF CourseInv, CallsInv, StartOK
<1>4. /\ call[w].row \in Nat /\ call[w].row < MaxAttempts /\ StartOK(w)
  BY <1>2 DEF CourseInv, CourseTypeOK, Call, CallsInv, StartOK
<1>5. number \in 0..MaxAttempts /\ number = call[w].row + 1
  BY <1>4, CourseAssumption
<1> HIDE DEF number
<1>6. /\ row \in Attempt /\ row.status = "in_progress" /\ row.exam = {e} /\ row.number = number
      /\ row.exam # {}
  BY <1>3, <1>5, NoAttemptOK DEF Attempt
<1> HIDE DEF row
<1>7. /\ a \in Rows /\ attempts[a].status = "none" /\ attempts[a] = NoAttempt
      /\ results[a] = NoResult /\ ~results[a].row
  <2>1. a \in Rows /\ attempts[a].status = "none"
    BY DEF Free
  <2>2. ~results[a].row
    BY <2>1 DEF CourseInv, ResultsStand, ResultMatches
  <2> QED BY <2>1, <2>2 DEF CourseInv, RowsInv
<1>8. /\ attempts'[a] = row /\ \A b \in Rows \ {a} : attempts'[b] = attempts[b]
      /\ call'[w] = NoCall /\ \A v \in Workers \ {w} : call'[v] = call[v]
  BY <1>1, <1>2, <1>7 DEF CourseInv, CourseTypeOK
<1>9. w \in Starting /\ ~Commits(w)
  BY <1>2 DEF Starting, Commits, At
<1>10. LocksInv' /\ MetInv'
  BY <1>2, <1>9, NoCallOK, QuietCall, LocksReleased
<1>11. "starts" \notin met => /\ Starting = {w} /\ Running = {}
                             /\ call[w].row = Cardinality(Of({e}))
  BY <1>2, <1>3, <1>4, <1>9 DEF CourseInv, MetInv, StartOK
<1>12. ASSUME NEW v \in Workers PROVE StartOK(v)' /\ SaveOK(v)' /\ SubmitOK(v)'
  <2>1. CASE v = w
    BY <1>8, <2>1, NoCallOK DEF StartOK, SaveOK, SubmitOK
  <2>2. CASE v # w
    <3>1. call'[v] = call[v] /\ StartOK(v) /\ SaveOK(v) /\ SubmitOK(v)
      BY <1>8, <2>2 DEF CourseInv, CallsInv
    <3>2. call[v].op = "start" /\ call[v].step = "commit" => "starts" \in met
      BY <1>11, <2>2 DEF Starting, At
    <3>3. StartOK(v)'
      BY <1>2, <3>1, <3>2 DEF StartOK
    <3>4. SaveOK(v)'
      BY <1>2, <1>7, <1>8, <3>1 DEF SaveOK
    <3>5. SubmitOK(v)'
      BY <1>2, <1>7, <1>8, <3>1 DEF SubmitOK
    <3> QED BY <3>3, <3>4, <3>5
  <2> QED BY <2>1, <2>2
<1>13. AttemptsInTurn'
  <2> SUFFICES ASSUME "starts" \notin met PROVE AttemptsInTurn'
    BY <1>2 DEF AttemptsInTurn
  <2>1. Running' = {a}
    BY <1>6, <1>7, <1>8, <1>11 DEF Running
  <2>2. Cardinality(Running)' <= 1
    <3>1. Cardinality({a}) = 1
      BY FS_Singleton
    <3> QED BY <2>1, <3>1
  <2>3. ASSUME NEW f \in Exams
        PROVE  /\ {attempts'[b].number : b \in Of({f})'} = 1..Cardinality(Of({f})')
               /\ Cardinality(Of({f})') <= MaxAttempts
    <3>1. /\ {attempts[b].number : b \in Of({f})} = 1..Cardinality(Of({f}))
          /\ Cardinality(Of({f})) <= MaxAttempts
      BY DEF CourseInv, AttemptsInTurn
    <3>2. a \notin Of({f})
      BY <1>7, NoAttemptOK DEF Of
    <3>3. \A b \in Of({f}) : b \in Rows \ {a} /\ attempts'[b].number = attempts[b].number
      BY <1>8, <3>2 DEF Of
    <3>4. CASE f # e
      <4>1. Of({f})' = Of({f})
        BY <1>6, <1>7, <1>8, <3>2, <3>4 DEF Of
      <4>2. {attempts'[b].number : b \in Of({f})} = {attempts[b].number : b \in Of({f})}
        BY <3>3
      <4> QED BY <3>1, <4>1, <4>2
    <3>5. CASE f = e
      <4>1. Of({f})' = Of({f}) \union {a}
        BY <1>6, <1>7, <1>8, <3>5 DEF Of
      <4>2. IsFiniteSet(Of({f})) /\ Cardinality(Of({f})) \in Nat
        BY RowSets DEF Of
      <4>3. Cardinality(Of({f})') = Cardinality(Of({f})) + 1
        BY <3>2, <4>1, <4>2, FS_AddElement
      <4>4. attempts'[a].number = Cardinality(Of({f})) + 1
        BY <1>5, <1>6, <1>8, <1>11, <3>5
      <4>5. {attempts'[b].number : b \in Of({f}) \union {a}}
              = {attempts[b].number : b \in Of({f})} \union {Cardinality(Of({f})) + 1}
        BY <3>3, <4>4
      <4>6. 1..(Cardinality(Of({f})) + 1) = 1..Cardinality(Of({f})) \union {Cardinality(Of({f})) + 1}
        BY <4>2
      <4>7. Cardinality(Of({f})) + 1 <= MaxAttempts
        BY <1>4, <1>11, <3>5, <4>2, CourseAssumption
      <4> QED BY <3>1, <4>1, <4>3, <4>5, <4>6, <4>7
    <3> QED BY <3>4, <3>5
  <2> QED BY <2>2, <2>3 DEF AttemptsInTurn
<1>14. enrollment' \in Enrollment
  <2>1. [row |-> TRUE, eligible |-> TRUE] \in Enrollment
    BY DEF Enrollment
  <2> QED BY <1>2, <2>1 DEF CourseInv, CourseTypeOK
<1>15. startLock' \in [Processes -> SUBSET Workers] /\ submitLock' \in [Processes -> SUBSET Workers]
  BY <1>10 DEF LocksInv, Starting
<1>16. results' = [results EXCEPT ![a] = NoResult]
  BY <1>2, <1>7 DEF CourseInv, CourseTypeOK
<1>17. UNCHANGED <<fixed, completed, certificates, met>>
  BY <1>2
<1>18. /\ NoResult.row <=> row.status = "submitted"
       /\ \E f \in Exams : row.exam = {f}
  BY <1>6, NoResultOK
<1>19. \A v \in Workers : StartOK(v)' /\ SaveOK(v)' /\ SubmitOK(v)'
  BY <1>12
<1>20. NoCall \in Call /\ NoResult \in Result /\ ~NoResult.row
  BY NoCallOK, NoResultOK
<1> HIDE DEF NoCall, NoResult
<1> QED BY <1>1, <1>2, <1>6, <1>7, <1>10, <1>13, <1>14, <1>15, <1>16, <1>17, <1>18, <1>19, <1>20,
           CommitKeeps

LEMMA SaveCommitKeeps ==
  ASSUME CourseInv, NEW w \in Workers, SaveCommit(w)
  PROVE  CourseInv' /\ RevokedKept
<1> DEFINE a == call[w].row
<1>1. /\ call' = [call EXCEPT ![w] = NoCall] /\ results' = results /\ certificates' = certificates
      /\ enrollment' = enrollment /\ completed' = completed /\ met' = met
      /\ UNCHANGED fixed /\ process' = process
      /\ submitLock' = submitLock /\ startLock' = startLock
      /\ call[w].op = "save" /\ call[w].step = "commit"
  BY DEF SaveCommit, Set, At, fixed, courseRow, locks
<1>2. PICK q \in call[w].question :
         attempts' = IF call[w].known \/ attempts[a].answers[q] = "none"
                     THEN [attempts EXCEPT ![a].answers[q] = call[w].answer] ELSE attempts
  BY DEF SaveCommit
<1>3. /\ a \in Rows /\ q \in Questions /\ attempts[a].status # "none"
      /\ "save" \notin met => attempts[a].status = "in_progress"
      /\ attempts \in [Rows -> Attempt] /\ results \in [Rows -> Result]
      /\ attempts[a] \in Attempt /\ results[a] \in Result
      /\ call[w].answer \in {"right", "wrong"}
  BY <1>1 DEF CourseInv, CourseTypeOK, CallsInv, SaveOK, Call
<1> HIDE DEF a
<1>4. PICK answers \in Answers : attempts' = [attempts EXCEPT ![a] = [attempts[a] EXCEPT !.answers = answers]]
  <2>1. attempts[a].answers \in Answers
    BY <1>3 DEF Attempt
  <2>2. CASE attempts' = attempts
    <3>1. [attempts[a] EXCEPT !.answers = attempts[a].answers] = attempts[a]
      BY <1>3 DEF Attempt
    <3>2. attempts' = [attempts EXCEPT ![a] = attempts[a]]
      BY <1>3, <2>2
    <3> QED BY <2>1, <3>1, <3>2
  <2>3. CASE attempts' = [attempts EXCEPT ![a].answers[q] = call[w].answer]
    <3> DEFINE new == [attempts[a].answers EXCEPT ![q] = call[w].answer]
    <3>1. new \in Answers
      BY <1>3, <2>1 DEF Answers
    <3>2. attempts' = [attempts EXCEPT ![a] = [attempts[a] EXCEPT !.answers = new]]
      BY <2>3
    <3> QED BY <3>1, <3>2
  <2> QED BY <1>2, <2>2, <2>3
<1> DEFINE row == [attempts[a] EXCEPT !.answers = answers]
<1>5. /\ row \in Attempt /\ row.status = attempts[a].status /\ row.exam = attempts[a].exam
      /\ row.number = attempts[a].number /\ row.score = attempts[a].score
      /\ row.passed = attempts[a].passed
  BY <1>3 DEF Attempt
<1>6. attempts' = [attempts EXCEPT ![a] = row]
  BY <1>4
<1> HIDE DEF row
<1>7. /\ attempts'[a] = row /\ \A b \in Rows \ {a} : attempts'[b] = attempts[b]
      /\ call'[w] = NoCall /\ \A v \in Workers \ {w} : call'[v] = call[v]
  BY <1>1, <1>3, <1>6 DEF CourseInv, CourseTypeOK
<1>8. w \notin Starting /\ ~Commits(w) /\ w \in Saving(a)
  BY <1>1 DEF Starting, Commits, Saving, At, a
<1>9. LocksInv' /\ MetInv'
  BY <1>1, <1>8, NoCallOK, QuietCall, LocksReleased
<1>10. \A b \in Rows : /\ attempts'[b].exam = attempts[b].exam /\ attempts'[b].status = attempts[b].status
                       /\ attempts'[b].number = attempts[b].number
  BY <1>5, <1>7
<1>11. Running' = Running
  BY <1>10 DEF Running
<1>12. AttemptsInTurn'
  BY <1>1, <1>10, <1>11, SameTurns DEF CourseInv
<1>13. "save" \notin met => Submitting(a) = {}
  BY <1>3, <1>8 DEF CourseInv, MetInv
<1>14. ASSUME NEW v \in Workers PROVE StartOK(v)' /\ SaveOK(v)' /\ SubmitOK(v)'
  <2>1. CASE v = w
    BY <1>7, <2>1, NoCallOK DEF StartOK, SaveOK, SubmitOK
  <2>2. CASE v # w
    <3>1. call'[v] = call[v] /\ StartOK(v) /\ SaveOK(v) /\ SubmitOK(v)
      BY <1>7, <2>2 DEF CourseInv, CallsInv
    <3>2. call[v].op = "submit" /\ call[v].step = "commit" /\ call[v].row = a => "save" \in met
      BY <1>13 DEF Submitting, At
    <3>3. StartOK(v)'
      <4>1. Of(call[v].exam)' = Of(call[v].exam)
        BY <1>10, <3>1 DEF Of
      <4> QED BY <1>1, <1>11, <3>1, <4>1 DEF StartOK
    <3>4. SaveOK(v)'
      BY <1>1, <1>10, <3>1 DEF SaveOK
    <3>5. SubmitOK(v)'
      <4>1. call[v].op = "submit" /\ call[v].row # a => attempts'[call[v].row] = attempts[call[v].row]
        BY <1>7, <3>1 DEF SubmitOK
      <4> QED BY <1>1, <1>10, <3>1, <3>2, <4>1 DEF SubmitOK
    <3> QED BY <3>3, <3>4, <3>5
  <2> QED BY <2>1, <2>2
<1>15. results' = [results EXCEPT ![a] = results[a]]
  BY <1>1, <1>3
<1>16. UNCHANGED <<fixed, completed, certificates, met>>
  BY <1>1
<1>17. /\ \E e \in Exams : row.exam = {e}
       /\ ~results[a].row => results[a] = NoResult
       /\ results[a].row <=> row.status = "submitted"
       /\ "submits" \in met \/ ~results[a].row
            \/ (results[a].score = row.score /\ results[a].passed = row.passed)
       /\ results[a].row => "save" \in met
  BY <1>3, <1>5 DEF CourseInv, RowsInv, ResultsStand, ResultMatches
<1>18. \A v \in Workers : StartOK(v)' /\ SaveOK(v)' /\ SubmitOK(v)'
  BY <1>14
<1>19. /\ enrollment' \in Enrollment /\ startLock' \in [Processes -> SUBSET Workers]
       /\ submitLock' \in [Processes -> SUBSET Workers]
  BY <1>1 DEF CourseInv, CourseTypeOK
<1> QED BY <1>1, <1>3, <1>5, <1>6, <1>9, <1>12, <1>15, <1>16, <1>17, <1>18, <1>19,
           NoCallOK, CommitKeeps

\* A submit that finds a result it has not read: nothing is committed.
LEMMA SubmitFails ==
  ASSUME CourseInv, NEW w \in Workers, Commits(w), call' = [call EXCEPT ![w] = NoCall],
         UNCHANGED <<fixed, courseRow, rows, startLock, met>>,
         submitLock' = Unlocked(submitLock, w)
  PROVE  CourseInv' /\ RevokedKept
<1>1. process' = process /\ w \notin Starting /\ enrollment' = enrollment /\ completed' = completed
  BY DEF fixed, courseRow, Starting, Commits, At
<1>2. LocksInv' /\ MetInv'
  BY <1>1, NoCallOK, QuietCall, LocksReleased
<1>3. call'[w] = NoCall
  BY DEF CourseInv, CourseTypeOK
<1>4. StartOK(w)' /\ SaveOK(w)' /\ SubmitOK(w)'
  BY <1>3, NoCallOK DEF StartOK, SaveOK, SubmitOK
<1> QED BY <1>1, <1>2, <1>4, NoCallOK, CallKeeps DEF CourseInv, CourseTypeOK

LEMMA SubmitCommitKeeps ==
  ASSUME CourseInv, NEW w \in Workers, SubmitCommit(w)
  PROVE  CourseInv' /\ RevokedKept
<1> DEFINE a == call[w].row
           s == call[w].score
           p == Passed(s)
           saved == call[w].known \/ ~results[a].row
           scored == [row |-> TRUE, score |-> s, passed |-> p]
           result == IF call[w].known THEN results[a] ELSE scored
           row == [attempts[a] EXCEPT !.status = "submitted", !.score = s, !.passed = p]
           certify == [NoCall EXCEPT !.op = "submit", !.step = "certify", !.row = a]
           c == IF saved /\ p /\ attempts[a].exam \subseteq Certified THEN certify ELSE NoCall
<1>1. /\ call' = [call EXCEPT ![w] = c] /\ UNCHANGED <<fixed, courseRow, certificates, startLock, met>>
      /\ process' = process /\ enrollment' = enrollment /\ completed' = completed
      /\ certificates' = certificates /\ met' = met
      /\ submitLock' = Unlocked(submitLock, w) /\ startLock' = startLock
      /\ call[w].op = "submit" /\ call[w].step = "commit" /\ Commits(w)
      /\ saved => results' = [results EXCEPT ![a] = result]
      /\ ~saved => attempts' = attempts /\ results' = results
  BY DEF SubmitCommit, Set, At, Commits, fixed, courseRow, Released
<1>2. saved => attempts' = [attempts EXCEPT ![a] = row]
  <2>1. [attempts EXCEPT ![a].status = "submitted", ![a].score = s, ![a].passed = p]
          = [attempts EXCEPT ![a] = row]
    BY DEF CourseInv, CourseTypeOK
  <2> QED BY <2>1 DEF SubmitCommit
<1>3. /\ a \in Rows /\ attempts[a].status # "none" /\ SubmitOK(w)
      /\ attempts[a] \in Attempt /\ results[a] \in Result
      /\ attempts \in [Rows -> Attempt] /\ results \in [Rows -> Result]
      /\ s \in Int /\ p \in BOOLEAN
  <2>1. SubmitOK(w) /\ call[w] \in Call
    BY DEF CourseInv, CallsInv, CourseTypeOK
  <2>2. a \in Rows /\ attempts[a].status # "none" /\ s \in Int
    BY <1>1, <2>1 DEF SubmitOK, Call
  <2>3. p \in BOOLEAN
    BY DEF Passed
  <2> QED BY <2>1, <2>2, <2>3 DEF CourseInv, CourseTypeOK
<1>4. /\ certify \in Call /\ certify.op = "submit" /\ certify.step = "certify" /\ certify.row = a
  <2>1. a \in 0..MaxRows
    BY <1>3, CourseAssumption DEF Rows
  <2> QED BY <2>1, NoCallOK DEF Call
<1>5. /\ c \in Call
      /\ c.op = "idle" \/ c.step # "commit"
      /\ c.op \in {"idle", "submit"}
      /\ c.op = "submit" => c.step = "certify" /\ c.row = a /\ saved /\ p
                              /\ attempts[a].exam \subseteq Certified
  BY <1>4, NoCallOK
<1>6. CASE ~saved
  <2>1. c = NoCall
    BY <1>6
  <2>2. UNCHANGED <<fixed, courseRow, rows, startLock, met>>
    BY <1>1, <1>6 DEF rows
  <2> QED BY <1>1, <2>1, <2>2, SubmitFails
<1>7. CASE saved
  <2>0. /\ attempts' = [attempts EXCEPT ![a] = row] /\ results' = [results EXCEPT ![a] = result]
        /\ call' = [call EXCEPT ![w] = c]
    BY <1>1, <1>2, <1>7
  <2>1. /\ row \in Attempt /\ row.status = "submitted" /\ row.exam = attempts[a].exam
        /\ row.number = attempts[a].number /\ row.answers = attempts[a].answers
        /\ row.score = s /\ row.passed = p
    <3> HIDE DEF s, p
    <3> QED BY <1>3 DEF Attempt
  <2>2. /\ result \in Result /\ result.row = TRUE
        /\ call[w].known => result = results[a] /\ results[a].row /\ "submits" \in met
        /\ ~call[w].known => result.score = s /\ result.passed = p /\ ~results[a].row
    <3>1. scored \in Result /\ scored.row = TRUE /\ scored.score = s /\ scored.passed = p
      <4> HIDE DEF s, p
      <4> QED BY <1>3 DEF Result
    <3>2. call[w].known => results[a].row /\ "submits" \in met
      BY <1>1, <1>3 DEF SubmitOK
    <3> HIDE DEF scored
    <3> QED BY <1>3, <1>7, <3>1, <3>2
  <2>3. "save" \notin met => s = Score(attempts[a].answers)
    BY <1>1, <1>3 DEF SubmitOK
  <2> HIDE DEF a, s, p, result, row, c
  <2>4. /\ attempts'[a] = row /\ \A b \in Rows \ {a} : attempts'[b] = attempts[b]
        /\ results'[a] = result /\ \A b \in Rows \ {a} : results'[b] = results[b]
        /\ call'[w] = c /\ \A v \in Workers \ {w} : call'[v] = call[v]
    BY <1>3, <2>0 DEF CourseInv, CourseTypeOK
  <2>5. w \notin Starting
    BY <1>1 DEF Starting, At
  <2>6. LocksInv' /\ MetInv'
    BY <1>1, <1>5, <2>5, QuietCall, LocksReleased
  <2>7. Running' \subseteq Running
    BY <2>1, <2>4 DEF Running
  <2>8. \A b \in Rows : attempts'[b].exam = attempts[b].exam /\ attempts'[b].number = attempts[b].number
    BY <2>1, <2>4
  <2>9. AttemptsInTurn'
    BY <1>1, <2>7, <2>8, SameTurns DEF CourseInv
  <2>10. \A v \in Workers \ {w} : Commits(v) /\ call[v].row = a => "submits" \in met
    BY <1>1, <1>3 DEF CourseInv, MetInv, Submitting, Commits, a
  <2>11. "save" \notin met => Saving(a) = {}
    BY <1>1, <1>3 DEF CourseInv, MetInv, Submitting, Commits, a
  <2>12. ASSUME NEW v \in Workers PROVE StartOK(v)' /\ SaveOK(v)' /\ SubmitOK(v)'
    <3>1. CASE v = w
      <4>1. StartOK(v)' /\ SaveOK(v)'
        BY <1>5, <2>4, <3>1 DEF StartOK, SaveOK
      <4>2. c.op = "submit" => "submits" \in met \/ result.passed
        BY <1>5, <2>2
      <4>3. SubmitOK(v)'
        BY <1>1, <1>3, <1>5, <2>1, <2>2, <2>4, <3>1, <4>2 DEF SubmitOK
      <4> QED BY <4>1, <4>3
    <3>2. CASE v # w
      <4>1. call'[v] = call[v] /\ StartOK(v) /\ SaveOK(v) /\ SubmitOK(v)
        BY <2>4, <3>2 DEF CourseInv, CallsInv
      <4>2. StartOK(v)'
        <5>1. Of(call[v].exam)' = Of(call[v].exam)
          BY <2>8, <4>1 DEF Of
        <5> QED BY <1>1, <2>7, <4>1, <5>1 DEF StartOK
      <4>3. SaveOK(v)'
        <5>1. call[v].op = "save" /\ call[v].row = a => "save" \in met
          BY <2>11, <4>1 DEF Saving, SaveOK, At
        <5>2. call[v].op = "save" /\ call[v].row # a => attempts'[call[v].row] = attempts[call[v].row]
          BY <2>4, <4>1 DEF SaveOK
        <5> QED BY <1>1, <2>1, <2>4, <4>1, <5>1, <5>2 DEF SaveOK
      <4>4. SubmitOK(v)'
        <5>1. call[v].op = "submit" /\ call[v].row # a =>
                /\ attempts'[call[v].row] = attempts[call[v].row]
                /\ results'[call[v].row] = results[call[v].row]
          BY <2>4, <4>1 DEF SubmitOK
        <5>2. call[v].op = "submit" /\ call[v].step = "commit" /\ call[v].row = a => "submits" \in met
          BY <2>10, <3>2 DEF Commits, At
        <5>3. results[a].row => result = results[a]
          BY <2>2
        <5> QED BY <1>1, <2>1, <2>2, <2>4, <4>1, <5>1, <5>2, <5>3 DEF SubmitOK
      <4> QED BY <4>2, <4>3, <4>4
    <3> QED BY <3>1, <3>2
  <2>13. /\ UNCHANGED <<fixed, completed, certificates, met>> /\ enrollment' \in Enrollment
         /\ startLock' \in [Processes -> SUBSET Workers]
         /\ submitLock' \in [Processes -> SUBSET Workers]
    <3>1. UNCHANGED <<fixed, completed, certificates, met>> /\ enrollment' \in Enrollment
      BY <1>1 DEF CourseInv, CourseTypeOK
    <3>2. /\ startLock' \in [Processes -> SUBSET Workers]
          /\ submitLock' \in [Processes -> SUBSET Workers]
      BY <2>6 DEF LocksInv, Starting
    <3> QED BY <3>1, <3>2
  <2>14. /\ \E e \in Exams : row.exam = {e}
         /\ "submits" \in met \/ (result.score = row.score /\ result.passed = row.passed)
    BY <1>3, <2>1, <2>2 DEF CourseInv, RowsInv
  <2>15. "save" \notin met => result.score = Score(row.answers)
    BY <1>3, <2>1, <2>2, <2>3 DEF CourseInv, ResultsStand, AnswersCounted
  <2>16. \A v \in Workers : StartOK(v)' /\ SaveOK(v)' /\ SubmitOK(v)'
    BY <2>12
  <2>17. results[a].row => result = results[a]
    BY <2>2
  <2> QED BY <1>3, <1>5, <2>0, <2>1, <2>2, <2>6, <2>9, <2>13, <2>14, <2>15, <2>16, <2>17, CommitKeeps
<1> QED BY <1>6, <1>7

LEMMA RestartKeeps ==
  ASSUME CourseInv, NEW p \in Processes, Restart(p)
  PROVE  CourseInv' /\ RevokedKept
<1>1. /\ call' = [w \in Workers |-> IF process[w] = p THEN NoCall ELSE call[w]]
      /\ startLock' = [startLock EXCEPT ![p] = {}] /\ submitLock' = [submitLock EXCEPT ![p] = {}]
      /\ attempts' = attempts /\ results' = results /\ certificates' = certificates
      /\ enrollment' = enrollment /\ completed' = completed
      /\ process' = process /\ standalone' = standalone /\ met' = met
  BY DEF Restart, fixed, courseRow, rows
<1>2. \A w \in Workers : /\ process[w] = p => call'[w] = NoCall
                         /\ process[w] # p => call'[w] = call[w]
  BY <1>1
<1>3. call' \in [Workers -> Call]
  BY <1>1, NoCallOK DEF CourseInv, CourseTypeOK
<1>4. CourseTypeOK' /\ RowsInv' /\ Running' = Running
  BY <1>1, <1>3 DEF CourseInv, CourseTypeOK, RowsInv, Running
<1>5. /\ Starting' = {w \in Starting : process[w] # p}
      /\ \A w \in Workers : Commits(w)' <=> Commits(w) /\ process[w] # p
  BY <1>2, NoCallOK DEF Starting, Commits, At
<1>6. LocksInv'
  <2>1. LocksInv
    BY DEF CourseInv
  <2>2. startLock' = [o \in Processes |-> {w \in Starting' : process[w] = o}]
    <3>1. startLock' = [o \in Processes |-> IF o = p THEN {} ELSE {w \in Starting : process[w] = o}]
      BY <1>1, <2>1 DEF LocksInv
    <3>2. ASSUME NEW o \in Processes
          PROVE  (IF o = p THEN {} ELSE {w \in Starting : process[w] = o})
                   = {w \in Starting' : process[w] = o}
      BY <1>5
    <3> QED BY <3>1, <3>2
  <2>3. submitLock' = [o \in Processes |-> {w \in Workers : process[w] = o /\ Commits(w)'}]
    <3>1. submitLock' = [o \in Processes |-> IF o = p THEN {}
                                             ELSE {w \in Workers : process[w] = o /\ Commits(w)}]
      BY <1>1, <2>1 DEF LocksInv
    <3>2. ASSUME NEW o \in Processes
          PROVE  (IF o = p THEN {} ELSE {w \in Workers : process[w] = o /\ Commits(w)})
                   = {w \in Workers : process[w] = o /\ Commits(w)'}
      BY <1>5
    <3> QED BY <3>1, <3>2
  <2>4. /\ \A v, w \in Starting' : process[v] = process[w] => v = w
        /\ \A v, w \in Workers : Commits(v)' /\ Commits(w)' /\ process[v] = process[w] => v = w
    BY <1>5, <2>1 DEF LocksInv
  <2>5. process' = process
    BY <1>1
  <2> HIDE DEF Starting, Commits
  <2> QED BY <2>2, <2>3, <2>4, <2>5 DEF LocksInv
<1>7. MetInv'
  <2>1. ASSUME NEW a \in Rows PROVE Submitting(a)' \subseteq Submitting(a) /\ Saving(a)' \subseteq Saving(a)
    BY <1>2, NoCallOK DEF Submitting, Saving, At
  <2> QED BY <1>1, <1>5, <2>1 DEF CourseInv, MetInv
<1>8. CallsInv'
  <2> SUFFICES ASSUME NEW v \in Workers PROVE StartOK(v)' /\ SaveOK(v)' /\ SubmitOK(v)'
    BY DEF CallsInv
  <2>1. CASE process[v] = p
    BY <1>2, <2>1, NoCallOK DEF StartOK, SaveOK, SubmitOK
  <2>2. CASE process[v] # p
    <3>1. call'[v] = call[v] /\ StartOK(v) /\ SaveOK(v) /\ SubmitOK(v)
      BY <1>2, <2>2 DEF CourseInv, CallsInv
    <3>2. StartOK(v)'
      BY <1>1, <1>4, <3>1 DEF StartOK, Of
    <3>3. SaveOK(v)' /\ SubmitOK(v)'
      BY <1>1, <3>1 DEF SaveOK, SubmitOK
    <3> QED BY <3>2, <3>3
  <2> QED BY <2>1, <2>2
<1>9. AttemptsInTurn'
  BY <1>1, <1>4, SameTurns DEF CourseInv
<1>10. ResultsStand'
  BY <1>1 DEF CourseInv, ResultsStand, ResultMatches, AnswersCounted, CertificatesEarned, Confirmed, Shown
<1> QED BY <1>1, <1>4, <1>6, <1>7, <1>8, <1>9, <1>10 DEF CourseInv, RevokedKept

LEMMA CourseStep == CourseInv /\ [CourseNext]_courseVars => CourseInv' /\ RevokedKept
<1> SUFFICES ASSUME CourseInv, [CourseNext]_courseVars PROVE CourseInv' /\ RevokedKept
  OBVIOUS
<1>1. CASE UNCHANGED courseVars
  <2>1. UNCHANGED <<fixed, rows, locks, call, met>> /\ enrollment' = enrollment /\ completed' = completed
    BY <1>1 DEF courseVars, courseRow
  <2> QED BY <2>1, SameCalls DEF CourseInv, CourseTypeOK
<1>2. ASSUME NEW w \in Workers, Proceed(w) PROVE CourseInv' /\ RevokedKept
  BY <1>2, StartReadKeeps, StartRefusedKeeps, StartCommitKeeps, SaveCommitKeeps,
     SubmitCommitKeeps, SubmitCertifyKeeps DEF Proceed
<1>3. CASE CourseNext
  BY <1>2, <1>3, EnrollmentSteps, StartBeginKeeps, SaveReadKeeps, SubmitReadKeeps,
     SubmitLookupKeeps, CertificateSteps, RestartKeeps DEF CourseNext
<1> QED BY <1>1, <1>3

-----------------------------------------------------------------------------
(* The proctor sessions. *)

ProctorTypes ==
    /\ process \in [Workers -> Processes]
    /\ sessions \in [Ids -> Session]
    /\ task \in [Workers -> Task]
    /\ mixed \subseteq 0..MaxSessions
    /\ \A i \in Ids : sessions[i].status = "none" => sessions[i] = NoSession

\* The lock of a process is with its thread that starts a session; while starts
\* did not cross, there is one start under lock, and no session is active.
StartsInv ==
    /\ sessionLock = [p \in Processes |-> {t \in Workers : process[t] = p /\ Starts(t)}]
    /\ \A t, u \in Workers : Starts(t) /\ Starts(u) /\ process[t] = process[u] => t = u
    /\ 0 \notin mixed => \A t, u \in Workers : Starts(t) /\ Starts(u) => t = u
    /\ 0 \notin mixed => \A t \in Workers : Starts(t) => Live = {}
    /\ 0 \notin mixed => \A i, j \in Live : i = j

Loads == {"event", "evidence", "finalize"}

\* A request of a session has one to write; what it loaded is what is there,
\* as long as requests of the session did not overlap.
LoadsInv ==
    /\ \A t \in Workers : task[t].id \in Ids <=> task[t].op \in Loads
    /\ \A t \in Workers : task[t].op \in Loads =>
         LET i == task[t].id IN
         /\ sessions[i].status # "none"
         /\ task[t].row.flagged => sessions[i].flagged
         /\ task[t].op = "evidence" => sessions[i].age = "new" /\ sessions[i].status # "deleted"
         /\ i \notin mixed =>
              /\ \A u \in Workers : task[u].id = i => u = t
              /\ task[t].op = "event" => sessions[i].status = "active"
              /\ task[t].op # "evidence" /\ sessions[i].status # "deleted" =>
                   task[t].row = Read(sessions[i])

\* Warnings and flags of a session, as its events say.
CountsInv ==
    \A i \in Ids :
        /\ sessions[i].high > 0 => sessions[i].flagged
        /\ i \notin mixed => /\ sessions[i].warnings = sessions[i].warned
                             /\ sessions[i].warned >= FlagAt => sessions[i].flagged

\* The evidence that is stored and has no row yet.
Storing(i) == {t \in Workers : task[t].op = "evidence" /\ task[t].id = i /\ task[t].done}

\* A cleanup has found completed sessions that are old, whose local files it
\* has removed.
FilesInv ==
    /\ \A i \in Ids : IsFiniteSet(Storing(i)) /\ Cardinality(Storing(i)) <= sessions[i].strays
    /\ \A i \in Ids : sessions[i].status = "active" => sessions[i].age = "new"
    /\ \A i \in Ids : sessions[i].status = "deleted" => sessions[i].age = "old"
    /\ \A t, u \in Workers : task[t].op = "cleanup" /\ task[u].op = "cleanup" => t = u
    /\ \A t \in Workers : task[t].op = "cleanup" => \A i \in task[t].old :
         /\ sessions[i].status = "completed" /\ sessions[i].age # "new"
         /\ ~Cloud => sessions[i].files = 0
    /\ EvidenceStored

ProctorInv == ProctorTypes /\ StartsInv /\ LoadsInv /\ CountsInv /\ FilesInv

LEMMA SessionRow ==
  ASSUME NEW s \in Session
  PROVE  /\ s.status \in {"none", "active", "completed", "deleted"}
         /\ s.warnings \in Nat /\ s.risk \in Nat /\ s.flagged \in BOOLEAN
         /\ s.warned \in Nat /\ s.high \in Nat /\ s.evidence \in Nat
         /\ s.files \in Nat /\ s.strays \in Nat /\ s.age \in {"new", "old", "renewed"}
         /\ Read(s) \in Loaded
         /\ Read(s).warnings = s.warnings /\ Read(s).risk = s.risk /\ Read(s).flagged = s.flagged
         /\ Read(s).warned = s.warned /\ Read(s).high = s.high
<1>1. /\ s.status \in {"none", "active", "completed", "deleted"}
      /\ s.warnings \in Nat /\ s.risk \in Nat /\ s.flagged \in BOOLEAN
      /\ s.warned \in Nat /\ s.high \in Nat /\ s.evidence \in Nat
      /\ s.files \in Nat /\ s.strays \in Nat /\ s.age \in {"new", "old", "renewed"}
  BY DEF Session
<1>2. Read(s) \in Loaded
  BY <1>1 DEF Read, Loaded
<1> QED BY <1>1, <1>2 DEF Read

LEMMA NoSessionOK ==
    /\ NoSession \in Session /\ NoSession.status = "none" /\ NoSession.age = "new"
    /\ NoSession.warnings = 0 /\ NoSession.warned = 0 /\ NoSession.risk = 0 /\ NoSession.high = 0
    /\ NoSession.flagged = FALSE /\ NoSession.evidence = 0 /\ NoSession.files = 0
    /\ NoSession.strays = 0
  BY DEF NoSession, Session

LEMMA NoTaskOK ==
    /\ NoTask \in Task /\ NoTask.op = "idle" /\ NoTask.id = 0 /\ NoTask.done = FALSE
    /\ NoTask.old = {} /\ 0 \notin Ids
<1>1. Read(NoSession) \in Loaded
  BY NoSessionOK, SessionRow
<1>2. 0 \in 0..MaxSessions /\ 0 \notin Ids
  BY ProctorAssumption DEF Ids
<1> QED BY <1>1, <1>2 DEF NoTask, Task

LEMMA ProctorStart == ProctorInit => ProctorInv
<1> SUFFICES ASSUME ProctorInit PROVE ProctorInv
  OBVIOUS
<1>1. /\ \A i \in Ids : sessions[i] = NoSession
      /\ \A t \in Workers : task[t] = NoTask
      /\ mixed = {}
  BY DEF ProctorInit
<1>2. ProctorTypes
  BY NoSessionOK, NoTaskOK DEF ProctorInit, DeploymentInit, ProctorTypes
<1>3. \A t \in Workers : ~Starts(t)
  BY <1>1, NoTaskOK DEF Starts, Doing
<1>4. Live = {}
  BY <1>1, NoSessionOK DEF Live
<1>5. StartsInv
  BY <1>3, <1>4 DEF StartsInv, ProctorInit, NoHolders
<1>6. LoadsInv
  BY <1>1, NoTaskOK DEF LoadsInv, Loads
<1>7. CountsInv
  BY <1>1, NoSessionOK, ProctorAssumption DEF CountsInv
<1>8. FilesInv
  <2>1. \A i \in Ids : Storing(i) = {}
    BY <1>1, NoTaskOK DEF Storing
  <2>2. IsFiniteSet({}) /\ Cardinality({}) = 0
    BY FS_EmptySet
  <2>3. EvidenceStored
    BY <1>1, NoSessionOK DEF EvidenceStored
  <2> QED BY <1>1, <2>1, <2>2, <2>3, NoTaskOK, NoSessionOK DEF FilesInv
<1> QED BY <1>2, <1>5, <1>6, <1>7, <1>8 DEF ProctorInv

\* What no step takes back of a session.
SignalsKept ==
    \A i \in Ids :
        /\ sessions[i].flagged => sessions'[i].flagged
        /\ i \notin mixed' /\ sessions'[i].status # "deleted" =>
             sessions'[i].risk >= sessions[i].risk

LEMMA SameSignals ==
  ASSUME ProctorInv, UNCHANGED sessions
  PROVE  SignalsKept
  BY SessionRow DEF ProctorInv, ProctorTypes, SignalsKept

\* A request of a session that writes: the row keeps what others rely on.
LEMMA StoreKeeps ==
  ASSUME ProctorInv, NEW t \in Workers, task[t].op \in Loads,
         NEW i \in Ids, i = task[t].id, NEW row \in Session, Store(t, row),
         row.status # "none",
         row.status = "active" => sessions[i].status = "active",
         row.status = "deleted" <=> sessions[i].status = "deleted",
         sessions[i].status = "completed" => row.status = "completed",
         row.age = "new" <=> sessions[i].age = "new",
         row.status = "deleted" => row.age = "old",
         row.age = "new" => (sessions[i].evidence = sessions[i].files => row.evidence = row.files),
         row.age # "new" => row.evidence = sessions[i].evidence /\ row.files = sessions[i].files,
         \/ row.strays = sessions[i].strays
         \/ t \in Storing(i) /\ row.strays = sessions[i].strays - 1,
         sessions[i].flagged => row.flagged,
         row.high > 0 => row.flagged,
         i \notin mixed => row.warnings = row.warned /\ (row.warned >= FlagAt => row.flagged),
         i \notin mixed /\ row.status # "deleted" => row.risk >= sessions[i].risk
  PROVE  ProctorInv' /\ SignalsKept
<1>1. /\ sessions' = [sessions EXCEPT ![i] = row] /\ task' = [task EXCEPT ![t] = NoTask]
      /\ process' = process /\ sessionLock' = sessionLock /\ mixed' = mixed
  BY DEF Store, Turn
<1>2. /\ sessions \in [Ids -> Session] /\ task \in [Workers -> Task] /\ 0 \notin Ids
      /\ task[t].op \notin {"start", "idle", "cleanup"}
  BY NoTaskOK DEF ProctorInv, ProctorTypes, Loads
<1>3. /\ sessions'[i] = row /\ \A j \in Ids \ {i} : sessions'[j] = sessions[j]
      /\ task'[t] = NoTask /\ \A u \in Workers \ {t} : task'[u] = task[u]
  BY <1>1, <1>2
<1>4. ProctorTypes'
  BY <1>1, <1>2, <1>3, NoTaskOK DEF ProctorInv, ProctorTypes
<1>5. StartsInv'
  <2>1. \A u \in Workers : Starts(u)' <=> Starts(u)
    BY <1>2, <1>3, NoTaskOK DEF Starts, Doing
  <2>2. Live' \subseteq Live
    BY <1>3 DEF Live
  <2> QED BY <1>1, <2>1, <2>2 DEF ProctorInv, StartsInv
<1>6. LoadsInv'
  <2>1. \A u \in Workers : task'[u].id \in Ids <=> task'[u].op \in Loads
    BY <1>3, NoTaskOK DEF ProctorInv, LoadsInv, Loads
  <2>2. ASSUME NEW u \in Workers, task'[u].op \in Loads
        PROVE  LET j == task'[u].id IN
               /\ sessions'[j].status # "none"
               /\ task'[u].row.flagged => sessions'[j].flagged
               /\ task'[u].op = "evidence" => sessions'[j].age = "new" /\ sessions'[j].status # "deleted"
               /\ j \notin mixed' =>
                    /\ \A v \in Workers : task'[v].id = j => v = u
                    /\ task'[u].op = "event" => sessions'[j].status = "active"
                    /\ task'[u].op # "evidence" /\ sessions'[j].status # "deleted" =>
                         task'[u].row = Read(sessions'[j])
    <3>1. u # t /\ task'[u] = task[u]
      BY <1>3, <2>2, NoTaskOK DEF Loads
    <3>2. task[u].id \in Ids /\ task[u].op \in Loads
      BY <2>2, <3>1 DEF ProctorInv, LoadsInv
    <3>3. CASE task[u].id = i
      <4>1. i \in mixed
        BY <3>1, <3>2, <3>3 DEF ProctorInv, LoadsInv
      <4> QED BY <1>1, <1>3, <3>1, <3>2, <3>3, <4>1 DEF ProctorInv, LoadsInv
    <3>4. CASE task[u].id # i
      <4>1. \A v \in Workers : task'[v].id = task[u].id => task[v].id = task[u].id
        BY <1>2, <1>3, <3>2, NoTaskOK
      <4> QED BY <1>1, <1>3, <3>1, <3>2, <3>4, <4>1 DEF ProctorInv, LoadsInv
    <3> QED BY <3>3, <3>4
  <2> QED BY <2>1, <2>2 DEF LoadsInv
<1>7. CountsInv'
  BY <1>1, <1>3 DEF ProctorInv, CountsInv
<1>8. FilesInv'
  <2>1. ASSUME NEW j \in Ids
        PROVE  IsFiniteSet(Storing(j)') /\ Cardinality(Storing(j)') <= sessions'[j].strays
    <3>0. IsFiniteSet(Storing(j)) /\ Cardinality(Storing(j)) <= sessions[j].strays
      BY DEF ProctorInv, FilesInv
    <3>1. /\ Storing(j)' = Storing(j) \ {t}
          /\ j # i => t \notin Storing(j)
      BY <1>3, NoTaskOK DEF Storing
    <3>2. /\ IsFiniteSet(Storing(j)')
          /\ Cardinality(Storing(j)') = IF t \in Storing(j) THEN Cardinality(Storing(j)) - 1
                                        ELSE Cardinality(Storing(j))
      BY <3>0, <3>1, FS_RemoveElement
    <3>3. /\ Cardinality(Storing(j)) \in Nat /\ sessions[j].strays \in Nat /\ row.strays \in Nat
      BY <1>2, <3>0, FS_CardinalityType, SessionRow
    <3>4. CASE j = i
      BY <1>3, <3>0, <3>2, <3>3, <3>4
    <3>5. CASE j # i
      BY <1>3, <3>0, <3>1, <3>2, <3>5
    <3> QED BY <3>2, <3>4, <3>5
  <2>2. \A j \in Ids : /\ sessions'[j].status = "active" => sessions'[j].age = "new"
                       /\ sessions'[j].status = "deleted" => sessions'[j].age = "old"
    BY <1>3 DEF ProctorInv, FilesInv
  <2>3. ASSUME NEW u \in Workers, task'[u].op = "cleanup"
        PROVE  /\ task[u].op = "cleanup"
               /\ \A j \in task'[u].old : /\ sessions'[j].status = "completed" /\ sessions'[j].age # "new"
                                          /\ ~Cloud => sessions'[j].files = 0
    <3>1. u # t /\ task'[u] = task[u]
      BY <1>3, <2>3, NoTaskOK
    <3>2. task[u].old \subseteq Ids
      BY <1>2 DEF Task
    <3> QED BY <1>3, <2>3, <3>1, <3>2 DEF ProctorInv, FilesInv
  <2>4. EvidenceStored'
    BY <1>3 DEF ProctorInv, FilesInv, EvidenceStored
  <2> QED BY <2>1, <2>2, <2>3, <2>4 DEF ProctorInv, FilesInv
<1>9. SignalsKept
  BY <1>1, <1>2, <1>3, SessionRow DEF SignalsKept
<1> QED BY <1>4, <1>5, <1>6, <1>7, <1>8, <1>9 DEF ProctorInv

\* A request that changes what it is doing and nothing of a session.
LEMMA TurnKeeps ==
  ASSUME ProctorInv, NEW t \in Workers, NEW x \in Task,
         task' = [task EXCEPT ![t] = x], UNCHANGED <<process, sessions>>,
         x.op \notin Loads, x.id = 0, x.op = "cleanup" => x = task[t],
         mixed' \subseteq 0..MaxSessions, mixed \subseteq mixed',
         StartsInv'
  PROVE  ProctorInv' /\ SignalsKept
<1>1. sessions' = sessions /\ process' = process
  OBVIOUS
<1>2. /\ sessions \in [Ids -> Session] /\ task \in [Workers -> Task] /\ 0 \notin Ids
  BY NoTaskOK DEF ProctorInv, ProctorTypes
<1>3. task'[t] = x /\ \A u \in Workers \ {t} : task'[u] = task[u]
  BY <1>2
<1>4. ProctorTypes'
  BY <1>1, <1>2 DEF ProctorInv, ProctorTypes
<1>5. LoadsInv'
  <2>1. \A u \in Workers : task'[u].id \in Ids <=> task'[u].op \in Loads
    BY <1>2, <1>3 DEF ProctorInv, LoadsInv
  <2>2. ASSUME NEW u \in Workers, task'[u].op \in Loads
        PROVE  LET j == task'[u].id IN
               /\ sessions[j].status # "none"
               /\ task'[u].row.flagged => sessions[j].flagged
               /\ task'[u].op = "evidence" => sessions[j].age = "new" /\ sessions[j].status # "deleted"
               /\ j \notin mixed' =>
                    /\ \A v \in Workers : task'[v].id = j => v = u
                    /\ task'[u].op = "event" => sessions[j].status = "active"
                    /\ task'[u].op # "evidence" /\ sessions[j].status # "deleted" =>
                         task'[u].row = Read(sessions[j])
    <3>1. u # t /\ task'[u] = task[u]
      BY <1>3, <2>2
    <3>2. task[u].id \in Ids
      BY <2>2, <3>1 DEF ProctorInv, LoadsInv
    <3>3. \A v \in Workers : task'[v].id = task[u].id => task[v].id = task[u].id
      BY <1>2, <1>3, <3>2
    <3> QED BY <2>2, <3>1, <3>3 DEF ProctorInv, LoadsInv
  <2> QED BY <1>1, <2>1, <2>2 DEF LoadsInv
<1>6. CountsInv'
  BY <1>1 DEF ProctorInv, CountsInv
<1>7. FilesInv'
  <2>1. ASSUME NEW j \in Ids
        PROVE  IsFiniteSet(Storing(j)') /\ Cardinality(Storing(j)') <= sessions[j].strays
    <3>0. IsFiniteSet(Storing(j)) /\ Cardinality(Storing(j)) <= sessions[j].strays
      BY DEF ProctorInv, FilesInv
    <3>1. Storing(j)' \subseteq Storing(j)
      BY <1>3 DEF Storing, Loads
    <3>2. IsFiniteSet(Storing(j)') /\ Cardinality(Storing(j)') <= Cardinality(Storing(j))
      BY <3>0, <3>1, FS_Subset
    <3>3. Cardinality(Storing(j)) \in Nat /\ Cardinality(Storing(j)') \in Nat /\ sessions[j].strays \in Nat
      BY <1>2, <3>0, <3>2, FS_CardinalityType, SessionRow
    <3> QED BY <3>0, <3>2, <3>3
  <2>2. \A u \in Workers : task'[u].op = "cleanup" => task'[u] = task[u]
    BY <1>3
  <2>3. EvidenceStored'
    BY <1>1 DEF ProctorInv, FilesInv, EvidenceStored
  <2> QED BY <1>1, <2>1, <2>2, <2>3 DEF ProctorInv, FilesInv
<1>8. SignalsKept
  BY <1>1, SameSignals
<1> QED BY <1>4, <1>5, <1>6, <1>7, <1>8 DEF ProctorInv

LEMMA LoadKeeps ==
  ASSUME ProctorInv, NEW t \in Workers, NEW op \in Loads, NEW i \in Ids, NEW row \in Session,
         Load(t, op, i, row), sessions[i].status \notin {"none", "deleted"},
         op = "event" => sessions[i].status = "active",
         op = "evidence" => sessions[i].status = "active" /\ row = NoSession,
         op # "evidence" => row = sessions[i]
  PROVE  ProctorInv' /\ SignalsKept
<1> DEFINE x == [NoTask EXCEPT !.op = op, !.id = i, !.row = Read(row)]
<1>1. /\ task[t].op = "idle" /\ task' = [task EXCEPT ![t] = x]
      /\ mixed' = mixed \union Mixed(t, i)
      /\ process' = process /\ sessions' = sessions /\ sessionLock' = sessionLock
  BY DEF Load, Turn, Doing
<1>2. /\ sessions \in [Ids -> Session] /\ task \in [Workers -> Task] /\ 0 \notin Ids
      /\ mixed \subseteq 0..MaxSessions
  BY NoTaskOK DEF ProctorInv, ProctorTypes
<1>3. x \in Task /\ x.op = op /\ x.id = i /\ x.row = Read(row) /\ x.done = FALSE /\ x.old = {}
  <2>1. i \in 0..MaxSessions
    BY ProctorAssumption DEF Ids
  <2> QED BY <2>1, NoTaskOK, SessionRow DEF Task, Loads
<1> HIDE DEF x
<1>4. task'[t] = x /\ \A u \in Workers \ {t} : task'[u] = task[u]
  BY <1>1, <1>2
<1>5. mixed' \subseteq mixed \union {i} /\ mixed \subseteq mixed'
  BY <1>1 DEF Mixed
<1>6. i \notin mixed' => \A u \in Workers : task[u].id = i => u = t
  BY <1>1 DEF Mixed
<1>7. ProctorTypes'
  <2>1. i \in 0..MaxSessions
    BY ProctorAssumption DEF Ids
  <2> QED BY <1>1, <1>2, <1>3, <1>5, <2>1 DEF ProctorInv, ProctorTypes
<1>8. StartsInv'
  <2>1. \A u \in Workers : Starts(u)' <=> Starts(u)
    BY <1>1, <1>3, <1>4 DEF Starts, Doing, Loads
  <2>2. 0 \in mixed' <=> 0 \in mixed
    BY <1>2, <1>5
  <2> QED BY <1>1, <2>1, <2>2 DEF ProctorInv, StartsInv, Live
<1>9. LoadsInv'
  <2>1. \A u \in Workers : task'[u].id \in Ids <=> task'[u].op \in Loads
    BY <1>3, <1>4 DEF ProctorInv, LoadsInv
  <2>2. ASSUME NEW u \in Workers, task'[u].op \in Loads
        PROVE  LET j == task'[u].id IN
               /\ sessions[j].status # "none"
               /\ task'[u].row.flagged => sessions[j].flagged
               /\ task'[u].op = "evidence" => sessions[j].age = "new" /\ sessions[j].status # "deleted"
               /\ j \notin mixed' =>
                    /\ \A v \in Workers : task'[v].id = j => v = u
                    /\ task'[u].op = "event" => sessions[j].status = "active"
                    /\ task'[u].op # "evidence" /\ sessions[j].status # "deleted" =>
                         task'[u].row = Read(sessions[j])
    <3>1. CASE u = t
      <4>1. /\ op # "evidence" => Read(row) = Read(sessions[i])
            /\ Read(row).flagged => sessions[i].flagged
        BY NoSessionOK, SessionRow
      <4>2. op = "evidence" => sessions[i].age = "new"
        BY DEF ProctorInv, FilesInv
      <4>3. i \notin mixed' => \A v \in Workers : task'[v].id = i => v = t
        BY <1>4, <1>6
      <4> QED BY <1>3, <1>4, <3>1, <4>1, <4>2, <4>3
    <3>2. CASE u # t
      <4>1. task'[u] = task[u] /\ task[u].op \in Loads /\ task[u].id \in Ids
        BY <1>4, <2>2, <3>2 DEF ProctorInv, LoadsInv
      <4>2. task[u].id \notin mixed' => task[u].id \notin mixed /\ task[u].id # i
        BY <1>5, <1>6, <3>2
      <4>3. task[u].id # i => \A v \in Workers : task'[v].id = task[u].id => task[v].id = task[u].id
        BY <1>3, <1>4
      <4> QED BY <4>1, <4>2, <4>3 DEF ProctorInv, LoadsInv
    <3> QED BY <3>1, <3>2
  <2> QED BY <1>1, <2>1, <2>2 DEF LoadsInv
<1>10. CountsInv'
  BY <1>1, <1>5 DEF ProctorInv, CountsInv
<1>11. FilesInv'
  <2>1. \A j \in Ids : Storing(j)' = Storing(j)
    BY <1>1, <1>3, <1>4 DEF Storing
  <2>2. \A u \in Workers : task'[u].op = "cleanup" => task'[u] = task[u]
    BY <1>3, <1>4 DEF Loads
  <2>3. EvidenceStored'
    BY <1>1 DEF ProctorInv, FilesInv, EvidenceStored
  <2> QED BY <1>1, <2>1, <2>2, <2>3 DEF ProctorInv, FilesInv
<1> QED BY <1>1, <1>7, <1>8, <1>9, <1>10, <1>11, SameSignals DEF ProctorInv

LEMMA StartSteps ==
  ASSUME ProctorInv, NEW t \in Workers,
         SessionBegin(t) \/ SessionCheck(t) \/ SessionFound(t) \/ Fail(t)
  PROVE  ProctorInv' /\ SignalsKept
<1>0. /\ task \in [Workers -> Task] /\ mixed \subseteq 0..MaxSessions
      /\ process \in [Workers -> Processes] /\ 0 \in 0..MaxSessions
      /\ sessionLock = [p \in Processes |-> {u \in Workers : process[u] = p /\ Starts(u)}]
  BY ProctorAssumption DEF ProctorInv, ProctorTypes, StartsInv
<1>1. CASE SessionBegin(t)
  <2> DEFINE x == [NoTask EXCEPT !.op = "start"]
  <2>1. x \in Task /\ x.op = "start" /\ x.id = 0 /\ x.done = FALSE
    BY NoTaskOK DEF Task
  <2>2. /\ task[t].op = "idle" /\ task' = [task EXCEPT ![t] = x]
        /\ UNCHANGED <<process, sessions, sessionLock, mixed>>
    BY <1>1 DEF SessionBegin, Doing, Turn
  <2> HIDE DEF x
  <2>3. \A u \in Workers : Starts(u)' <=> Starts(u)
    BY <1>0, <2>1, <2>2 DEF Starts, Doing
  <2>4. StartsInv'
    BY <2>2, <2>3 DEF ProctorInv, StartsInv, Live
  <2> QED BY <1>0, <2>1, <2>2, <2>4, TurnKeeps DEF Loads
<1>2. CASE SessionCheck(t)
  <2> DEFINE x == [task[t] EXCEPT !.done = TRUE]
  <2>0. task[t].op = "start" /\ ~task[t].done /\ task[t].id \in 0..MaxSessions /\ task[t] \in Task
    BY <1>0, <1>2 DEF SessionCheck, Doing, Task
  <2>1. x \in Task /\ x.op = "start" /\ x.id = task[t].id /\ x.done = TRUE
    BY <2>0 DEF Task
  <2>2. /\ task' = [task EXCEPT ![t] = x] /\ Live = {}
        /\ sessionLock' = [sessionLock EXCEPT ![process[t]] = {t}]
        /\ sessionLock[process[t]] = {}
        /\ mixed' = mixed \union (IF \E u \in Elsewhere(t) : Starts(u) THEN {0} ELSE {})
        /\ UNCHANGED <<process, sessions>>
    BY <1>2 DEF SessionCheck, Turn, SessionLocked, LockFree, Locked
  <2> HIDE DEF x
  <2>3. task[t].id = 0
    <3>1. task[t].id \notin Ids
      BY <2>0 DEF ProctorInv, LoadsInv, Loads
    <3> QED BY <2>0, <3>1, ProctorAssumption DEF Ids
  <2>4. /\ Starts(t)' /\ ~Starts(t)
        /\ \A u \in Workers \ {t} : Starts(u)' <=> Starts(u)
    BY <1>0, <2>0, <2>1, <2>2 DEF Starts, Doing
  <2>5. \A u \in Workers : process[u] = process[t] => ~Starts(u)
    BY <1>0, <2>2
  <2>6. StartsInv'
    <3>1. sessionLock' = [p \in Processes |-> {u \in Workers : process'[u] = p /\ Starts(u)'}]
      BY <1>0, <2>2, <2>4, <2>5
    <3>2. \A u, v \in Workers : Starts(u)' /\ Starts(v)' /\ process'[u] = process'[v] => u = v
      BY <2>2, <2>4, <2>5 DEF ProctorInv, StartsInv
    <3>3. 0 \notin mixed' => \A u \in Workers : ~Starts(u)
      BY <2>2, <2>5 DEF Elsewhere
    <3>4. Live' = {}
      BY <2>2 DEF Live
    <3> QED BY <2>4, <3>1, <3>2, <3>3, <3>4 DEF StartsInv
  <2> QED BY <1>0, <2>1, <2>2, <2>3, <2>6, TurnKeeps DEF Loads
<1>3. CASE SessionFound(t)
  <2>1. /\ task' = [task EXCEPT ![t] = NoTask] /\ task[t].op = "start" /\ ~task[t].done
        /\ UNCHANGED <<process, sessions, sessionLock, mixed>>
    BY <1>3 DEF SessionFound, Doing, Turn
  <2>2. \A u \in Workers : Starts(u)' <=> Starts(u)
    BY <1>0, <2>1, NoTaskOK DEF Starts, Doing
  <2>3. StartsInv'
    BY <2>1, <2>2 DEF ProctorInv, StartsInv, Live
  <2> QED BY <1>0, <2>1, <2>3, NoTaskOK, TurnKeeps DEF Loads
<1>4. CASE Fail(t)
  <2>1. /\ task' = [task EXCEPT ![t] = NoTask]
        /\ sessionLock' = [p \in Processes |-> sessionLock[p] \ {t}]
        /\ UNCHANGED <<process, sessions, mixed>>
    BY <1>4 DEF Fail, Turn
  <2>2. ~Starts(t)' /\ \A u \in Workers \ {t} : Starts(u)' <=> Starts(u)
    BY <1>0, <2>1, NoTaskOK DEF Starts, Doing
  <2>3. sessionLock' = [p \in Processes |-> {u \in Workers : process'[u] = p /\ Starts(u)'}]
    BY <1>0, <2>1, <2>2
  <2>4. StartsInv'
    BY <2>1, <2>2, <2>3 DEF ProctorInv, StartsInv, Live
  <2> QED BY <1>0, <2>1, <2>4, NoTaskOK, TurnKeeps DEF Loads
<1> QED BY <1>1, <1>2, <1>3, <1>4

LEMMA SessionStoreKeeps ==
  ASSUME ProctorInv, NEW t \in Workers, SessionStore(t)
  PROVE  ProctorInv' /\ SignalsKept
<1> DEFINE new == [NoSession EXCEPT !.status = "active"]
<1>1. PICK i \in Unused : sessions' = [sessions EXCEPT ![i] = new]
  BY DEF SessionStore
<1>2. /\ Starts(t) /\ task' = [task EXCEPT ![t] = NoTask] /\ process' = process /\ mixed' = mixed
      /\ sessionLock' = [sessionLock EXCEPT ![process[t]] = {}]
  BY DEF SessionStore, Unlocked, Turn
<1>3. /\ sessions \in [Ids -> Session] /\ task \in [Workers -> Task] /\ 0 \notin Ids
      /\ process \in [Workers -> Processes]
      /\ i \in Ids /\ sessions[i].status = "none" /\ sessions[i] = NoSession
      /\ sessionLock = [p \in Processes |-> {u \in Workers : process[u] = p /\ Starts(u)}]
  BY NoTaskOK DEF ProctorInv, ProctorTypes, StartsInv, Unused
<1>4. /\ new \in Session /\ new.status = "active" /\ new.age = "new"
      /\ new.warnings = 0 /\ new.warned = 0 /\ new.risk = 0 /\ new.high = 0
      /\ new.flagged = FALSE /\ new.evidence = 0 /\ new.files = 0 /\ new.strays = 0
  BY NoSessionOK DEF Session
<1> HIDE DEF new
<1>5. /\ sessions'[i] = new /\ \A j \in Ids \ {i} : sessions'[j] = sessions[j]
      /\ task'[t] = NoTask /\ \A u \in Workers \ {t} : task'[u] = task[u]
  BY <1>1, <1>2, <1>3
<1>6. \A u \in Workers : task[u].id # i
  BY <1>3 DEF ProctorInv, LoadsInv
<1>7. ProctorTypes'
  BY <1>1, <1>2, <1>3, <1>4, <1>5, NoTaskOK DEF ProctorInv, ProctorTypes
<1>8. StartsInv'
  <2>1. ~Starts(t)' /\ \A u \in Workers \ {t} : Starts(u)' <=> Starts(u)
    BY <1>5, NoTaskOK DEF Starts, Doing
  <2>2. \A u \in Workers : Starts(u) /\ process[u] = process[t] => u = t
    BY <1>2 DEF ProctorInv, StartsInv
  <2>3. sessionLock' = [p \in Processes |-> {u \in Workers : process'[u] = p /\ Starts(u)'}]
    BY <1>2, <1>3, <2>1, <2>2
  <2>4. 0 \notin mixed' => \A u \in Workers : ~Starts(u)'
    BY <1>2, <2>1 DEF ProctorInv, StartsInv
  <2>5. 0 \notin mixed' => Live' = {i}
    <3>1. 0 \notin mixed => Live = {}
      BY <1>2 DEF ProctorInv, StartsInv
    <3> QED BY <1>2, <1>3, <1>4, <1>5, <3>1 DEF Live
  <2> QED BY <1>2, <2>1, <2>3, <2>4, <2>5 DEF ProctorInv, StartsInv
<1>9. LoadsInv'
  <2>1. \A u \in Workers : task'[u].id \in Ids <=> task'[u].op \in Loads
    BY <1>5, NoTaskOK DEF ProctorInv, LoadsInv, Loads
  <2>2. ASSUME NEW u \in Workers, task'[u].op \in Loads
        PROVE  /\ u # t /\ task'[u] = task[u] /\ task[u].op \in Loads
               /\ sessions'[task[u].id] = sessions[task[u].id]
               /\ \A v \in Workers : task'[v].id = task[u].id => task[v].id = task[u].id
    <3>1. u # t /\ task'[u] = task[u] /\ task[u].op \in Loads
      BY <1>5, <2>2, NoTaskOK DEF Loads
    <3>2. task[u].id \in Ids \ {i}
      BY <1>6, <3>1 DEF ProctorInv, LoadsInv
    <3> QED BY <1>3, <1>5, <3>1, <3>2, NoTaskOK
  <2> QED BY <1>2, <2>1, <2>2 DEF ProctorInv, LoadsInv
<1>10. CountsInv'
  BY <1>2, <1>4, <1>5, ProctorAssumption DEF ProctorInv, CountsInv
<1>11. FilesInv'
  <2>1. \A j \in Ids : Storing(j)' = Storing(j)
    <3>1. ~(task[t].op = "evidence")
      BY <1>2 DEF Starts, Doing
    <3> QED BY <1>5, <3>1, NoTaskOK DEF Storing
  <2>2. Storing(i) = {} /\ IsFiniteSet({}) /\ Cardinality({}) = 0
    BY <1>6, FS_EmptySet DEF Storing
  <2>3. ASSUME NEW j \in Ids
        PROVE  IsFiniteSet(Storing(j)') /\ Cardinality(Storing(j)') <= sessions'[j].strays
    <3>1. Storing(j)' = Storing(j)
      BY <2>1
    <3>2. CASE j = i
      BY <1>4, <1>5, <2>2, <3>1, <3>2
    <3>3. CASE j # i
      BY <1>5, <3>1, <3>3 DEF ProctorInv, FilesInv
    <3> QED BY <3>2, <3>3
  <2>4. EvidenceStored'
    BY <1>4, <1>5 DEF ProctorInv, FilesInv, EvidenceStored
  <2>5. \A u \in Workers : task'[u].op = "cleanup" => task'[u] = task[u] /\ i \notin task[u].old
    BY <1>3, <1>5, NoTaskOK DEF ProctorInv, FilesInv
  <2>6. \A u \in Workers : task[u].old \subseteq Ids
    BY <1>3 DEF Task
  <2> QED BY <1>4, <1>5, <2>3, <2>4, <2>5, <2>6 DEF ProctorInv, FilesInv
<1>12. SignalsKept
  BY <1>3, <1>4, <1>5, NoSessionOK, SessionRow DEF SignalsKept
<1> QED BY <1>7, <1>8, <1>9, <1>10, <1>11, <1>12 DEF ProctorInv

\* Requests of a session that write their row.
LEMMA StoreSteps ==
  ASSUME ProctorInv, NEW t \in Workers, EventStore(t) \/ EvidenceStore(t) \/ FinalizeStore(t)
  PROVE  ProctorInv' /\ SignalsKept
<1> DEFINE i == task[t].id
           was == task[t].row
           now == sessions[i]
<1>1. task[t].op \in Loads /\ i \in Ids
  BY DEF EventStore, EvidenceStore, FinalizeStore, Doing, Loads, ProctorInv, LoadsInv
<1>2. /\ now \in Session /\ now.status # "none"
      /\ was.warnings \in Nat /\ was.risk \in Nat /\ was.flagged \in BOOLEAN
      /\ was.warned \in Nat /\ was.high \in Nat
      /\ was.flagged => now.flagged
      /\ now.high > 0 => now.flagged
      /\ now.status = "active" => now.age = "new"
      /\ now.status = "deleted" => now.age = "old"
      /\ now.age = "new" => now.evidence = now.files
  <2>1. was \in Loaded
    BY DEF ProctorInv, ProctorTypes, Task
  <2> QED BY <1>1, <2>1 DEF ProctorInv, ProctorTypes, LoadsInv, CountsInv, FilesInv,
               EvidenceStored, Loaded
<1>3. /\ now.warnings \in Nat /\ now.risk \in Nat /\ now.flagged \in BOOLEAN
      /\ now.warned \in Nat /\ now.high \in Nat /\ now.evidence \in Nat
      /\ now.files \in Nat /\ now.strays \in Nat
  BY <1>2, SessionRow
<1>4. i \notin mixed =>
        /\ now.warnings = now.warned /\ (now.warned >= FlagAt => now.flagged)
        /\ task[t].op = "event" => now.status = "active"
        /\ task[t].op # "evidence" /\ now.status # "deleted" =>
             /\ was.warnings = now.warnings /\ was.risk = now.risk /\ was.flagged = now.flagged
             /\ was.warned = now.warned /\ was.high = now.high
  <2>1. i \notin mixed /\ task[t].op # "evidence" /\ now.status # "deleted" => was = Read(now)
    BY <1>1 DEF ProctorInv, LoadsInv
  <2>2. i \notin mixed => now.warnings = now.warned /\ (now.warned >= FlagAt => now.flagged)
    BY <1>1 DEF ProctorInv, CountsInv
  <2>3. i \notin mixed => (task[t].op = "event" => now.status = "active")
    BY <1>1 DEF ProctorInv, LoadsInv
  <2> QED BY <2>1, <2>2, <2>3 DEF Read
<1>5. CASE EventStore(t)
  <2> DEFINE high == HighConfidence(was)
             warnings == Column(now.warnings, was.warnings, Warned(was))
             risk == Column(now.risk, was.risk, was.risk + 1)
             flagged == Column(now.flagged, was.flagged, Flagged(was, high))
             warned == now.warned + 1
             highs == IF high THEN now.high + 1 ELSE now.high
             row == [now EXCEPT !.warnings = warnings, !.risk = risk, !.flagged = flagged,
                                !.warned = warned, !.high = highs]
  <2>1. task[t].op = "event" /\ Store(t, row)
    BY <1>5 DEF EventStore, Doing
  <2>2. high \in BOOLEAN /\ (high <=> was.warned + 1 >= FlagAt)
    BY DEF HighConfidence
  <2> HIDE DEF high
  <2>3. warnings = was.warnings + 1 /\ warnings \in Nat
    BY <1>2 DEF Column, Warned
  <2>4. risk = was.risk + 1 /\ risk \in Nat
    BY <1>2 DEF Column
  <2>5. flagged \in BOOLEAN /\ (now.flagged => flagged) /\ (high => flagged)
    BY <1>2, <1>3, <2>2 DEF Column, Flagged
  <2>6. highs \in Nat /\ warned \in Nat /\ warned = now.warned + 1
    BY <1>3, <2>2
  <2>7. highs > 0 => flagged
    <3>1. CASE high
      BY <2>5, <3>1
    <3>2. CASE ~high
      BY <1>2, <2>5, <3>2
    <3> QED BY <3>1, <3>2
  <2> HIDE DEF warnings, risk, flagged, highs, warned
  <2>8. row \in Session
    BY <1>2, <2>3, <2>4, <2>5, <2>6 DEF Session
  <2>9. /\ row.status = now.status /\ row.age = now.age /\ row.evidence = now.evidence
        /\ row.files = now.files /\ row.strays = now.strays
        /\ row.warnings = warnings /\ row.risk = risk /\ row.flagged = flagged
        /\ row.warned = warned /\ row.high = highs
    BY <1>2 DEF Session
  <2> HIDE DEF row
  <2>10. ASSUME i \notin mixed
         PROVE  /\ row.warnings = row.warned /\ (row.warned >= FlagAt => row.flagged)
                /\ row.risk >= now.risk
    <3>1. /\ was.warnings = now.warnings /\ was.risk = now.risk /\ was.warned = now.warned
          /\ now.warnings = now.warned
      BY <1>4, <2>1, <2>10
    <3>2. row.warned >= FlagAt => row.flagged
      BY <2>2, <2>5, <2>6, <2>9, <3>1
    <3> QED BY <1>2, <2>3, <2>4, <2>6, <2>9, <3>1, <3>2
  <2> QED BY <1>1, <1>2, <2>1, <2>5, <2>7, <2>8, <2>9, <2>10, StoreKeeps
<1>6. CASE EvidenceStore(t)
  <2> DEFINE evidence == now.evidence + 1
             files == now.files + 1
             strays == now.strays - 1
             row == [now EXCEPT !.evidence = evidence, !.files = files, !.strays = strays]
  <2>1. /\ task[t].op = "evidence" /\ task[t].done /\ Store(t, row)
    BY <1>6 DEF EvidenceStore, Doing, Kept
  <2>2. t \in Storing(i)
    BY <2>1 DEF Storing
  <2>3. now.age = "new" /\ now.status # "deleted"
    BY <1>1, <2>1 DEF ProctorInv, LoadsInv
  <2>4. strays \in Nat
    <3>1. IsFiniteSet(Storing(i)) /\ Cardinality(Storing(i)) <= now.strays
      BY <1>1 DEF ProctorInv, FilesInv
    <3>2. Cardinality(Storing(i)) \in Nat /\ Cardinality(Storing(i)) # 0
      BY <2>2, <3>1, FS_CardinalityType, FS_EmptySet
    <3> QED BY <1>3, <3>1, <3>2
  <2>5. evidence \in Nat /\ files \in Nat /\ (now.evidence = now.files => evidence = files)
    BY <1>3
  <2>6. strays = now.strays - 1
    OBVIOUS
  <2> HIDE DEF evidence, files, strays
  <2>7. row \in Session
    BY <1>2, <2>4, <2>5 DEF Session
  <2>8. /\ row.status = now.status /\ row.age = now.age /\ row.evidence = evidence
        /\ row.files = files /\ row.strays = strays
        /\ row.warnings = now.warnings /\ row.risk = now.risk /\ row.flagged = now.flagged
        /\ row.warned = now.warned /\ row.high = now.high
    BY <1>2 DEF Session
  <2> HIDE DEF row
  <2>9. i \notin mixed => row.warnings = row.warned /\ (row.warned >= FlagAt => row.flagged)
                          /\ row.risk >= now.risk
    BY <1>3, <1>4, <2>8
  <2> QED BY <1>1, <1>2, <2>1, <2>2, <2>3, <2>5, <2>6, <2>7, <2>8, <2>9, StoreKeeps
<1>7. CASE FinalizeStore(t)
  <2> DEFINE risk == Column(now.risk, was.risk, Assessed(was))
             flagged == Column(now.flagged, was.flagged, Flagged(was, was.high > 0))
             age == IF now.age = "new" THEN "new" ELSE "renewed"
             row == [now EXCEPT !.status = "completed", !.age = age,
                                !.risk = risk, !.flagged = flagged]
  <2>1. /\ task[t].op = "finalize" /\ now.status # "deleted"
    BY <1>7 DEF FinalizeStore, Doing
  <2>2. Store(t, row)
    <3>1. [now EXCEPT !.status = "completed", !.age = IF @ = "new" THEN @ ELSE "renewed",
              !.risk = Column(@, was.risk, Assessed(was)),
              !.flagged = Column(@, was.flagged, Flagged(was, was.high > 0))] = row
      BY <1>2 DEF Session
    <3> QED BY <1>7, <3>1 DEF FinalizeStore
  <2>3. /\ Assessed(was) \in Nat /\ Assessed(was) >= was.risk
    BY <1>2 DEF Assessed
  <2>4. /\ risk \in Nat /\ (risk = now.risk \/ risk = Assessed(was))
        /\ was.risk = now.risk => risk >= now.risk
        /\ flagged \in BOOLEAN /\ (now.flagged => flagged)
    BY <1>2, <1>3, <2>3 DEF Column, Flagged
  <2>5. age \in {"new", "old", "renewed"} /\ (age = "new" <=> now.age = "new")
    OBVIOUS
  <2> HIDE DEF risk, flagged, age
  <2>6. /\ row \in Session
        /\ row.status = "completed" /\ row.age = age /\ row.evidence = now.evidence
        /\ row.files = now.files /\ row.strays = now.strays
        /\ row.warnings = now.warnings /\ row.risk = risk /\ row.flagged = flagged
        /\ row.warned = now.warned /\ row.high = now.high
    BY <1>2, <1>3, <2>4, <2>5 DEF Session
  <2> HIDE DEF row
  <2> QED BY <1>1, <1>2, <1>4, <2>1, <2>2, <2>4, <2>5, <2>6, StoreKeeps
<1> QED BY <1>5, <1>6, <1>7

\* Steps that change the rows of sessions and leave alone what was loaded.
LEMMA RowsKeep ==
  ASSUME ProctorInv, sessions' \in [Ids -> Session], UNCHANGED <<process, sessionLock, mixed>>,
         task' \in [Workers -> Task],
         \A u \in Workers : \/ task'[u] = task[u]
                            \/ {task[u].op, task'[u].op} \subseteq {"idle", "cleanup"} /\ task'[u].id = 0,
         \A j \in Ids :
            /\ sessions[j].status = "none" => sessions'[j] = sessions[j]
            /\ sessions'[j].status = "none" <=> sessions[j].status = "none"
            /\ sessions'[j].status = "active" <=> sessions[j].status = "active"
            /\ sessions'[j].strays = sessions[j].strays
            /\ sessions'[j].flagged = sessions[j].flagged
            /\ sessions'[j].high > 0 => sessions[j].high > 0
            /\ \/ /\ Read(sessions'[j]) = Read(sessions[j])
                  /\ sessions'[j].status = sessions[j].status
                  /\ (\A u \in Workers : task[u].id # j) \/ sessions'[j].age = sessions[j].age
                  /\ sessions[j].age = "old" => sessions'[j].age = "old"
               \/ /\ sessions'[j].status = "deleted" /\ sessions'[j].warnings = 0
                  /\ sessions'[j].warned = 0
                  /\ sessions[j].age # "new" /\ sessions[j].status = "completed"
            /\ sessions'[j].status = "active" => sessions'[j].age = "new"
            /\ sessions'[j].status = "deleted" => sessions'[j].age = "old",
         \A t, u \in Workers : task'[t].op = "cleanup" /\ task'[u].op = "cleanup" => t = u,
         \A t \in Workers : task'[t].op = "cleanup" => \A i \in task'[t].old :
            /\ sessions'[i].status = "completed" /\ sessions'[i].age # "new"
            /\ ~Cloud => sessions'[i].files = 0,
         EvidenceStored'
  PROVE  ProctorInv' /\ SignalsKept
<1>0. sessions \in [Ids -> Session] /\ 0 \notin Ids
  BY NoTaskOK DEF ProctorInv, ProctorTypes
<1>1. ProctorTypes'
  BY DEF ProctorInv, ProctorTypes
<1>2. StartsInv'
  <2>1. \A u \in Workers : Starts(u)' <=> Starts(u)
    BY DEF Starts, Doing
  <2>2. Live' = Live
    BY DEF Live
  <2> QED BY <2>1, <2>2 DEF ProctorInv, StartsInv
<1>3. LoadsInv'
  <2>0. \A u \in Workers : task'[u].op \in Loads <=> task[u].op \in Loads
    BY DEF Loads
  <2>2. \A u \in Workers : task'[u].id \in Ids <=> task'[u].op \in Loads
    BY <1>0, <2>0 DEF ProctorInv, LoadsInv, Loads
  <2>1. ASSUME NEW u \in Workers, task'[u].op \in Loads
        PROVE  LET j == task'[u].id IN
               /\ sessions'[j].status # "none"
               /\ task'[u].row.flagged => sessions'[j].flagged
               /\ task'[u].op = "evidence" => sessions'[j].age = "new" /\ sessions'[j].status # "deleted"
               /\ j \notin mixed' =>
                    /\ \A v \in Workers : task'[v].id = j => v = u
                    /\ task'[u].op = "event" => sessions'[j].status = "active"
                    /\ task'[u].op # "evidence" /\ sessions'[j].status # "deleted" =>
                         task'[u].row = Read(sessions'[j])
    <3>1. task[u].op \in Loads /\ task'[u] = task[u] /\ task[u].id \in Ids
      BY <2>0, <2>1 DEF ProctorInv, LoadsInv, Loads
    <3>3. \A v \in Workers : task'[v].id = task[u].id => task[v].id = task[u].id
      BY <1>0, <3>1
    <3>2. task[u].op = "evidence" => sessions[task[u].id].age = "new"
      BY <3>1 DEF ProctorInv, LoadsInv
    <3> QED BY <3>1, <3>2, <3>3 DEF ProctorInv, LoadsInv
  <2> QED BY <2>1, <2>2 DEF LoadsInv
<1>4. CountsInv'
  <2> SUFFICES ASSUME NEW j \in Ids
               PROVE  /\ sessions'[j].high > 0 => sessions'[j].flagged
                      /\ j \notin mixed' =>
                           /\ sessions'[j].warnings = sessions'[j].warned
                           /\ sessions'[j].warned >= FlagAt => sessions'[j].flagged
    BY DEF CountsInv
  <2>1. CASE Read(sessions'[j]) = Read(sessions[j])
    <3>1. sessions'[j].warnings = sessions[j].warnings /\ sessions'[j].warned = sessions[j].warned
      BY <1>0, <2>1, SessionRow
    <3> QED BY <3>1 DEF ProctorInv, CountsInv
  <2>2. CASE sessions'[j].warnings = 0 /\ sessions'[j].warned = 0
    BY <2>2, ProctorAssumption DEF ProctorInv, CountsInv
  <2> QED BY <2>1, <2>2
<1>5. FilesInv'
  <2>1. \A j \in Ids : Storing(j)' = Storing(j)
    BY DEF Storing
  <2> QED BY <2>1 DEF ProctorInv, FilesInv
<1>6. SignalsKept
  <2> SUFFICES ASSUME NEW j \in Ids, sessions'[j].status # "deleted"
               PROVE  sessions'[j].risk >= sessions[j].risk
    BY DEF SignalsKept
  <2>1. Read(sessions'[j]) = Read(sessions[j])
    OBVIOUS
  <2> QED BY <1>0, <2>1, SessionRow
<1> QED BY <1>1, <1>2, <1>3, <1>4, <1>5, <1>6 DEF ProctorInv

LEMMA RetentionSteps ==
  ASSUME ProctorInv,
         \/ \E i \in Ids : Expire(i)
         \/ \E t \in Workers : CleanupFiles(t) \/ CleanupStore(t)
  PROVE  ProctorInv' /\ SignalsKept
<1>0. /\ sessions \in [Ids -> Session] /\ task \in [Workers -> Task]
      /\ \A j \in Ids : sessions[j] \in Session
      /\ \A j \in Ids : sessions[j].status = "none" => sessions[j] = NoSession
      /\ \A j \in Ids : sessions[j].status = "active" => sessions[j].age = "new"
      /\ \A j \in Ids : sessions[j].status = "deleted" => sessions[j].age = "old"
      /\ \A t, u \in Workers : task[t].op = "cleanup" /\ task[u].op = "cleanup" => t = u
      /\ \A t \in Workers : task[t].old \subseteq Ids
      /\ \A t \in Workers : task[t].op = "cleanup" => \A i \in task[t].old :
            /\ sessions[i].status = "completed" /\ sessions[i].age # "new"
            /\ ~Cloud => sessions[i].files = 0
      /\ EvidenceStored
  BY DEF ProctorInv, ProctorTypes, FilesInv, Task
<1>1. ASSUME NEW i \in Ids, Expire(i) PROVE ProctorInv' /\ SignalsKept
  <2> DEFINE row == [sessions[i] EXCEPT !.age = "old"]
  <2>1. /\ sessions' = [sessions EXCEPT ![i] = row] /\ task' = task
        /\ UNCHANGED <<process, sessionLock, mixed>>
        /\ sessions[i].status = "completed" /\ \A t \in Workers : task[t].id # i
    BY <1>1, <1>0 DEF Expire
  <2>2. /\ row \in Session /\ row.status = "completed" /\ row.age = "old"
        /\ row.strays = sessions[i].strays /\ row.flagged = sessions[i].flagged
        /\ row.high = sessions[i].high /\ row.files = sessions[i].files
        /\ Read(row) = Read(sessions[i])
    BY <1>0, <2>1 DEF Session, Read
  <2> HIDE DEF row
  <2>3. sessions'[i] = row /\ \A j \in Ids \ {i} : sessions'[j] = sessions[j]
    BY <1>0, <2>1
  <2>4. EvidenceStored'
    BY <1>0, <2>2, <2>3 DEF EvidenceStored
  <2>5. sessions' \in [Ids -> Session]
    BY <1>0, <2>1, <2>2
  <2> QED BY <1>0, <2>1, <2>2, <2>3, <2>4, <2>5, RowsKeep
<1>2. ASSUME NEW t \in Workers, CleanupFiles(t) PROVE ProctorInv' /\ SignalsKept
  <2> DEFINE x == [NoTask EXCEPT !.op = "cleanup", !.old = Old]
  <2>1. /\ sessions' = [i \in Ids |-> IF i \in Old THEN Emptied(sessions[i]) ELSE sessions[i]]
        /\ task' = [task EXCEPT ![t] = x] /\ UNCHANGED <<process, sessionLock, mixed>>
        /\ task[t].op = "idle" /\ \A u \in Workers : task[u].op # "cleanup"
    BY <1>2 DEF CleanupFiles, Doing, Turn
  <2>2. x \in Task /\ x.op = "cleanup" /\ x.old = Old /\ x.id = 0 /\ x.done = FALSE /\ x.row = NoTask.row
    BY NoTaskOK DEF Task, Old
  <2> HIDE DEF x
  <2>3. ASSUME NEW i \in Old
        PROVE  /\ i \in Ids /\ sessions[i].status = "completed" /\ sessions[i].age = "old"
               /\ Emptied(sessions[i]) \in Session /\ Emptied(sessions[i]).status = "completed"
               /\ Emptied(sessions[i]).age = "old" /\ Emptied(sessions[i]).strays = sessions[i].strays
               /\ Emptied(sessions[i]).flagged = sessions[i].flagged
               /\ Emptied(sessions[i]).high = sessions[i].high
               /\ Read(Emptied(sessions[i])) = Read(sessions[i])
               /\ ~Cloud => Emptied(sessions[i]).files = 0
    <3>1. i \in Ids /\ sessions[i] \in Session /\ sessions[i].status = "completed" /\ sessions[i].age = "old"
      BY <1>0 DEF Old
    <3> QED BY <3>1 DEF Emptied, Session, Read
  <2>4. ASSUME NEW j \in Ids
        PROVE  /\ j \in Old => sessions'[j] = Emptied(sessions[j])
               /\ j \notin Old => sessions'[j] = sessions[j]
    BY <2>1
  <2>5. sessions' \in [Ids -> Session]
    BY <1>0, <2>1, <2>3
  <2>6. EvidenceStored'
    BY <1>0, <2>3, <2>4 DEF EvidenceStored
  <2>7. task'[t] = x /\ \A u \in Workers \ {t} : task'[u] = task[u]
    BY <1>0, <2>1
  <2>8. task' \in [Workers -> Task]
    BY <1>0, <2>1, <2>2
  <2>9. \A u, v \in Workers : task'[u].op = "cleanup" /\ task'[v].op = "cleanup" => u = v
    BY <2>1, <2>7
  <2>10. \A u \in Workers : task'[u].op = "cleanup" => \A i \in task'[u].old :
            /\ sessions'[i].status = "completed" /\ sessions'[i].age # "new"
            /\ ~Cloud => sessions'[i].files = 0
    BY <2>1, <2>2, <2>3, <2>4, <2>7
  <2>11. \A u \in Workers : \/ task'[u] = task[u]
                            \/ {task[u].op, task'[u].op} \subseteq {"idle", "cleanup"} /\ task'[u].id = 0
    BY <2>1, <2>2, <2>7
  <2>12. \A j \in Ids :
            /\ sessions[j].status = "none" => sessions'[j] = sessions[j]
            /\ sessions'[j].status = sessions[j].status /\ sessions'[j].age = sessions[j].age
            /\ sessions'[j].strays = sessions[j].strays /\ sessions'[j].flagged = sessions[j].flagged
            /\ sessions'[j].high = sessions[j].high /\ Read(sessions'[j]) = Read(sessions[j])
    BY <2>3, <2>4
  <2> QED BY <1>0, <2>1, <2>5, <2>6, <2>8, <2>9, <2>10, <2>11, <2>12, RowsKeep
<1>3. ASSUME NEW t \in Workers, CleanupStore(t) PROVE ProctorInv' /\ SignalsKept
  <2> DEFINE row(i) == [NoSession EXCEPT !.status = "deleted", !.age = "old", !.files = sessions[i].files,
                                !.strays = sessions[i].strays, !.flagged = sessions[i].flagged]
  <2>1. /\ sessions' = [i \in Ids |-> IF i \in task[t].old THEN row(i) ELSE sessions[i]]
        /\ task' = [task EXCEPT ![t] = NoTask] /\ UNCHANGED <<process, sessionLock, mixed>>
        /\ task[t].op = "cleanup"
    BY <1>3 DEF CleanupStore, Doing, Turn
  <2>2. ASSUME NEW i \in Ids
        PROVE  /\ row(i) \in Session /\ row(i).status = "deleted" /\ row(i).age = "old"
               /\ row(i).warnings = 0 /\ row(i).warned = 0 /\ row(i).high = 0 /\ row(i).evidence = 0
               /\ row(i).files = sessions[i].files /\ row(i).strays = sessions[i].strays
               /\ row(i).flagged = sessions[i].flagged
    <3>1. /\ sessions[i].files \in Nat /\ sessions[i].strays \in Nat /\ sessions[i].flagged \in BOOLEAN
      BY <1>0, SessionRow
    <3> QED BY <3>1, NoSessionOK DEF Session
  <2>3. ASSUME NEW j \in Ids
        PROVE  /\ j \notin task[t].old => sessions'[j] = sessions[j]
               /\ j \in task[t].old =>
                    /\ sessions'[j] \in Session /\ sessions'[j].status = "deleted" /\ sessions'[j].age = "old"
                    /\ sessions'[j].warnings = 0 /\ sessions'[j].warned = 0 /\ sessions'[j].high = 0
                    /\ sessions'[j].evidence = 0 /\ sessions'[j].files = sessions[j].files
                    /\ sessions'[j].strays = sessions[j].strays /\ sessions'[j].flagged = sessions[j].flagged
    <3>1. sessions'[j] = IF j \in task[t].old THEN row(j) ELSE sessions[j]
      BY <2>1
    <3>2. CASE j \in task[t].old
      <4>1. sessions'[j] = row(j)
        BY <3>1, <3>2
      <4> HIDE DEF row
      <4> QED BY <2>2, <3>2, <4>1
    <3> QED BY <3>1, <3>2
  <2>4. sessions' \in [Ids -> Session]
    BY <1>0, <2>1, <2>2
  <2> HIDE DEF row
  <2>5. \A i \in task[t].old : /\ i \in Ids /\ sessions[i].status = "completed" /\ sessions[i].age # "new"
                               /\ ~Cloud => sessions[i].files = 0
    BY <1>0, <2>1
  <2>6. EvidenceStored'
    <3>1. ASSUME NEW j \in Ids, sessions'[j].age = "new" \/ (sessions'[j].status = "deleted" /\ ~Cloud)
          PROVE  sessions'[j].evidence = sessions'[j].files
      <4>1. CASE j \in task[t].old
        <5>1. ~Cloud /\ sessions[j].files = 0
          BY <2>3, <2>5, <3>1, <4>1
        <5> QED BY <2>3, <4>1, <5>1
      <4>2. CASE j \notin task[t].old
        <5>1. sessions'[j] = sessions[j]
          BY <2>3, <4>2
        <5> QED BY <1>0, <3>1, <5>1 DEF EvidenceStored
      <4> QED BY <4>1, <4>2
    <3> QED BY <3>1 DEF EvidenceStored
  <2>7. task'[t] = NoTask /\ \A u \in Workers \ {t} : task'[u] = task[u]
    BY <1>0, <2>1
  <2>8. task' \in [Workers -> Task]
    BY <1>0, <2>1, NoTaskOK
  <2>9. \A u \in Workers : task'[u].op # "cleanup"
    BY <1>0, <2>1, <2>7, NoTaskOK
  <2>10. \A u \in Workers : \/ task'[u] = task[u]
                            \/ {task[u].op, task'[u].op} \subseteq {"idle", "cleanup"} /\ task'[u].id = 0
    BY <2>1, <2>7, NoTaskOK
  <2>11. \A j \in Ids :
            /\ sessions[j].status = "none" => sessions'[j] = sessions[j]
            /\ sessions'[j].status = "none" <=> sessions[j].status = "none"
            /\ sessions'[j].status = "active" <=> sessions[j].status = "active"
            /\ sessions'[j].strays = sessions[j].strays
            /\ sessions'[j].flagged = sessions[j].flagged
            /\ sessions'[j].high > 0 => sessions[j].high > 0
            /\ \/ sessions'[j] = sessions[j]
               \/ /\ sessions'[j].status = "deleted" /\ sessions'[j].warnings = 0
                  /\ sessions'[j].warned = 0
                  /\ sessions[j].age # "new" /\ sessions[j].status = "completed"
            /\ sessions'[j].status = "active" => sessions'[j].age = "new"
            /\ sessions'[j].status = "deleted" => sessions'[j].age = "old"
    <3> SUFFICES ASSUME NEW j \in Ids
                 PROVE  /\ sessions[j].status = "none" => sessions'[j] = sessions[j]
                        /\ sessions'[j].status = "none" <=> sessions[j].status = "none"
                        /\ sessions'[j].status = "active" <=> sessions[j].status = "active"
                        /\ sessions'[j].strays = sessions[j].strays
                        /\ sessions'[j].flagged = sessions[j].flagged
                        /\ sessions'[j].high > 0 => sessions[j].high > 0
                        /\ \/ sessions'[j] = sessions[j]
                           \/ /\ sessions'[j].status = "deleted" /\ sessions'[j].warnings = 0
                              /\ sessions'[j].warned = 0
                              /\ sessions[j].age # "new" /\ sessions[j].status = "completed"
                        /\ sessions'[j].status = "active" => sessions'[j].age = "new"
                        /\ sessions'[j].status = "deleted" => sessions'[j].age = "old"
      OBVIOUS
    <3>1. CASE j \in task[t].old
      <4>1. sessions[j].status = "completed" /\ sessions[j].age # "new"
        BY <2>5, <3>1
      <4> QED BY <2>3, <3>1, <4>1
    <3>2. CASE j \notin task[t].old
      <4>1. sessions'[j] = sessions[j]
        BY <2>3, <3>2
      <4> QED BY <1>0, <4>1
    <3> QED BY <3>1, <3>2
  <2> QED BY <1>0, <2>1, <2>4, <2>6, <2>8, <2>9, <2>10, <2>11, RowsKeep
<1> QED BY <1>1, <1>2, <1>3

LEMMA EvidenceKeeps ==
  ASSUME ProctorInv, NEW t \in Workers, EvidenceKept(t)
  PROVE  ProctorInv' /\ SignalsKept
<1> DEFINE i == task[t].id
           now == sessions[i]
           strays == now.strays + 1
           row == [now EXCEPT !.strays = strays]
           x == [task[t] EXCEPT !.done = TRUE]
<1>1. /\ task[t].op = "evidence" /\ ~task[t].done
      /\ sessions' = [sessions EXCEPT ![i] = row] /\ task' = [task EXCEPT ![t] = x]
      /\ process' = process /\ sessionLock' = sessionLock /\ mixed' = mixed
  <2>1. [sessions EXCEPT ![i].strays = @ + 1] = [sessions EXCEPT ![i] = row]
    BY DEF ProctorInv, ProctorTypes
  <2> QED BY <2>1 DEF EvidenceKept, Doing, Turn
<1>2. /\ sessions \in [Ids -> Session] /\ task \in [Workers -> Task]
      /\ i \in Ids /\ now \in Session /\ now.status # "none" /\ strays \in Nat
  BY <1>1, SessionRow DEF ProctorInv, ProctorTypes, LoadsInv, Loads
<1>3. /\ row \in Session /\ row.strays = strays
      /\ row.status = now.status /\ row.age = now.age /\ row.evidence = now.evidence
      /\ row.files = now.files /\ row.flagged = now.flagged /\ row.risk = now.risk
      /\ row.warnings = now.warnings /\ row.warned = now.warned /\ row.high = now.high
      /\ Read(row) = Read(now)
  <2> HIDE DEF strays
  <2> QED BY <1>2 DEF Session, Read
<1>4. /\ x \in Task /\ x.op = "evidence" /\ x.id = i /\ x.row = task[t].row /\ x.done = TRUE
  BY <1>1, <1>2 DEF Task
<1>5. strays = now.strays + 1
  OBVIOUS
<1> HIDE DEF row, x, strays
<1>6. /\ sessions'[i] = row /\ \A j \in Ids \ {i} : sessions'[j] = sessions[j]
      /\ task'[t] = x /\ \A u \in Workers \ {t} : task'[u] = task[u]
  BY <1>1, <1>2
<1>7. \A j \in Ids : /\ sessions'[j].status = sessions[j].status /\ sessions'[j].age = sessions[j].age
                     /\ sessions'[j].evidence = sessions[j].evidence
                     /\ sessions'[j].files = sessions[j].files /\ sessions'[j].flagged = sessions[j].flagged
                     /\ sessions'[j].risk = sessions[j].risk /\ sessions'[j].high = sessions[j].high
                     /\ sessions'[j].warnings = sessions[j].warnings
                     /\ sessions'[j].warned = sessions[j].warned
                     /\ Read(sessions'[j]) = Read(sessions[j])
  BY <1>3, <1>6
<1>8. \A u \in Workers : /\ task'[u].op = task[u].op /\ task'[u].id = task[u].id
                         /\ task'[u].row = task[u].row
  BY <1>1, <1>4, <1>6
<1>9. ProctorTypes'
  BY <1>1, <1>2, <1>3, <1>4, <1>6 DEF ProctorInv, ProctorTypes
<1>10. StartsInv'
  <2>1. \A u \in Workers : Starts(u)' <=> Starts(u)
    BY <1>1, <1>6, <1>8 DEF Starts, Doing
  <2>2. Live' = Live
    BY <1>7 DEF Live
  <2> QED BY <1>1, <2>1, <2>2 DEF ProctorInv, StartsInv
<1>11. LoadsInv'
  <2>1. ASSUME NEW u \in Workers, task'[u].op \in Loads
        PROVE  LET j == task'[u].id IN
               /\ sessions'[j].status # "none"
               /\ task'[u].row.flagged => sessions'[j].flagged
               /\ task'[u].op = "evidence" => sessions'[j].age = "new" /\ sessions'[j].status # "deleted"
               /\ j \notin mixed' =>
                    /\ \A v \in Workers : task'[v].id = j => v = u
                    /\ task'[u].op = "event" => sessions'[j].status = "active"
                    /\ task'[u].op # "evidence" /\ sessions'[j].status # "deleted" =>
                         task'[u].row = Read(sessions'[j])
    <3>1. task[u].op \in Loads /\ task[u].id \in Ids
      BY <1>8, <2>1 DEF ProctorInv, LoadsInv
    <3> QED BY <1>1, <1>7, <1>8, <3>1 DEF ProctorInv, LoadsInv
  <2> QED BY <1>8, <2>1 DEF ProctorInv, LoadsInv
<1>12. CountsInv'
  BY <1>1, <1>7 DEF ProctorInv, CountsInv
<1>13. FilesInv'
  <2>1. ASSUME NEW j \in Ids
        PROVE  IsFiniteSet(Storing(j)') /\ Cardinality(Storing(j)') <= sessions'[j].strays
    <3>0. IsFiniteSet(Storing(j)) /\ Cardinality(Storing(j)) <= sessions[j].strays
      BY DEF ProctorInv, FilesInv
    <3>1. CASE j = i
      <4>1. Storing(j)' = Storing(j) \union {t} /\ t \notin Storing(j)
        BY <1>1, <1>4, <1>6, <3>1 DEF Storing
      <4>2. IsFiniteSet(Storing(j)') /\ Cardinality(Storing(j)') = Cardinality(Storing(j)) + 1
        BY <3>0, <4>1, FS_AddElement
      <4>3. Cardinality(Storing(j)) \in Nat /\ now.strays \in Nat
        BY <1>2, <3>0, FS_CardinalityType, SessionRow
      <4>4. sessions'[j].strays = now.strays + 1 /\ sessions[j].strays = now.strays
        BY <1>3, <1>5, <1>6, <3>1
      <4> QED BY <3>0, <4>2, <4>3, <4>4
    <3>2. CASE j # i
      <4>1. Storing(j)' = Storing(j) /\ sessions'[j] = sessions[j]
        BY <1>4, <1>6, <3>2 DEF Storing
      <4> QED BY <3>0, <4>1
    <3> QED BY <3>1, <3>2
  <2>2. ASSUME NEW u \in Workers, task'[u].op = "cleanup"
        PROVE  task'[u] = task[u] /\ task[u].old \subseteq Ids
    BY <1>1, <1>2, <1>6, <1>8, <2>2 DEF Task
  <2>3. EvidenceStored'
    BY <1>7 DEF ProctorInv, FilesInv, EvidenceStored
  <2> QED BY <1>7, <1>8, <2>1, <2>2, <2>3 DEF ProctorInv, FilesInv
<1>14. SignalsKept
  BY <1>2, <1>7, SessionRow DEF SignalsKept
<1> QED BY <1>9, <1>10, <1>11, <1>12, <1>13, <1>14 DEF ProctorInv

LEMMA ProctorStep == ProctorInv /\ [ProctorNext]_proctorVars => ProctorInv' /\ SignalsKept
<1> SUFFICES ASSUME ProctorInv, [ProctorNext]_proctorVars PROVE ProctorInv' /\ SignalsKept
  OBVIOUS
<1>1. ASSUME NEW t \in Workers, NEW i \in Ids, EventLoad(t, i) \/ EvidenceLoad(t, i) \/ FinalizeLoad(t, i)
      PROVE  ProctorInv' /\ SignalsKept
  <2>0. sessions[i] \in Session
    BY DEF ProctorInv, ProctorTypes
  <2>1. CASE EventLoad(t, i)
    BY <2>0, <2>1, LoadKeeps DEF EventLoad, Live, Loads
  <2>2. CASE EvidenceLoad(t, i)
    BY <2>0, <2>2, NoSessionOK, LoadKeeps DEF EvidenceLoad, Live, Loads
  <2>3. CASE FinalizeLoad(t, i)
    BY <2>0, <2>3, LoadKeeps DEF FinalizeLoad, Loads
  <2> QED BY <1>1, <2>1, <2>2, <2>3
<1>2. CASE UNCHANGED proctorVars
  <2>1. ProctorTypes' /\ CountsInv'
    BY <1>2 DEF proctorVars, ProctorInv, ProctorTypes, CountsInv
  <2>2. StartsInv'
    BY <1>2 DEF proctorVars, ProctorInv, StartsInv, Starts, Doing, Live
  <2>3. LoadsInv'
    BY <1>2 DEF proctorVars, ProctorInv, LoadsInv
  <2>4. FilesInv'
    BY <1>2 DEF proctorVars, ProctorInv, FilesInv, Storing, EvidenceStored
  <2> QED BY <1>2, <2>1, <2>2, <2>3, <2>4, SameSignals DEF proctorVars, ProctorInv
<1>3. CASE ProctorNext
  BY <1>1, <1>3, StartSteps, SessionStoreKeeps, StoreSteps, EvidenceKeeps, RetentionSteps DEF ProctorNext
<1> QED BY <1>2, <1>3

LEMMA ProctorInvHolds == ProctorInv => ProctorTypeOK /\ SignalsCounted /\ EvidenceStored
<1> SUFFICES ASSUME ProctorInv PROVE ProctorTypeOK /\ SignalsCounted /\ EvidenceStored
  OBVIOUS
<1>1. ProctorTypeOK
  BY DEF ProctorInv, ProctorTypes, StartsInv, ProctorTypeOK
<1>2. OneSession
  <2> SUFFICES ASSUME 0 \notin mixed PROVE Cardinality(Live) <= 1
    BY DEF OneSession
  <2>1. \A i, j \in Live : i = j
    BY DEF ProctorInv, StartsInv
  <2>2. CASE Live = {}
    BY <2>2, FS_EmptySet
  <2>3. ASSUME NEW i \in Live PROVE Cardinality(Live) <= 1
    <3>1. Live = {i}
      BY <2>1
    <3>2. Cardinality({i}) = 1
      BY FS_Singleton
    <3> QED BY <3>1, <3>2
  <2> QED BY <2>2, <2>3
<1>3. WarningsCounted /\ RepeatsFlagged
  BY DEF ProctorInv, CountsInv, WarningsCounted, RepeatsFlagged
<1> QED BY <1>1, <1>2, <1>3 DEF ProctorInv, FilesInv, SignalsCounted

-----------------------------------------------------------------------------
(* The sockets of a live class. *)

\* The handshake that holds the event loop is the only one; every connection
\* is free, with a socket or with a request, and those are finitely many.
SocketInv ==
    /\ SocketTypeOK /\ PoolIsWhole
    /\ IsFiniteSet(Holding) /\ IsFiniteSet(Serving)
    /\ \A s, t \in loop : s = t

LEMMA SocketStart == SocketInit => SocketInv
<1> SUFFICES ASSUME SocketInit PROVE SocketInv
  OBVIOUS
<1>1. Holding = {} /\ Serving = {}
  BY DEF SocketInit, Holding, Serving
<1>2. Cardinality({}) = 0 /\ IsFiniteSet({})
  BY FS_EmptySet
<1> QED BY <1>1, <1>2, PoolAssumption DEF SocketInit, SocketInv, SocketTypeOK, PoolIsWhole

\* A step keeps the connections whole when it takes or gives back as many as
\* sockets and requests start or stop to hold.
LEMMA SocketKept ==
  ASSUME SocketInv,
         socket' \in [Sockets -> {"closed", "asking", "open", "leaving"}],
         gone' \subseteq Sockets, seats' \subseteq Sockets,
         request' \in [Requests -> {"idle", "waiting", "serving", "answering"}],
         IsFiniteSet(Holding'), IsFiniteSet(Serving'), free' \in Nat,
         free' + Cardinality(Holding') + Cardinality(Serving') = PoolSize,
         \A s \in seats' : socket'[s] = "open",
         loop' = {s \in Sockets : socket'[s] = "asking"},
         \A s, t \in loop' : s = t
  PROVE  SocketInv'
<1>1. Cardinality(Holding') \in Nat /\ Cardinality(Serving') \in Nat /\ PoolSize \in Nat
  BY FS_CardinalityType, PoolAssumption
<1>2. free' \in 0..PoolSize
  BY <1>1
<1> QED BY <1>2 DEF SocketInv, SocketTypeOK, PoolIsWhole

LEMMA SocketStep == SocketInv /\ [SocketNext]_socketVars => SocketInv'
<1> SUFFICES ASSUME SocketInv, [SocketNext]_socketVars PROVE SocketInv'
  OBVIOUS
<1>0. /\ socket \in [Sockets -> {"closed", "asking", "open", "leaving"}]
      /\ gone \subseteq Sockets /\ seats \subseteq Sockets
      /\ request \in [Requests -> {"idle", "waiting", "serving", "answering"}]
      /\ free \in Nat /\ loop \subseteq Sockets
      /\ IsFiniteSet(Holding) /\ IsFiniteSet(Serving)
      /\ Cardinality(Holding) \in Nat /\ Cardinality(Serving) \in Nat /\ PoolSize \in Nat
      /\ free + Cardinality(Holding) + Cardinality(Serving) = PoolSize
      /\ \A s \in seats : socket[s] = "open"
      /\ loop = {s \in Sockets : socket[s] = "asking"}
      /\ \A s, t \in loop : s = t
  BY FS_CardinalityType, PoolAssumption DEF SocketInv, SocketTypeOK, PoolIsWhole
<1>a. ASSUME NEW s \in Sockets, s \notin Holding, Holding' = Holding \union {s}
      PROVE  IsFiniteSet(Holding') /\ Cardinality(Holding') = Cardinality(Holding) + 1
  BY <1>0, <1>a, FS_AddElement
<1>b. ASSUME NEW s \in Sockets, s \in Holding, Holding' = Holding \ {s}
      PROVE  IsFiniteSet(Holding') /\ Cardinality(Holding') = Cardinality(Holding) - 1
  BY <1>0, <1>b, FS_RemoveElement
<1>c. ASSUME NEW r \in Requests, r \notin Serving, Serving' = Serving \union {r}
      PROVE  IsFiniteSet(Serving') /\ Cardinality(Serving') = Cardinality(Serving) + 1
  BY <1>0, <1>c, FS_AddElement
<1>d. ASSUME NEW r \in Requests, r \in Serving, Serving' = Serving \ {r}
      PROVE  IsFiniteSet(Serving') /\ Cardinality(Serving') = Cardinality(Serving) - 1
  BY <1>0, <1>d, FS_RemoveElement
<1>1. ASSUME NEW s \in Sockets, Connects(s) PROVE SocketInv'
  <2>1. Holding' = Holding /\ Serving' = Serving
    BY <1>0, <1>1 DEF Connects, Holding, Serving
  <2>2. loop' = {t \in Sockets : socket'[t] = "asking"} /\ \A t, u \in loop' : t = u
    BY <1>0, <1>1 DEF Connects, OnLoop
  <2> QED BY <1>0, <1>1, <2>1, <2>2, SocketKept DEF Connects
<1>2. ASSUME NEW s \in Sockets, Joins(s) PROVE SocketInv'
  <2>1. s \notin Holding /\ Holding' = Holding \union {s} /\ Serving' = Serving
    BY <1>0, <1>2 DEF Joins, Holding, Serving
  <2>2. loop' = {t \in Sockets : socket'[t] = "asking"} /\ \A t, u \in loop' : t = u
    BY <1>0, <1>2 DEF Joins
  <2>3. Cardinality(Holding') = Cardinality(Holding) + 1 /\ IsFiniteSet(Holding')
    BY <1>a, <2>1
  <2>4. free' = free - 1 /\ free > 0
    BY <1>2 DEF Joins
  <2>5. free' \in Nat /\ free' + Cardinality(Holding') + Cardinality(Serving') = PoolSize
    BY <1>0, <2>1, <2>3, <2>4
  <2> QED BY <1>0, <1>2, <2>1, <2>2, <2>3, <2>5, SocketKept DEF Joins
<1>3. ASSUME NEW s \in Sockets, IsRefused(s) \/ TimesOut(s) PROVE SocketInv'
  <2>1. Holding' = Holding /\ Serving' = Serving
    BY <1>0, <1>3 DEF IsRefused, TimesOut, Holding, Serving
  <2>2. loop' = {t \in Sockets : socket'[t] = "asking"} /\ \A t, u \in loop' : t = u
    BY <1>0, <1>3 DEF IsRefused, TimesOut
  <2> QED BY <1>0, <1>3, <2>1, <2>2, SocketKept DEF IsRefused, TimesOut
<1>4. ASSUME NEW s \in Sockets, BrowserGoes(s) \/ \E failing \in SUBSET Sockets : Signals(s, failing)
      PROVE  SocketInv'
  <2>1. Holding' = Holding /\ Serving' = Serving
    BY <1>4 DEF BrowserGoes, Signals, Holding, Serving
  <2> QED BY <1>0, <1>4, <2>1, SocketKept DEF BrowserGoes, Signals
<1>5. ASSUME NEW s \in Sockets, Leaves(s) PROVE SocketInv'
  <2>1. Holding' = Holding /\ Serving' = Serving
    BY <1>0, <1>5 DEF Leaves, Holding, Serving
  <2>2. loop' = {t \in Sockets : socket'[t] = "asking"} /\ \A t, u \in loop' : t = u
    BY <1>0, <1>5 DEF Leaves
  <2> QED BY <1>0, <1>5, <2>1, <2>2, SocketKept DEF Leaves
<1>6. ASSUME NEW s \in Sockets, Closes(s) PROVE SocketInv'
  <2>1. s \in Holding /\ Holding' = Holding \ {s} /\ Serving' = Serving
    BY <1>0, <1>6 DEF Closes, Holding, Serving
  <2>2. loop' = {t \in Sockets : socket'[t] = "asking"} /\ \A t, u \in loop' : t = u
    BY <1>0, <1>6 DEF Closes
  <2>3. Cardinality(Holding') = Cardinality(Holding) - 1 /\ IsFiniteSet(Holding')
    BY <1>b, <2>1
  <2>4. free' = free + 1
    BY <1>6 DEF Closes
  <2>5. free' \in Nat /\ free' + Cardinality(Holding') + Cardinality(Serving') = PoolSize
    BY <1>0, <2>1, <2>3, <2>4
  <2> QED BY <1>0, <1>6, <2>1, <2>2, <2>3, <2>5, SocketKept DEF Closes
<1>7. ASSUME NEW r \in Requests, RequestArrives(r) \/ RequestTimesOut(r) PROVE SocketInv'
  <2>1. Holding' = Holding /\ Serving' = Serving
    BY <1>0, <1>7 DEF RequestArrives, RequestTimesOut, Holding, Serving
  <2> QED BY <1>0, <1>7, <2>1, SocketKept DEF RequestArrives, RequestTimesOut
<1>8. ASSUME NEW r \in Requests, RequestTakes(r) PROVE SocketInv'
  <2>1. r \notin Serving /\ Serving' = Serving \union {r} /\ Holding' = Holding
    BY <1>0, <1>8 DEF RequestTakes, Holding, Serving
  <2>2. free' \in Nat /\ free' + Cardinality(Holding') + Cardinality(Serving') = PoolSize
    BY <1>0, <1>8, <1>c, <2>1 DEF RequestTakes
  <2> QED BY <1>0, <1>8, <1>c, <2>1, <2>2, SocketKept DEF RequestTakes
<1>9. ASSUME NEW r \in Requests, RequestCommits(r) \/ RequestEnds(r) PROVE SocketInv'
  <2>1. Holding' = Holding
    BY <1>9 DEF RequestCommits, RequestEnds, Holding
  <2>2. CASE request[r] = "serving"
    <3>1. r \in Serving /\ Serving' = Serving \ {r}
      BY <1>0, <1>9, <2>2 DEF RequestCommits, RequestEnds, Serving
    <3>2. free' = free + 1
      BY <1>9, <2>2 DEF RequestCommits, RequestEnds
    <3>3. Cardinality(Serving') = Cardinality(Serving) - 1 /\ IsFiniteSet(Serving')
      BY <1>d, <3>1
    <3>4. free' \in Nat /\ free' + Cardinality(Holding') + Cardinality(Serving') = PoolSize
      BY <1>0, <2>1, <3>2, <3>3
    <3> QED BY <1>0, <1>9, <2>1, <3>3, <3>4, SocketKept DEF RequestCommits, RequestEnds
  <2>3. CASE request[r] # "serving"
    <3>1. Serving' = Serving /\ free' = free
      BY <1>0, <1>9, <2>3 DEF RequestCommits, RequestEnds, Serving
    <3> QED BY <1>0, <1>9, <2>1, <3>1, SocketKept DEF RequestCommits, RequestEnds
  <2> QED BY <2>2, <2>3
<1>10. CASE UNCHANGED socketVars
  BY <1>10 DEF socketVars, SocketInv, SocketTypeOK, PoolIsWhole, Holding, Serving
<1> QED BY <1>1, <1>2, <1>3, <1>4, <1>5, <1>6, <1>7, <1>8, <1>9, <1>10 DEF SocketNext

-----------------------------------------------------------------------------
(* The parts together. *)

StudentInv == CourseInv /\ ProctorInv /\ SocketInv

\* Whatever part a step is of, the others stutter.
LEMMA StudentStep ==
  StudentInv /\ [Next]_vars => StudentInv' /\ RevokedKept /\ SignalsKept
<1> SUFFICES ASSUME StudentInv, [Next]_vars
             PROVE  StudentInv' /\ RevokedKept /\ SignalsKept
  OBVIOUS
<1>1. [CourseNext]_courseVars /\ [ProctorNext]_proctorVars /\ [SocketNext]_socketVars
  BY DEF Next, vars, OfAttempt, OfSocket
<1> QED BY <1>1, CourseStep, ProctorStep, SocketStep DEF StudentInv

LEMMA StudentInvariant == Spec => []StudentInv
<1>1. Init => StudentInv
  BY CourseStart, ProctorStart, SocketStart DEF Init, StudentInv
<1>2. StudentInv /\ [Next]_vars => StudentInv'
  BY StudentStep
<1> QED BY <1>1, <1>2, PTL DEF Spec

\* Every part has the state its operations expect.
THEOREM StudentTypeCorrect == Spec => []StudentTypeOK
<1>1. StudentInv => StudentTypeOK
  BY ProctorInvHolds DEF StudentInv, CourseInv, SocketInv, StudentTypeOK
<1> QED BY <1>1, StudentInvariant, PTL

\* For any number of processes and threads, exams and attempts: a student has
\* one attempt in progress, and attempts, answers, results and certificates
\* agree, as long as the calls the history names did not meet.
THEOREM AttemptsCorrect == Spec => []AttemptsStand
<1>1. StudentInv => AttemptsStand
  BY DEF StudentInv, CourseInv, AttemptsStand
<1> QED BY <1>1, StudentInvariant, PTL

\* What a proctor saw stays on record, and no flag, risk or revocation is ever
\* taken back.
THEOREM ProctoringCorrect == Spec => ProctoringHolds
<1>1. StudentInv => SignalsCounted /\ EvidenceStored
  BY ProctorInvHolds DEF StudentInv
<1>2. StudentInv /\ StudentInv' /\ [Next]_vars =>
        [\A a \in Rows : certificates[a] = "revoked" => certificates'[a] = "revoked"]_courseVars
  BY StudentStep DEF RevokedKept
<1>3. StudentInv /\ StudentInv' /\ [Next]_vars =>
        [\A i \in Ids : /\ sessions[i].flagged => sessions'[i].flagged
                        /\ sessions'[i].high > 0 => sessions'[i].flagged]_proctorVars
  BY StudentStep DEF SignalsKept, StudentInv, ProctorInv, CountsInv
<1>4. StudentInv /\ StudentInv' /\ [Next]_vars =>
        [\A i \in Ids \ mixed' :
           sessions'[i].status # "deleted" => sessions'[i].risk >= sessions[i].risk]_proctorVars
  BY StudentStep DEF SignalsKept
<1> QED BY <1>1, <1>2, <1>3, <1>4, StudentInvariant, PTL
        DEF Spec, ProctoringHolds, RevokedForGood, SignalsStand, FlagIsMonotonic, RiskNeverFalls

\* No connection is lost: every connection of the pool is free, or held by a
\* socket or by a request.
THEOREM PoolStaysWhole == Spec => []PoolIsWhole
<1>1. StudentInv => PoolIsWhole
  BY DEF StudentInv, SocketInv
<1> QED BY <1>1, StudentInvariant, PTL
=============================================================================
