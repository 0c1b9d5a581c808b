---------------------------- MODULE CourseAttempt ----------------------------
(***************************************************************************)
(* One student and the exams of one course (app/api/routes/student.py):    *)
(* enrolment, completion of the course, attempts, their answers, results   *)
(* and certificates.  A start and a submit hold a lock of their process;   *)
(* the image runs several processes, and they share only the database.     *)
(***************************************************************************)
EXTENDS Integers, FiniteSets, Deployment

CONSTANTS
    Exams,        \* published exams of the course
    Certified,    \* those with certificate_enabled
    Questions,    \* the questions assigned to an attempt, one mark each
    PassMarks,    \* the marks that reach pass_score
    MaxAttempts,  \* exam.max_attempts
    MaxRows       \* bound: exam_attempts rows of this student

ASSUME CourseAssumption ==
    /\ Certified \subseteq Exams
    /\ IsFiniteSet(Questions)
    /\ PassMarks \in Nat
    /\ MaxAttempts \in Nat
    /\ MaxRows \in Nat

VARIABLES
    standalone,   \* course.category is the standalone assessment category
    enrollment,   \* the enrollments row
    completed,    \* there is a course_completions row
    attempts,     \* exam_attempts rows, with their answers
    results,      \* results rows
    certificates, \* certificates rows
    startLock,    \* per process: _attempt_start_lock
    submitLock,   \* per process: _attempt_submit_lock
    call,         \* what each worker is doing, with what it has read
    met           \* history: the kinds of calls that were under way at once

courseRow == <<enrollment, completed>>
rows == <<attempts, results, certificates>>
locks == <<startLock, submitLock>>
fixed == <<process, standalone>>
courseVars == <<fixed, courseRow, rows, locks, call, met>>

-----------------------------------------------------------------------------
Rows == 1..MaxRows
Answers == [Questions -> {"none", "right", "wrong"}]
Unanswered == [q \in Questions |-> "none"]

\* An attempt of one exam, or with status "none" a row that is not there.
Attempt == [exam : SUBSET Exams, number : 0..MaxAttempts, answers : Answers,
            status : {"none", "in_progress", "submitted"}, score : Int, passed : BOOLEAN]
NoAttempt == [exam |-> {}, number |-> 0, answers |-> Unanswered,
              status |-> "none", score |-> 0, passed |-> FALSE]

Result == [row : BOOLEAN, score : Int, passed : BOOLEAN]
NoResult == [row |-> FALSE, score |-> 0, passed |-> FALSE]

\* "none": no certificates row.
CertificateStatus == {"none", "active", "revoked"}

Enrollment == [row : BOOLEAN, eligible : BOOLEAN]

\* op and step say where the handler is; enrol: the transaction of a start has
\* inserted or unlocked the enrollment; exam, row: what the call is about;
\* question, answer, known: the answer to save, and there was one on record;
\* score, known: what a submit computed, and the result was on record.
Call == [op : {"idle", "start", "save", "submit"},
         step : {"wait", "commit", "certify"},
         exam : SUBSET Exams, enrol : BOOLEAN, row : 0..MaxRows,
         question : SUBSET Questions, answer : {"right", "wrong"},
         known : BOOLEAN, score : Int]
NoCall == [op |-> "idle", step |-> "wait", exam |-> {}, enrol |-> FALSE,
           row |-> 0, question |-> {}, answer |-> "wrong", known |-> FALSE, score |-> 0]

CourseInit ==
    /\ DeploymentInit
    /\ standalone \in BOOLEAN
    /\ enrollment = [row |-> FALSE, eligible |-> FALSE]
    /\ completed = FALSE
    /\ attempts = [a \in Rows |-> NoAttempt]
    /\ results = [a \in Rows |-> NoResult]
    /\ certificates = [a \in Rows |-> "none"]
    /\ startLock = NoHolders
    /\ submitLock = NoHolders
    /\ call = [w \in Workers |-> NoCall]
    /\ met = {}

-----------------------------------------------------------------------------
(* Enrolment and completion: the unique constraint refuses the second of   *)
(* two inserts, so that the look-up and the insert are one step.           *)

\* The transactions that have changed the enrollment and are not over: another
\* that changes it waits for them.
Enrolling == {w \in Workers : call[w].enrol}

\* enroll
Enroll ==
    /\ ~enrollment.row /\ Enrolling = {}
    /\ enrollment' = [row |-> TRUE, eligible |-> FALSE]
    /\ UNCHANGED <<fixed, completed, rows, locks, call, met>>

\* complete_course
CompleteCourse ==
    /\ enrollment.row /\ Enrolling = {}
    /\ enrollment' = [enrollment EXCEPT !.eligible = TRUE]
    /\ completed' = TRUE
    /\ UNCHANGED <<fixed, rows, locks, call, met>>

\* complete_live_class unlocks the exams of everyone enrolled.
CompleteClass ==
    /\ enrollment.row /\ Enrolling = {}
    /\ enrollment' = [enrollment EXCEPT !.eligible = TRUE]
    /\ UNCHANGED <<fixed, completed, rows, locks, call, met>>

-----------------------------------------------------------------------------
(* Starting an attempt. *)

Idle(w) == call[w].op = "idle"
At(w, op, step) == call[w].op = op /\ call[w].step = step

Set(w, c) == call' = [call EXCEPT ![w] = c]

Running == {a \in Rows : attempts[a].status = "in_progress"}
Of(exam) == {a \in Rows : attempts[a].exam = exam}
Free == {a \in Rows : attempts[a].status = "none"}

\* start_attempt up to the lock.  For a standalone assessment the flush adds
\* or unlocks the enrollment, and waits for another transaction that does.
StartBegin(w, e) ==
    /\ Idle(w)
    /\ Cardinality({v \in Workers : call[v].op = "start"}) < Cardinality(Free)
    /\ enrollment.eligible \/ (standalone /\ Enrolling = {})
    /\ Set(w, [NoCall EXCEPT !.op = "start", !.exam = {e}, !.enrol = ~enrollment.eligible])
    /\ UNCHANGED <<fixed, courseRow, rows, locks, met>>

\* Calls that have read and not written yet, in this and in other processes.
Saving(a) == {v \in Workers : At(v, "save", "commit") /\ call[v].row = a}
Submitting(a) == {v \in Workers : At(v, "submit", "commit") /\ call[v].row = a}
Starting == {v \in Workers : At(v, "start", "commit")}

\* The history with `kind`, when there is such a call.
Met(kind, calls) == IF calls = {} THEN {} ELSE {kind}

LockTaken(w, lock) == LockFree(lock, w)

\* Mutant of AttemptsLeft: one attempt more than max_attempts.
OneMore(exam) == Cardinality(Of(exam)) <= MaxAttempts

AttemptsLeft(exam) == Cardinality(Of(exam)) < MaxAttempts

\* Under the lock: no attempt of any exam is in progress, and this exam has
\* attempts left.  `row` is the number of attempts counted.
StartRead(w) ==
    /\ At(w, "start", "wait")
    /\ LockTaken(w, startLock)
    /\ Running = {}
    /\ AttemptsLeft(call[w].exam)
    /\ startLock' = Locked(startLock, w)
    /\ Set(w, [call[w] EXCEPT !.step = "commit", !.row = Cardinality(Of(call[w].exam))])
    /\ met' = met \union Met("starts", Starting \intersect Elsewhere(w))
    /\ UNCHANGED <<fixed, courseRow, rows, submitLock>>

\* Mutant of Released: a call that is refused keeps the lock.
KeptWhenRefused(lock, w) ==
    IF At(w, "start", "wait") THEN Locked(lock, w) ELSE Unlocked(lock, w)

\* `with` releases the lock on every way out.
Released(lock, w) == Unlocked(lock, w)

\* An attempt in progress is returned or refuses the start; or none is left.
StartRefused(w) ==
    /\ At(w, "start", "wait")
    /\ LockTaken(w, startLock)
    /\ Running # {} \/ ~AttemptsLeft(call[w].exam)
    /\ startLock' = Released(startLock, w)
    /\ Set(w, NoCall)
    /\ UNCHANGED <<fixed, courseRow, rows, submitLock, met>>

StartCommit(w) ==
    /\ At(w, "start", "commit")
    /\ enrollment' = IF call[w].enrol THEN [row |-> TRUE, eligible |-> TRUE] ELSE enrollment
    /\ \E a \in Free :
         /\ \A b \in Free : a <= b
         /\ attempts' = [attempts EXCEPT ![a] =
              [NoAttempt EXCEPT !.exam = call[w].exam, !.number = call[w].row + 1,
                                !.status = "in_progress"]]
    /\ startLock' = Released(startLock, w)
    /\ Set(w, NoCall)
    /\ UNCHANGED <<fixed, completed, results, certificates, submitLock, met>>

-----------------------------------------------------------------------------
(* Answers and the submission. *)

\* Mutant of Open: an answer is taken after the submission, too.
OpenAlways(a) == attempts[a].status # "none"

\* save_answer refuses an attempt that is submitted.
Open(a) == attempts[a].status = "in_progress"

SaveRead(w, a, q, answer) ==
    /\ Idle(w)
    /\ Open(a)
    /\ Set(w, [NoCall EXCEPT !.op = "save", !.step = "commit", !.row = a, !.question = {q},
                             !.answer = answer, !.known = attempts[a].answers[q] # "none"])
    /\ met' = met \union Met("save", Submitting(a))
    /\ UNCHANGED <<fixed, courseRow, rows, locks>>

\* An answer that another call has inserted meanwhile refuses the insert.
SaveCommit(w) ==
    LET a == call[w].row IN
    /\ At(w, "save", "commit")
    /\ \E q \in call[w].question :
         attempts' = IF call[w].known \/ attempts[a].answers[q] = "none"
                     THEN [attempts EXCEPT ![a].answers[q] = call[w].answer] ELSE attempts
    /\ Set(w, NoCall)
    /\ UNCHANGED <<fixed, courseRow, results, certificates, locks, met>>

\* score_attempt: a mark for a right answer, and none is taken for a wrong one.
Score(answers) == Cardinality({q \in Questions : answers[q] = "right"})

\* evaluate_proctor_session takes nothing off and fails nobody.
Passed(score) == score >= PassMarks

\* submit_attempt under the lock: the attempt, its answers and its result.
SubmitRead(w, a) ==
    /\ Idle(w)
    /\ LockTaken(w, submitLock)
    /\ attempts[a].status = "in_progress"
    /\ submitLock' = Locked(submitLock, w)
    /\ Set(w, [NoCall EXCEPT !.op = "submit", !.step = "commit", !.row = a,
                             !.score = Score(attempts[a].answers), !.known = FALSE])
    /\ met' = met \union Met("submits", Submitting(a) \intersect Elsewhere(w))
                  \union Met("save", Saving(a))
    /\ UNCHANGED <<fixed, courseRow, rows, startLock>>

\* The result is looked up once more before the commit.
SubmitLookup(w) ==
    /\ At(w, "submit", "commit") /\ ~call[w].known
    /\ results[call[w].row].row
    /\ Set(w, [call[w] EXCEPT !.known = TRUE])
    /\ UNCHANGED <<fixed, courseRow, rows, locks, met>>

\* The attempt is scored by this call; a result that was found is kept, and
\* one that was not refuses the insert and the commit.
SubmitCommit(w) ==
    LET a == call[w].row  s == call[w].score
        saved == call[w].known \/ ~results[a].row
        result == IF call[w].known THEN results[a]
                  ELSE [row |-> TRUE, score |-> s, passed |-> Passed(s)] IN
    /\ At(w, "submit", "commit")
    /\ IF saved
       THEN /\ attempts' = [attempts EXCEPT ![a].status = "submitted",
                                            ![a].score = s, ![a].passed = Passed(s)]
            /\ results' = [results EXCEPT ![a] = result]
       ELSE UNCHANGED <<attempts, results>>
    /\ submitLock' = Released(submitLock, w)
    /\ Set(w, IF saved /\ Passed(s) /\ attempts[a].exam \subseteq Certified
              THEN [NoCall EXCEPT !.op = "submit", !.step = "certify", !.row = a] ELSE NoCall)
    /\ UNCHANGED <<fixed, courseRow, certificates, startLock, met>>

-----------------------------------------------------------------------------
(* Certificates. *)

\* issue_certificate: the certificate on record is returned as it is.
Issued(a) == IF certificates[a] = "none" THEN "active" ELSE certificates[a]

\* After the result is committed and the lock released; the issue may fail.
SubmitCertify(w) ==
    LET a == call[w].row IN
    /\ At(w, "submit", "certify")
    /\ \E c \in {Issued(a), certificates[a]} :
         certificates' = [certificates EXCEPT ![a] = c]
    /\ Set(w, NoCall)
    /\ UNCHANGED <<fixed, courseRow, attempts, results, locks, met>>

\* generate_certificate asks for a result that has passed.
Eligible(a) == results[a].passed

\* generate_certificate
Generate(a) ==
    /\ Eligible(a)
    /\ attempts[a].exam \subseteq Certified
    /\ certificates' = [certificates EXCEPT ![a] = Issued(a)]
    /\ UNCHANGED <<fixed, courseRow, attempts, results, locks, call, met>>

\* revoke_certificate
Revoke(a) ==
    /\ certificates[a] # "none"
    /\ certificates' = [certificates EXCEPT ![a] = "revoked"]
    /\ UNCHANGED <<fixed, courseRow, attempts, results, locks, call, met>>

\* get_result: what the student is shown of attempt a.
Shown(a) == [passed |-> results[a].passed, certificate |-> certificates[a]]

\* verify_certificate: what the public page confirms to whoever asks.
Confirmed(a) == certificates[a] = "active"

-----------------------------------------------------------------------------
\* A process ends: its calls are rolled back and its locks are gone.
Restart(p) ==
    /\ \E w \in Workers : process[w] = p /\ ~Idle(w)
    /\ call' = [w \in Workers |-> IF process[w] = p THEN NoCall ELSE call[w]]
    /\ startLock' = [startLock EXCEPT ![p] = {}]
    /\ submitLock' = [submitLock EXCEPT ![p] = {}]
    /\ UNCHANGED <<fixed, courseRow, rows, met>>

\* The steps of calls that are under way.
Proceed(w) ==
    \/ StartRead(w) \/ StartRefused(w) \/ StartCommit(w)
    \/ SaveCommit(w)
    \/ SubmitCommit(w) \/ SubmitCertify(w)

CourseNext ==
    \/ Enroll \/ CompleteCourse \/ CompleteClass
    \/ \E w \in Workers :
         \/ \E e \in Exams : StartBegin(w, e)
         \/ \E a \in Rows : SubmitRead(w, a)
         \/ \E a \in Rows, q \in Questions, answer \in {"right", "wrong"} :
              SaveRead(w, a, q, answer)
         \/ SubmitLookup(w)
         \/ Proceed(w)
    \/ \E a \in Rows : Generate(a) \/ Revoke(a)
    \/ \E p \in Processes : Restart(p)

CourseSpec == CourseInit /\ [][CourseNext]_courseVars

CourseFairSpec == CourseSpec /\ \A w \in Workers : WF_courseVars(Proceed(w))

-----------------------------------------------------------------------------
(* Properties. *)

CourseTypeOK ==
    /\ process \in [Workers -> Processes]
    /\ standalone \in BOOLEAN
    /\ enrollment \in Enrollment
    /\ completed \in BOOLEAN
    /\ attempts \in [Rows -> Attempt]
    /\ results \in [Rows -> Result]
    /\ certificates \in [Rows -> CertificateStatus]
    /\ startLock \in [Processes -> SUBSET Workers]
    /\ submitLock \in [Processes -> SUBSET Workers]
    /\ call \in [Workers -> Call]
    /\ met \subseteq {"starts", "save", "submits"}

\* A student has one attempt in progress, over all exams, and the attempts of
\* an exam are numbered from one and no more than max_attempts: unless two
\* processes start attempts at once.
AttemptsInTurn ==
    "starts" \in met \/
      /\ Cardinality(Running) <= 1
      /\ \A e \in Exams :
           /\ {attempts[a].number : a \in Of({e})} = 1..Cardinality(Of({e}))
           /\ Cardinality(Of({e})) <= MaxAttempts

\* A submitted attempt has its result, and the two agree on the score and on
\* whether it passed: unless two processes submit the attempt at once.
ResultMatches ==
    \A a \in Rows :
      /\ results[a].row <=> attempts[a].status = "submitted"
      /\ "submits" \in met \/ ~results[a].row
           \/ /\ results[a].score = attempts[a].score
              /\ results[a].passed = attempts[a].passed

\* The result counts the answers as they stand: none is saved after those the
\* score was computed from, unless the save and the submit overlap.
AnswersCounted ==
    \A a \in Rows :
      results[a].row /\ "save" \notin met => results[a].score = Score(attempts[a].answers)

\* A certificate is for a submitted attempt of an exam that gives any, and for
\* a result that passed: unless two processes submit the attempt at once, and
\* the one that finds the other's failed result issues by its own score.  What
\* is confirmed to the public is shown to the student as passed.
CertificatesEarned ==
    \A a \in Rows :
      /\ Confirmed(a) => "submits" \in met \/ Shown(a).passed
      /\ Shown(a).certificate # "none" =>
           /\ results[a].row /\ attempts[a].exam \subseteq Certified
           /\ "submits" \in met \/ results[a].passed

\* What a submission leaves behind agrees with what was answered.
ResultsStand == ResultMatches /\ AnswersCounted /\ CertificatesEarned

\* A revoked certificate stays so, whoever issues it again.
RevokedForGood ==
    [][\A a \in Rows : certificates[a] = "revoked" => certificates'[a] = "revoked"]_courseVars

\* A start that waits for the lock of its process gets an answer: no way out
\* of the lock keeps it, and the database never waits for it in a circle.
StartsEnd == \A w \in Workers : At(w, "start", "wait") ~> ~At(w, "start", "wait")
=============================================================================
