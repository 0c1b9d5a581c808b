--------------------------- MODULE AttemptRecord ---------------------------
(***************************************************************************)
(* assessment_issues.result_json: the record of one issued attempt, which  *)
(* the handlers of app/api/routes/exams.py load, change and store as one   *)
(* JSON column.  A handler that changes a nested dict or list in place     *)
(* changes the value it loaded, too; at the commit SQLAlchemy compares the *)
(* two, and leaves out a column whose values are equal.  Signals of one    *)
(* kind that repeat (a left full screen) send the attempt to a reviewer.   *)
(***************************************************************************)
EXTENDS Integers, FiniteSets

CONSTANTS
    Workers,     \* threads that serve this issue's requests
    Signals,     \* client_event_id values of proctor events of one kind
    Threshold    \* min_occurrences in the fusion policy's review rule

ASSUME AttemptAssumption ==
    /\ IsFiniteSet(Signals)
    /\ Threshold \in Nat \ {0}

VARIABLES
    issue,       \* the columns status, active_session_token and result_json
    submitted,   \* there is a submission row
    req,         \* what each worker is doing, with the row it loaded
    raised,      \* history: signals the candidate's browser noticed
    overlapped   \* history: two requests were in progress at once

vars == <<issue, submitted, req, raised, overlapped>>

-----------------------------------------------------------------------------
Submitted == {"completed", "review_pending", "reviewed"}

\* logged: there is a list "operations"; forms: the task frozen at the first
\* login; proctored: there is a dict "proctoring", with the consent, the events
\* and a reason for a review; graded, reviewed: what submit and review add.
Record == [logged : BOOLEAN, forms : BOOLEAN, proctored : BOOLEAN,
           consent : BOOLEAN, events : SUBSET Signals, flagged : BOOLEAN, graded : BOOLEAN, reviewed : BOOLEAN]

Issue == [status : {"issued", "started", "revoked"} \union Submitted,
          session : BOOLEAN, record : Record]

NewRecord == [logged |-> FALSE, forms |-> FALSE, proctored |-> FALSE,
              consent |-> FALSE, events |-> {}, flagged |-> FALSE,
              graded |-> FALSE, reviewed |-> FALSE]

NewIssue == [status |-> "issued", session |-> FALSE, record |-> NewRecord]

Ops == {"idle", "issue", "login", "consent", "signal", "submit", "revoke",
        "resend", "review"}

Request == [op : Ops, locked : BOOLEAN, issue : Issue, signals : SUBSET Signals]

Idle == [op |-> "idle", locked |-> FALSE, issue |-> NewIssue, signals |-> {}]

Written(c, old, new) == IF new = old THEN c ELSE new

Busy(w) == req[w].op # "idle"

Begin(w, op, signals) ==
    /\ ~Busy(w)
    /\ req' = [req EXCEPT ![w] = [op |-> op, locked |-> FALSE, issue |-> issue,
                                  signals |-> signals]]
    /\ overlapped' = (overlapped \/ \E v \in Workers : Busy(v))
    /\ UNCHANGED <<issue, submitted>>

Finish(w) == req' = [req EXCEPT ![w] = Idle] /\ UNCHANGED <<raised, overlapped>>

Loaded(w) == req[w].issue

\* The invitation is committed, and its mail is on its way.
Init ==
    /\ issue = NewIssue
    /\ submitted = FALSE
    /\ \E w \in Workers :
         req = [v \in Workers |-> IF v = w THEN [Idle EXCEPT !.op = "issue"] ELSE Idle]
    /\ raised = {}
    /\ overlapped = FALSE

-----------------------------------------------------------------------------
(* What a commit does to the record. *)

\* The record after a commit that compares `old` with `new`.
Stored(old, new) == Written(issue.record, old, new)

\* _append_issue_operation: a list that was there is appended to in place, and
\* the new list equals it.
Logged(record) == Stored(record, [record EXCEPT !.logged = TRUE])

\* task_for_issued_attempt: the task that is drawn from the bank is frozen.
Frozen(record) == Stored(record, [record EXCEPT !.forms = TRUE])

\* Mutant of Proctored: a new dict is stored.
ProctoredAnew(record, new) == Stored(record, [NewRecord EXCEPT
    !.proctored = TRUE, !.consent = new.consent, !.events = new.events, !.flagged = new.flagged])

\* _issued_proctoring_state: a dict that was there is changed in place.
Proctored(record, new) ==
    Stored(IF record.proctored THEN new ELSE record, [new EXCEPT !.proctored = TRUE])

\* Mutant of Fresh: a client_event_id that was sent before counts again.
FreshAlways(record, signals) == signals

\* _apply_issued_review_signal leaves out the events on record.
Fresh(record, signals) == signals \ record.events

\* classify_proctor_event: a signal and the events on record, as far as they
\* are recent, reach the threshold.
MayFlag(record, signals) ==
    {record.flagged} \union
    IF Fresh(record, signals) # {} /\ Cardinality(record.events) + 1 >= Threshold
    THEN {TRUE} ELSE {}

-----------------------------------------------------------------------------
(* The candidate. *)

\* _issued_issue_from_bearer_token.  A browser with an older token, or after
\* access_expires_at, is only kept from doing something.
Authorized == issue.session /\ issue.status # "revoked"

\* issued_candidate_login_by_key
LoginRead(w) ==
    /\ issue.status \notin Submitted \union {"revoked"}
    /\ Begin(w, "login", {})
    /\ UNCHANGED raised

LoginCommit(w) ==
    LET s == Loaded(w)  first == s.status = "issued" IN
    /\ req[w].op = "login"
    /\ issue' = [status |-> IF first THEN "started" ELSE issue.status,
                 session |-> TRUE,
                 record |-> IF first THEN Frozen(s.record) ELSE issue.record]
    /\ Finish(w)
    /\ UNCHANGED submitted

\* issued_candidate_consent
ConsentRead(w) ==
    /\ Authorized
    /\ issue.status \notin Submitted
    /\ Begin(w, "consent", {})
    /\ UNCHANGED raised

ConsentCommit(w) ==
    LET s == Loaded(w).record IN
    /\ req[w].op = "consent"
    /\ issue' = [issue EXCEPT !.record = Proctored(s, [s EXCEPT !.consent = TRUE])]
    /\ Finish(w)
    /\ UNCHANGED submitted

\* issued_candidate_proctor_event; a duplicate is not accepted.
SignalRead(w, e) ==
    /\ Authorized
    /\ issue.status \notin Submitted
    /\ Fresh(issue.record, {e}) # {}
    /\ Begin(w, "signal", {e})
    /\ raised' = raised \union {e}

SignalCommit(w) ==
    LET s == Loaded(w).record IN
    /\ req[w].op = "signal"
    /\ \E flagged \in MayFlag(s, req[w].signals) :
         issue' = [issue EXCEPT !.record =
           Proctored(s, [s EXCEPT !.events = @ \union req[w].signals, !.flagged = flagged])]
    /\ Finish(w)
    /\ UNCHANGED submitted

\* issued_candidate_submit with the events the browser has kept.
SubmitRead(w, signals) ==
    /\ Authorized
    /\ Begin(w, "submit", signals)
    /\ raised' = raised \union signals

\* The advisory lock, then db.refresh(issue).
SubmitLock(w) ==
    /\ req[w].op = "submit" /\ ~req[w].locked
    /\ \A v \in Workers : ~req[v].locked
    /\ issue.status \notin Submitted
    /\ req' = [req EXCEPT ![w].locked = TRUE, ![w].issue = issue]
    /\ UNCHANGED <<issue, submitted, raised, overlapped>>

\* Mutant of Final: the status of a flagged submission is stored.
FinalManual(flagged) == IF flagged THEN {"manual_review"} ELSE {"completed", "review_pending"}

\* A multiple-choice attempt without a flag is completed without a review.
Final(flagged) == IF flagged THEN {"review_pending"} ELSE {"completed", "review_pending"}

\* The score is new, so the column is stored.
SubmitCommit(w) ==
    LET s == Loaded(w).record IN
    /\ req[w].op = "submit" /\ req[w].locked
    /\ \E flagged \in MayFlag(s, req[w].signals) : \E final \in Final(flagged) :
         issue' = [issue EXCEPT !.status = final,
           !.record = [s EXCEPT !.proctored = TRUE, !.flagged = flagged, !.graded = TRUE]]
    /\ submitted' = TRUE
    /\ Finish(w)

-----------------------------------------------------------------------------
(* The recruiter. *)

\* issue_assessment_to_candidate after the mail.
IssueCommit(w) ==
    /\ req[w].op = "issue"
    /\ issue' = [issue EXCEPT !.record = Logged(Loaded(w).record)]
    /\ Finish(w)
    /\ UNCHANGED submitted

\* revoke_issued_assessment_invitation
RevokeRead(w) ==
    /\ issue.status \notin Submitted \union {"revoked"}
    /\ Begin(w, "revoke", {})
    /\ UNCHANGED raised

RevokeCommit(w) ==
    LET s == Loaded(w) IN
    /\ req[w].op = "revoke"
    /\ issue' = [status |-> "revoked",
                 session |-> Written(issue.session, s.session, FALSE),
                 record |-> Logged(s.record)]
    /\ Finish(w)
    /\ UNCHANGED submitted

\* resend_issued_assessment_invitation
ResendRead(w) ==
    /\ issue.status \in {"issued", "revoked"}
    /\ Begin(w, "resend", {})
    /\ UNCHANGED raised

ResendCommit(w) ==
    LET s == Loaded(w) IN
    /\ req[w].op = "resend"
    /\ issue' = [status |-> Written(issue.status, s.status, "issued"),
                 session |-> Written(issue.session, s.session, FALSE),
                 record |-> Logged(s.record)]
    /\ Finish(w)
    /\ UNCHANGED submitted

\* finalize_issued_assessment_review of a submission; drafts are left to
\* IssuedAssessment.
ReviewRead(w) ==
    /\ submitted
    /\ Begin(w, "review", {})
    /\ UNCHANGED raised

\* The review record has its time, so the column is stored.
ReviewCommit(w) ==
    LET s == Loaded(w) IN
    /\ req[w].op = "review"
    /\ issue' = [issue EXCEPT !.status = Written(@, s.status, "reviewed"),
                              !.record = [s.record EXCEPT !.reviewed = TRUE]]
    /\ Finish(w)
    /\ UNCHANGED submitted

-----------------------------------------------------------------------------
\* A handler dies or its commit fails, or a submit finds the attempt submitted.
Rollback(w) ==
    /\ Busy(w)
    /\ Finish(w)
    /\ UNCHANGED <<issue, submitted>>

Candidate(w) ==
    \/ LoginRead(w) \/ LoginCommit(w)
    \/ ConsentRead(w) \/ ConsentCommit(w)
    \/ \E e \in Signals : SignalRead(w, e)
    \/ SignalCommit(w)
    \/ \E signals \in SUBSET Signals : SubmitRead(w, signals)
    \/ SubmitLock(w) \/ SubmitCommit(w)

Recruiter(w) ==
    \/ IssueCommit(w)
    \/ RevokeRead(w) \/ RevokeCommit(w)
    \/ ResendRead(w) \/ ResendCommit(w)
    \/ ReviewRead(w) \/ ReviewCommit(w)

Next == \E w \in Workers : Candidate(w) \/ Recruiter(w) \/ Rollback(w)

Spec == Init /\ [][Next]_vars

-----------------------------------------------------------------------------
(* Properties. *)

TypeOK ==
    /\ issue \in Issue
    /\ submitted \in BOOLEAN
    /\ req \in [Workers -> Request]
    /\ raised \subseteq Signals
    /\ overlapped \in BOOLEAN

\* A candidate's attempt is flagged for repeated signals only when that many
\* different ones were raised: sending one again, alone, with the submission
\* or in two requests at once, does not count twice.
FlagsHaveSignals ==
    issue.record.flagged => Cardinality(raised) >= Threshold

\* As long as requests do not overlap, an attempt whose record has a reason
\* for a review is not completed without one.
FlaggedIsReviewed ==
    ~overlapped /\ issue.record.flagged => issue.status # "completed"

\* What is in a record is in a later one.
Grows(old, new) ==
    /\ \A f \in {"logged", "forms", "consent", "flagged", "graded", "reviewed"} :
         old[f] => new[f]
    /\ old.events \subseteq new.events

\* As long as requests do not overlap, nothing leaves the record: the frozen
\* task, the consent, signals, flags, the score and the review stay.
RecordGrows == [][~overlapped' => Grows(issue.record, issue'.record)]_vars

\* A flag rests on signals, and leads to a review.
FlagsHold == FlagsHaveSignals /\ FlaggedIsReviewed
=============================================================================
