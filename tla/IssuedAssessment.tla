-------------------------- MODULE IssuedAssessment --------------------------
(***************************************************************************)
(* One issued assessment: its row in assessment_issues, its rows in        *)
(* assessment_submissions, and the HTTP handlers of app/api/routes/exams.py*)
(* that run concurrently against them.                                     *)
(*                                                                         *)
(* A handler reads rows into its SQLAlchemy session, decides on that       *)
(* snapshot, and writes at db.commit().  A commit updates only the columns *)
(* whose new value differs from the value the handler loaded (operator     *)
(* Written), under READ COMMITTED and with no version check, so two        *)
(* handlers interleave column by column.  Autosave and submit take a       *)
(* transaction-scoped advisory lock; the other handlers take none.         *)
(***************************************************************************)
EXTENDS Integers, Sequences, TLC

CONSTANTS
    Workers,        \* threads of the API that serve this issue's requests
    SubmissionIds,  \* submission_id values chosen by the candidate's browsers
    MaxInvites,     \* bound: credential generations (issue + resends)
    MaxSessions,    \* bound: candidate logins
    MaxRevision,    \* bound: draft revisions of one browser
    NoWorker,       \* nobody holds the advisory lock
    NoId            \* no submission_id

ASSUME ConstantsAssumption ==
    /\ NoWorker \notin Workers
    /\ NoId \notin SubmissionIds
    /\ MaxInvites \in Nat \ {0}
    /\ MaxSessions \in Nat
    /\ MaxRevision \in Nat

VARIABLES
    issue,      \* the committed assessment_issues row
    subs,       \* the committed assessment_submissions rows, by id
    lock,       \* holder of pg_advisory_xact_lock(issue_id)
    req,        \* what each worker is doing, with the snapshot it read
    invites,    \* credential generations handed out so far
    elapsed,    \* generations up to this one are past access_expires_at
    logins,     \* session tokens drawn so far
    sessions,   \* session tokens that reached a candidate's browser
    acked       \* submission ids answered with status "submitted"

vars == <<issue, subs, lock, req, invites, elapsed, logins, sessions, acked>>

-----------------------------------------------------------------------------
(* "manual_review" and "terminated" are tested by the handlers but no      *)
(* handler ever stores them in an issue, so they are no states of the row. *)
Submitted == {"completed", "review_pending", "reviewed"}
IssueStatus == {"issued", "started", "revoked"} \union Submitted
SubStatus == {"draft"} \union Submitted

\* token and expiry are numbers: 0 is NULL for active_session_token and a past
\* time for access_expires_at; expiry = n is the deadline that was sent with
\* credential generation n.  used says that credential_used_at is set.
IssueRow == [status : IssueStatus, expiry : Nat, token : Nat, used : BOOLEAN]

SubRow == [status : SubStatus, sid : SubmissionIds, rev : Nat,
           submitted : BOOLEAN]

Ops == {"idle", "login", "autosave", "submit", "revoke", "resend", "review"}

Request == [op : Ops, locked : BOOLEAN, row : IssueRow, latest : Nat,
            subStatus : SubStatus \union {"none"}, arg : Nat,
            sid : SubmissionIds \union {NoId}]

FirstInvite == [status |-> "issued", expiry |-> 1, token |-> 0, used |-> FALSE]

Idle == [op |-> "idle", locked |-> FALSE, row |-> FirstInvite, latest |-> 0,
         subStatus |-> "none", arg |-> 0, sid |-> NoId]

\* The column c after a commit that loaded `old` and assigned `new`.
Written(c, old, new) == IF new = old THEN c ELSE new

IsExpired(row) == row.expiry <= elapsed

\* _latest_issue_submission: the row with the highest id.
LatestStatus == IF subs = <<>> THEN "none" ELSE subs[Len(subs)].status

Begin(w, op, arg, sid) ==
    /\ req[w].op = "idle"
    /\ req' = [req EXCEPT ![w] =
                 [op |-> op, locked |-> FALSE, row |-> issue,
                  latest |-> Len(subs), subStatus |-> LatestStatus,
                  arg |-> arg, sid |-> sid]]

Finish(w) == req' = [req EXCEPT ![w] = Idle]

Serving(w, op, locked) == req[w].op = op /\ req[w].locked = locked

\* _issued_issue_from_bearer_token, evaluated on the row it loads.
Authorized(t) ==
    /\ t \in sessions
    /\ issue.status # "revoked"
    /\ issue.token = t
    /\ ~IsExpired(issue)

\* Mutant of TakeLock: the lock excludes nobody.
TakeNoLock(w) == lock' = w

\* _lock_issue_submission_transaction: granted when nobody holds the lock,
\* released by the commit or rollback that ends the transaction.
TakeLock(w) == lock = NoWorker /\ lock' = w

Init ==
    /\ issue = FirstInvite
    /\ subs = <<>>
    /\ lock = NoWorker
    /\ req = [w \in Workers |-> Idle]
    /\ invites = 1
    /\ elapsed = 0
    /\ logins = 0
    /\ sessions = {}
    /\ acked = {}

-----------------------------------------------------------------------------
(* The candidate. *)

\* issued_candidate_login_by_key up to the draw of the session token.
LoginRead(w) ==
    /\ logins < MaxSessions
    /\ issue.status # "revoked"
    /\ ~IsExpired(issue)
    /\ ~(issue.used /\ issue.status \in Submitted)
    /\ Begin(w, "login", logins + 1, NoId)
    /\ logins' = logins + 1
    /\ UNCHANGED <<issue, subs, lock, invites, elapsed, sessions, acked>>

\* Its commit; the reply with the token may be lost.
LoginCommit(w) ==
    LET s == req[w].row  t == req[w].arg  startedNow == s.status = "issued" IN
    /\ Serving(w, "login", FALSE)
    /\ issue' = [issue EXCEPT
         !.used = Written(@, s.used, TRUE),
         !.token = t,
         !.status = IF startedNow THEN "started" ELSE @]
    /\ sessions' \in {sessions, sessions \union {t}}
    /\ Finish(w)
    /\ UNCHANGED <<subs, lock, invites, elapsed, logins, acked>>

\* issued_candidate_autosave up to the advisory lock.
AutosaveRead(w, t, sid, rev) ==
    /\ Authorized(t)
    /\ issue.status \notin Submitted
    /\ Begin(w, "autosave", rev, sid)
    /\ UNCHANGED <<issue, subs, lock, invites, elapsed, logins, sessions, acked>>

\* Mutants of NewRevision: the status, or the revision, is not compared.
NewRevisionAnyStatus(sid, rev) ==
    ~(subs # <<>> /\ subs[Len(subs)].sid = sid /\ rev <= subs[Len(subs)].rev)
NewRevisionAnyOrder(sid, rev) == subs = <<>> \/ LatestStatus = "draft"

\* The checks autosave makes on the submission it reads under the lock.
NewRevision(sid, rev) ==
    \/ subs = <<>>
    \/ /\ LatestStatus = "draft"
       /\ ~(subs[Len(subs)].sid = sid /\ rev <= subs[Len(subs)].rev)

AutosaveLock(w) ==
    /\ Serving(w, "autosave", FALSE)
    /\ NewRevision(req[w].sid, req[w].arg)
    /\ TakeLock(w)
    /\ req' = [req EXCEPT ![w].locked = TRUE, ![w].latest = Len(subs),
                          ![w].subStatus = LatestStatus]
    /\ UNCHANGED <<issue, subs, invites, elapsed, logins, sessions, acked>>

\* 409 "already been submitted", or the reply "unchanged" to an old revision.
AutosaveRefused(w) ==
    /\ Serving(w, "autosave", FALSE)
    /\ lock = NoWorker
    /\ ~NewRevision(req[w].sid, req[w].arg)
    /\ Finish(w)
    /\ UNCHANGED <<issue, subs, lock, invites, elapsed, logins, sessions, acked>>

AutosaveCommit(w) ==
    LET r == req[w] IN
    /\ Serving(w, "autosave", TRUE)
    /\ subs' = IF r.latest = 0
               THEN Append(subs, [status |-> "draft", sid |-> r.sid,
                                  rev |-> r.arg, submitted |-> FALSE])
               ELSE [subs EXCEPT ![r.latest] =
                       [@ EXCEPT !.sid = r.sid, !.rev = r.arg]]
    /\ lock' = NoWorker
    /\ Finish(w)
    /\ UNCHANGED <<issue, invites, elapsed, logins, sessions, acked>>

\* issued_candidate_submit up to the advisory lock: the status is tested
\* later, on the refreshed row.
SubmitRead(w, t, sid) ==
    /\ Authorized(t)
    /\ Begin(w, "submit", t, sid)
    /\ UNCHANGED <<issue, subs, lock, invites, elapsed, logins, sessions, acked>>

\* The lock, then db.refresh(issue) and the latest submission.
SubmitLock(w) ==
    /\ Serving(w, "submit", FALSE)
    /\ issue.status \notin Submitted
    /\ TakeLock(w)
    /\ req' = [req EXCEPT ![w].locked = TRUE, ![w].row = issue,
                          ![w].latest = Len(subs), ![w].subStatus = LatestStatus]
    /\ UNCHANGED <<issue, subs, invites, elapsed, logins, sessions, acked>>

\* Already submitted: a retry with the same submission_id is answered
\* "submitted", any other id gets 409.
SubmitAgain(w) ==
    /\ Serving(w, "submit", FALSE)
    /\ lock = NoWorker
    /\ issue.status \in Submitted
    /\ acked' = IF subs # <<>> /\ subs[Len(subs)].sid = req[w].sid
                THEN acked \union {req[w].sid} ELSE acked
    /\ Finish(w)
    /\ UNCHANGED <<issue, subs, lock, invites, elapsed, logins, sessions>>

\* MCQ work is "completed" unless integrity flags force a review; every
\* other type is "review_pending".  A draft row is reused, else one is added.
SubmitCommit(w, final) ==
    LET r == req[w]
        row == [status |-> final, sid |-> r.sid, rev |-> 0, submitted |-> TRUE]
    IN
    /\ Serving(w, "submit", TRUE)
    /\ issue' = [issue EXCEPT !.status = final]
    /\ subs' = IF r.subStatus = "draft" THEN [subs EXCEPT ![r.latest] = row]
               ELSE Append(subs, row)
    /\ acked' = acked \union {r.sid}
    /\ lock' = NoWorker
    /\ Finish(w)
    /\ UNCHANGED <<invites, elapsed, logins, sessions>>

-----------------------------------------------------------------------------
(* The recruiter. *)

\* revoke_issued_assessment_invitation.
RevokeRead(w) ==
    /\ issue.status \notin Submitted \union {"revoked"}
    /\ Begin(w, "revoke", 0, NoId)
    /\ UNCHANGED <<issue, subs, lock, invites, elapsed, logins, sessions, acked>>

RevokeCommit(w) ==
    /\ Serving(w, "revoke", FALSE)
    /\ issue' = [issue EXCEPT !.status = "revoked", !.expiry = 0,
                              !.token = Written(@, req[w].row.token, 0)]
    /\ Finish(w)
    /\ UNCHANGED <<subs, lock, invites, elapsed, logins, sessions, acked>>

\* resend_issued_assessment_invitation: the e-mail leaves before the commit.
ResendRead(w) ==
    /\ issue.status \in {"issued", "revoked"}
    /\ invites < MaxInvites
    /\ invites' = invites + 1
    /\ Begin(w, "resend", invites + 1, NoId)
    /\ UNCHANGED <<issue, subs, lock, elapsed, logins, sessions, acked>>

ResendCommit(w) ==
    LET s == req[w].row IN
    /\ Serving(w, "resend", FALSE)
    /\ issue' = [issue EXCEPT
         !.expiry = req[w].arg,
         !.used = Written(@, s.used, FALSE),
         !.token = Written(@, s.token, 0),
         !.status = Written(@, s.status, "issued")]
    /\ Finish(w)
    /\ UNCHANGED <<subs, lock, invites, elapsed, logins, sessions, acked>>

\* finalize_issued_assessment_review: any latest submission will do, a draft
\* included, and the issue's status is not tested.
ReviewRead(w) ==
    /\ subs # <<>>
    /\ Begin(w, "review", 0, NoId)
    /\ UNCHANGED <<issue, subs, lock, invites, elapsed, logins, sessions, acked>>

\* Mutant of ReviewCommit: the issue takes the submission's status.
ReviewCommitCopies(w) ==
    /\ Serving(w, "review", FALSE)
    /\ issue' = [issue EXCEPT !.status = req[w].subStatus]
    /\ Finish(w)
    /\ UNCHANGED <<subs, lock, invites, elapsed, logins, sessions, acked>>

ReviewCommit(w) ==
    LET r == req[w]
        row == subs[r.latest]
    IN
    /\ Serving(w, "review", FALSE)
    /\ issue' = [issue EXCEPT !.status = Written(@, r.row.status, "reviewed")]
    /\ subs' = [subs EXCEPT ![r.latest] =
                  [row EXCEPT !.status =
                                Written(row.status, r.subStatus, "reviewed")]]
    /\ Finish(w)
    /\ UNCHANGED <<lock, invites, elapsed, logins, sessions, acked>>

-----------------------------------------------------------------------------
(* The environment. *)

\* A worker dies or its handler raises before the commit: the transaction
\* is rolled back and its advisory lock released.
Rollback(w) ==
    /\ req[w].op # "idle"
    /\ lock' = IF lock = w THEN NoWorker ELSE lock
    /\ Finish(w)
    /\ UNCHANGED <<issue, subs, invites, elapsed, logins, sessions, acked>>

\* Seven days pass for one more generation of credentials.
Expire ==
    /\ elapsed < invites
    /\ elapsed' = elapsed + 1
    /\ UNCHANGED <<issue, subs, lock, req, invites, logins, sessions, acked>>

Candidate(w) ==
    \/ LoginRead(w) \/ LoginCommit(w)
    \/ \E t \in sessions, sid \in SubmissionIds :
         \/ \E rev \in 1..MaxRevision : AutosaveRead(w, t, sid, rev)
         \/ SubmitRead(w, t, sid)
    \/ AutosaveLock(w) \/ AutosaveRefused(w) \/ AutosaveCommit(w)
    \/ SubmitLock(w) \/ SubmitAgain(w)
    \/ \E final \in {"completed", "review_pending"} : SubmitCommit(w, final)

Recruiter(w) ==
    \/ RevokeRead(w) \/ RevokeCommit(w)
    \/ ResendRead(w) \/ ResendCommit(w)
    \/ ReviewRead(w) \/ ReviewCommit(w)

Next ==
    \/ \E w \in Workers : Candidate(w) \/ Recruiter(w) \/ Rollback(w)
    \/ Expire

Spec == Init /\ [][Next]_vars

\* For TLC: workers are alike, and so are the ids.
Sym == Permutations(Workers) \union Permutations(SubmissionIds)

-----------------------------------------------------------------------------
(* Properties. *)

TypeOK ==
    /\ issue \in IssueRow
    /\ subs \in Seq(SubRow)
    /\ lock \in Workers \union {NoWorker}
    /\ req \in [Workers -> Request]
    /\ invites \in Nat
    /\ elapsed \in Nat
    /\ logins \in Nat
    /\ sessions \subseteq Nat
    /\ acked \subseteq SubmissionIds

\* A submission_id that was answered "submitted" stays on record in a row
\* that is no draft, whatever late autosaves, retries, logins, resends and
\* reviews commit afterwards.
AckedOnRecord ==
    \A sid \in acked : \E i \in 1..Len(subs) :
        subs[i].status # "draft" /\ subs[i].sid = sid

\* Autosave and submit look at the latest submission only: a draft with
\* another row beside it is work that is lost, or a second attempt.
DraftIsAlone ==
    \A i \in 1..Len(subs) : subs[i].status = "draft" => Len(subs) = 1

\* The recruiter's list never shows a finished issue without finished work.
FinalIssueHasSubmission ==
    issue.status \in Submitted =>
        \E i \in 1..Len(subs) : subs[i].status # "draft"

\* An issue has one draft or finished work, never both and, once it is
\* finished, never neither.
OneSubmission == DraftIsAlone /\ FinalIssueHasSubmission

\* A submitted row never becomes a draft again and no autosave that was
\* authorised before the submit writes its answers over it.
SubmittedWorkImmutable ==
    [][\A i \in 1..Len(subs) : subs[i].submitted =>
         /\ i <= Len(subs')
         /\ subs'[i].submitted
         /\ subs'[i].status # "draft"
         /\ subs'[i].sid = subs[i].sid
         /\ subs'[i].rev = subs[i].rev]_vars

\* Autosaves of one browser may arrive in any order; the draft keeps the
\* newest revision.
DraftsMoveForward ==
    [][\A i \in 1..Len(subs) :
         (subs[i].status = "draft" /\ subs'[i].status = "draft"
             /\ subs'[i].sid = subs[i].sid)
         => subs[i].rev <= subs'[i].rev]_vars

\* Work that is saved or submitted is not lost to a later or a late request.
WorkKept == SubmittedWorkImmutable /\ DraftsMoveForward
=============================================================================
