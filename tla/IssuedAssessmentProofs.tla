----------------------- MODULE IssuedAssessmentProofs -----------------------
(***************************************************************************)
(* Theorems about IssuedAssessment, for any number of workers, browsers,   *)
(* logins and resends.  The argument is the advisory lock: only its holder *)
(* adds rows or rewrites the latest one, and what the holder read under    *)
(* the lock stays true of that row except that a review may finalise it.   *)
(***************************************************************************)
EXTENDS IssuedAssessment, SequenceTheorems, TLAPS

\* The lock belongs to an autosave or a submit that is about to commit.
LockInv ==
    \A w \in Workers :
        /\ req[w].locked => lock = w
        /\ lock = w => req[w].locked
        /\ req[w].locked => req[w].op \in {"autosave", "submit"}

\* A submitted row is no draft.
RowInv == \A i \in 1..Len(subs) : subs[i].submitted => subs[i].status # "draft"

\* The holder of the lock will overwrite the row req[w].latest.
Rewrites(w) == req[w].locked /\ req[w].subStatus = "draft"

\* What the holder of the lock knows of the table.
SnapshotInv ==
    \A w \in Workers :
        /\ req[w].locked => req[w].latest = Len(subs)
        /\ Rewrites(w) => Len(subs) > 0 /\ ~subs[Len(subs)].submitted
        /\ req[w].locked /\ ~Rewrites(w) =>
             \A i \in 1..Len(subs) : subs[i].status # "draft"
        /\ req[w].locked /\ ~Rewrites(w) /\ req[w].op = "autosave" => Len(subs) = 0
        /\ req[w].op = "review" => req[w].latest \in 1..Len(subs)
        /\ req[w].op = "review" /\ req[w].subStatus # "draft" =>
             subs[req[w].latest].status # "draft"
        /\ req[w].op \in {"autosave", "submit"} => req[w].sid \in SubmissionIds

\* A submission_id answered "submitted" is on a row nobody will overwrite.
AckInv ==
    \A sid \in acked : \E i \in 1..Len(subs) :
        /\ subs[i].status # "draft"
        /\ subs[i].sid = sid
        /\ \A w \in Workers : Rewrites(w) => i # Len(subs)

IInv == /\ TypeOK
        /\ LockInv
        /\ RowInv
        /\ DraftIsAlone
        /\ SnapshotInv
        /\ AckInv
        /\ FinalIssueHasSubmission

-----------------------------------------------------------------------------
(* Sequences of rows. *)

\* Append adds one row and keeps the others.
LEMMA AppendRow ==
    ASSUME NEW s \in Seq(SubRow), NEW r \in SubRow
    PROVE  /\ Append(s, r) \in Seq(SubRow)
           /\ Len(Append(s, r)) = Len(s) + 1
           /\ \A i \in 1..Len(s) : Append(s, r)[i] = s[i]
           /\ Append(s, r)[Len(s) + 1] = r
BY AppendProperties

\* An update of one row keeps the others.
LEMMA ReplaceRow ==
    ASSUME NEW s \in Seq(SubRow), NEW k \in 1..Len(s), NEW r \in SubRow
    PROVE  /\ [s EXCEPT ![k] = r] \in Seq(SubRow)
           /\ Len([s EXCEPT ![k] = r]) = Len(s)
           /\ \A i \in 1..Len(s) :
                [s EXCEPT ![k] = r][i] = IF i = k THEN r ELSE s[i]
BY ExceptSeq DEF SubRow

\* A row read from the table is a row.
LEMMA RowType ==
    ASSUME NEW s \in Seq(SubRow), NEW k \in 1..Len(s)
    PROVE  s[k] \in SubRow
BY ElementOfSeq

\* A row that is not the last is not alone.
LEMMA NotLast == \A n \in Nat : \A i \in 1..n : i # n => n # 1
OBVIOUS

-----------------------------------------------------------------------------
(* Every step preserves IInv. *)

\* The counters of the environment do not occur outside TypeOK.
Counters == invites' \in Nat /\ elapsed' \in Nat /\ logins' \in Nat

\* A handler that has only read holds no lock and will overwrite nothing.
LEMMA BeginKeeps ==
    ASSUME IInv, Counters, sessions' = sessions,
           UNCHANGED <<issue, subs, lock, acked>>,
           NEW w \in Workers, NEW op \in Ops, NEW arg \in Nat,
           NEW sid \in SubmissionIds \union {NoId},
           Begin(w, op, arg, sid),
           op \in {"autosave", "submit"} => sid \in SubmissionIds,
           op = "review" => subs # <<>>
    PROVE  IInv'
<1> USE DEF IInv
<1> DEFINE r == [op |-> op, locked |-> FALSE, row |-> issue,
                 latest |-> Len(subs), subStatus |-> LatestStatus,
                 arg |-> arg, sid |-> sid]
<1>1. Len(subs) \in Nat /\ (subs # <<>> => Len(subs) \in 1..Len(subs))
  BY LenProperties, EmptySeq DEF TypeOK
<1>2. LatestStatus \in SubStatus \union {"none"}
  BY <1>1, RowType DEF LatestStatus, TypeOK, SubRow
<1>3. r \in Request
  BY <1>1, <1>2 DEF Request, TypeOK
<1>4. /\ req' = [req EXCEPT ![w] = r]
      /\ \A v \in Workers : req'[v] = IF v = w THEN r ELSE req[v]
  BY DEF Begin, TypeOK
<1>5. ~req[w].locked
  BY DEF Begin, LockInv
<1>6. TypeOK'
  BY <1>3, <1>4 DEF TypeOK, Counters
<1>7. LockInv'
  BY <1>4, <1>5 DEF LockInv
<1>8. SnapshotInv'
  BY <1>1, <1>4 DEF SnapshotInv, Rewrites, LatestStatus
<1>9. AckInv'
  BY <1>4 DEF AckInv, Rewrites
<1>10. (RowInv /\ DraftIsAlone /\ FinalIssueHasSubmission)'
  BY DEF RowInv, DraftIsAlone, FinalIssueHasSubmission
<1> QED BY <1>6, <1>7, <1>8, <1>9, <1>10

\* A handler that ends gives up its lock, and only its lock.
LEMMA FinishReq ==
    ASSUME TypeOK, LockInv, NEW w \in Workers, Finish(w),
           lock' = IF lock = w THEN NoWorker ELSE lock
    PROVE  /\ req' \in [Workers -> Request]
           /\ \A v \in Workers : req'[v] = IF v = w THEN Idle ELSE req[v]
           /\ lock' \in Workers \union {NoWorker}
           /\ LockInv'
           /\ \A v \in Workers : Rewrites(v)' => Rewrites(v)
           /\ req[w].locked => \A v \in Workers : ~req'[v].locked
<1>1. Idle \in Request
  BY DEF Idle, Request, FirstInvite, IssueRow, Ops, IssueStatus
<1>2. /\ req' = [req EXCEPT ![w] = Idle]
      /\ \A v \in Workers : req'[v] = IF v = w THEN Idle ELSE req[v]
  BY DEF Finish, TypeOK
<1>3. Idle.locked = FALSE /\ Idle.op = "idle"
  BY DEF Idle
<1>4. LockInv'
  BY <1>2, <1>3, ConstantsAssumption DEF LockInv
<1>5. \A v \in Workers : Rewrites(v)' => Rewrites(v)
  BY <1>2, <1>3 DEF Rewrites
<1>6. req[w].locked => \A v \in Workers : ~req'[v].locked
  BY <1>2, <1>3 DEF LockInv
<1> QED BY <1>1, <1>2, <1>4, <1>5, <1>6 DEF TypeOK

\* A handler that ends and leaves the submissions alone.
LEMMA FinishKeeps ==
    ASSUME IInv, NEW w \in Workers, Finish(w), issue' \in IssueRow,
           issue'.status \in Submitted => issue.status \in Submitted,
           UNCHANGED <<subs, invites, elapsed, logins, acked>>,
           sessions' \subseteq Nat,
           lock' = IF lock = w THEN NoWorker ELSE lock
    PROVE  IInv'
<1> USE DEF IInv
<1> USE FinishReq
<1>1. TypeOK' /\ LockInv'
  BY DEF TypeOK
<1>2. SnapshotInv'
  <2> SUFFICES ASSUME NEW v \in Workers, v # w PROVE SnapshotInv!(v)'
    BY DEF SnapshotInv, Idle, Rewrites
  <2> QED BY DEF SnapshotInv, Rewrites
<1>3. AckInv'
  BY DEF AckInv
<1>4. (RowInv /\ DraftIsAlone /\ FinalIssueHasSubmission)'
  BY DEF RowInv, DraftIsAlone, FinalIssueHasSubmission
<1> QED BY <1>1, <1>2, <1>3, <1>4

\* What TypeOK says of one request, and of a number that is an argument.
LEMMA RequestType ==
    ASSUME TypeOK, NEW w \in Workers
    PROVE  /\ req[w].op \in Ops
           /\ req[w].locked \in BOOLEAN
           /\ req[w].row \in IssueRow
           /\ req[w].latest \in Nat
           /\ req[w].subStatus \in SubStatus \union {"none"}
           /\ req[w].arg \in Nat
           /\ Len(subs) \in Nat
BY LenProperties DEF TypeOK, Request

\* The lock is granted, and the holder reads the latest submission.
LEMMA LockKeeps ==
    ASSUME IInv, NEW w \in Workers, req[w].op \in {"autosave", "submit"},
           TakeLock(w), NEW row \in IssueRow,
           req' = [req EXCEPT ![w].locked = TRUE, ![w].row = row,
                              ![w].latest = Len(subs),
                              ![w].subStatus = LatestStatus],
           req[w].op = "autosave" => subs = <<>> \/ LatestStatus = "draft",
           UNCHANGED <<issue, subs, invites, elapsed, logins, sessions, acked>>
    PROVE  IInv'
<1> USE DEF IInv
<1>1. /\ Len(subs) \in Nat
      /\ subs = <<>> <=> Len(subs) = 0
      /\ subs # <<>> => Len(subs) \in 1..Len(subs)
  BY LenProperties, EmptySeq DEF TypeOK
<1>2. LatestStatus \in SubStatus \union {"none"}
  BY <1>1, RowType DEF LatestStatus, TypeOK, SubRow
<1> DEFINE r == [req[w] EXCEPT !.locked = TRUE, !.row = row,
                     !.latest = Len(subs), !.subStatus = LatestStatus]
<1>3. req[w] \in Request
  BY DEF TypeOK
<1>4. r \in Request /\ r.op = req[w].op /\ r.sid = req[w].sid
  BY <1>1, <1>2, <1>3 DEF Request
<1>5. /\ req' = [req EXCEPT ![w] = r]
      /\ \A v \in Workers : req'[v] = IF v = w THEN r ELSE req[v]
  BY DEF TypeOK
<1>6. r.locked /\ r.latest = Len(subs) /\ r.subStatus = LatestStatus
  BY DEF TypeOK, Request
<1>7. \A v \in Workers : ~req[v].locked
  BY ConstantsAssumption DEF LockInv, TakeLock
<1>8. TypeOK'
  BY <1>4, <1>5 DEF TypeOK, TakeLock
<1>9. LockInv'
  BY <1>4, <1>5, <1>6, <1>7 DEF LockInv, TakeLock
<1>10. \A v \in Workers : Rewrites(v)' <=> v = w /\ LatestStatus = "draft"
  BY <1>5, <1>6, <1>7 DEF Rewrites
<1>11. LatestStatus = "draft" => subs # <<>> /\ subs[Len(subs)].status = "draft"
  BY DEF LatestStatus
<1>12. LatestStatus # "draft" => \A i \in 1..Len(subs) : subs[i].status # "draft"
  BY <1>1 DEF LatestStatus, DraftIsAlone
<1>13. SnapshotInv'
  <2> DEFINE q == req'[w]
  <2>3. /\ q.op \in {"autosave", "submit"} /\ q.op = req[w].op
        /\ q.sid \in SubmissionIds /\ q.latest = Len(subs)
    BY <1>4, <1>5, <1>6 DEF SnapshotInv
  <2>4. Rewrites(w)' => Len(subs) > 0 /\ ~subs[Len(subs)].submitted
    BY <1>1, <1>10, <1>11 DEF RowInv
  <2>5. ~Rewrites(w)' => \A i \in 1..Len(subs) : subs[i].status # "draft"
    BY <1>10, <1>12
  <2>6. ~Rewrites(w)' /\ q.op = "autosave" => Len(subs) = 0
    BY <1>1, <1>10, <2>3
  <2>1. SnapshotInv!(w)'
    BY <2>3, <2>4, <2>5, <2>6
  <2>2. ASSUME NEW v \in Workers, v # w PROVE SnapshotInv!(v)'
    BY <2>2, <1>5, <1>7, <1>10 DEF SnapshotInv
  <2> QED BY <2>1, <2>2 DEF SnapshotInv
<1>14. AckInv'
  BY <1>1, <1>7, <1>10, <1>11 DEF AckInv
<1>15. (RowInv /\ DraftIsAlone /\ FinalIssueHasSubmission)'
  BY DEF RowInv, DraftIsAlone, FinalIssueHasSubmission
<1> QED BY <1>8, <1>9, <1>13, <1>14, <1>15

\* The draft is written: a first row, or the one draft that exists.
LEMMA AutosaveCommitKeeps ==
    ASSUME IInv, NEW w \in Workers, AutosaveCommit(w)
    PROVE  IInv'
<1> USE DEF IInv
<1> DEFINE r == req[w]
           n == Len(subs)
<1>1. r.locked /\ r.op = "autosave" /\ lock = w /\ lock' = NoWorker
  BY DEF AutosaveCommit, Serving, LockInv
<1>2. /\ req' \in [Workers -> Request]
      /\ \A v \in Workers : req'[v] = IF v = w THEN Idle ELSE req[v]
      /\ LockInv'
      /\ \A v \in Workers : ~req'[v].locked
  BY <1>1, FinishReq DEF AutosaveCommit
<1>3. r.latest = n /\ r.sid \in SubmissionIds /\ n \in Nat /\ r.arg \in Nat
  BY <1>1, RequestType DEF SnapshotInv
<1>4. \A v \in Workers : ~Rewrites(v)'
  BY <1>2 DEF Rewrites
<1>5. CASE n = 0
  <2> DEFINE row == [status |-> "draft", sid |-> r.sid, rev |-> r.arg,
                     submitted |-> FALSE]
  <2>1. row \in SubRow
    BY <1>3 DEF SubRow, SubStatus
  <2>2. subs' = Append(subs, row)
    BY <1>3, <1>5 DEF AutosaveCommit
  <2>3. subs' \in Seq(SubRow) /\ Len(subs') = 1 /\ subs'[1] = row
    BY <2>1, <2>2, <1>5, AppendRow DEF TypeOK
  <2>4. acked = {} /\ issue.status \notin Submitted
    BY <1>5 DEF AckInv, FinalIssueHasSubmission
  <2>5. ASSUME NEW v \in Workers PROVE SnapshotInv!(v)'
    BY <1>2, <1>4, <1>5, <2>5 DEF SnapshotInv, Idle
  <2> QED BY <1>2, <2>3, <2>4, <2>5
    DEF AutosaveCommit, TypeOK, RowInv, DraftIsAlone, SnapshotInv, AckInv,
        FinalIssueHasSubmission
<1>6. CASE n # 0
  <2> DEFINE row == [subs[n] EXCEPT !.sid = r.sid, !.rev = r.arg]
  <2>1. n \in 1..n /\ subs[n] \in SubRow /\ ~subs[n].submitted /\ Rewrites(w)
    BY <1>1, <1>3, <1>6, RowType DEF SnapshotInv, TypeOK
  <2>2. /\ row \in SubRow
        /\ row.status = subs[n].status /\ row.submitted = subs[n].submitted
    BY <1>3, <2>1 DEF SubRow
  <2>3. subs' = [subs EXCEPT ![n] = row]
    BY <1>3, <1>6 DEF AutosaveCommit
  <2>4. /\ subs' \in Seq(SubRow) /\ Len(subs') = n
        /\ \A i \in 1..n : subs'[i] = IF i = n THEN row ELSE subs[i]
    BY <2>1, <2>2, <2>3, ReplaceRow DEF TypeOK
  <2>5. \A i \in 1..n : /\ subs'[i].status = subs[i].status
                        /\ subs'[i].submitted = subs[i].submitted
    BY <2>2, <2>4
  <2>6. SnapshotInv'
    <3> SUFFICES ASSUME NEW v \in Workers PROVE SnapshotInv!(v)'
      BY DEF SnapshotInv
    <3> QED BY <1>2, <1>4, <2>4, <2>5 DEF SnapshotInv, Idle
  <2>7. AckInv'
    <3> SUFFICES ASSUME NEW sid \in acked
                 PROVE  \E i \in 1..n : subs'[i].status # "draft"
                                       /\ subs'[i].sid = sid
      BY <1>4, <2>4 DEF AckInv, AutosaveCommit
    <3>1. PICK i \in 1..n : /\ subs[i].status # "draft"
                            /\ subs[i].sid = sid
                            /\ i # n
      BY <2>1 DEF AckInv
    <3>2. subs'[i] = subs[i]
      BY <3>1, <2>4
    <3> QED BY <3>1, <3>2
  <2>8. TypeOK'
    BY <1>1, <1>2, <2>4 DEF TypeOK, AutosaveCommit
  <2>9. (RowInv /\ DraftIsAlone /\ FinalIssueHasSubmission)'
    BY <2>4, <2>5 DEF RowInv, DraftIsAlone, FinalIssueHasSubmission, AutosaveCommit
  <2> QED BY <1>2, <2>6, <2>7, <2>8, <2>9
<1> QED BY <1>5, <1>6

\* A submit turns the draft it read under the lock into the submitted row, or
\* adds that row to a table without a draft.
LEMMA SubmitCommitKeeps ==
    ASSUME IInv, NEW w \in Workers, NEW final \in {"completed", "review_pending"},
           SubmitCommit(w, final)
    PROVE  /\ IInv'
           /\ \A i \in 1..Len(subs) : subs[i].submitted => subs'[i] = subs[i]
           /\ Len(subs) <= Len(subs')
<1> USE DEF IInv
<1> DEFINE r == req[w]
           n == Len(subs)
           row == [status |-> final, sid |-> r.sid, rev |-> 0, submitted |-> TRUE]
<1>1. r.locked /\ r.op = "submit" /\ lock = w /\ lock' = NoWorker
  BY DEF SubmitCommit, Serving, LockInv
<1>2. /\ req' \in [Workers -> Request]
      /\ \A v \in Workers : req'[v] = IF v = w THEN Idle ELSE req[v]
      /\ LockInv'
      /\ \A v \in Workers : ~req'[v].locked
  BY <1>1, FinishReq DEF SubmitCommit
<1>3. r.latest = n /\ r.sid \in SubmissionIds /\ n \in Nat
  BY <1>1, RequestType DEF SnapshotInv
<1>0. n \in Nat
  BY <1>3
<1>4. \A v \in Workers : ~Rewrites(v)'
  BY <1>2 DEF Rewrites
<1>5. /\ row \in SubRow
      /\ row.submitted /\ row.status # "draft" /\ row.sid = r.sid
  BY <1>3 DEF SubRow, SubStatus, Submitted
<1>6. issue' \in IssueRow /\ acked' = acked \union {r.sid}
  BY DEF SubmitCommit, TypeOK, IssueRow, IssueStatus, Submitted
<1> DEFINE Stored(k) ==
             /\ subs' \in Seq(SubRow) /\ Len(subs') \in Nat
             /\ k \in 1..Len(subs') /\ subs'[k] = row
             /\ n <= Len(subs')
             /\ \A i \in 1..Len(subs') : i # k => i \in 1..n /\ subs'[i] = subs[i]
             /\ \A i \in 1..Len(subs') : subs'[i].status # "draft"
             /\ k \in 1..n => ~subs[k].submitted /\ Rewrites(w) /\ k = n
<1>7. PICK k \in Nat : Stored(k)
  <2>1. CASE r.subStatus = "draft"
    <3>1. Rewrites(w) /\ n \in 1..n /\ ~subs[n].submitted
      BY <1>1, <1>3, <2>1 DEF SnapshotInv, Rewrites
    <3>2. subs' = [subs EXCEPT ![n] = row]
      BY <1>3, <2>1 DEF SubmitCommit
    <3>3. /\ subs' \in Seq(SubRow) /\ Len(subs') = n
          /\ \A i \in 1..n : subs'[i] = IF i = n THEN row ELSE subs[i]
      BY <1>5, <3>1, <3>2, ReplaceRow DEF TypeOK
    <3>4. ASSUME NEW i \in 1..n, i # n PROVE subs[i].status # "draft"
      <4>1. n # 1
        BY <1>0, <3>4, NotLast, Zenon
      <4> QED BY <4>1 DEF DraftIsAlone
    <3>5. \A i \in 1..n : subs'[i].status # "draft"
      BY <1>5, <3>3, <3>4
    <3>6. n <= Len(subs') /\ n \in 1..Len(subs') /\ subs'[n] = row
      <4>1. n <= n
        BY <1>0
      <4> QED BY <4>1, <3>1, <3>3, Zenon
    <3>7. \A i \in 1..Len(subs') : i # n => i \in 1..n /\ subs'[i] = subs[i]
      BY <3>3
    <3>8. Stored(n)
      BY <1>3, <3>1, <3>3, <3>5, <3>6, <3>7, Zenon
    <3> QED BY <1>3, <3>8
  <2>2. CASE r.subStatus # "draft"
    <3>1. ~Rewrites(w) /\ \A i \in 1..n : subs[i].status # "draft"
      BY <1>1, <2>2 DEF SnapshotInv, Rewrites
    <3>2. subs' = Append(subs, row)
      BY <2>2 DEF SubmitCommit
    <3>3. /\ subs' \in Seq(SubRow) /\ Len(subs') = n + 1
          /\ \A i \in 1..n : subs'[i] = subs[i]
          /\ subs'[n + 1] = row
      BY <1>5, <3>2, AppendRow DEF TypeOK
    <3>4. Stored(n + 1)
      BY <1>3, <1>5, <3>1, <3>3
    <3> QED BY <1>3, <3>4
  <2> QED BY <2>1, <2>2
<1>8. TypeOK'
  BY <1>1, <1>2, <1>3, <1>6, <1>7 DEF TypeOK, SubmitCommit
<1>9. SnapshotInv'
  <2> SUFFICES ASSUME NEW v \in Workers PROVE SnapshotInv!(v)'
    BY DEF SnapshotInv
  <2> QED BY <1>2, <1>3, <1>4, <1>7 DEF SnapshotInv, Idle
<1>10. AckInv'
  <2> SUFFICES ASSUME NEW sid \in acked'
               PROVE  \E i \in 1..Len(subs') : subs'[i].status # "draft"
                                              /\ subs'[i].sid = sid
    BY <1>4 DEF AckInv
  <2>1. CASE sid = r.sid
    BY <1>5, <1>7, <2>1
  <2>2. CASE sid # r.sid
    <3>1. PICK i \in 1..n : /\ subs[i].status # "draft"
                            /\ subs[i].sid = sid
                            /\ Rewrites(w) => i # n
      BY <1>6, <2>2 DEF AckInv
    <3>2. i \in 1..Len(subs') /\ i # k
      BY <1>3, <1>7, <3>1
    <3> QED BY <1>7, <3>1, <3>2
  <2> QED BY <2>1, <2>2
<1>11. (RowInv /\ DraftIsAlone /\ FinalIssueHasSubmission)'
  BY <1>7 DEF RowInv, DraftIsAlone, FinalIssueHasSubmission
<1>12. /\ \A i \in 1..n : subs[i].submitted => subs'[i] = subs[i]
       /\ n <= Len(subs')
  BY <1>3, <1>7
<1> QED BY <1>2, <1>8, <1>9, <1>10, <1>11, <1>12

\* A review finalises the row it read, and the issue with it.
LEMMA ReviewCommitKeeps ==
    ASSUME IInv, NEW w \in Workers, ReviewCommit(w)
    PROVE  /\ IInv'
           /\ Len(subs') = Len(subs)
           /\ \A i \in 1..Len(subs) :
                /\ subs'[i].sid = subs[i].sid
                /\ subs'[i].rev = subs[i].rev
                /\ subs'[i].submitted = subs[i].submitted
                /\ subs'[i].status = "draft" => subs[i].status = "draft"
<1> USE DEF IInv
<1> DEFINE r == req[w]
           n == Len(subs)
           k == r.latest
           row == [subs[k] EXCEPT !.status =
                     Written(subs[k].status, r.subStatus, "reviewed")]
<1>1. r.op = "review" /\ ~r.locked
  BY DEF ReviewCommit, Serving
<1>2. lock # w /\ lock' = lock
  BY <1>1 DEF LockInv, ReviewCommit
<1>3. /\ req' \in [Workers -> Request]
      /\ \A v \in Workers : req'[v] = IF v = w THEN Idle ELSE req[v]
      /\ LockInv'
      /\ \A v \in Workers : Rewrites(v)' => Rewrites(v)
  BY <1>2, FinishReq DEF ReviewCommit
<1>4. k \in 1..n /\ subs[k] \in SubRow /\ n \in Nat
  BY <1>1, RowType, LenProperties DEF SnapshotInv, TypeOK
<1>5. /\ row \in SubRow /\ row.sid = subs[k].sid /\ row.rev = subs[k].rev
      /\ row.submitted = subs[k].submitted
      /\ row.status = Written(subs[k].status, r.subStatus, "reviewed")
  BY <1>4 DEF SubRow, SubStatus, Submitted, Written
<1>6. row.status # "draft"
  BY <1>1, <1>5 DEF SnapshotInv, Written
<1>7. /\ subs' \in Seq(SubRow) /\ Len(subs') = n
      /\ \A i \in 1..n : subs'[i] = IF i = k THEN row ELSE subs[i]
  <2>1. subs' = [subs EXCEPT ![k] = row]
    BY DEF ReviewCommit
  <2> QED BY <1>4, <1>5, <2>1, ReplaceRow DEF TypeOK
<1>8. \A i \in 1..n :
        /\ subs'[i].sid = subs[i].sid
        /\ subs'[i].rev = subs[i].rev
        /\ subs'[i].submitted = subs[i].submitted
        /\ subs'[i].status = "draft" => subs[i].status = "draft"
  BY <1>5, <1>6, <1>7
<1>9. issue' \in IssueRow
  BY DEF ReviewCommit, TypeOK, IssueRow, IssueStatus, Submitted, Written
<1>10. TypeOK'
  BY <1>2, <1>3, <1>7, <1>9 DEF TypeOK, ReviewCommit
<1>11. SnapshotInv'
  <2> SUFFICES ASSUME NEW v \in Workers, v # w PROVE SnapshotInv!(v)'
    BY <1>3 DEF SnapshotInv, Idle, Rewrites
  <2>1. /\ req'[v] = req[v] /\ (Rewrites(v)' <=> Rewrites(v))
    BY <1>3 DEF Rewrites
  <2>2. SnapshotInv!(v)
    BY DEF SnapshotInv
  <2>3. req[v].op = "review" => req[v].latest \in 1..n
    BY <2>2
  <2> QED BY <1>4, <1>7, <1>8, <2>1, <2>2, <2>3
<1>12. AckInv'
  <2> SUFFICES ASSUME NEW sid \in acked PROVE AckInv!(sid)'
    BY DEF AckInv, ReviewCommit
  <2>1. PICK i \in 1..n : /\ subs[i].status # "draft" /\ subs[i].sid = sid
                          /\ \A v \in Workers : Rewrites(v) => i # n
    BY DEF AckInv
  <2>2. \A v \in Workers : Rewrites(v)' => i # Len(subs')
    BY <1>3, <1>7, <2>1
  <2> QED BY <1>7, <1>8, <2>1, <2>2
<1>13. (RowInv /\ DraftIsAlone)'
  BY <1>7, <1>8 DEF RowInv, DraftIsAlone
<1>14. FinalIssueHasSubmission'
  BY <1>4, <1>5, <1>6, <1>7 DEF FinalIssueHasSubmission
<1> QED BY <1>3, <1>7, <1>8, <1>10, <1>11, <1>12, <1>13, <1>14

-----------------------------------------------------------------------------
(* Theorems. *)

\* The initial row satisfies the invariant.
LEMMA InitIInv == Init => IInv
<1> SUFFICES ASSUME Init PROVE IInv
  OBVIOUS
<1>1. subs \in Seq(SubRow) /\ Len(subs) = 0
  BY EmptySeq DEF Init
<1>2. Idle \in Request /\ Idle.locked = FALSE /\ Idle.op = "idle"
  BY DEF Idle, Request, FirstInvite, IssueRow, Ops, IssueStatus
<1>3. TypeOK
  BY <1>1, <1>2 DEF Init, TypeOK, FirstInvite, IssueRow, IssueStatus
<1>4. LockInv /\ SnapshotInv /\ AckInv
  BY <1>1, <1>2, ConstantsAssumption
    DEF Init, LockInv, SnapshotInv, AckInv, Rewrites
<1>5. RowInv /\ DraftIsAlone /\ FinalIssueHasSubmission
  BY <1>1 DEF Init, RowInv, DraftIsAlone, FinalIssueHasSubmission, FirstInvite,
              Submitted
<1> QED BY <1>3, <1>4, <1>5 DEF IInv

\* What a step does to the rows that were submitted.
Kept == \A i \in 1..Len(subs) : subs[i].submitted =>
          /\ i <= Len(subs')
          /\ subs'[i].submitted
          /\ subs'[i].status # "draft"
          /\ subs'[i].sid = subs[i].sid
          /\ subs'[i].rev = subs[i].rev

\* A reply "submitted" to a retry is given for a row that is no draft.
LEMMA SubmitAgainKeeps ==
    ASSUME IInv, NEW w \in Workers, SubmitAgain(w)
    PROVE  IInv'
<1> DEFINE n == Len(subs)
<1>1. lock # w /\ lock' = lock /\ \A v \in Workers : ~req[v].locked
  BY ConstantsAssumption DEF SubmitAgain, IInv, LockInv
<1>2. /\ req' \in [Workers -> Request]
      /\ \A v \in Workers : req'[v] = IF v = w THEN Idle ELSE req[v]
      /\ LockInv'
      /\ \A v \in Workers : ~Rewrites(v)'
  BY <1>1, FinishReq DEF SubmitAgain, IInv, Rewrites
<1>3. n \in Nat /\ req[w].sid \in SubmissionIds
  BY RequestType DEF SubmitAgain, Serving, IInv, SnapshotInv
<1>4. TypeOK'
  BY <1>1, <1>2, <1>3 DEF SubmitAgain, IInv, TypeOK
<1>5. SnapshotInv'
  <2> SUFFICES ASSUME NEW v \in Workers, v # w PROVE SnapshotInv!(v)'
    BY <1>2 DEF SnapshotInv, Idle
  <2> QED BY <1>1, <1>2 DEF SubmitAgain, IInv, SnapshotInv, Rewrites
<1>6. PICK j \in 1..n : subs[j].status # "draft"
  BY DEF SubmitAgain, IInv, FinalIssueHasSubmission
<1>7. n \in 1..n /\ subs[n].status # "draft"
  <2>1. n \in 1..n
    BY <1>3, <1>6
  <2>2. CASE j = n
    BY <1>6, <2>2
  <2>3. CASE j # n
    <3>1. n # 1
      BY <1>3, <1>6, <2>3, NotLast, Zenon
    <3> QED BY <2>1, <3>1 DEF IInv, DraftIsAlone
  <2> QED BY <2>1, <2>2, <2>3
<1>8. AckInv'
  <2> SUFFICES ASSUME NEW sid \in acked'
               PROVE  \E i \in 1..n : subs[i].status # "draft" /\ subs[i].sid = sid
    BY <1>2 DEF AckInv, SubmitAgain
  <2>1. sid \in acked \/ sid = subs[n].sid
    BY DEF SubmitAgain
  <2> QED BY <1>7, <2>1 DEF IInv, AckInv
<1>9. (RowInv /\ DraftIsAlone /\ FinalIssueHasSubmission)'
  BY DEF SubmitAgain, IInv, RowInv, DraftIsAlone, FinalIssueHasSubmission
<1> QED BY <1>2, <1>4, <1>5, <1>8, <1>9 DEF IInv

\* An autosave leaves the submitted rows alone.
LEMMA AutosaveKept ==
    ASSUME IInv, NEW w \in Workers, AutosaveCommit(w)
    PROVE  Kept
<1> DEFINE r == req[w]
           n == Len(subs)
<1>1. r.locked /\ r.op = "autosave" /\ r.latest = n /\ n \in Nat
  BY RequestType DEF AutosaveCommit, Serving, IInv, SnapshotInv
<1>2. CASE n = 0
  BY <1>2 DEF Kept
<1>3. CASE n # 0
  <2>1. Rewrites(w) /\ ~subs[n].submitted /\ n \in 1..n
    BY <1>1, <1>3 DEF IInv, SnapshotInv
  <2>2. subs' = [subs EXCEPT ![n] = [subs[n] EXCEPT !.sid = r.sid, !.rev = r.arg]]
    BY <1>1, <1>3 DEF AutosaveCommit
  <2>3. Len(subs') = n /\ \A i \in 1..n : i # n => subs'[i] = subs[i]
    BY <1>1, <2>1, <2>2, ExceptSeq DEF IInv, TypeOK
  <2> QED BY <1>1, <2>1, <2>3 DEF Kept, IInv, RowInv
<1> QED BY <1>2, <1>3

\* A step that writes no submission keeps the submitted ones.
LEMMA UnchangedKept ==
    ASSUME IInv, subs' = subs
    PROVE  Kept
BY LenProperties DEF Kept, IInv, RowInv, TypeOK

\* The steps of the candidate.
LEMMA CandidateStep ==
    ASSUME IInv, NEW w \in Workers, Candidate(w)
    PROVE  IInv' /\ Kept
<1>1. CASE LoginRead(w)
  <2>1. Counters
    BY <1>1 DEF LoginRead, Counters, IInv, TypeOK
  <2>2. IInv'
    BY <1>1, <2>1, BeginKeeps DEF LoginRead, Ops, IInv, TypeOK
  <2> QED BY <1>1, <2>2, UnchangedKept DEF LoginRead
<1>2. CASE LoginCommit(w)
  <2>1. issue' \in IssueRow /\ (issue'.status \in Submitted => issue.status \in Submitted)
    BY <1>2, RequestType
      DEF LoginCommit, IInv, TypeOK, IssueRow, IssueStatus, Submitted, Written
  <2>2. sessions' \subseteq Nat
    BY <1>2, RequestType DEF LoginCommit, IInv, TypeOK
  <2>3. lock # w
    BY <1>2 DEF LoginCommit, Serving, IInv, LockInv
  <2>4. IInv'
    BY <1>2, <2>1, <2>2, <2>3, FinishKeeps DEF LoginCommit
  <2> QED BY <1>2, <2>4, UnchangedKept DEF LoginCommit
<1>3. CASE \E t \in sessions, sid \in SubmissionIds, rev \in 1..MaxRevision :
             AutosaveRead(w, t, sid, rev)
  <2> PICK t \in sessions, sid \in SubmissionIds, rev \in 1..MaxRevision :
             AutosaveRead(w, t, sid, rev)
    BY <1>3
  <2>1. Counters
    BY DEF AutosaveRead, Counters, IInv, TypeOK
  <2>2. rev \in Nat
    BY ConstantsAssumption
  <2>3. IInv'
    BY <2>1, <2>2, BeginKeeps DEF AutosaveRead, Ops
  <2> QED BY <2>3, UnchangedKept DEF AutosaveRead
<1>4. CASE \E t \in sessions, sid \in SubmissionIds : SubmitRead(w, t, sid)
  <2> PICK t \in sessions, sid \in SubmissionIds : SubmitRead(w, t, sid)
    BY <1>4
  <2>1. Counters /\ t \in Nat
    BY DEF SubmitRead, Counters, IInv, TypeOK
  <2>2. IInv'
    BY <2>1, BeginKeeps DEF SubmitRead, Ops
  <2> QED BY <2>2, UnchangedKept DEF SubmitRead
<1>5. CASE AutosaveLock(w)
  <2>1. req[w] = [req[w] EXCEPT !.row = req[w].row] /\ req[w].row \in IssueRow
    BY DEF IInv, TypeOK, Request
  <2>2. req' = [req EXCEPT ![w].locked = TRUE, ![w].row = req[w].row,
                           ![w].latest = Len(subs), ![w].subStatus = LatestStatus]
    BY <1>5, <2>1 DEF AutosaveLock
  <2>3. IInv'
    BY <1>5, <2>1, <2>2, LockKeeps DEF AutosaveLock, Serving, NewRevision
  <2> QED BY <1>5, <2>3, UnchangedKept DEF AutosaveLock
<1>6. CASE AutosaveRefused(w)
  <2>1. lock # w
    BY <1>6, ConstantsAssumption DEF AutosaveRefused
  <2>2. IInv'
    BY <1>6, <2>1, FinishKeeps DEF AutosaveRefused, IInv, TypeOK
  <2> QED BY <1>6, <2>2, UnchangedKept DEF AutosaveRefused
<1>7. CASE AutosaveCommit(w)
  <2>1. IInv'
    BY <1>7, AutosaveCommitKeeps
  <2>2. Kept
    BY <1>7, AutosaveKept
  <2> QED BY <2>1, <2>2
<1>8. CASE SubmitLock(w)
  <2>1. IInv'
    BY <1>8, LockKeeps DEF SubmitLock, Serving, IInv, TypeOK
  <2> QED BY <1>8, <2>1, UnchangedKept DEF SubmitLock
<1>9. CASE SubmitAgain(w)
  <2>1. IInv'
    BY <1>9, SubmitAgainKeeps
  <2> QED BY <1>9, <2>1, UnchangedKept DEF SubmitAgain
<1>10. CASE \E final \in {"completed", "review_pending"} : SubmitCommit(w, final)
  <2>1. /\ IInv'
        /\ \A i \in 1..Len(subs) : subs[i].submitted => subs'[i] = subs[i]
        /\ Len(subs) <= Len(subs')
    BY <1>10, SubmitCommitKeeps
  <2>2. Len(subs) \in Nat /\ Len(subs') \in Nat
    BY <2>1, LenProperties DEF IInv, TypeOK
  <2>3. Kept
    BY <2>1, <2>2 DEF Kept, IInv, RowInv
  <2> QED BY <2>1, <2>3
<1> QED BY <1>1, <1>2, <1>3, <1>4, <1>5, <1>6, <1>7, <1>8, <1>9, <1>10
        DEF Candidate

\* The steps of the recruiter.
LEMMA RecruiterStep ==
    ASSUME IInv, NEW w \in Workers, Recruiter(w)
    PROVE  IInv' /\ Kept
<1>1. CASE RevokeRead(w)
  <2>1. Counters
    BY <1>1 DEF RevokeRead, Counters, IInv, TypeOK
  <2>2. IInv'
    BY <1>1, <2>1, BeginKeeps DEF RevokeRead, Ops
  <2> QED BY <1>1, <2>2, UnchangedKept DEF RevokeRead
<1>2. CASE RevokeCommit(w)
  <2>1. issue' \in IssueRow /\ issue'.status \notin Submitted
    BY <1>2, RequestType
      DEF RevokeCommit, IInv, TypeOK, IssueRow, IssueStatus, Submitted, Written
  <2>2. lock # w
    BY <1>2 DEF RevokeCommit, Serving, IInv, LockInv
  <2>3. IInv'
    BY <1>2, <2>1, <2>2, FinishKeeps DEF RevokeCommit, IInv, TypeOK
  <2> QED BY <1>2, <2>3, UnchangedKept DEF RevokeCommit
<1>3. CASE ResendRead(w)
  <2>1. Counters /\ invites + 1 \in Nat
    BY <1>3 DEF ResendRead, Counters, IInv, TypeOK
  <2>2. IInv'
    BY <1>3, <2>1, BeginKeeps DEF ResendRead, Ops
  <2> QED BY <1>3, <2>2, UnchangedKept DEF ResendRead
<1>4. CASE ResendCommit(w)
  <2>1. issue' \in IssueRow /\ (issue'.status \in Submitted => issue.status \in Submitted)
    BY <1>4, RequestType
      DEF ResendCommit, IInv, TypeOK, IssueRow, IssueStatus, Submitted, Written
  <2>2. lock # w
    BY <1>4 DEF ResendCommit, Serving, IInv, LockInv
  <2>3. IInv'
    BY <1>4, <2>1, <2>2, FinishKeeps DEF ResendCommit, IInv, TypeOK
  <2> QED BY <1>4, <2>3, UnchangedKept DEF ResendCommit
<1>5. CASE ReviewRead(w)
  <2>1. Counters
    BY <1>5 DEF ReviewRead, Counters, IInv, TypeOK
  <2>2. IInv'
    BY <1>5, <2>1, BeginKeeps DEF ReviewRead, Ops
  <2> QED BY <1>5, <2>2, UnchangedKept DEF ReviewRead
<1>6. CASE ReviewCommit(w)
  <2>1. /\ IInv'
        /\ Len(subs') = Len(subs)
        /\ \A i \in 1..Len(subs) :
             /\ subs'[i].sid = subs[i].sid
             /\ subs'[i].rev = subs[i].rev
             /\ subs'[i].submitted = subs[i].submitted
             /\ subs'[i].status = "draft" => subs[i].status = "draft"
    BY <1>6, ReviewCommitKeeps
  <2>2. Len(subs) \in Nat
    BY LenProperties DEF IInv, TypeOK
  <2>3. Kept
    BY <2>1, <2>2 DEF Kept, IInv, RowInv
  <2> QED BY <2>1, <2>3
<1> QED BY <1>1, <1>2, <1>3, <1>4, <1>5, <1>6 DEF Recruiter

\* Every step preserves the invariant and keeps the submitted work.
LEMMA NextStep == IInv /\ [Next]_vars => IInv' /\ Kept
<1> SUFFICES ASSUME IInv, [Next]_vars PROVE IInv' /\ Kept
  OBVIOUS
<1>1. ASSUME NEW w \in Workers, Rollback(w) PROVE IInv' /\ Kept
  BY <1>1, FinishKeeps, UnchangedKept DEF Rollback, IInv, TypeOK
<1>2. CASE Expire
  <2>1. IInv'
    BY <1>2 DEF Expire, IInv, TypeOK, LockInv, RowInv, DraftIsAlone, SnapshotInv,
                AckInv, FinalIssueHasSubmission, Rewrites
  <2> QED BY <1>2, <2>1, UnchangedKept DEF Expire
<1>3. CASE UNCHANGED vars
  <2>1. IInv'
    BY <1>3 DEF vars, IInv, TypeOK, LockInv, RowInv, DraftIsAlone, SnapshotInv,
                AckInv, FinalIssueHasSubmission, Rewrites
  <2> QED BY <1>3, <2>1, UnchangedKept DEF vars
<1> QED BY <1>1, <1>2, <1>3, CandidateStep, RecruiterStep DEF Next

\* The invariant is inductive.
THEOREM Invariance == Spec => []IInv
<1>1. IInv /\ [Next]_vars => IInv'
  BY NextStep
<1> QED BY InitIInv, <1>1, PTL DEF Spec

\* Every variable of the issued-assessment handlers keeps its type.
THEOREM TypeCorrect == Spec => []TypeOK
BY Invariance, PTL DEF IInv

\* A submission_id answered "submitted" stays on record (exams.py:3009-3018,
\* 3091-3127, 3182-3268), for any number of concurrent requests.
THEOREM AckedWorkOnRecord == Spec => []AckedOnRecord
<1>1. IInv => AckedOnRecord
  BY DEF IInv, AckInv, AckedOnRecord
<1> QED BY Invariance, <1>1, PTL

\* There is at most one draft, and then no other submission.
THEOREM DraftsAreAlone == Spec => []DraftIsAlone
BY Invariance, PTL DEF IInv

\* A finished issue has finished work.
THEOREM FinishedHasWork == Spec => []FinalIssueHasSubmission
BY Invariance, PTL DEF IInv

\* No handler alters the answers of a submitted row or makes it a draft again.
THEOREM SubmittedWorkKept == Spec => SubmittedWorkImmutable
<1>1. IInv /\ [Next]_vars => [Kept]_vars
  BY NextStep
<1> QED BY Invariance, <1>1, PTL DEF Spec, SubmittedWorkImmutable, Kept

\* An issue has one submission: a draft or finished work.
THEOREM OneSubmissionEach == Spec => []OneSubmission
BY DraftsAreAlone, FinishedHasWork, PTL DEF OneSubmission

-----------------------------------------------------------------------------
(* Drafts move forward. *)

\* An autosave that holds the lock is newer than the draft it will overwrite.
Ahead(w) == (Rewrites(w) /\ req[w].op = "autosave" /\ subs[Len(subs)].sid = req[w].sid)
                => subs[Len(subs)].rev < req[w].arg
RevInv == \A w \in Workers : Ahead(w)

\* What a step does to a draft that stays one.
Forward == \A i \in 1..Len(subs) :
             (subs[i].status = "draft" /\ subs'[i].status = "draft"
                 /\ subs'[i].sid = subs[i].sid)
             => subs[i].rev <= subs'[i].rev

\* No row gets another submission_id or another revision.
SameRevs == /\ Len(subs') = Len(subs)
            /\ \A i \in 1..Len(subs) : /\ subs'[i].sid = subs[i].sid
                                      /\ subs'[i].rev = subs[i].rev

\* A row has a revision.
LEMMA RevisionType ==
    ASSUME IInv
    PROVE  /\ Len(subs) \in Nat
           /\ \A i \in 1..Len(subs) : subs[i].rev \in Nat
BY LenProperties, RowType DEF IInv, TypeOK, SubRow

\* A step that rewrites no draft keeps the order of revisions.
LEMMA SameRevsKeep ==
    ASSUME IInv, RevInv, SameRevs, NEW w \in Workers,
           \A v \in Workers \ {w} : req'[v] = req[v],
           Ahead(w)'
    PROVE  RevInv' /\ Forward
<1>1. Forward
  BY RevisionType DEF SameRevs, Forward
<1>2. ASSUME NEW v \in Workers, v # w PROVE Ahead(v)'
  <2>1. Rewrites(v) => Len(subs) \in 1..Len(subs)
    BY RevisionType DEF IInv, SnapshotInv
  <2> QED BY <1>2, <2>1 DEF RevInv, Ahead, Rewrites, SameRevs
<1> QED BY <1>1, <1>2 DEF RevInv

\* A request begins or ends: the worker will overwrite nothing.
LEMMA TurnKeeps ==
    ASSUME IInv, RevInv, SameRevs, NEW w \in Workers,
           \A v \in Workers \ {w} : req'[v] = req[v], ~req'[w].locked
    PROVE  RevInv' /\ Forward
<1>1. Ahead(w)'
  BY DEF Ahead, Rewrites
<1> QED BY <1>1, SameRevsKeep

\* The commits of the holder of the lock.
LEMMA HolderKeeps ==
    ASSUME IInv, RevInv, NEW w \in Workers, req[w].locked, Finish(w), Forward
    PROVE  RevInv' /\ Forward
<1>1. \A v \in Workers \ {w} : ~req[v].locked
  BY DEF IInv, LockInv
<1>2. \A v \in Workers : req'[v] = IF v = w THEN Idle ELSE req[v]
  BY DEF Finish, IInv, TypeOK
<1> QED BY <1>1, <1>2 DEF RevInv, Ahead, Rewrites, Idle

\* Every step keeps the order of revisions.
LEMMA RevStep == IInv /\ RevInv /\ [Next]_vars => RevInv' /\ Forward
<1> SUFFICES ASSUME IInv, RevInv, [Next]_vars PROVE RevInv' /\ Forward
  OBVIOUS
<1>1. subs' = subs => SameRevs
  BY DEF SameRevs
<1>2. ASSUME NEW w \in Workers, NEW op, NEW arg, NEW sid, subs' = subs, Begin(w, op, arg, sid)
      PROVE  RevInv' /\ Forward
  <2>1. ~req'[w].locked /\ \A v \in Workers \ {w} : req'[v] = req[v]
    BY <1>2 DEF Begin, IInv, TypeOK
  <2> QED BY <1>1, <1>2, <2>1, TurnKeeps
<1>3. ASSUME NEW w \in Workers, SameRevs, Finish(w)
      PROVE  RevInv' /\ Forward
  <2>1. ~req'[w].locked /\ \A v \in Workers \ {w} : req'[v] = req[v]
    BY <1>3 DEF Finish, Idle, IInv, TypeOK
  <2> QED BY <1>3, <2>1, TurnKeeps
<1>4. ASSUME NEW w \in Workers, AutosaveLock(w)
      PROVE  RevInv' /\ Forward
  <2>1. /\ subs' = subs /\ \A v \in Workers \ {w} : req'[v] = req[v]
        /\ req'[w].sid = req[w].sid /\ req'[w].arg = req[w].arg
        /\ req'[w].subStatus = LatestStatus
    BY <1>4 DEF AutosaveLock, IInv, TypeOK, Request
  <2>2. req[w].arg \in Nat
    BY DEF IInv, TypeOK, Request
  <2>3. ASSUME LatestStatus = "draft", subs[Len(subs)].sid = req[w].sid
        PROVE  subs[Len(subs)].rev < req[w].arg
    <3>1. subs # <<>>
      BY <2>3 DEF LatestStatus
    <3>2. ~(req[w].arg <= subs[Len(subs)].rev)
      BY <1>4, <2>3, <3>1 DEF AutosaveLock, NewRevision
    <3>3. Len(subs) \in 1..Len(subs)
      BY <3>1, RevisionType, EmptySeq DEF IInv, TypeOK
    <3> QED BY <2>2, <3>2, <3>3, RevisionType
  <2>4. Ahead(w)'
    BY <2>1, <2>3 DEF Ahead, Rewrites
  <2> QED BY <1>1, <2>1, <2>4, SameRevsKeep
<1>5. ASSUME NEW w \in Workers, SubmitLock(w)
      PROVE  RevInv' /\ Forward
  <2>1. /\ subs' = subs /\ \A v \in Workers \ {w} : req'[v] = req[v]
        /\ req'[w].op = "submit"
    BY <1>5 DEF SubmitLock, Serving, IInv, TypeOK, Request
  <2> QED BY <1>1, <2>1, SameRevsKeep DEF Ahead
<1>6. ASSUME NEW w \in Workers, AutosaveCommit(w)
      PROVE  RevInv' /\ Forward
  <2> DEFINE r == req[w]
             n == Len(subs)
  <2>1. r.locked /\ r.op = "autosave" /\ r.latest = n /\ n \in Nat /\ Finish(w)
    BY <1>6, RequestType DEF AutosaveCommit, Serving, IInv, SnapshotInv
  <2>2. CASE n = 0
    BY <2>1, <2>2, HolderKeeps DEF Forward
  <2>3. CASE n # 0
    <3>1. Rewrites(w) /\ n \in 1..n
      BY <2>1, <2>3 DEF IInv, SnapshotInv
    <3>2. subs' = [subs EXCEPT ![n] = [subs[n] EXCEPT !.sid = r.sid, !.rev = r.arg]]
      BY <1>6, <2>1, <2>3 DEF AutosaveCommit
    <3>3. subs[n] \in SubRow
      BY <3>1, RowType DEF IInv, TypeOK
    <3>4. /\ \A i \in 1..n : i # n => subs'[i] = subs[i]
          /\ subs'[n].sid = r.sid /\ subs'[n].rev = r.arg
      BY <3>1, <3>2, <3>3, ExceptSeq DEF IInv, TypeOK, SubRow
    <3>5. r.arg \in Nat
      BY DEF IInv, TypeOK, Request
    <3>6. subs[n].sid = r.sid => subs[n].rev < r.arg
      BY <2>1, <3>1 DEF RevInv, Ahead
    <3>7. Forward
      BY <3>1, <3>4, <3>5, <3>6, RevisionType DEF Forward
    <3> QED BY <2>1, <3>7, HolderKeeps
  <2> QED BY <2>2, <2>3
<1>7. ASSUME NEW w \in Workers, NEW final \in {"completed", "review_pending"},
             SubmitCommit(w, final)
      PROVE  RevInv' /\ Forward
  <2> DEFINE n == Len(subs)
             row == [status |-> final, sid |-> req[w].sid, rev |-> 0, submitted |-> TRUE]
  <2>1. req[w].locked /\ req[w].op = "submit" /\ req[w].latest = n /\ n \in Nat /\ Finish(w)
    BY <1>7, RequestType DEF SubmitCommit, Serving, IInv, SnapshotInv
  <2>2. row \in SubRow /\ row.status # "draft"
    BY <2>1 DEF IInv, SnapshotInv, SubRow, SubStatus, Submitted
  <2>3. \A i \in 1..n : subs'[i] = subs[i] \/ subs'[i] = row
    <3>1. CASE req[w].subStatus = "draft"
      <4>1. n \in 1..n
        BY <2>1, <3>1 DEF IInv, SnapshotInv, Rewrites
      <4>2. subs' = [subs EXCEPT ![n] = row]
        BY <1>7, <2>1, <3>1 DEF SubmitCommit
      <4> QED BY <2>2, <4>1, <4>2, ReplaceRow DEF IInv, TypeOK
    <3>2. CASE req[w].subStatus # "draft"
      <4>1. subs' = Append(subs, row)
        BY <1>7, <3>2 DEF SubmitCommit
      <4> QED BY <2>2, <4>1, AppendRow DEF IInv, TypeOK
    <3> QED BY <3>1, <3>2
  <2>4. Forward
    BY <2>2, <2>3, RevisionType DEF Forward
  <2> QED BY <2>1, <2>4, HolderKeeps
<1>8. ASSUME NEW w \in Workers, ReviewCommit(w)
      PROVE  RevInv' /\ Forward
  <2> DEFINE k == req[w].latest
             row == subs[k]
             new == [row EXCEPT !.status = Written(row.status, req[w].subStatus, "reviewed")]
  <2>1. k \in 1..Len(subs) /\ Finish(w) /\ subs' = [subs EXCEPT ![k] = new]
    BY <1>8 DEF ReviewCommit, Serving, IInv, SnapshotInv
  <2>2. row \in SubRow
    BY <2>1, RowType DEF IInv, TypeOK
  <2>3. new.sid = row.sid /\ new.rev = row.rev
    BY <2>2 DEF SubRow
  <2>4. Len(subs') = Len(subs) /\ \A i \in 1..Len(subs) :
           subs'[i] = IF i = k THEN new ELSE subs[i]
    BY <2>1, ExceptSeq DEF IInv, TypeOK
  <2>5. SameRevs
    BY <2>3, <2>4 DEF SameRevs
  <2> QED BY <1>3, <2>1, <2>5
<1>9. ASSUME NEW w \in Workers, Candidate(w)
      PROVE  RevInv' /\ Forward
  <2>1. CASE LoginRead(w)
    BY <1>2, <2>1 DEF LoginRead
  <2>2. CASE LoginCommit(w) \/ AutosaveRefused(w) \/ SubmitAgain(w)
    BY <1>1, <1>3, <2>2 DEF LoginCommit, AutosaveRefused, SubmitAgain
  <2>3. ASSUME NEW t \in sessions, NEW sid \in SubmissionIds,
               \/ \E rev \in 1..MaxRevision : AutosaveRead(w, t, sid, rev)
               \/ SubmitRead(w, t, sid)
        PROVE  RevInv' /\ Forward
    BY <1>2, <2>3 DEF AutosaveRead, SubmitRead
  <2> QED BY <1>4, <1>5, <1>6, <1>7, <1>9, <2>1, <2>2, <2>3 DEF Candidate
<1>10. ASSUME NEW w \in Workers, Recruiter(w)
       PROVE  RevInv' /\ Forward
  <2>1. CASE RevokeRead(w) \/ ResendRead(w) \/ ReviewRead(w)
    BY <1>2, <2>1 DEF RevokeRead, ResendRead, ReviewRead
  <2>2. CASE RevokeCommit(w) \/ ResendCommit(w)
    BY <1>1, <1>3, <2>2 DEF RevokeCommit, ResendCommit
  <2> QED BY <1>8, <1>10, <2>1, <2>2 DEF Recruiter
<1>11. ASSUME NEW w \in Workers, Rollback(w)
       PROVE  RevInv' /\ Forward
  BY <1>1, <1>3, <1>11 DEF Rollback
<1>12. CASE Expire \/ UNCHANGED vars
  <2>1. subs' = subs /\ req' = req
    BY <1>12 DEF Expire, vars
  <2> QED BY <2>1, RevisionType DEF RevInv, Ahead, Rewrites, Forward
<1> QED BY <1>9, <1>10, <1>11, <1>12 DEF Next

\* What is saved or submitted is not lost to a later or a late request: the
\* draft of a browser keeps its newest revision (exams.py:2831-2858), and
\* submitted work stays as it is.
THEOREM WorkIsKept == Spec => WorkKept
<1>1. Init => RevInv
  BY EmptySeq DEF Init, RevInv, Ahead, Rewrites, Idle
<1>2. IInv /\ RevInv /\ [Next]_vars => RevInv'
  BY RevStep
<1>3. IInv /\ RevInv /\ [Next]_vars => [Forward]_vars
  BY RevStep
<1>4. Spec => DraftsMoveForward
  BY Invariance, <1>1, <1>2, <1>3, PTL DEF Spec, DraftsMoveForward, Forward
<1> QED BY SubmittedWorkKept, <1>4 DEF WorkKept
=============================================================================
