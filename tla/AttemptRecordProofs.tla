------------------------ MODULE AttemptRecordProofs ------------------------
(***************************************************************************)
(* For any number of workers, signals and any threshold: a flag rests on   *)
(* as many different signals as the policy asks for, however requests      *)
(* interleave; and as long as none overlap, nothing leaves the record and  *)
(* a flagged attempt is not completed without a review.  The first holds   *)
(* because every record, stored or loaded, names raised signals only; the  *)
(* rest because a request that runs alone has loaded what is stored.       *)
(***************************************************************************)
EXTENDS MCAttemptRecord, FiniteSetTheorems, TLAPS

\* A record names raised signals, and enough of them if it is flagged.
Honest(record) ==
    /\ record.events \subseteq raised
    /\ record.flagged => Cardinality(raised) >= Threshold

HonestInv ==
    /\ Honest(issue.record)
    /\ \A w \in Workers : Honest(req[w].issue.record) /\ req[w].signals \subseteq raised

\* A request that runs alone has loaded the row as it is.
AloneInv ==
    ~overlapped => \A w \in Workers : Busy(w) =>
        /\ req[w].issue = issue
        /\ \A v \in Workers : Busy(v) => v = w

\* Signals are taken of attempts in progress.
OpenInv == \A w \in Workers :
    req[w].op = "signal" => req[w].issue.status \notin Submitted

IInv == TypeOK /\ HonestInv /\ AloneInv /\ OpenInv /\ FlaggedIsReviewed
-----------------------------------------------------------------------------
LEMMA NewIssueType == NewRecord \in Record /\ NewIssue \in Issue
  BY DEF NewRecord, Record, NewIssue, Issue, Submitted

LEMMA IdleType == Idle \in Request
  BY NewIssueType DEF Idle, Request, Ops

LEMMA RaisedFinite ==
  ASSUME TypeOK
  PROVE  IsFiniteSet(raised) /\ Cardinality(raised) \in Nat
  BY AttemptAssumption, FS_Subset, FS_CardinalityType DEF TypeOK

\* A larger set of raised signals keeps a record honest.
LEMMA HonestKept ==
  ASSUME TypeOK, NEW r \in Record, Honest(r),
         raised \subseteq raised', raised' \subseteq Signals
  PROVE  Honest(r)'
<1>1. IsFiniteSet(raised')
  BY AttemptAssumption, FS_Subset
<1>2. Cardinality(raised) <= Cardinality(raised')
  BY <1>1, FS_Subset
<1>3. Cardinality(raised) \in Nat /\ Cardinality(raised') \in Nat
  BY <1>1, RaisedFinite, FS_CardinalityType
<1> QED BY <1>2, <1>3, AttemptAssumption DEF Honest

LEMMA InitIInv == Init => IInv
<1> SUFFICES ASSUME Init PROVE IInv
  OBVIOUS
<1>1. PICK w \in Workers :
        req = [v \in Workers |-> IF v = w THEN [Idle EXCEPT !.op = "issue"] ELSE Idle]
  BY DEF Init
<1>2. [Idle EXCEPT !.op = "issue"] \in Request
  BY IdleType DEF Request, Ops
<1>3. \A v \in Workers : /\ req[v].issue = NewIssue /\ req[v].signals = {}
                         /\ req[v].op \in {"issue", "idle"} /\ (Busy(v) => v = w)
  BY <1>1 DEF Idle, Busy
<1>4. TypeOK
  BY <1>1, <1>2, IdleType, NewIssueType DEF Init, TypeOK
<1>5. Honest(NewRecord) /\ NewIssue.record = NewRecord /\ issue = NewIssue
  BY DEF Honest, NewRecord, NewIssue, Init
<1>6. HonestInv
  BY <1>3, <1>5 DEF HonestInv
<1>7. AloneInv /\ OpenInv
  BY <1>3, <1>5 DEF AloneInv, OpenInv
<1>8. FlaggedIsReviewed
  BY <1>5 DEF FlaggedIsReviewed, NewRecord
<1> QED BY <1>4, <1>6, <1>7, <1>8 DEF IInv
-----------------------------------------------------------------------------
(* The three kinds of steps. *)

\* A request begins.
LEMMA BeginKeeps ==
  ASSUME IInv, NEW w \in Workers, NEW op \in Ops \ {"idle"}, NEW S \in SUBSET Signals,
         Begin(w, op, S),
         raised \subseteq raised', raised' \subseteq Signals, S \subseteq raised',
         op = "signal" => issue.status \notin Submitted
  PROVE  IInv'
<1> USE DEF IInv, Begin
<1>1. [op |-> op, locked |-> FALSE, issue |-> issue, signals |-> S] \in Request
  BY DEF TypeOK, Request
<1>2. TypeOK'
  BY <1>1 DEF TypeOK
<1>3. /\ \A v \in Workers : v # w => req'[v] = req[v]
      /\ req'[w].op = op /\ req'[w].issue = issue /\ req'[w].signals = S
  BY DEF TypeOK
<1>4. HonestInv'
  <2>1. \A r \in Record : Honest(r) => Honest(r)'
    BY HonestKept
  <2>2. issue.record \in Record /\ \A v \in Workers : req[v].issue.record \in Record
    BY DEF TypeOK, Issue, Request
  <2>3. Honest(issue.record)' /\ \A v \in Workers : v # w => Honest(req[v].issue.record)'
    BY <2>1, <2>2 DEF HonestInv
  <2> QED BY <1>3, <2>3 DEF HonestInv
<1>5. AloneInv'
  <2>1. \A v \in Workers : v # w => Busy(v)' = Busy(v)
    BY <1>3 DEF Busy
  <2> QED BY <1>3, <2>1 DEF AloneInv
<1>6. OpenInv'
  BY <1>3 DEF OpenInv
<1>7. FlaggedIsReviewed'
  BY DEF FlaggedIsReviewed
<1> QED BY <1>2, <1>4, <1>5, <1>6, <1>7

\* A request ends, with its commit or without.
LEMMA FinishKeeps ==
  ASSUME IInv, NEW w \in Workers, Finish(w),
         issue' \in Issue, Honest(issue'.record),
         submitted' \in BOOLEAN,
         ~overlapped /\ issue'.record.flagged => issue'.status # "completed",
         Busy(w)
  PROVE  IInv'
<1> USE DEF IInv, Finish
<1>1. TypeOK'
  BY IdleType DEF TypeOK
<1>2. /\ \A v \in Workers : v # w => req'[v] = req[v]
      /\ req'[w] = Idle
  BY DEF TypeOK
<1>3. HonestInv'
  <2>1. Honest(Idle.issue.record)
    BY DEF Honest, Idle, NewIssue, NewRecord
  <2> QED BY <1>2, <2>1 DEF HonestInv, Honest, Idle
<1>4. AloneInv'
  BY <1>2 DEF AloneInv, Busy, Idle
<1>5. OpenInv'
  BY <1>2 DEF OpenInv, Idle
<1>6. FlaggedIsReviewed'
  BY DEF FlaggedIsReviewed
<1> QED BY <1>1, <1>3, <1>4, <1>5, <1>6

LEMMA SubmitLockKeeps ==
  ASSUME IInv, NEW w \in Workers, SubmitLock(w)
  PROVE  IInv'
<1> USE DEF IInv, SubmitLock
<1>1. TypeOK'
  BY DEF TypeOK, Request
<1>2. /\ \A v \in Workers : v # w => req'[v] = req[v]
      /\ req'[w].op = "submit" /\ req'[w].issue = issue
      /\ req'[w].signals = req[w].signals
  BY DEF TypeOK, Request
<1>3. HonestInv'
  BY <1>2 DEF HonestInv, Honest
<1>4. AloneInv'
  <2>1. \A v \in Workers : Busy(v)' = Busy(v)
    BY <1>2 DEF Busy
  <2> QED BY <1>2, <2>1 DEF AloneInv
<1>5. OpenInv' /\ FlaggedIsReviewed'
  BY <1>2 DEF OpenInv, FlaggedIsReviewed
<1> QED BY <1>1, <1>3, <1>4, <1>5
-----------------------------------------------------------------------------
(* What a commit stores. *)

\* A column is left alone or gets the new record; a request that runs alone
\* stores the new one.
LEMMA StoredIs ==
  ASSUME NEW old, NEW new
  PROVE  /\ Stored(old, new) \in {issue.record, new}
         /\ old = issue.record => Stored(old, new) = new
  BY DEF Stored, Written

LEMMA LoggedIs ==
  ASSUME NEW r \in Record
  PROVE  /\ [r EXCEPT !.logged = TRUE] \in Record
         /\ Logged(r) \in {issue.record, [r EXCEPT !.logged = TRUE]}
  BY StoredIs DEF Record, Logged

LEMMA ProctoredIs ==
  ASSUME NEW r \in Record, NEW new \in Record
  PROVE  /\ [new EXCEPT !.proctored = TRUE] \in Record
         /\ Proctored(r, new) \in {issue.record, [new EXCEPT !.proctored = TRUE]}
  BY StoredIs DEF Record, Proctored

\* A raised flag rests on the signals on record and one more.
LEMMA MayFlagIs ==
  ASSUME IInv, NEW r \in Record, Honest(r), NEW S \in SUBSET raised,
         NEW flagged \in MayFlag(r, S)
  PROVE  /\ flagged \in BOOLEAN
         /\ r.flagged => flagged
         /\ flagged => Cardinality(raised) >= Threshold
<1>1. flagged = r.flagged \/ (flagged = TRUE /\ S \ r.events # {}
                               /\ Cardinality(r.events) + 1 >= Threshold)
  BY DEF MayFlag, Fresh
<1>2. CASE flagged = r.flagged
  BY <1>2 DEF Honest, Record
<1>3. CASE flagged = TRUE /\ S \ r.events # {} /\ Cardinality(r.events) + 1 >= Threshold
  <2>1. PICK e \in S : e \notin r.events
    BY <1>3
  <2>2. IsFiniteSet(raised) /\ Cardinality(raised) \in Nat
    BY RaisedFinite DEF IInv
  <2>3. r.events \subseteq raised /\ r.events \union {e} \subseteq raised
    BY <2>1 DEF Honest
  <2>4. IsFiniteSet(r.events) /\ Cardinality(r.events) \in Nat
    BY <2>2, <2>3, FS_Subset, FS_CardinalityType
  <2>5. Cardinality(r.events \union {e}) = Cardinality(r.events) + 1
    BY <2>1, <2>4, FS_AddElement
  <2>6. Cardinality(r.events \union {e}) <= Cardinality(raised)
    BY <2>2, <2>3, FS_Subset
  <2> QED BY <1>3, <2>2, <2>4, <2>5, <2>6, AttemptAssumption
<1> QED BY <1>1, <1>2, <1>3

\* What a request in progress has loaded.
LEMMA LoadedIs ==
  ASSUME IInv, NEW w \in Workers
  PROVE  /\ issue \in Issue /\ issue.record \in Record /\ issue.session \in BOOLEAN
         /\ Loaded(w) \in Issue /\ Loaded(w).record \in Record
         /\ Honest(issue.record) /\ Honest(Loaded(w).record)
         /\ req[w].signals \subseteq raised /\ req[w].signals \subseteq Signals
         /\ raised \subseteq Signals
         /\ ~overlapped /\ Busy(w) => Loaded(w) = issue
  BY DEF IInv, TypeOK, HonestInv, AloneInv, Issue, Request, Loaded
-----------------------------------------------------------------------------
LEMMA RowIs ==
  ASSUME NEW st \in {"issued", "started", "revoked"} \union Submitted,
         NEW ses \in BOOLEAN, NEW r \in Record
  PROVE  [status |-> st, session |-> ses, record |-> r] \in Issue
  BY DEF Issue

LEMMA RowType ==
  ASSUME IInv
  PROVE  issue.status \in {"issued", "started", "revoked"} \union Submitted
  BY DEF IInv, TypeOK, Issue
-----------------------------------------------------------------------------
(* The commits: each keeps the invariant, and alone it loses nothing. *)

LEMMA LoginCommitKeeps ==
  ASSUME IInv, NEW w \in Workers, LoginCommit(w)
  PROVE  IInv' /\ (~overlapped' => Grows(issue.record, issue'.record))
<1> DEFINE s == Loaded(w)
           formed == [s.record EXCEPT !.forms = TRUE]
<1>1. Busy(w) /\ Finish(w) /\ overlapped' = overlapped
  BY DEF LoginCommit, Busy, Finish
<1>2. formed \in Record /\ formed.flagged = s.record.flagged
      /\ formed.events = s.record.events
  BY LoadedIs DEF Record
<1>3. PICK st \in {"started", issue.status}, r \in {issue.record, formed} :
        /\ issue' = [status |-> st, session |-> TRUE, record |-> r]
        /\ st = "started" \/ r = issue.record
  BY StoredIs DEF LoginCommit, Frozen
<1>4. issue'.status = st /\ issue'.record = r
  BY <1>3
<1>5. issue' \in Issue
  BY <1>2, <1>3, LoadedIs, RowIs, RowType
<1>6. Honest(issue'.record)
  BY <1>2, <1>4, LoadedIs DEF Honest
<1>7. IInv'
  BY <1>1, <1>3, <1>4, <1>5, <1>6, FinishKeeps
     DEF LoginCommit, IInv, TypeOK, FlaggedIsReviewed
<1>8. ~overlapped' => Grows(issue.record, issue'.record)
  BY <1>1, <1>4, LoadedIs DEF Grows, Record
<1> QED BY <1>7, <1>8

LEMMA ConsentCommitKeeps ==
  ASSUME IInv, NEW w \in Workers, ConsentCommit(w)
  PROVE  IInv' /\ (~overlapped' => Grows(issue.record, issue'.record))
<1> DEFINE s == Loaded(w).record
           new == [s EXCEPT !.consent = TRUE]
           with == [new EXCEPT !.proctored = TRUE]
<1>1. Busy(w) /\ Finish(w) /\ overlapped' = overlapped
  BY DEF ConsentCommit, Busy, Finish
<1>2. new \in Record /\ with.flagged = s.flagged /\ with.events = s.events
  BY LoadedIs DEF Record
<1>3. with \in Record /\ issue' = [issue EXCEPT !.record = Proctored(s, new)]
      /\ Proctored(s, new) \in {issue.record, with}
  BY <1>2, LoadedIs, ProctoredIs DEF ConsentCommit
<1>4. /\ issue' \in Issue /\ issue'.status = issue.status
      /\ issue'.record \in {issue.record, with}
  BY <1>3, LoadedIs DEF Issue
<1>5. Honest(issue'.record)
  BY <1>2, <1>4, LoadedIs DEF Honest
<1>6. ~overlapped /\ issue'.record.flagged => issue'.status # "completed"
  BY <1>1, <1>2, <1>4, LoadedIs DEF IInv, FlaggedIsReviewed
<1>7. IInv'
  BY <1>1, <1>4, <1>5, <1>6, FinishKeeps DEF ConsentCommit, IInv, TypeOK
<1>8. ~overlapped' => Grows(issue.record, issue'.record)
  BY <1>1, <1>4, LoadedIs DEF Grows, Record
<1> QED BY <1>7, <1>8

LEMMA SignalCommitKeeps ==
  ASSUME IInv, NEW w \in Workers, SignalCommit(w)
  PROVE  IInv' /\ (~overlapped' => Grows(issue.record, issue'.record))
<1> DEFINE s == Loaded(w).record
           S == req[w].signals
<1>1. Busy(w) /\ Finish(w) /\ overlapped' = overlapped
  BY DEF SignalCommit, Busy, Finish
<1>2. PICK flagged \in MayFlag(s, S) : issue' = [issue EXCEPT !.record =
        Proctored(s, [s EXCEPT !.events = @ \union S, !.flagged = flagged])]
  BY DEF SignalCommit
<1> DEFINE new == [s EXCEPT !.events = @ \union S, !.flagged = flagged]
           with == [new EXCEPT !.proctored = TRUE]
<1>3. /\ flagged \in BOOLEAN /\ (s.flagged => flagged)
      /\ (flagged => Cardinality(raised) >= Threshold)
  BY LoadedIs, MayFlagIs
<1>4. /\ new \in Record /\ with.flagged = flagged /\ with.events = s.events \union S
  BY <1>3, LoadedIs DEF Record
<1>5. with \in Record /\ Proctored(s, new) \in {issue.record, with}
  BY <1>4, LoadedIs, ProctoredIs
<1>6. /\ issue' \in Issue /\ issue'.status = issue.status
      /\ issue'.record \in {issue.record, with}
  BY <1>2, <1>5, LoadedIs DEF Issue
<1>7. Honest(issue'.record)
  BY <1>3, <1>4, <1>6, LoadedIs DEF Honest
<1>8. ~overlapped => issue'.status # "completed"
  BY <1>1, <1>6, LoadedIs DEF IInv, OpenInv, SignalCommit, Submitted, Loaded
<1>9. IInv'
  <2>1. submitted' \in BOOLEAN
    BY LoadedIs DEF SignalCommit, IInv, TypeOK
  <2> QED BY <1>1, <1>6, <1>7, <1>8, <2>1, FinishKeeps
<1>10. ~overlapped' => Grows(issue.record, issue'.record)
  BY <1>1, <1>3, <1>6, LoadedIs DEF Grows, Record
<1> QED BY <1>9, <1>10

LEMMA SubmitCommitKeeps ==
  ASSUME IInv, NEW w \in Workers, SubmitCommit(w)
  PROVE  IInv' /\ (~overlapped' => Grows(issue.record, issue'.record))
<1> DEFINE s == Loaded(w).record
           S == req[w].signals
<1>1. Busy(w) /\ Finish(w) /\ overlapped' = overlapped
  BY DEF SubmitCommit, Busy, Finish
<1>2. PICK flagged \in MayFlag(s, S) : \E final \in Final(flagged) :
        issue' = [issue EXCEPT !.status = final,
          !.record = [s EXCEPT !.proctored = TRUE, !.flagged = flagged, !.graded = TRUE]]
  BY DEF SubmitCommit
<1> DEFINE new == [s EXCEPT !.proctored = TRUE, !.flagged = flagged, !.graded = TRUE]
<1>3. PICK final \in Final(flagged) : issue' = [issue EXCEPT !.status = final, !.record = new]
  BY <1>2
<1>4. /\ flagged \in BOOLEAN /\ (s.flagged => flagged)
      /\ (flagged => Cardinality(raised) >= Threshold)
  BY LoadedIs, MayFlagIs
<1>5. new \in Record /\ new.flagged = flagged /\ new.events = s.events
  BY <1>4, LoadedIs DEF Record
<1>6. final \in Submitted /\ (flagged => final # "completed")
  BY DEF Final, Submitted
<1>7. issue' \in Issue /\ issue'.status = final /\ issue'.record = new
  BY <1>3, <1>5, <1>6, LoadedIs DEF Issue
<1>8. Honest(issue'.record)
  BY <1>4, <1>5, <1>7, LoadedIs DEF Honest
<1>9. IInv'
  BY <1>1, <1>5, <1>6, <1>7, <1>8, FinishKeeps DEF SubmitCommit, IInv, TypeOK
<1>10. ~overlapped' => Grows(issue.record, issue'.record)
  BY <1>1, <1>4, <1>7, LoadedIs DEF Grows, Record
<1> QED BY <1>9, <1>10

\* The recruiter's commits log an operation.
LEMMA LoggedCommitKeeps ==
  ASSUME IInv, NEW w \in Workers,
         IssueCommit(w) \/ RevokeCommit(w) \/ ResendCommit(w)
  PROVE  IInv' /\ (~overlapped' => Grows(issue.record, issue'.record))
<1> DEFINE s == Loaded(w).record
           with == [s EXCEPT !.logged = TRUE]
<1>1. Busy(w) /\ Finish(w) /\ overlapped' = overlapped
  BY DEF IssueCommit, RevokeCommit, ResendCommit, Busy, Finish
<1>2. with \in Record /\ Logged(s) \in {issue.record, with}
      /\ with.flagged = s.flagged /\ with.events = s.events
  BY LoadedIs, LoggedIs DEF Record
<1>3. /\ issue' \in Issue /\ issue'.record = Logged(s)
      /\ issue'.status \in {issue.status, "revoked", "issued"}
  <2>1. CASE IssueCommit(w)
    BY <1>2, <2>1, LoadedIs DEF IssueCommit, Issue
  <2>2. CASE RevokeCommit(w)
    <3>1. PICK ses \in {issue.session, FALSE} :
            issue' = [status |-> "revoked", session |-> ses, record |-> Logged(s)]
      BY <2>2 DEF RevokeCommit, Written
    <3> QED BY <1>2, <3>1, LoadedIs, RowIs
  <2>3. CASE ResendCommit(w)
    <3>1. PICK ses \in {issue.session, FALSE}, st \in {issue.status, "issued"} :
            issue' = [status |-> st, session |-> ses, record |-> Logged(s)]
      BY <2>3 DEF ResendCommit, Written
    <3> QED BY <1>2, <3>1, LoadedIs, RowIs, RowType
  <2> QED BY <2>1, <2>2, <2>3
<1>4. Honest(issue'.record)
  BY <1>2, <1>3, LoadedIs DEF Honest
<1>5. ~overlapped /\ issue'.record.flagged => issue'.status # "completed"
  BY <1>1, <1>2, <1>3, LoadedIs DEF IInv, FlaggedIsReviewed
<1>6. submitted' = submitted
  BY DEF IssueCommit, RevokeCommit, ResendCommit
<1>7. IInv'
  BY <1>1, <1>3, <1>4, <1>5, <1>6, FinishKeeps DEF IInv, TypeOK
<1>8. ~overlapped' => Grows(issue.record, issue'.record)
  BY <1>1, <1>2, <1>3, LoadedIs DEF Grows, Record
<1> QED BY <1>7, <1>8

LEMMA ReviewCommitKeeps ==
  ASSUME IInv, NEW w \in Workers, ReviewCommit(w)
  PROVE  IInv' /\ (~overlapped' => Grows(issue.record, issue'.record))
<1> DEFINE s == Loaded(w)
           new == [s.record EXCEPT !.reviewed = TRUE]
           status == Written(issue.status, s.status, "reviewed")
<1>1. Busy(w) /\ Finish(w) /\ overlapped' = overlapped
  BY DEF ReviewCommit, Busy, Finish
<1>2. new \in Record /\ new.flagged = s.record.flagged /\ new.events = s.record.events
  BY LoadedIs DEF Record
<1>3. /\ status \in {issue.status, "reviewed"}
      /\ ~overlapped => status = "reviewed"
  BY <1>1, LoadedIs DEF Written
<1>4. issue' \in Issue /\ issue'.status = status /\ issue'.record = new
  BY <1>2, <1>3, LoadedIs DEF ReviewCommit, Issue, Submitted
<1>5. Honest(issue'.record)
  BY <1>2, <1>4, LoadedIs DEF Honest
<1>6. IInv'
  BY <1>1, <1>3, <1>4, <1>5, FinishKeeps DEF ReviewCommit, IInv, TypeOK
<1>7. ~overlapped' => Grows(issue.record, issue'.record)
  BY <1>1, <1>4, LoadedIs DEF Grows, Record
<1> QED BY <1>6, <1>7

\* Every request begins without touching the record.
LEMMA ReadsKeep ==
  ASSUME IInv, NEW w \in Workers,
         \/ LoginRead(w) \/ ConsentRead(w) \/ RevokeRead(w) \/ ResendRead(w) \/ ReviewRead(w)
         \/ \E e \in Signals : SignalRead(w, e)
         \/ \E signals \in SUBSET Signals : SubmitRead(w, signals)
  PROVE  IInv' /\ issue' = issue
<1>1. PICK op \in Ops \ {"idle"}, S \in SUBSET Signals :
        /\ Begin(w, op, S) /\ raised' \in {raised, raised \union S} /\ S \subseteq raised'
        /\ op = "signal" => issue.status \notin Submitted
  <2>1. CASE LoginRead(w) \/ ConsentRead(w) \/ RevokeRead(w) \/ ResendRead(w) \/ ReviewRead(w)
    BY <2>1 DEF LoginRead, ConsentRead, RevokeRead, ResendRead, ReviewRead, Ops
  <2>2. CASE \E e \in Signals : SignalRead(w, e)
    <3>1. PICK e \in Signals : SignalRead(w, e)
      BY <2>2
    <3> QED BY <3>1 DEF SignalRead, Ops
  <2>3. CASE \E signals \in SUBSET Signals : SubmitRead(w, signals)
    BY <2>3 DEF SubmitRead, Ops
  <2> QED BY <2>1, <2>2, <2>3
<1>2. raised \subseteq Signals
  BY DEF IInv, TypeOK
<1>3. IInv'
  BY <1>1, <1>2, BeginKeeps
<1> QED BY <1>1, <1>3 DEF Begin

LEMMA RollbackKeeps ==
  ASSUME IInv, NEW w \in Workers, Rollback(w)
  PROVE  IInv' /\ issue' = issue
<1>1. issue' = issue /\ Busy(w) /\ Finish(w)
  BY DEF Rollback
<1>2. IInv'
  BY <1>1, FinishKeeps, LoadedIs DEF Rollback, IInv, TypeOK, FlaggedIsReviewed
<1> QED BY <1>1, <1>2
-----------------------------------------------------------------------------
LEMMA RecordStays ==
  ASSUME issue' = issue
  PROVE  Grows(issue.record, issue'.record)
  BY DEF Grows

LEMMA NextKeeps ==
  ASSUME IInv, [Next]_vars
  PROVE  IInv' /\ (~overlapped' => Grows(issue.record, issue'.record))
<1>1. CASE UNCHANGED vars
  <2>1. IInv'
    BY <1>1 DEF vars, IInv, TypeOK, HonestInv, Honest, AloneInv, OpenInv,
                FlaggedIsReviewed, Busy
  <2> QED BY <1>1, <2>1, RecordStays DEF vars
<1>2. CASE Next
  <2>1. PICK w \in Workers : Candidate(w) \/ Recruiter(w) \/ Rollback(w)
    BY <1>2 DEF Next
  <2>2. CASE Candidate(w)
    <3>1. CASE LoginCommit(w)
      BY <3>1, LoginCommitKeeps
    <3>2. CASE ConsentCommit(w)
      BY <3>2, ConsentCommitKeeps
    <3>3. CASE SignalCommit(w)
      BY <3>3, SignalCommitKeeps
    <3>4. CASE SubmitLock(w)
      BY <3>4, SubmitLockKeeps, RecordStays DEF SubmitLock
    <3>5. CASE SubmitCommit(w)
      BY <3>5, SubmitCommitKeeps
    <3>6. CASE \/ LoginRead(w) \/ ConsentRead(w)
               \/ \E e \in Signals : SignalRead(w, e)
               \/ \E signals \in SUBSET Signals : SubmitRead(w, signals)
      BY <3>6, ReadsKeep, RecordStays
    <3> QED BY <2>2, <3>1, <3>2, <3>3, <3>4, <3>5, <3>6 DEF Candidate
  <2>3. CASE Recruiter(w)
    <3>1. CASE IssueCommit(w) \/ RevokeCommit(w) \/ ResendCommit(w)
      BY <3>1, LoggedCommitKeeps
    <3>2. CASE ReviewCommit(w)
      BY <3>2, ReviewCommitKeeps
    <3>3. CASE RevokeRead(w) \/ ResendRead(w) \/ ReviewRead(w)
      BY <3>3, ReadsKeep, RecordStays
    <3> QED BY <2>3, <3>1, <3>2, <3>3 DEF Recruiter
  <2>4. CASE Rollback(w)
    BY <2>4, RollbackKeeps, RecordStays
  <2> QED BY <2>1, <2>2, <2>3, <2>4
<1> QED BY <1>1, <1>2

\* The inductive invariant holds in every state.
THEOREM Invariance == Spec => []IInv
<1>1. Init => IInv
  BY InitIInv
<1>2. IInv /\ [Next]_vars => IInv'
  BY NextKeeps
<1> QED BY <1>1, <1>2, PTL DEF Spec

\* Every loaded and every stored row has its type.
THEOREM TypeCorrect == Spec => []TypeOK
<1>1. IInv => TypeOK
  BY DEF IInv
<1> QED BY <1>1, Invariance, PTL

\* However the candidate's and the recruiter's requests interleave, a flagged
\* attempt has as many different raised signals as the policy asks for.
THEOREM FlagsRestOnSignals == Spec => []FlagsHaveSignals
<1>1. IInv => FlagsHaveSignals
  BY DEF IInv, HonestInv, Honest, FlagsHaveSignals
<1> QED BY <1>1, Invariance, PTL

\* As long as requests do not overlap, a flagged attempt goes to a reviewer.
THEOREM FlaggedAreReviewed == Spec => []FlaggedIsReviewed
<1>1. IInv => FlaggedIsReviewed
  BY DEF IInv
<1> QED BY <1>1, Invariance, PTL

\* A flag rests on signals and leads to a review.
THEOREM FlagsAreHonest == Spec => []FlagsHold
<1>1. IInv => FlagsHold
  BY DEF IInv, HonestInv, Honest, FlagsHaveSignals, FlagsHold
<1> QED BY <1>1, Invariance, PTL

\* As long as requests do not overlap, no step takes anything from the record.
THEOREM RecordKept == Spec => RecordGrows
<1>1. IInv /\ [Next]_vars => [~overlapped' => Grows(issue.record, issue'.record)]_vars
  BY NextKeeps
<1> QED BY <1>1, Invariance, PTL DEF Spec, RecordGrows
-----------------------------------------------------------------------------
(* The recordings an attempt names. *)

UploadOps == {"none", "speak", "keep", "replace", "flag"}
UploadJob == [op : UploadOps, file : File, over : SUBSET File]

\* While no recording ran into another, or into the submission: one request
\* records at a time, before the attempt is submitted; the file it has stored
\* is there, and so is the one the browser knows of.
Heard ==
    /\ \A u, v \in Uploads : upload[u].op \in Answering /\ upload[v].op \in Answering => u = v
    /\ \A u \in Uploads : upload[u].op \in Answering => attempt = "started"
    /\ \A u \in Uploads : upload[u].op \in {"keep", "replace"} => upload[u].file \in files
    /\ answer \in files \union {NoFile}
    /\ named \in files \union {NoFile}
    /\ attempt = "started" => named = NoFile

EvidenceInv ==
    /\ EvidenceTypeOK
    /\ upload \in [Uploads -> UploadJob]
    /\ \A u \in Uploads : upload[u].op \in {"keep", "replace"} => upload[u].file \in 1..stored
    /\ label = "with clip" => clip
    /\ slips = {} => Heard

LEMMA FilesOf ==
  ASSUME NEW n \in Nat, n <= MaxFiles
  PROVE  n \in File /\ 1..n \subseteq File /\ NoFile \in File
  BY EvidenceAssumption DEF File, NoFile

LEMMA FileIs ==
  ASSUME NEW n \in File
  PROVE  n \in Nat /\ n <= MaxFiles
  BY EvidenceAssumption DEF File

LEMMA EvidenceTypes ==
  ASSUME EvidenceInv
  PROVE  /\ attempt \in {"started", "review_pending", "reviewed"}
         /\ stored \in Nat /\ stored <= MaxFiles
         /\ files \subseteq 1..stored /\ rows \subseteq 1..stored
         /\ answer \in File /\ named \in File
         /\ clip \in BOOLEAN /\ label \in {"none", "bare", "with clip"}
         /\ upload \in [Uploads -> UploadJob]
         /\ slips \subseteq {"two", "late", "unheard"}
         /\ 1..stored \subseteq File
<1>1. stored \in File
  BY DEF EvidenceInv, EvidenceTypeOK
<1>2. stored \in Nat /\ stored <= MaxFiles /\ 1..stored \subseteq File
  BY <1>1, FileIs, FilesOf
<1> QED BY <1>2 DEF EvidenceInv, EvidenceTypeOK

LEMMA EvidenceTyped ==
  ASSUME attempt' \in {"started", "review_pending", "reviewed"},
         stored' \in Nat, stored' <= MaxFiles,
         files' \subseteq 1..stored', rows' \subseteq 1..stored',
         answer' \in File, named' \in File,
         clip' \in BOOLEAN, label' \in {"none", "bare", "with clip"},
         upload' \in [Uploads -> UploadJob],
         slips' \subseteq {"two", "late", "unheard"}
  PROVE  EvidenceTypeOK'
<1>1. stored' \in File
  BY FilesOf
<1>2. \A u \in Uploads : upload'[u].file \in File /\ upload'[u].over \subseteq File
  BY DEF UploadJob
<1> QED BY <1>1, <1>2 DEF EvidenceTypeOK

LEMMA WaitingOK == Waiting \in UploadJob /\ Waiting.op = "none"
  BY EvidenceAssumption DEF Waiting, UploadJob, UploadOps, File, NoFile

LEMMA EvidenceStart == EvidenceInit => EvidenceInv
<1> SUFFICES ASSUME EvidenceInit PROVE EvidenceInv
  OBVIOUS
<1>1. /\ attempt = "started" /\ files = {} /\ stored = 0 /\ rows = {} /\ answer = NoFile
      /\ named = NoFile /\ clip = FALSE /\ label = "none" /\ slips = {}
      /\ upload = [u \in Uploads |-> Waiting]
  BY DEF EvidenceInit
<1>2. upload \in [Uploads -> UploadJob] /\ \A u \in Uploads : upload[u].op = "none"
  BY <1>1, WaitingOK
<1>3. EvidenceTypeOK
  <2>1. NoFile \in File
    BY EvidenceAssumption, FilesOf
  <2>2. \A u \in Uploads : upload[u].file \in File /\ upload[u].over \subseteq File
    BY <1>2 DEF UploadJob
  <2> QED BY <1>1, <2>1, <2>2 DEF EvidenceTypeOK, NoFile
<1>4. Heard
  BY <1>1, <1>2 DEF Heard, Answering
<1> QED BY <1>1, <1>2, <1>3, <1>4 DEF EvidenceInv

LEMMA UploadTurns ==
  ASSUME EvidenceInv, NEW u \in Uploads, NEW j \in UploadJob, UploadIs(u, j)
  PROVE  /\ upload' \in [Uploads -> UploadJob] /\ upload'[u] = j
         /\ \A v \in Uploads \ {u} : upload'[v] = upload[v]
  BY EvidenceTypes DEF UploadIs

\* A request that ends, or takes another turn, and leaves the files.
LEMMA UploadMoves ==
  ASSUME EvidenceInv, NEW u \in Uploads, NEW j \in UploadJob, UploadIs(u, j),
         j.op \in Answering => upload[u].op \in Answering,
         j.op \in {"keep", "replace"} => upload[u].op \in {"keep", "replace"} /\ j.file = upload[u].file,
         rows' \subseteq 1..stored, clip' = clip \/ clip' = TRUE,
         slips' \subseteq {"two", "late", "unheard"}, slips \subseteq slips',
         UNCHANGED <<attempt, files, stored, answer, named, label>>
  PROVE  EvidenceInv'
<1>1. /\ upload' \in [Uploads -> UploadJob] /\ upload'[u] = j
      /\ \A v \in Uploads \ {u} : upload'[v] = upload[v]
  BY UploadTurns
<1>2. EvidenceTypeOK'
  <2>1. clip' \in BOOLEAN
    BY EvidenceTypes
  <2> QED BY <1>1, <2>1, EvidenceTypes, EvidenceTyped
<1>3. \A v \in Uploads : upload'[v].op \in {"keep", "replace"} =>
        upload[v].op \in {"keep", "replace"} /\ upload'[v].file = upload[v].file
  BY <1>1
<1>4. \A v \in Uploads : upload'[v].op \in {"keep", "replace"} => upload'[v].file \in 1..stored'
  BY <1>3 DEF EvidenceInv
<1>5. label' = "with clip" => clip'
  BY DEF EvidenceInv
<1>6. ASSUME slips' = {} PROVE Heard'
  <2>1. Heard
    BY <1>6 DEF EvidenceInv
  <2>2. \A v \in Uploads : upload'[v].op \in Answering => upload[v].op \in Answering
    BY <1>1
  <2> QED BY <2>1, <2>2, <1>3 DEF Heard
<1> QED BY <1>1, <1>2, <1>4, <1>5, <1>6 DEF EvidenceInv

LEMMA SpeakKeeps ==
  ASSUME EvidenceInv, NEW u \in Uploads, Speak(u)
  PROVE  EvidenceInv'
<1> DEFINE j == [op |-> "speak", file |-> NoFile, over |-> {}]
<1>1. /\ attempt = "started" /\ UploadIs(u, j)
      /\ slips' = slips \union {s \in {"two"} : UploadsOf(Answering) # {}}
      /\ UNCHANGED <<attempt, files, stored, rows, answer, named, clip, label>>
  BY DEF Speak, Waiting, Active
<1>2. j \in UploadJob /\ j.op = "speak"
  BY EvidenceAssumption DEF UploadJob, UploadOps, File, NoFile
<1> HIDE DEF j
<1>3. /\ upload' \in [Uploads -> UploadJob] /\ upload'[u] = j
      /\ \A v \in Uploads \ {u} : upload'[v] = upload[v]
  BY <1>1, <1>2, UploadTurns
<1>4. EvidenceTypeOK'
  BY <1>1, <1>3, EvidenceTypes, EvidenceTyped
<1>5. \A v \in Uploads : upload'[v].op \in {"keep", "replace"} =>
        v # u /\ upload'[v] = upload[v]
  BY <1>2, <1>3
<1>6. ASSUME slips' = {} PROVE Heard'
  <2>1. Heard /\ UploadsOf(Answering) = {}
    BY <1>1, <1>6 DEF EvidenceInv
  <2>2. \A v \in Uploads : upload'[v].op \in Answering => v = u
    BY <2>1, <1>3 DEF UploadsOf
  <2> QED BY <2>1, <2>2, <1>1, <1>5 DEF Heard
<1> QED BY <1>1, <1>3, <1>4, <1>5, <1>6 DEF EvidenceInv

LEMMA KeepKeeps ==
  ASSUME EvidenceInv, NEW u \in Uploads, Keep(u)
  PROVE  EvidenceInv'
<1>1. PICK over \in IF rows = {} THEN {{}} ELSE {{r} : r \in rows} :
        UploadIs(u, [op |-> "keep", file |-> stored', over |-> over])
  BY DEF Keep
<1>2. /\ upload[u].op = "speak" /\ stored < MaxFiles /\ stored' = stored + 1
      /\ files' = files \union {stored'}
      /\ UNCHANGED <<attempt, rows, answer, named, clip, label, slips>>
  BY DEF Keep
<1> DEFINE j == [op |-> "keep", file |-> stored', over |-> over]
<1>3. over \subseteq File
  BY <1>1, EvidenceTypes
<1>4. stored' \in Nat /\ stored' <= MaxFiles /\ stored' \in File /\ 1..stored \subseteq 1..stored'
      /\ stored' \in 1..stored'
  <2>1. stored \in Nat
    BY EvidenceTypes
  <2>2. stored' \in Nat /\ stored' <= MaxFiles
    BY <2>1, <1>2, EvidenceAssumption
  <2>3. 1..stored \subseteq 1..stored' /\ stored' \in 1..stored'
    BY <2>1, <1>2
  <2> QED BY <2>2, <2>3, FilesOf
<1>5. j \in UploadJob /\ j.op = "keep" /\ j.file = stored'
  BY <1>3, <1>4 DEF UploadJob, UploadOps
<1>6. UploadIs(u, j)
  BY <1>1
<1> HIDE DEF j
<1>7. /\ upload' \in [Uploads -> UploadJob] /\ upload'[u] = j
      /\ \A v \in Uploads \ {u} : upload'[v] = upload[v]
  BY <1>5, <1>6, UploadTurns
<1>8. EvidenceTypeOK'
  <2>1. files' \subseteq 1..stored' /\ rows' \subseteq 1..stored'
    BY <1>2, <1>4, EvidenceTypes
  <2> QED BY <2>1, <1>2, <1>4, <1>7, EvidenceTypes, EvidenceTyped
<1>9. \A v \in Uploads : upload'[v].op \in {"keep", "replace"} => upload'[v].file \in 1..stored'
  BY <1>4, <1>5, <1>7 DEF EvidenceInv
<1>10. ASSUME slips' = {} PROVE Heard'
  <2>1. Heard
    BY <1>2, <1>10 DEF EvidenceInv
  <2>2. \A v \in Uploads : upload'[v].op \in Answering => upload[v].op \in Answering
    BY <1>2, <1>7 DEF Answering
  <2>3. \A v \in Uploads : upload'[v].op \in {"keep", "replace"} => upload'[v].file \in files'
    BY <2>1, <1>2, <1>5, <1>7 DEF Heard
  <2> QED BY <2>1, <2>2, <2>3, <1>2 DEF Heard
<1> QED BY <1>2, <1>7, <1>8, <1>9, <1>10 DEF EvidenceInv

LEMMA KeepCommitsKeeps ==
  ASSUME EvidenceInv, NEW u \in Uploads, KeepCommits(u)
  PROVE  EvidenceInv'
<1> DEFINE j == [upload[u] EXCEPT !.op = "replace"]
<1>1. /\ upload[u].op = "keep" /\ rows' = (rows \ upload[u].over) \union {upload[u].file}
      /\ UploadIs(u, j)
      /\ UNCHANGED <<attempt, files, stored, answer, named, clip, label, slips>>
  BY DEF KeepCommits
<1>2. upload[u] \in UploadJob
  BY EvidenceTypes
<1>3. j \in UploadJob /\ j.op = "replace" /\ j.file = upload[u].file
  BY <1>2 DEF UploadJob, UploadOps
<1> HIDE DEF j
<1>4. rows' \subseteq 1..stored
  BY <1>1, EvidenceTypes DEF EvidenceInv
<1>5. slips' \subseteq {"two", "late", "unheard"} /\ slips \subseteq slips'
  BY <1>1, EvidenceTypes
<1> QED BY <1>1, <1>3, <1>4, <1>5, UploadMoves DEF Answering

LEMMA ReplaceKeeps ==
  ASSUME EvidenceInv, NEW u \in Uploads, NEW heard \in BOOLEAN, Replace(u, heard)
  PROVE  EvidenceInv'
<1>1. PICK gone \in {{}, Replaced(u)} : files' = files \ gone
  BY DEF Replace
<1>2. /\ upload[u].op = "replace" /\ UploadIs(u, Waiting)
      /\ answer' = IF heard THEN upload[u].file ELSE answer
      /\ slips' = slips \union {s \in {"unheard"} : ~heard}
      /\ UNCHANGED <<attempt, stored, rows, named, clip, label>>
  BY DEF Replace
<1>3. /\ upload' \in [Uploads -> UploadJob] /\ upload'[u] = Waiting
      /\ \A v \in Uploads \ {u} : upload'[v] = upload[v]
  BY <1>2, WaitingOK, UploadTurns
<1>4. upload[u].file \in 1..stored
  BY <1>2 DEF EvidenceInv
<1>5. EvidenceTypeOK'
  <2>1. files' \subseteq 1..stored' /\ rows' \subseteq 1..stored'
    BY <1>1, <1>2, EvidenceTypes
  <2>2. answer' \in File
    BY <1>2, <1>4, EvidenceTypes
  <2> QED BY <2>1, <2>2, <1>2, <1>3, EvidenceTypes, EvidenceTyped
<1>6. \A v \in Uploads : upload'[v].op \in {"keep", "replace"} =>
        v # u /\ upload'[v] = upload[v]
  BY <1>3, WaitingOK
<1>7. ASSUME slips' = {} PROVE Heard'
  <2>1. Heard /\ heard
    BY <1>2, <1>7 DEF EvidenceInv
  <2>2. \A v \in Uploads : upload'[v].op \notin Answering
    BY <2>1, <1>2, <1>3, WaitingOK DEF Heard, Answering
  <2>3. upload[u].file \in files'
    BY <2>1, <1>1, <1>2 DEF Heard, Replaced
  <2>4. attempt = "started"
    BY <2>1, <1>2 DEF Heard, Answering
  <2>5. named' = NoFile
    BY <2>1, <2>4, <1>2 DEF Heard
  <2> QED BY <2>1, <2>2, <2>3, <2>4, <2>5, <1>2 DEF Heard, Answering
<1> QED BY <1>2, <1>3, <1>5, <1>6, <1>7 DEF EvidenceInv

LEMMA FlagKeeps ==
  ASSUME EvidenceInv, NEW u \in Uploads, Flag(u)
  PROVE  EvidenceInv'
<1> DEFINE j == [op |-> "flag", file |-> NoFile, over |-> {}]
<1>1. /\ UploadIs(u, j)
      /\ UNCHANGED <<attempt, files, stored, rows, answer, named, clip, label, slips>>
  BY DEF Flag, Waiting
<1>2. j \in UploadJob /\ j.op = "flag"
  BY EvidenceAssumption DEF UploadJob, UploadOps, File, NoFile
<1> HIDE DEF j
<1> QED BY <1>1, <1>2, EvidenceTypes, UploadMoves DEF Answering

LEMMA FlagCommitsKeeps ==
  ASSUME EvidenceInv, NEW u \in Uploads, FlagCommits(u)
  PROVE  EvidenceInv'
<1>1. /\ clip' = TRUE /\ UploadIs(u, Waiting)
      /\ UNCHANGED <<attempt, files, stored, rows, answer, named, label, slips>>
  BY DEF FlagCommits
<1> QED BY <1>1, WaitingOK, EvidenceTypes, UploadMoves DEF Answering

LEMMA UploadFailsKeeps ==
  ASSUME EvidenceInv, NEW u \in Uploads, UploadFails(u)
  PROVE  EvidenceInv'
<1>1. /\ UploadIs(u, Waiting)
      /\ slips' = slips \union {s \in {"unheard"} : upload[u].op = "replace"}
      /\ UNCHANGED <<attempt, files, stored, rows, answer, named, clip, label>>
  BY DEF UploadFails
<1> QED BY <1>1, WaitingOK, EvidenceTypes, UploadMoves DEF Answering

LEMMA LabelKeeps ==
  ASSUME EvidenceInv, Label
  PROVE  EvidenceInv'
<1>1. /\ label' = IF clip THEN "with clip" ELSE "bare"
      /\ UNCHANGED <<attempt, files, stored, rows, answer, named, clip, upload, slips>>
  BY DEF Label
<1>2. label' \in {"none", "bare", "with clip"} /\ (label' = "with clip" => clip')
  BY <1>1
<1>3. EvidenceTypeOK'
  BY <1>1, <1>2, EvidenceTypes, EvidenceTyped
<1>4. Heard => Heard'
  BY <1>1 DEF Heard
<1> QED BY <1>1, <1>2, <1>3, <1>4 DEF EvidenceInv

LEMMA SubmitAnswerKeeps ==
  ASSUME EvidenceInv, SubmitAnswer
  PROVE  EvidenceInv'
<1>1. /\ named' = answer /\ attempt' = "review_pending"
      /\ slips' = slips \union {s \in {"late"} : UploadsOf(Answering) # {}}
      /\ UNCHANGED <<files, stored, rows, answer, clip, label, upload>>
  BY DEF SubmitAnswer
<1>2. EvidenceTypeOK'
  BY <1>1, EvidenceTypes, EvidenceTyped
<1>3. ASSUME slips' = {} PROVE Heard'
  <2>1. Heard /\ UploadsOf(Answering) = {}
    BY <1>1, <1>3 DEF EvidenceInv
  <2> QED BY <2>1, <1>1 DEF Heard, UploadsOf
<1> QED BY <1>1, <1>2, <1>3 DEF EvidenceInv

LEMMA ReviewEndsKeeps ==
  ASSUME EvidenceInv, ReviewEnds
  PROVE  EvidenceInv'
<1>1. /\ attempt = "review_pending" /\ attempt' = "reviewed"
      /\ UNCHANGED <<files, stored, rows, answer, named, clip, label, upload, slips>>
  BY DEF ReviewEnds
<1>2. EvidenceTypeOK'
  BY <1>1, EvidenceTypes, EvidenceTyped
<1>3. Heard => Heard'
  BY <1>1 DEF Heard
<1> QED BY <1>1, <1>2, <1>3 DEF EvidenceInv

LEMMA EvidenceStep ==
  ASSUME EvidenceInv, EvidenceNext
  PROVE  EvidenceInv'
  BY SpeakKeeps, KeepKeeps, KeepCommitsKeeps, ReplaceKeeps, FlagKeeps, FlagCommitsKeeps,
     UploadFailsKeeps, LabelKeeps, SubmitAnswerKeeps, ReviewEndsKeeps DEF EvidenceNext

LEMMA EvidenceStutter ==
  ASSUME EvidenceInv, UNCHANGED evidenceVars
  PROVE  EvidenceInv'
  BY DEF EvidenceInv, EvidenceTypeOK, Heard, evidenceVars

LEMMA EvidenceInvHolds ==
  ASSUME EvidenceInv
  PROVE  EvidenceTypeOK /\ AnswerIsThere
<1>1. /\ ReviewShows.recording = named /\ (ReviewShows.label = "with clip" <=> label = "with clip")
      /\ ReviewShows["clip"] = clip
  BY DEF ReviewShows
<1>2. ReviewShows.recording \in files \union {NoFile} \/ slips \intersect {"two", "late", "unheard"} # {}
  BY <1>1, EvidenceTypes DEF EvidenceInv, Heard
<1>3. ReviewShows.label = "with clip" => ReviewShows.clip
  BY <1>1 DEF EvidenceInv
<1> QED BY <1>2, <1>3 DEF EvidenceInv, AnswerIsThere
-----------------------------------------------------------------------------
(* The paper of an assessment. *)

FinalTotal(job) == IF "total" \in DOMAIN job.set THEN job.set["total"] ELSE exam.total
FinalLimit(job) == IF "limit" \in DOMAIN job.set THEN job.set["limit"] ELSE exam.limit
FinalStatus(job) == IF "status" \in DOMAIN job.set THEN job.set["status"] ELSE exam.status

\* What a request writes of the row it has loaded.
JobFits(job) ==
    /\ job.op \in EditorOps /\ job.gone \subseteq 1..added /\ job.fresh \in BOOLEAN
    /\ job.for \subseteq Candidates
    /\ "status" \in DOMAIN job.set => job.set["status"] \in Status \ {"deleted"}
    /\ "limit" \in DOMAIN job.set => job.set["limit"] \in Nat
    /\ "total" \in DOMAIN job.set => job.set["total"] \in Nat
    /\ job.op = "total" => DOMAIN job.set = {"total"} /\ job.gone = {}
    /\ job.op = "edit" => DOMAIN job.set \subseteq {"limit"} /\ job.gone = {}
    /\ job.op = "delete" => DOMAIN job.set \subseteq {"total"}
    /\ job.op \in {"review", "publish"} => DOMAIN job.set \subseteq {"status"}
    /\ job.op = "review" /\ "status" \in DOMAIN job.set => job.set["status"] = "in_review"
    /\ job.op = "upgrade" /\ ~job.fresh =>
          /\ DOMAIN job.set \subseteq {"status"} /\ job.gone = {}
          /\ "status" \in DOMAIN job.set => job.set["status"] = "rejected"
          /\ ~Uninvited /\ exam.status # "deleted"

\* While no two edits crossed, what an edit has read of the questions is what
\* there is: the row it leaves is right.
EditFits(job) ==
    /\ exam.status # "deleted" =>
          /\ job.op = "total" => job.set["total"] = Cardinality(paper)
          /\ job.op = "delete" => FinalTotal(job) = Cardinality(paper \ job.gone)
          /\ job.op \in {"edit", "delete"} => exam.status # "published"
          /\ job.op = "publish" => Complete
    /\ job.op = "upgrade" /\ job.fresh =>
          paper \subseteq job.gone /\ FinalTotal(job) = 1 /\ FinalLimit(job) = 1

Smooth ==
    /\ exam.status # "deleted" /\ (\A t \in Editors : editor[t].op # "total") =>
          exam.total = Cardinality(paper)
    /\ exam.status = "published" => Complete
    /\ \A t \in Editors : EditFits(editor[t])

\* While nobody reworks what somebody is invited to, what candidates were shown
\* is what is selected now.
Settled ==
    /\ \A c \in Candidates : invited[c].shown # {} => invited[c].shown = Selected
    /\ \A c \in Candidates : invited[c].status = "done" =>
          invited[c].shown # {} /\ invited[c].scored = Selected
    /\ \A t \in Editors : editor[t].op = "upgrade" /\ editor[t].fresh => Uninvited

PaperInv ==
    /\ exam \in Exam /\ library \in BOOLEAN
    /\ added \in 0..MaxQuestions /\ paper \subseteq 1..added
    /\ invited \in [Candidates -> Invitation]
    /\ crossings \subseteq {"edits", "upgrade", "reworked"}
    /\ DOMAIN editor = Editors /\ \A t \in Editors : JobFits(editor[t])
    /\ \A c \in Candidates : invited[c].status = "none" => invited[c].shown = {}
    /\ "edits" \notin crossings => Smooth
    /\ crossings \intersect {"upgrade", "reworked"} = {} => Settled

-----------------------------------------------------------------------------
LEMMA PaperCounted ==
  ASSUME NEW a \in 0..MaxQuestions, NEW s \in SUBSET (1..a)
  PROVE  /\ a \in Nat /\ a <= MaxQuestions /\ s \subseteq 1..MaxQuestions
         /\ IsFiniteSet(s) /\ Cardinality(s) \in Nat
<1>1. a \in Nat /\ a <= MaxQuestions /\ 1..a \subseteq 1..MaxQuestions
  BY PaperAssumption
<1>2. IsFiniteSet(1..a)
  BY <1>1, FS_Interval
<1>3. IsFiniteSet(s)
  BY <1>2, FS_Subset
<1> QED BY <1>1, <1>3, FS_CardinalityType

\* A selection draws questions of the paper.
LEMMA SomeOfSize ==
  ASSUME NEW s, IsFiniteSet(s), NEW k \in Nat, k <= Cardinality(s)
  PROVE  \E some \in SUBSET s : Cardinality(some) = k
<1> DEFINE n == Cardinality(s)
<1>1. n \in Nat /\ ExistsBijection(1..n, s)
  BY FS_CardinalityType
<1>2. PICK f \in Bijection(1..n, s) : TRUE
  BY <1>1 DEF ExistsBijection
<1> DEFINE firsts == {f[i] : i \in 1..k}
           g == [i \in 1..k |-> f[i]]
<1>3. 1..k \subseteq 1..n
  BY <1>1
<1>4. f \in [1..n -> s] /\ \A a, b \in 1..n : f[a] = f[b] => a = b
  BY <1>2 DEF Bijection, Injection, Surjection, IsInjective
<1>5. firsts \in SUBSET s
  BY <1>3, <1>4
<1>6. g \in Bijection(1..k, firsts)
  <2>1. g \in [1..k -> firsts]
    OBVIOUS
  <2>2. \A a, b \in 1..k : g[a] = g[b] => a = b
    BY <1>3, <1>4
  <2>3. \A y \in firsts : \E a \in 1..k : g[a] = y
    OBVIOUS
  <2> QED BY <2>1, <2>2, <2>3 DEF Bijection, Injection, Surjection, IsInjective
<1>7. IsFiniteSet(1..k) /\ Cardinality(1..k) = k
  BY FS_Interval
<1>8. Cardinality(firsts) = k
  BY <1>6, <1>7, FS_Bijection DEF ExistsBijection
<1> QED BY <1>5, <1>8

LEMMA SelectionDraws ==
  ASSUME NEW s, IsFiniteSet(s), NEW limit \in Nat
  PROVE  Selection(s, limit) \subseteq s
<1>1. Cardinality(s) \in Nat
  BY FS_CardinalityType
<1>2. CASE limit = 0 \/ limit >= Cardinality(s)
  BY <1>2 DEF Selection
<1>3. CASE ~(limit = 0 \/ limit >= Cardinality(s))
  <2>1. \E p \in SUBSET s : Cardinality(p) = limit
    BY <1>1, <1>3, SomeOfSize
  <2>2. (CHOOSE p \in SUBSET s : Cardinality(p) = limit) \in SUBSET s
    BY <2>1
  <2>3. Selection(s, limit) = CHOOSE p \in SUBSET s : Cardinality(p) = limit
    BY <1>3 DEF Selection
  <2> QED BY <2>2, <2>3
<1> QED BY <1>2, <1>3

LEMMA PaperTypes ==
  ASSUME PaperInv
  PROVE  /\ exam \in Exam /\ library \in BOOLEAN
         /\ exam.status \in Status /\ exam.limit \in Nat /\ exam.total \in Nat
         /\ added \in Nat /\ added <= MaxQuestions /\ paper \subseteq 1..added
         /\ IsFiniteSet(paper) /\ Cardinality(paper) \in Nat
         /\ invited \in [Candidates -> Invitation]
         /\ crossings \subseteq {"edits", "upgrade", "reworked"}
         /\ DOMAIN editor = Editors /\ \A t \in Editors : JobFits(editor[t])
<1>1. added \in 0..MaxQuestions /\ paper \in SUBSET (1..added) /\ exam \in Exam
  BY DEF PaperInv
<1>2. /\ added \in Nat /\ added <= MaxQuestions /\ IsFiniteSet(paper) /\ Cardinality(paper) \in Nat
  BY <1>1, PaperCounted
<1>3. exam.status \in Status /\ exam.limit \in Nat /\ exam.total \in Nat
  BY <1>1 DEF Exam
<1> QED BY <1>1, <1>2, <1>3 DEF PaperInv

LEMMA PaperTyped ==
  ASSUME exam' \in Exam, library' \in BOOLEAN,
         added' \in Nat, added' <= MaxQuestions, paper' \subseteq 1..added',
         invited' \in [Candidates -> Invitation],
         crossings' \subseteq {"edits", "upgrade", "reworked"},
         DOMAIN editor' = Editors, \A t \in Editors : JobFits(editor[t])',
         \A c \in Candidates : invited'[c].status = "none" => invited'[c].shown = {},
         "edits" \notin crossings' => Smooth',
         crossings' \intersect {"upgrade", "reworked"} = {} => Settled'
  PROVE  PaperInv'
<1>1. added' \in 0..MaxQuestions
  BY PaperAssumption
<1> QED BY <1>1 DEF PaperInv

\* Columns that are written get what is written, the others stay.
LEMMA UpdateOfExam ==
  ASSUME NEW job, exam \in Exam,
         "status" \in DOMAIN job.set => job.set["status"] \in Status,
         "limit" \in DOMAIN job.set => job.set["limit"] \in Nat,
         "total" \in DOMAIN job.set => job.set["total"] \in Nat
  PROVE  /\ EditedRow(job) \in Exam
         /\ EditedRow(job).status = FinalStatus(job)
         /\ EditedRow(job).limit = FinalLimit(job)
         /\ EditedRow(job).total = FinalTotal(job)
<1> DEFINE new == EditedRow(job)
           set == job.set
<1>1. DOMAIN exam = {"status", "limit", "total"}
  BY DEF Exam
<1>2. new = [col \in {"status", "limit", "total"} |-> IF col \in DOMAIN set THEN set[col] ELSE exam[col]]
  BY <1>1 DEF EditedRow, Update
<1>3. new["status"] = FinalStatus(job) /\ new["limit"] = FinalLimit(job)
      /\ new["total"] = FinalTotal(job)
  BY <1>2 DEF FinalStatus, FinalLimit, FinalTotal
<1>4. FinalStatus(job) \in Status
  BY DEF Exam, FinalStatus
<1>5. FinalLimit(job) \in Nat /\ FinalTotal(job) \in Nat
  BY DEF Exam, FinalLimit, FinalTotal
<1>6. new = [status |-> FinalStatus(job), limit |-> FinalLimit(job), total |-> FinalTotal(job)]
  BY <1>2, <1>3
<1> HIDE DEF new
<1>7. new \in Exam
  BY <1>4, <1>5, <1>6 DEF Exam
<1> QED BY <1>3, <1>7 DEF new

LEMMA ColumnsOf ==
  ASSUME exam \in Exam, NEW after \in Exam
  PROVE  /\ DOMAIN Columns(after) = {f \in {"status", "limit", "total"} : after[f] # exam[f]}
         /\ \A f \in DOMAIN Columns(after) : Columns(after)[f] = after[f]
  BY DEF Columns, Changes, Exam

LEMMA AtRestFits ==
  /\ AtRest.op = "rest" /\ DOMAIN AtRest.set = {} /\ AtRest.gone = {} /\ AtRest.fresh = FALSE
  /\ AtRest.for = {} /\ AtRest.set = NoChanges
  /\ DOMAIN AtRest = {"op", "set", "gone", "fresh", "for"}
<1>1. DOMAIN NoChanges = {}
  BY DEF NoChanges
<1> QED BY <1>1 DEF AtRest

LEMMA AtRestJob == JobFits(AtRest) /\ EditFits(AtRest)
  BY AtRestFits DEF JobFits, EditFits, EditorOps
-----------------------------------------------------------------------------
LEMMA EditorTurns ==
  ASSUME PaperInv, NEW t \in Editors, NEW j, editor' = [editor EXCEPT ![t] = j]
  PROVE  /\ DOMAIN editor' = Editors /\ editor'[t] = j
         /\ \A v \in Editors \ {t} : editor'[v] = editor[v]
  BY PaperTypes

\* What a request is about to write stays within the row's types.
LEMMA JobStays ==
  ASSUME NEW j, JobFits(j), 1..added \subseteq 1..added', ~Uninvited => ~Uninvited',
         exam.status # "deleted" /\ ~Uninvited => exam'.status # "deleted"
  PROVE  JobFits(j)'
  BY DEF JobFits

LEMMA UninvitedSame == UNCHANGED invited => (Uninvited' <=> Uninvited)
  BY DEF Uninvited

\* A request loads the row.
LEMMA LoadsKeeps ==
  ASSUME PaperInv, NEW t \in Editors, NEW j, editor' = [editor EXCEPT ![t] = j],
         JobFits(j), Smooth => EditFits(j),
         j.op = "upgrade" /\ j.fresh => Uninvited,
         editor[t] = AtRest, j.op # "total",
         UNCHANGED <<exam, library, paper, added, invited, crossings>>
  PROVE  PaperInv'
<1>1. /\ DOMAIN editor' = Editors /\ editor'[t] = j
      /\ \A v \in Editors \ {t} : editor'[v] = editor[v]
  BY EditorTurns
<1>2. \A v \in Editors : JobFits(editor[v])'
  <2>1. \A v \in Editors : JobFits(editor'[v])
    BY <1>1, PaperTypes
  <2> QED BY <2>1, JobStays, UninvitedSame
<1>3. ASSUME Smooth PROVE Smooth'
  <2>1. \A v \in Editors : EditFits(editor'[v])
    BY <1>1, <1>3 DEF Smooth
  <2>2. \A v \in Editors : EditFits(editor[v])'
    BY <2>1 DEF EditFits, FinalTotal, FinalLimit, Complete
  <2>3. (\A v \in Editors : editor'[v].op # "total") => \A v \in Editors : editor[v].op # "total"
    BY <1>1, AtRestFits
  <2> QED BY <1>3, <2>2, <2>3 DEF Smooth, Complete
<1>4. ASSUME Settled PROVE Settled'
  <2>1. Selected' = Selected
    BY DEF Selected
  <2>2. \A v \in Editors : editor'[v].op = "upgrade" /\ editor'[v].fresh => Uninvited
    BY <1>1, <1>4 DEF Settled
  <2> QED BY <1>4, <2>1, <2>2, UninvitedSame DEF Settled
<1>5. exam' \in Exam /\ library' \in BOOLEAN
  BY PaperTypes
<1>6. \A c \in Candidates : invited'[c].status = "none" => invited'[c].shown = {}
  BY DEF PaperInv
<1>7. "edits" \notin crossings' => Smooth'
  BY <1>3 DEF PaperInv
<1>8. crossings' \intersect {"upgrade", "reworked"} = {} => Settled'
  BY <1>4 DEF PaperInv
<1> QED BY <1>1, <1>2, <1>5, <1>6, <1>7, <1>8, PaperTypes, PaperTyped

LEMMA Rested ==
  ASSUME PaperInv, NEW t \in Editors, EditorRests(t)
  PROVE  /\ DOMAIN editor' = Editors /\ editor'[t] = AtRest
         /\ \A v \in Editors \ {t} : editor'[v] = editor[v]
         /\ library' = library
         /\ crossings' \subseteq {"edits", "upgrade", "reworked"}
         /\ crossings \subseteq crossings'
         /\ "edits" \notin crossings' /\ editor[t].op \in Edits =>
               \A v \in Editors : editor'[v].op \notin Edits
         /\ "edits" \notin crossings' /\ editor[t].op \in Edits =>
               \A v \in Editors \ {t} : editor[v].op \notin Edits
         /\ crossings' \intersect {"upgrade", "reworked"} = {} =>
               /\ editor[t].op \in {"edit", "delete"} => Uninvited
               /\ editor[t].op = "issue" => \A v \in Editors : editor[v].op # "upgrade"
<1>1. /\ editor' = [editor EXCEPT ![t] = AtRest] /\ library' = library
      /\ crossings' = crossings
         \union {x \in {"edits"} : editor[t].op \in Edits /\ Editing(Edits) # {t}}
         \union {x \in {"upgrade"} : editor[t].op = "issue" /\ Editing({"upgrade"}) # {}}
         \union {x \in {"reworked"} : editor[t].op \in {"edit", "delete"} /\ ~Uninvited}
  BY DEF EditorRests
<1>2. /\ DOMAIN editor' = Editors /\ editor'[t] = AtRest
      /\ \A v \in Editors \ {t} : editor'[v] = editor[v]
  BY <1>1, EditorTurns
<1>3. crossings' \subseteq {"edits", "upgrade", "reworked"} /\ crossings \subseteq crossings'
  BY <1>1, PaperTypes
<1>4. ASSUME "edits" \notin crossings', editor[t].op \in Edits
      PROVE  \A v \in Editors \ {t} : editor[v].op \notin Edits
  <2>1. Editing(Edits) = {t}
    BY <1>1, <1>4
  <2> QED BY <2>1 DEF Editing
<1>5. ASSUME "edits" \notin crossings', editor[t].op \in Edits
      PROVE  \A v \in Editors : editor'[v].op \notin Edits
  BY <1>2, <1>4, <1>5, AtRestFits DEF Edits
<1>6. ASSUME crossings' \intersect {"upgrade", "reworked"} = {}
      PROVE  /\ editor[t].op \in {"edit", "delete"} => Uninvited
             /\ editor[t].op = "issue" => \A v \in Editors : editor[v].op # "upgrade"
  BY <1>1, <1>6 DEF Editing
<1> QED BY <1>1, <1>2, <1>3, <1>4, <1>5, <1>6

\* Once the only edit is committed, the row and the questions agree.
LEMMA SmoothAgain ==
  ASSUME \A v \in Editors : editor'[v].op \notin Edits,
         exam'.status # "deleted" => exam'.total = Cardinality(paper'),
         exam'.status = "published" => Complete'
  PROVE  Smooth'
<1>1. \A v \in Editors : EditFits(editor[v])'
  BY DEF EditFits, Edits
<1> QED BY <1>1 DEF Smooth

\* The commit of an edit.
LEMMA EditsKeep ==
  ASSUME PaperInv, NEW t \in Editors, EditorRests(t), editor[t].op \in Edits,
         exam' \in Exam, added' \in Nat, added' <= MaxQuestions,
         1..added \subseteq 1..added', paper' \subseteq 1..added',
         ~Uninvited => (exam.status # "deleted" => exam'.status # "deleted"),
         Smooth /\ (\A v \in Editors \ {t} : editor[v].op \notin Edits) =>
            /\ exam'.status # "deleted" => exam'.total = Cardinality(paper')
            /\ exam'.status = "published" => Complete',
         Settled => editor[t].op \in {"edit", "delete"} \/ Uninvited
                    \/ (paper' = paper /\ exam'.limit = exam.limit),
         UNCHANGED invited
  PROVE  PaperInv'
<1>1. \A v \in Editors : JobFits(editor[v])'
  <2>1. \A v \in Editors : JobFits(editor'[v])
    BY Rested, PaperTypes, AtRestJob
  <2> QED BY <2>1, JobStays, UninvitedSame
<1>2. ASSUME "edits" \notin crossings' PROVE Smooth'
  <2>1. Smooth
    BY <1>2, Rested DEF PaperInv
  <2>2. /\ \A v \in Editors : editor'[v].op \notin Edits
        /\ \A v \in Editors \ {t} : editor[v].op \notin Edits
    BY <1>2, Rested
  <2> QED BY <2>1, <2>2, SmoothAgain
<1>3. ASSUME crossings' \intersect {"upgrade", "reworked"} = {} PROVE Settled'
  <2>1. Settled
    BY <1>3, Rested DEF PaperInv
  <2>2. \A v \in Editors : editor'[v].op = "upgrade" /\ editor'[v].fresh => Uninvited'
    BY <2>1, Rested, AtRestFits, UninvitedSame DEF Settled
  <2>3. CASE Uninvited
    <3>1. \A c \in Candidates : invited[c].status = "none" /\ invited[c].shown = {}
      BY <2>3 DEF Uninvited, PaperInv
    <3> QED BY <3>1, <2>2 DEF Settled
  <2>4. CASE ~Uninvited
    <3>1. paper' = paper /\ exam'.limit = exam.limit
      BY <2>1, <2>4, <1>3, Rested
    <3>2. Selected' = Selected
      BY <3>1 DEF Selected
    <3> QED BY <2>1, <2>2, <3>2 DEF Settled
  <2> QED BY <2>3, <2>4
<1>4. \A c \in Candidates : invited'[c].status = "none" => invited'[c].shown = {}
  BY DEF PaperInv
<1> QED BY <1>1, <1>2, <1>3, <1>4, Rested, PaperTypes, PaperTyped
-----------------------------------------------------------------------------
(* Questions. *)

\* The fields of the job a request begins with.
LEMMA JobSets ==
  ASSUME NEW op, NEW set
  PROVE  LET j == [[AtRest EXCEPT !.set = set] EXCEPT !.op = op] IN
         j.op = op /\ j.set = set /\ j.gone = {} /\ j.fresh = FALSE /\ j.for = {}
  BY AtRestFits

LEMMA JobDeletes ==
  ASSUME NEW op, NEW set, NEW gone
  PROVE  LET j == [[AtRest EXCEPT !.gone = gone, !.set = set] EXCEPT !.op = op] IN
         j.op = op /\ j.set = set /\ j.gone = gone /\ j.fresh = FALSE /\ j.for = {}
  BY AtRestFits

LEMMA JobReplaces ==
  ASSUME NEW op, NEW set, NEW gone
  PROVE  LET j == [[AtRest EXCEPT !.gone = gone, !.fresh = TRUE, !.set = set] EXCEPT !.op = op] IN
         j.op = op /\ j.set = set /\ j.gone = gone /\ j.fresh = TRUE /\ j.for = {}
  BY AtRestFits

LEMMA AddQuestionKeeps ==
  ASSUME PaperInv, NEW t \in Editors, AddQuestion(t)
  PROVE  PaperInv'
<1> DEFINE set == [total |-> Cardinality(paper')]
           j == [AtRest EXCEPT !.op = "total", !.set = set]
<1>1. /\ editor[t] = AtRest /\ exam.status # "deleted" /\ added < MaxQuestions /\ added' = added + 1
      /\ paper' = paper \union {added'} /\ editor' = [editor EXCEPT ![t] = j]
      /\ crossings' = crossings
           \union {x \in {"edits"} : Editing(Edits) # {}}
           \union {x \in {"reworked"} : ~Uninvited}
      /\ UNCHANGED <<exam, library, invited>>
  BY DEF AddQuestion
<1>2. /\ added' \in Nat /\ added' <= MaxQuestions /\ 1..added \subseteq 1..added'
      /\ added' \in 1..added' /\ added' \notin 1..added
  BY <1>1, PaperTypes, PaperAssumption
<1>3. paper' \subseteq 1..added'
  BY <1>1, <1>2, PaperTypes
<1>4. Cardinality(paper') = Cardinality(paper) + 1
  BY <1>1, <1>2, PaperTypes, FS_AddElement
<1>5. DOMAIN set = {"total"} /\ set["total"] = Cardinality(paper')
  OBVIOUS
<1>6. j.op = "total" /\ j.set = set /\ j.gone = {} /\ j.fresh = FALSE /\ j.for = {}
  BY AtRestFits
<1>7. Cardinality(paper') \in Nat
  BY <1>4, PaperTypes
<1> HIDE DEF j, set
<1>8. JobFits(j)
  <2>1. j.fresh \in BOOLEAN /\ j.gone \subseteq 1..added /\ j.for \subseteq Candidates
    BY <1>6
  <2>2. /\ "status" \notin DOMAIN j.set /\ "limit" \notin DOMAIN j.set
        /\ DOMAIN j.set = {"total"} /\ j.set["total"] \in Nat
    BY <1>5, <1>6, <1>7
  <2> QED BY <2>1, <2>2, <1>6 DEF JobFits, EditorOps
<1>9. /\ DOMAIN editor' = Editors /\ editor'[t] = j
      /\ \A v \in Editors \ {t} : editor'[v] = editor[v]
  BY <1>1, EditorTurns
<1>10. \A v \in Editors : JobFits(editor[v])'
  <2>1. \A v \in Editors : JobFits(editor'[v])
    BY <1>8, <1>9, PaperTypes
  <2> QED BY <2>1, <1>1, <1>2, JobStays, UninvitedSame
<1>11. ASSUME "edits" \notin crossings' PROVE Smooth'
  <2>1. Smooth /\ \A v \in Editors : editor[v].op \notin Edits
    BY <1>1, <1>11 DEF PaperInv, Editing
  <2>2. \A v \in Editors \ {t} : editor'[v].op \notin Edits
    BY <2>1, <1>9
  <2>3. \A v \in Editors \ {t} : EditFits(editor[v])'
    BY <2>2 DEF EditFits, Edits
  <2>4. EditFits(editor[t])'
    BY <1>5, <1>6, <1>9 DEF EditFits
  <2>5. exam'.status = "published" => Complete'
    <3>1. Complete => Complete'
      BY <1>1, <1>4, PaperTypes DEF Complete
    <3> QED BY <3>1, <2>1, <1>1 DEF Smooth
  <2> QED BY <2>3, <2>4, <2>5, <1>6, <1>9 DEF Smooth
<1>12. ASSUME crossings' \intersect {"upgrade", "reworked"} = {} PROVE Settled'
  <2>1. Settled /\ Uninvited
    BY <1>1, <1>12 DEF PaperInv
  <2>2. \A c \in Candidates : invited[c].status = "none" /\ invited[c].shown = {}
    BY <2>1 DEF Uninvited, PaperInv
  <2>3. Uninvited'
    BY <2>1, <1>1, UninvitedSame
  <2> QED BY <2>2, <2>3, <1>1 DEF Settled
<1>13. crossings' \subseteq {"edits", "upgrade", "reworked"}
  BY <1>1, PaperTypes
<1>14. \A c \in Candidates : invited'[c].status = "none" => invited'[c].shown = {}
  BY <1>1 DEF PaperInv
<1> QED BY <1>1, <1>2, <1>3, <1>9, <1>10, <1>11, <1>12, <1>13, <1>14, PaperTypes, PaperTyped

\* What a request that has loaded the row will leave is the row it meant.
LEMMA Intended ==
  ASSUME exam \in Exam, NEW after \in Exam, NEW j, j.set = Columns(after)
  PROVE  /\ FinalTotal(j) = after.total /\ FinalLimit(j) = after.limit
         /\ FinalStatus(j) = after.status
         /\ DOMAIN j.set = {f \in {"status", "limit", "total"} : after[f] # exam[f]}
         /\ "status" \in DOMAIN j.set => j.set["status"] = after.status /\ after.status # exam.status
         /\ "limit" \in DOMAIN j.set => j.set["limit"] = after.limit
         /\ "total" \in DOMAIN j.set => j.set["total"] = after.total
<1>1. /\ DOMAIN j.set = {f \in {"status", "limit", "total"} : after[f] # exam[f]}
      /\ \A f \in DOMAIN j.set : j.set[f] = after[f]
  BY ColumnsOf
<1> QED BY <1>1 DEF FinalTotal, FinalLimit, FinalStatus

\* A request that loads the row to set some of its columns.
LEMMA LoadsToSet ==
  ASSUME PaperInv, NEW t \in Editors, NEW j, editor' = [editor EXCEPT ![t] = j],
         j.op \in {"edit", "delete", "review", "publish", "upgrade"},
         NEW after \in Exam, j.set = Columns(after), after.status # "deleted",
         j.gone \subseteq paper, j.fresh \in BOOLEAN, j.for = {},
         j.op # "delete" /\ ~j.fresh => j.gone = {},
         j.op = "edit" => after.total = exam.total /\ after.status = exam.status,
         j.op = "delete" => after.limit = exam.limit /\ after.status = exam.status,
         j.op \in {"review", "publish"} => after.limit = exam.limit /\ after.total = exam.total,
         j.op = "review" => after.status = "in_review",
         j.op = "upgrade" /\ ~j.fresh => /\ after.limit = exam.limit /\ after.total = exam.total
                                         /\ after.status = "rejected" /\ ~Uninvited,
         j.op # "upgrade" => ~j.fresh,
         j.op = "delete" => after.total = Cardinality(paper \ j.gone),
         j.op \in {"edit", "delete"} => Unpublished,
         j.op = "publish" => Complete,
         j.op = "upgrade" /\ j.fresh => /\ j.gone = paper /\ after.total = 1 /\ after.limit = 1
                                        /\ Uninvited,
         editor[t] = AtRest, exam.status # "deleted",
         UNCHANGED <<exam, library, paper, added, invited, crossings>>
  PROVE  PaperInv'
<1>1. /\ FinalTotal(j) = after.total /\ FinalLimit(j) = after.limit /\ FinalStatus(j) = after.status
      /\ DOMAIN j.set = {f \in {"status", "limit", "total"} : after[f] # exam[f]}
      /\ "status" \in DOMAIN j.set => j.set["status"] = after.status /\ after.status # exam.status
      /\ "limit" \in DOMAIN j.set => j.set["limit"] = after.limit
      /\ "total" \in DOMAIN j.set => j.set["total"] = after.total
  BY Intended, PaperTypes
<1>2. after.status \in Status \ {"deleted"} /\ after.limit \in Nat /\ after.total \in Nat
  BY DEF Exam
<1>3. JobFits(j)
  <2>1. j.gone \subseteq 1..added
    BY PaperTypes
  <2>2. /\ "status" \in DOMAIN j.set <=> after.status # exam.status
        /\ "limit" \in DOMAIN j.set <=> after.limit # exam.limit
        /\ "total" \in DOMAIN j.set <=> after.total # exam.total
    BY <1>1
  <2>3. DOMAIN j.set \subseteq {"status", "limit", "total"}
    BY <1>1
  <2>4. j.op = "edit" => DOMAIN j.set \subseteq {"limit"} /\ j.gone = {}
    BY <2>2, <2>3
  <2>5. j.op = "delete" => DOMAIN j.set \subseteq {"total"}
    BY <2>2, <2>3
  <2>6. j.op \in {"review", "publish"} => DOMAIN j.set \subseteq {"status"}
    BY <2>2, <2>3
  <2>7. j.op = "review" /\ "status" \in DOMAIN j.set => j.set["status"] = "in_review"
    BY <1>1
  <2>8. j.op = "upgrade" /\ ~j.fresh =>
          /\ DOMAIN j.set \subseteq {"status"} /\ j.gone = {}
          /\ "status" \in DOMAIN j.set => j.set["status"] = "rejected"
          /\ ~Uninvited /\ exam.status # "deleted"
    BY <1>1, <2>2, <2>3
  <2> QED BY <1>1, <1>2, <2>1, <2>4, <2>5, <2>6, <2>7, <2>8 DEF JobFits, EditorOps
<1>4. EditFits(j)
  BY <1>1 DEF EditFits, Unpublished
<1> QED BY <1>3, <1>4, LoadsKeeps

LEMMA DeleteQuestionKeeps ==
  ASSUME PaperInv, NEW t \in Editors, NEW q \in paper, DeleteQuestion(t, q)
  PROVE  PaperInv'
<1> DEFINE after == [exam EXCEPT !.total = Cardinality(paper \ {q})]
           j == [[AtRest EXCEPT !.gone = {q}, !.set = Columns(after)] EXCEPT !.op = "delete"]
<1>1. /\ Unpublished /\ editor[t] = AtRest /\ exam.status # "deleted"
      /\ editor' = [editor EXCEPT ![t] = j]
      /\ UNCHANGED <<exam, library, paper, added, invited, crossings>>
  BY DEF DeleteQuestion, Loads
<1>2. Cardinality(paper \ {q}) \in Nat
  BY PaperTypes, FS_RemoveElement, FS_CardinalityType
<1>3. /\ after \in Exam /\ after.total = Cardinality(paper \ {q})
      /\ after.limit = exam.limit /\ after.status = exam.status
  BY <1>2, PaperTypes DEF Exam
<1> HIDE DEF after
<1>4. j.op = "delete" /\ j.set = Columns(after) /\ j.gone = {q} /\ j.fresh = FALSE /\ j.for = {}
  BY JobDeletes
<1> HIDE DEF j
<1> QED BY <1>1, <1>3, <1>4, LoadsToSet

LEMMA EditKeeps ==
  ASSUME PaperInv, NEW t \in Editors, NEW limit \in Limits, Edit(t, limit)
  PROVE  PaperInv'
<1> DEFINE after == [exam EXCEPT !.limit = limit]
           j == [[AtRest EXCEPT !.set = Columns(after)] EXCEPT !.op = "edit"]
<1>1. /\ Unpublished /\ editor[t] = AtRest /\ exam.status # "deleted"
      /\ editor' = [editor EXCEPT ![t] = j]
      /\ UNCHANGED <<exam, library, paper, added, invited, crossings>>
  BY DEF Edit, Loads
<1>2. limit \in Nat
  BY PaperAssumption
<1>3. after \in Exam /\ after.total = exam.total /\ after.status = exam.status
  BY <1>2, PaperTypes DEF Exam
<1> HIDE DEF after
<1>4. j.op = "edit" /\ j.set = Columns(after) /\ j.gone = {} /\ j.fresh = FALSE /\ j.for = {}
  BY JobSets
<1> HIDE DEF j
<1> QED BY <1>1, <1>3, <1>4, LoadsToSet

LEMMA EditCommitsKeeps ==
  ASSUME PaperInv, NEW t \in Editors, EditCommits(t)
  PROVE  PaperInv'
<1> DEFINE job == editor[t]
<1>1. /\ job.op \in {"total", "edit", "delete"} /\ exam.status # "deleted"
      /\ exam' = EditedRow(job) /\ paper' = paper \ job.gone /\ EditorRests(t)
      /\ UNCHANGED <<added, invited>>
  BY DEF EditCommits
<1>2. JobFits(job)
  BY PaperTypes
<1>3. /\ exam' \in Exam /\ exam'.status = exam.status
      /\ exam'.limit = FinalLimit(job) /\ exam'.total = FinalTotal(job)
  <2>1. "status" \notin DOMAIN job.set
    BY <1>1, <1>2 DEF JobFits
  <2>2. /\ "limit" \in DOMAIN job.set => job.set["limit"] \in Nat
        /\ "total" \in DOMAIN job.set => job.set["total"] \in Nat
    BY <1>2 DEF JobFits
  <2>3. FinalStatus(job) = exam.status
    BY <2>1 DEF FinalStatus
  <2> QED BY <2>1, <2>2, <2>3, <1>1, UpdateOfExam, PaperTypes
<1>4. editor[t].op \in Edits
  BY <1>1 DEF Edits
<1>5. ASSUME Smooth, \A v \in Editors \ {t} : editor[v].op \notin Edits
      PROVE  /\ exam'.status # "deleted" => exam'.total = Cardinality(paper')
             /\ exam'.status = "published" => Complete'
  <2>1. EditFits(job)
    BY <1>5 DEF Smooth
  <2>2. CASE job.op = "total"
    <3>1. /\ paper' = paper /\ FinalTotal(job) = job.set["total"] /\ FinalLimit(job) = exam.limit
      BY <1>1, <1>2, <2>2 DEF JobFits, FinalTotal, FinalLimit
    <3>2. job.set["total"] = Cardinality(paper)
      BY <2>1, <2>2, <1>1 DEF EditFits
    <3> QED BY <3>1, <3>2, <1>3, <1>5 DEF Smooth, Complete
  <2>3. CASE job.op = "edit"
    <3>1. paper' = paper /\ FinalTotal(job) = exam.total
      BY <1>1, <1>2, <2>3 DEF JobFits, FinalTotal
    <3>2. exam.status # "published"
      BY <2>1, <2>3, <1>1 DEF EditFits
    <3>3. \A v \in Editors : editor[v].op # "total"
      BY <2>3, <1>5 DEF Edits
    <3> QED BY <3>1, <3>2, <3>3, <1>1, <1>3, <1>5 DEF Smooth
  <2>4. CASE job.op = "delete"
    <3>1. FinalTotal(job) = Cardinality(paper \ job.gone) /\ exam.status # "published"
      BY <2>1, <2>4, <1>1 DEF EditFits
    <3> QED BY <3>1, <1>1, <1>3
  <2> QED BY <1>1, <2>2, <2>3, <2>4
<1>6. ASSUME editor[t].op \notin {"edit", "delete"}
      PROVE  paper' = paper /\ exam'.limit = exam.limit
  BY <1>1, <1>2, <1>3, <1>6 DEF JobFits, FinalLimit
<1>7. added' \in Nat /\ added' <= MaxQuestions /\ paper' \subseteq 1..added'
  BY <1>1, PaperTypes
<1> HIDE DEF job
<1> QED BY <1>1, <1>3, <1>4, <1>5, <1>6, <1>7, EditsKeep
\* A request that ends without an edit, or fails.
LEMMA OthersKeep ==
  ASSUME PaperInv, NEW t \in Editors, editor'[t] = AtRest, DOMAIN editor' = Editors,
         \A v \in Editors \ {t} : editor'[v] = editor[v],
         crossings' \subseteq {"edits", "upgrade", "reworked"}, crossings \subseteq crossings',
         "edits" \notin crossings' => editor[t].op # "total",
         exam' \in Exam, exam'.limit = exam.limit, exam'.total = exam.total,
         exam.status # "deleted" => exam'.status # "deleted",
         exam'.status \in {exam.status, "in_review"}, exam.status = "deleted" => exam' = exam,
         UNCHANGED <<library, paper, added, invited>>
  PROVE  PaperInv'
<1>1. \A v \in Editors : JobFits(editor[v])'
  <2>1. \A v \in Editors : JobFits(editor'[v])
    BY PaperTypes, AtRestJob
  <2> QED BY <2>1, JobStays, UninvitedSame
<1>2. ASSUME "edits" \notin crossings' PROVE Smooth'
  <2>1. Smooth /\ editor[t].op # "total"
    BY <1>2 DEF PaperInv
  <2>2. \A v \in Editors : EditFits(editor'[v])
    BY <2>1, AtRestJob DEF Smooth
  <2>3. Complete' <=> Complete
    BY DEF Complete
  <2>4. exam'.status # "deleted" => exam.status # "deleted"
    OBVIOUS
  <2>5. \A v \in Editors : EditFits(editor[v])'
    <3>1. \A v \in Editors : FinalTotal(editor[v])' = FinalTotal(editor'[v])
                             /\ FinalLimit(editor[v])' = FinalLimit(editor'[v])
      BY DEF FinalTotal, FinalLimit
    <3> QED BY <2>2, <2>3, <2>4, <3>1 DEF EditFits
  <2>6. (\A v \in Editors : editor'[v].op # "total") => \A v \in Editors : editor[v].op # "total"
    BY <2>1
  <2> QED BY <2>1, <2>3, <2>4, <2>5, <2>6 DEF Smooth
<1>3. ASSUME crossings' \intersect {"upgrade", "reworked"} = {} PROVE Settled'
  <2>1. Settled
    BY <1>3 DEF PaperInv
  <2>2. Selected' = Selected
    BY DEF Selected
  <2>3. \A v \in Editors : editor'[v].op = "upgrade" /\ editor'[v].fresh => Uninvited'
    BY <2>1, AtRestFits, UninvitedSame DEF Settled
  <2> QED BY <2>1, <2>2, <2>3 DEF Settled
<1>4. \A c \in Candidates : invited'[c].status = "none" => invited'[c].shown = {}
  BY DEF PaperInv
<1> QED BY <1>1, <1>2, <1>3, <1>4, PaperTypes, PaperTyped

\* A request that has nothing to write of the row.
LEMMA PlainJob ==
  ASSUME NEW job, DOMAIN job.set = {}, job.op \in {"drop", "issue"}, job.gone \subseteq 1..added,
         job.fresh = FALSE, job.for \subseteq Candidates
  PROVE  JobFits(job) /\ EditFits(job)
<1>1. job.fresh \in BOOLEAN
  OBVIOUS
<1> QED BY <1>1 DEF JobFits, EditFits, EditorOps

LEMMA DropKeeps ==
  ASSUME PaperInv, NEW t \in Editors, Drop(t)
  PROVE  PaperInv'
<1> DEFINE j == [[AtRest EXCEPT !.gone = paper] EXCEPT !.op = "drop"]
<1>1. /\ editor[t] = AtRest /\ editor' = [editor EXCEPT ![t] = j]
      /\ UNCHANGED <<exam, library, paper, added, invited, crossings>>
  BY DEF Drop, Loads
<1>2. /\ j.op = "drop" /\ DOMAIN j.set = {} /\ j.gone = paper /\ j.fresh = FALSE /\ j.for = {}
  BY AtRestFits
<1> HIDE DEF j
<1>3. JobFits(j) /\ EditFits(j)
  BY <1>2, PlainJob, PaperTypes
<1> QED BY <1>1, <1>2, <1>3, LoadsKeeps

LEMMA DropCommitsKeeps ==
  ASSUME PaperInv, NEW t \in Editors, DropCommits(t)
  PROVE  PaperInv'
<1>1. /\ editor[t].op = "drop" /\ Uninvited /\ exam' = [exam EXCEPT !.status = "deleted"]
      /\ paper' = {} /\ EditorRests(t) /\ UNCHANGED <<added, invited>>
  BY DEF DropCommits
<1>2. exam' \in Exam /\ exam'.status = "deleted" /\ exam'.limit = exam.limit /\ exam'.total = exam.total
  BY <1>1, PaperTypes DEF Exam, Status
<1>3. \A v \in Editors : JobFits(editor[v])'
  <2>1. \A v \in Editors : JobFits(editor'[v])
    BY <1>1, Rested, PaperTypes, AtRestJob
  <2> QED BY <2>1, <1>1, JobStays, UninvitedSame
<1>4. ASSUME "edits" \notin crossings' PROVE Smooth'
  <2>1. Smooth
    BY <1>1, <1>4, Rested DEF PaperInv
  <2>2. \A v \in Editors : editor'[v].op = "upgrade" /\ editor'[v].fresh =>
          FinalTotal(editor'[v]) = 1 /\ FinalLimit(editor'[v]) = 1
    <3>1. \A v \in Editors : EditFits(editor'[v])
      BY <2>1, <1>1, Rested, AtRestJob DEF Smooth
    <3> QED BY <3>1 DEF EditFits
  <2>3. \A v \in Editors : FinalTotal(editor[v])' = FinalTotal(editor'[v])
                           /\ FinalLimit(editor[v])' = FinalLimit(editor'[v])
    BY <1>2 DEF FinalTotal, FinalLimit
  <2>4. \A v \in Editors : EditFits(editor[v])'
    BY <1>1, <1>2, <2>2, <2>3 DEF EditFits
  <2> QED BY <1>2, <2>4 DEF Smooth
<1>5. ASSUME crossings' \intersect {"upgrade", "reworked"} = {} PROVE Settled'
  <2>1. \A c \in Candidates : invited[c].status = "none" /\ invited[c].shown = {}
    BY <1>1 DEF Uninvited, PaperInv
  <2>2. Uninvited'
    BY <1>1, UninvitedSame
  <2> QED BY <2>1, <2>2, <1>1 DEF Settled
<1>6. \A c \in Candidates : invited'[c].status = "none" => invited'[c].shown = {}
  BY <1>1 DEF PaperInv
<1> QED BY <1>1, <1>2, <1>3, <1>4, <1>5, <1>6, Rested, PaperTypes, PaperTyped

-----------------------------------------------------------------------------
(* Review, publication and issue. *)

LEMMA RequestReviewKeeps ==
  ASSUME PaperInv, NEW t \in Editors, RequestReview(t)
  PROVE  PaperInv'
<1> DEFINE after == [exam EXCEPT !.status = "in_review"]
           j == [[AtRest EXCEPT !.set = Columns(after)] EXCEPT !.op = "review"]
<1>1. /\ editor[t] = AtRest /\ exam.status # "deleted" /\ editor' = [editor EXCEPT ![t] = j]
      /\ UNCHANGED <<exam, library, paper, added, invited, crossings>>
  BY DEF RequestReview, Loads
<1>3. after \in Exam /\ after.total = exam.total /\ after.limit = exam.limit /\ after.status = "in_review"
  BY PaperTypes DEF Exam, Status
<1> HIDE DEF after
<1>4. j.op = "review" /\ j.set = Columns(after) /\ j.gone = {} /\ j.fresh = FALSE /\ j.for = {}
  BY JobSets
<1> HIDE DEF j
<1> QED BY <1>1, <1>3, <1>4, LoadsToSet

LEMMA PublishKeeps ==
  ASSUME PaperInv, NEW t \in Editors, NEW approved \in BOOLEAN, Publish(t, approved)
  PROVE  PaperInv'
<1> DEFINE after == [exam EXCEPT !.status = IF approved THEN "published" ELSE "rejected"]
           j == [[AtRest EXCEPT !.set = Columns(after)] EXCEPT !.op = "publish"]
<1>1. /\ Complete /\ editor[t] = AtRest /\ exam.status # "deleted" /\ editor' = [editor EXCEPT ![t] = j]
      /\ UNCHANGED <<exam, library, paper, added, invited, crossings>>
  BY DEF Publish, Loads
<1>3. /\ after \in Exam /\ after.total = exam.total /\ after.limit = exam.limit
      /\ after.status # "deleted"
  BY PaperTypes DEF Exam, Status
<1> HIDE DEF after
<1>4. j.op = "publish" /\ j.set = Columns(after) /\ j.gone = {} /\ j.fresh = FALSE /\ j.for = {}
  BY JobSets
<1> HIDE DEF j
<1> QED BY <1>1, <1>3, <1>4, LoadsToSet

LEMMA StatusCommitsKeeps ==
  ASSUME PaperInv, NEW t \in Editors, StatusCommits(t)
  PROVE  PaperInv'
<1> DEFINE job == editor[t]
<1>1. /\ job.op \in {"review", "publish"} /\ exam.status # "deleted" /\ exam' = EditedRow(job)
      /\ EditorRests(t) /\ UNCHANGED <<paper, added, invited>>
  BY DEF StatusCommits
<1>2. JobFits(job) /\ DOMAIN job.set \subseteq {"status"}
  BY <1>1, PaperTypes DEF JobFits
<1>3. /\ exam' \in Exam /\ exam'.status = FinalStatus(job) /\ exam'.limit = exam.limit
      /\ exam'.total = exam.total
  <2>1. FinalLimit(job) = exam.limit /\ FinalTotal(job) = exam.total
    BY <1>2 DEF FinalLimit, FinalTotal
  <2>2. "status" \in DOMAIN job.set => job.set["status"] \in Status
    BY <1>2 DEF JobFits
  <2> QED BY <2>1, <2>2, <1>1, <1>2, UpdateOfExam, PaperTypes
<1>4. exam'.status # "deleted"
  BY <1>1, <1>2, <1>3 DEF FinalStatus, JobFits
<1>5. CASE job.op = "review"
  <2>1. exam'.status \in {exam.status, "in_review"}
    BY <1>2, <1>3, <1>5 DEF FinalStatus, JobFits
  <2> QED BY <2>1, <1>1, <1>3, <1>4, <1>5, Rested, OthersKeep
<1>6. CASE job.op = "publish"
  <2>1. job.op \in Edits
    BY <1>6 DEF Edits
  <2>2. ASSUME Smooth, \A v \in Editors \ {t} : editor[v].op \notin Edits
        PROVE  /\ exam'.status # "deleted" => exam'.total = Cardinality(paper')
               /\ exam'.status = "published" => Complete'
    <3>1. \A v \in Editors : editor[v].op # "total"
      BY <2>2, <1>6 DEF Edits
    <3>2. Complete
      BY <2>2, <1>1, <1>6 DEF Smooth, EditFits
    <3> QED BY <2>2, <3>1, <3>2, <1>1, <1>3 DEF Smooth, Complete
  <2>3. added' \in Nat /\ added' <= MaxQuestions /\ paper' \subseteq 1..added'
    BY <1>1, PaperTypes
  <2> QED BY <2>1, <2>2, <2>3, <1>1, <1>3, <1>4, EditsKeep
<1> QED BY <1>1, <1>5, <1>6
LEMMA InviteKeeps ==
  ASSUME PaperInv, NEW t \in Editors, NEW c \in Candidates, Invite(t, c)
  PROVE  PaperInv'
<1> DEFINE j == [[AtRest EXCEPT !.for = {c}] EXCEPT !.op = "issue"]
<1>0. /\ editor' = [editor EXCEPT ![t] = j] /\ editor[t] = AtRest
      /\ UNCHANGED <<exam, library, paper, added, invited, crossings>>
  BY DEF Invite, Loads
<1>3. /\ j.op = "issue" /\ DOMAIN j.set = {} /\ j.gone = {} /\ j.fresh = FALSE /\ j.for = {c}
  BY AtRestFits
<1> HIDE DEF j
<1>4. JobFits(j) /\ EditFits(j)
  BY <1>3, PlainJob
<1> QED BY <1>0, <1>3, <1>4, LoadsKeeps

LEMMA InviteCommitsKeeps ==
  ASSUME PaperInv, NEW t \in Editors, InviteCommits(t)
  PROVE  PaperInv'
<1>1. /\ editor[t].op = "issue" /\ exam.status # "deleted"
      /\ invited' = [c \in Candidates |-> IF c \in editor[t].for
                       THEN [invited[c] EXCEPT !.status = "issued"] ELSE invited[c]]
      /\ EditorRests(t) /\ UNCHANGED <<exam, paper, added>>
  BY DEF InviteCommits
<1>2. \A c \in Candidates :
        /\ invited'[c] \in Invitation /\ invited'[c].shown = invited[c].shown
        /\ invited'[c].scored = invited[c].scored
        /\ invited'[c].status \in {"issued", invited[c].status}
  <2> TAKE c \in Candidates
  <2>1. invited[c] \in Invitation
    BY PaperTypes
  <2>2. CASE c \in editor[t].for
    BY <2>1, <2>2, <1>1 DEF Invitation
  <2>3. CASE c \notin editor[t].for
    BY <2>1, <2>3, <1>1
  <2> QED BY <2>2, <2>3
<1>3. invited' \in [Candidates -> Invitation]
  BY <1>1, <1>2
<1>4. \A v \in Editors : JobFits(editor[v])'
  <2>1. \A v \in Editors : JobFits(editor'[v])
    BY <1>1, Rested, PaperTypes, AtRestJob
  <2>2. ~Uninvited => ~Uninvited'
    BY <1>2 DEF Uninvited
  <2> QED BY <2>1, <2>2, <1>1, JobStays
<1>5. ASSUME "edits" \notin crossings' PROVE Smooth'
  <2>1. Smooth
    BY <1>1, <1>5, Rested DEF PaperInv
  <2>2. \A v \in Editors : EditFits(editor'[v])
    BY <2>1, <1>1, Rested, AtRestJob DEF Smooth
  <2>3. Complete' <=> Complete
    BY <1>1 DEF Complete
  <2>4. \A v \in Editors : FinalTotal(editor[v])' = FinalTotal(editor'[v])
                           /\ FinalLimit(editor[v])' = FinalLimit(editor'[v])
    BY <1>1 DEF FinalTotal, FinalLimit
  <2>5. \A v \in Editors : EditFits(editor[v])'
    BY <1>1, <2>2, <2>3, <2>4 DEF EditFits
  <2>6. (\A v \in Editors : editor'[v].op # "total") => \A v \in Editors : editor[v].op # "total"
    BY <1>1, Rested
  <2> QED BY <2>1, <2>3, <2>5, <2>6, <1>1 DEF Smooth
<1>6. ASSUME crossings' \intersect {"upgrade", "reworked"} = {} PROVE Settled'
  <2>1. Settled
    BY <1>1, <1>6, Rested DEF PaperInv
  <2>2. Selected' = Selected
    BY <1>1 DEF Selected
  <2>3. \A v \in Editors : editor'[v].op # "upgrade"
    BY <1>1, <1>6, Rested, AtRestFits
  <2>4. \A c \in Candidates : invited'[c].status = "done" => invited[c].status = "done"
    BY <1>2
  <2> QED BY <2>1, <2>2, <2>3, <2>4, <1>2 DEF Settled
<1>7. \A c \in Candidates : invited'[c].status = "none" => invited'[c].shown = {}
  BY <1>2 DEF PaperInv
<1> QED BY <1>1, <1>3, <1>4, <1>5, <1>6, <1>7, Rested, PaperTypes, PaperTyped

LEMMA RequestFailsKeeps ==
  ASSUME PaperInv, NEW t \in Editors, RequestFails(t)
  PROVE  PaperInv'
<1>1. /\ editor' = [editor EXCEPT ![t] = AtRest]
      /\ crossings' = crossings \union {x \in {"edits"} : editor[t].op = "total"}
      /\ UNCHANGED <<exam, library, paper, added, invited>>
  BY DEF RequestFails
<1>2. /\ DOMAIN editor' = Editors /\ editor'[t] = AtRest
      /\ \A v \in Editors \ {t} : editor'[v] = editor[v]
  BY <1>1, EditorTurns
<1>3. /\ crossings' \subseteq {"edits", "upgrade", "reworked"} /\ crossings \subseteq crossings'
      /\ "edits" \notin crossings' => editor[t].op # "total"
  BY <1>1, PaperTypes
<1> QED BY <1>1, <1>2, <1>3, PaperTypes, OthersKeep

-----------------------------------------------------------------------------
(* A new version of the template. *)

LEMMA UpgradeKeeps ==
  ASSUME PaperInv, NEW t \in Editors, Upgrade(t)
  PROVE  PaperInv'
<1>1. /\ editor[t] = AtRest /\ exam.status # "deleted"
      /\ UNCHANGED <<exam, library, paper, added, invited, crossings>>
  BY DEF Upgrade, Loads
<1>2. CASE InPlace
  <2> DEFINE after == [status |-> "published", limit |-> 1, total |-> 1]
             j == [[AtRest EXCEPT !.gone = paper, !.fresh = TRUE, !.set = Columns(after)]
                     EXCEPT !.op = "upgrade"]
  <2>2. editor' = [editor EXCEPT ![t] = j]
    BY <1>2 DEF Upgrade, Loads
  <2>3. after \in Exam /\ after.total = 1 /\ after.limit = 1 /\ after.status = "published"
    BY DEF Exam, Status
  <2>4. Uninvited
    BY <1>2 DEF InPlace
  <2> HIDE DEF after
  <2>5. j.op = "upgrade" /\ j.set = Columns(after) /\ j.gone = paper /\ j.fresh = TRUE /\ j.for = {}
    BY JobReplaces
  <2> HIDE DEF j
  <2> QED BY <1>1, <2>2, <2>3, <2>4, <2>5, LoadsToSet
<1>3. CASE ~InPlace
  <2> DEFINE after == [exam EXCEPT !.status = "rejected"]
             j == [[AtRest EXCEPT !.set = Columns(after)] EXCEPT !.op = "upgrade"]
  <2>2. editor' = [editor EXCEPT ![t] = j]
    BY <1>3 DEF Upgrade, Loads
  <2>3. /\ after \in Exam /\ after.total = exam.total /\ after.limit = exam.limit
        /\ after.status = "rejected"
    BY PaperTypes DEF Exam, Status
  <2>4. ~Uninvited
    BY <1>3 DEF InPlace
  <2> HIDE DEF after
  <2>5. j.op = "upgrade" /\ j.set = Columns(after) /\ j.gone = {} /\ j.fresh = FALSE /\ j.for = {}
    BY JobSets
  <2> HIDE DEF j
  <2> QED BY <1>1, <2>2, <2>3, <2>4, <2>5, LoadsToSet
<1> QED BY <1>2, <1>3

LEMMA UpgradeCommitsKeeps ==
  ASSUME PaperInv, NEW t \in Editors, UpgradeCommits(t)
  PROVE  PaperInv'
<1> DEFINE job == editor[t]
<1>1. /\ job.op = "upgrade" /\ (job.fresh => added < MaxQuestions)
      /\ added' = IF job.fresh THEN added + 1 ELSE added
      /\ paper' = (paper \ job.gone) \union {q \in {added'} : job.fresh}
      /\ exam' = EditedRow(job) /\ EditorRests(t) /\ UNCHANGED invited
  BY DEF UpgradeCommits
<1>2. JobFits(job) /\ job.op \in Edits
  BY <1>1, PaperTypes DEF Edits
<1>3. /\ exam' \in Exam /\ exam'.status = FinalStatus(job) /\ exam'.limit = FinalLimit(job)
      /\ exam'.total = FinalTotal(job)
  <2>1. /\ "status" \in DOMAIN job.set => job.set["status"] \in Status
        /\ "limit" \in DOMAIN job.set => job.set["limit"] \in Nat
        /\ "total" \in DOMAIN job.set => job.set["total"] \in Nat
    BY <1>2 DEF JobFits
  <2> QED BY <2>1, <1>1, UpdateOfExam, PaperTypes
<1>4. CASE job.fresh
  <2>1. added' = added + 1 /\ added < MaxQuestions /\ paper' = (paper \ job.gone) \union {added'}
    BY <1>1, <1>4
  <2>2. /\ added' \in Nat /\ added' <= MaxQuestions /\ 1..added \subseteq 1..added'
        /\ added' \in 1..added'
    BY <2>1, PaperTypes, PaperAssumption
  <2>3. paper' \subseteq 1..added'
    BY <2>1, <2>2, PaperTypes
  <2>4. exam.status # "deleted" => exam'.status # "deleted"
    BY <1>2, <1>3 DEF FinalStatus, JobFits
  <2>5. ASSUME Smooth
        PROVE  /\ exam'.status # "deleted" => exam'.total = Cardinality(paper')
               /\ exam'.status = "published" => Complete'
    <3>1. paper \subseteq job.gone /\ FinalTotal(job) = 1 /\ FinalLimit(job) = 1
      BY <2>5, <1>1, <1>4 DEF Smooth, EditFits
    <3>2. paper' = {added'}
      BY <3>1, <2>1
    <3>3. Cardinality(paper') = 1
      BY <3>2, FS_Singleton
    <3> QED BY <3>1, <3>2, <3>3, <1>3 DEF Complete
  <2>6. Settled => Uninvited
    BY <1>1, <1>4 DEF Settled
  <2> HIDE DEF job
  <2> QED BY <1>1, <1>2, <1>3, <2>2, <2>3, <2>4, <2>5, <2>6, EditsKeep DEF job
<1>5. CASE ~job.fresh
  <2>1. /\ DOMAIN job.set \subseteq {"status"} /\ job.gone = {}
        /\ "status" \in DOMAIN job.set => job.set["status"] = "rejected"
        /\ exam.status # "deleted"
    BY <1>1, <1>2, <1>5 DEF JobFits
  <2>2. paper' = paper /\ added' = added
    BY <2>1, <1>1, <1>5
  <2>3. exam'.limit = exam.limit /\ exam'.total = exam.total /\ exam'.status \in {"rejected", exam.status}
    BY <2>1, <1>3 DEF FinalStatus, FinalLimit, FinalTotal
  <2>4. ASSUME Smooth, \A v \in Editors \ {t} : editor[v].op \notin Edits
        PROVE  /\ exam'.status # "deleted" => exam'.total = Cardinality(paper')
               /\ exam'.status = "published" => Complete'
    <3>1. \A v \in Editors : editor[v].op # "total"
      BY <2>4, <1>1 DEF Edits
    <3> QED BY <3>1, <2>1, <2>2, <2>3, <2>4 DEF Smooth, Complete
  <2>5. added' \in Nat /\ added' <= MaxQuestions /\ paper' \subseteq 1..added' /\ 1..added \subseteq 1..added'
    BY <2>2, PaperTypes
  <2> HIDE DEF job
  <2> QED BY <1>1, <1>2, <1>3, <2>1, <2>2, <2>3, <2>4, <2>5, EditsKeep DEF job
<1> QED BY <1>4, <1>5

-----------------------------------------------------------------------------
(* Candidates. *)

LEMMA CandidateKeeps ==
  ASSUME PaperInv, NEW c \in Candidates, NEW i \in Invitation, invited' = [invited EXCEPT ![c] = i],
         invited[c].status # "none", i.status # "none",
         i.shown # {} => i.shown = Selected \/ i.shown = invited[c].shown,
         i.status = "done" => i.shown # {} /\ i.scored = Selected,
         UNCHANGED <<exam, library, paper, added, editor, crossings>>
  PROVE  PaperInv'
<1>1. /\ invited' \in [Candidates -> Invitation] /\ invited'[c] = i
      /\ \A d \in Candidates \ {c} : invited'[d] = invited[d]
  BY PaperTypes
<1>2. Uninvited' <=> Uninvited
  BY <1>1 DEF Uninvited
<1>3. \A v \in Editors : JobFits(editor[v])'
  BY <1>2, PaperTypes, JobStays
<1>4. Smooth => Smooth'
  <2>1. Complete' <=> Complete
    BY DEF Complete
  <2>2. \A v \in Editors : FinalTotal(editor[v])' = FinalTotal(editor[v])
                           /\ FinalLimit(editor[v])' = FinalLimit(editor[v])
    BY DEF FinalTotal, FinalLimit
  <2>3. \A v \in Editors : EditFits(editor[v]) => EditFits(editor[v])'
    BY <2>1, <2>2 DEF EditFits
  <2> QED BY <2>1, <2>3 DEF Smooth
<1>5. Settled => Settled'
  <2>1. Selected' = Selected
    BY DEF Selected
  <2> QED BY <1>1, <1>2, <2>1 DEF Settled
<1>6. \A d \in Candidates : invited'[d].status = "none" => invited'[d].shown = {}
  BY <1>1 DEF PaperInv
<1>7. /\ "edits" \notin crossings' => Smooth'
      /\ crossings' \intersect {"upgrade", "reworked"} = {} => Settled'
  BY <1>4, <1>5 DEF PaperInv
<1> QED BY <1>1, <1>3, <1>6, <1>7, PaperTypes, PaperTyped

LEMMA SelectedOK ==
  ASSUME PaperInv
  PROVE  Selected \subseteq 1..MaxQuestions
<1>1. Selected \subseteq paper
  BY PaperTypes, SelectionDraws DEF Selected
<1>2. paper \subseteq 1..MaxQuestions
  BY PaperCounted DEF PaperInv
<1> QED BY <1>1, <1>2

LEMMA ShowKeeps ==
  ASSUME PaperInv, NEW c \in Candidates, Show(c)
  PROVE  PaperInv'
<1> DEFINE i == [invited[c] EXCEPT !.shown = Selected]
<1>1. /\ invited[c].status = "issued" /\ invited' = [invited EXCEPT ![c] = i]
      /\ UNCHANGED <<exam, library, paper, added, editor, crossings>>
  BY DEF Show, Open
<1>2. invited[c] \in Invitation
  BY PaperTypes
<1>3. i \in Invitation /\ i.status = "issued" /\ i.shown = Selected
  BY <1>1, <1>2, SelectedOK DEF Invitation
<1> HIDE DEF i
<1> QED BY <1>1, <1>3, CandidateKeeps

LEMMA SubmitPaperKeeps ==
  ASSUME PaperInv, NEW c \in Candidates, SubmitPaper(c)
  PROVE  PaperInv'
<1> DEFINE i == [invited[c] EXCEPT !.status = "done", !.scored = Selected]
<1>1. /\ invited[c].status = "issued" /\ invited[c].shown # {}
      /\ invited' = [invited EXCEPT ![c] = i]
      /\ UNCHANGED <<exam, library, paper, added, editor, crossings>>
  BY DEF SubmitPaper, Open
<1>2. invited[c] \in Invitation
  BY PaperTypes
<1>3. /\ i \in Invitation /\ i.status = "done" /\ i.shown = invited[c].shown /\ i.scored = Selected
  BY <1>1, <1>2, SelectedOK DEF Invitation
<1> HIDE DEF i
<1> QED BY <1>1, <1>3, CandidateKeeps

-----------------------------------------------------------------------------
LEMMA PaperStart == PaperInit => PaperInv
<1> SUFFICES ASSUME PaperInit PROVE PaperInv
  OBVIOUS
<1>1. PICK limit \in Limits :
        exam = IF library THEN [status |-> "published", limit |-> 1, total |-> 1]
               ELSE [status |-> "draft", limit |-> limit, total |-> 0]
  BY DEF PaperInit
<1>2. /\ library \in BOOLEAN /\ paper = (IF library THEN {1} ELSE {})
      /\ added = (IF library THEN 1 ELSE 0) /\ editor = [t \in Editors |-> AtRest]
      /\ invited = [c \in Candidates |-> [status |-> "none", shown |-> {}, scored |-> {}]]
      /\ crossings = {}
  BY DEF PaperInit
<1>3. limit \in Nat
  BY PaperAssumption
<1>4. /\ exam \in Exam /\ exam.status # "deleted" /\ added \in 0..MaxQuestions /\ paper \subseteq 1..added
      /\ exam.total = Cardinality(paper) /\ (exam.status = "published" => Complete)
  <2>1. CASE library
    <3>1. exam = [status |-> "published", limit |-> 1, total |-> 1] /\ paper = {1} /\ added = 1
      BY <2>1, <1>1, <1>2
    <3>2. Cardinality(paper) = 1
      BY <3>1, FS_Singleton
    <3>3. added \in 0..MaxQuestions /\ paper \subseteq 1..added
      BY <3>1, PaperAssumption
    <3> QED BY <3>1, <3>2, <3>3 DEF Exam, Status, Complete
  <2>2. CASE ~library
    <3>1. exam = [status |-> "draft", limit |-> limit, total |-> 0] /\ paper = {} /\ added = 0
      BY <2>2, <1>1, <1>2
    <3>2. Cardinality(paper) = 0
      BY <3>1, FS_EmptySet
    <3>3. added \in 0..MaxQuestions /\ paper \subseteq 1..added
      BY <3>1, PaperAssumption
    <3> QED BY <3>1, <3>2, <3>3, <1>3 DEF Exam, Status
  <2> QED BY <1>2, <2>1, <2>2
<1>5. /\ invited \in [Candidates -> Invitation]
      /\ \A c \in Candidates : invited[c].status = "none" /\ invited[c].shown = {}
  BY <1>2 DEF Invitation
<1>6. DOMAIN editor = Editors /\ \A t \in Editors : editor[t] = AtRest
  BY <1>2
<1>7. \A t \in Editors : JobFits(editor[t]) /\ EditFits(editor[t])
  BY <1>6, AtRestJob
<1>8. Smooth
  BY <1>4, <1>7 DEF Smooth
<1>9. Settled
  BY <1>5, <1>6, AtRestFits DEF Settled
<1> QED BY <1>2, <1>4, <1>5, <1>6, <1>7, <1>8, <1>9 DEF PaperInv

LEMMA PaperStep ==
  ASSUME PaperInv, PaperNext
  PROVE  PaperInv'
  BY AddQuestionKeeps, EditCommitsKeeps, DeleteQuestionKeeps, EditKeeps, DropKeeps, DropCommitsKeeps,
     RequestReviewKeeps, StatusCommitsKeeps, PublishKeeps, InviteKeeps, InviteCommitsKeeps,
     RequestFailsKeeps, UpgradeKeeps, UpgradeCommitsKeeps, ShowKeeps, SubmitPaperKeeps DEF PaperNext

LEMMA PaperStutter ==
  ASSUME PaperInv, UNCHANGED paperVars
  PROVE  PaperInv'
<1>1. UNCHANGED <<exam, library, paper, added, editor, invited, crossings>>
  BY DEF paperVars
<1>2. (Selected' = Selected) /\ (Complete' <=> Complete) /\ (Uninvited' <=> Uninvited)
  BY <1>1 DEF Selected, Complete, Uninvited
<1>3. \A v \in Editors : FinalTotal(editor[v])' = FinalTotal(editor[v])
                         /\ FinalLimit(editor[v])' = FinalLimit(editor[v])
  BY <1>1 DEF FinalTotal, FinalLimit
<1>4. \A v \in Editors : EditFits(editor[v]) => EditFits(editor[v])'
  BY <1>1, <1>2, <1>3 DEF EditFits
<1>5. \A v \in Editors : JobFits(editor[v])'
  BY <1>1, <1>2, PaperTypes, JobStays
<1>6. (Smooth => Smooth') /\ (Settled => Settled')
  BY <1>1, <1>2, <1>4 DEF Smooth, Settled
<1> QED BY <1>1, <1>5, <1>6 DEF PaperInv

LEMMA PaperInvHolds ==
  ASSUME PaperInv
  PROVE  PaperTypeOK /\ PublishedIsComplete /\ TotalIsSum /\ ScoredAsShown /\ ReviewedAsScored
<1>1. PaperTypeOK
  <2>1. \A t \in Editors :
          /\ editor[t].op \in EditorOps /\ EditedRow(editor[t]) \in Exam
          /\ editor[t].gone \subseteq 1..added
          /\ editor[t].fresh \in BOOLEAN /\ editor[t].for \subseteq Candidates
    <3> TAKE t \in Editors
    <3>1. JobFits(editor[t])
      BY PaperTypes
    <3>2. /\ "status" \in DOMAIN editor[t].set => editor[t].set["status"] \in Status
          /\ "limit" \in DOMAIN editor[t].set => editor[t].set["limit"] \in Nat
          /\ "total" \in DOMAIN editor[t].set => editor[t].set["total"] \in Nat
      BY <3>1 DEF JobFits
    <3>3. EditedRow(editor[t]) \in Exam
      BY <3>2, PaperTypes, UpdateOfExam
    <3> QED BY <3>1, <3>3 DEF JobFits
  <2> QED BY <2>1 DEF PaperInv, PaperTypeOK
<1>2. PublishedIsComplete
  BY DEF PaperInv, Smooth, PublishedIsComplete, Complete
<1>3. TotalIsSum
  BY DEF PaperInv, Smooth, TotalIsSum, Editing, Edits
<1>4. ScoredAsShown /\ ReviewedAsScored
  BY DEF PaperInv, Settled, ScoredAsShown, ReviewedAsScored, ReviewedQuestions
<1> QED BY <1>1, <1>2, <1>3, <1>4
-----------------------------------------------------------------------------
(* The scores. *)

\* Halves round up: monotone, and within whatever bound the quotient has.
LEMMA RoundedIs ==
  ASSUME NEW a \in Int, NEW b \in Nat \ {0}
  PROVE  Rounded(a, b) \in Int /\ (0 <= a => 0 <= Rounded(a, b))
  BY DEF Rounded

LEMMA RoundedMono ==
  ASSUME NEW a \in Int, NEW c \in Int, NEW b \in Nat \ {0}, a <= c
  PROVE  Rounded(a, b) <= Rounded(c, b)
<1>1. (2 * a + b) \div (2 * b) <= (2 * c + b) \div (2 * b)
  <2> DEFINE n == 2 * a + b  m == 2 * c + b  d == 2 * b
  <2>1. n \in Int /\ m \in Int /\ d \in Nat \ {0} /\ n <= m
    OBVIOUS
  <2> HIDE DEF n, m, d
  <2>2. n \div d <= m \div d
    BY <2>1
  <2> QED BY <2>2 DEF n, m, d
<1> QED BY <1>1 DEF Rounded

LEMMA RoundedExact ==
  ASSUME NEW m \in Int, NEW b \in Nat \ {0}
  PROVE  Rounded(b * m, b) = m
<1>1. (2 * (b * m) + b) = (2 * b) * m + b
  OBVIOUS
<1> DEFINE n == (2 * b) * m + b  d == 2 * b
<1>2. n \in Int /\ d \in Nat \ {0} /\ d * m <= n /\ n < d * m + d
  OBVIOUS
<1> HIDE DEF n, d
<1>3. n \div d = m
  BY <1>2
<1>4. (2 * (b * m) + b) \div (2 * b) = n \div d
  BY <1>1 DEF n, d
<1> QED BY <1>3, <1>4 DEF Rounded

LEMMA RoundedBound ==
  ASSUME NEW a \in Int, NEW b \in Nat \ {0}, NEW m \in Int, a <= b * m
  PROVE  Rounded(a, b) <= m
<1>1. b * m \in Int
  OBVIOUS
<1>2. Rounded(a, b) <= Rounded(b * m, b)
  BY <1>1, RoundedMono
<1> QED BY <1>2, RoundedExact

\* Half a unit too much adds at most one.
LEMMA RoundedOver ==
  ASSUME NEW a \in Int, NEW b \in Nat \ {0}, NEW m \in Int, a <= b * m + b
  PROVE  Rounded(a, b) <= m + 1
<1>1. a <= b * (m + 1)
  OBVIOUS
<1> QED BY <1>1, RoundedBound

LEMMA Scaled ==
  ASSUME NEW a \in Int, NEW b \in Int, NEW c \in Nat, a <= b
  PROVE  a * c <= b * c /\ c * a <= c * b
  OBVIOUS

-----------------------------------------------------------------------------
LEMMA SomeItems ==
  ASSUME NEW S \in SUBSET Items
  PROVE  IsFiniteSet(S) /\ Cardinality(S) \in Nat
  BY ScoringAssumption, FS_Subset, FS_CardinalityType

LEMMA FewerItems ==
  ASSUME NEW T \in SUBSET Items, NEW S \in SUBSET T
  PROVE  Cardinality(S) <= Cardinality(T)
  BY SomeItems, FS_Subset

LEMMA AskedIs ==
  ASSUME NEW S \in SUBSET Items
  PROVE  Asked(S) \in Nat \ {0}
<1>1. S # {} => Cardinality(S) # 0
  BY SomeItems, FS_EmptySet
<1> QED BY <1>1, SomeItems DEF Asked

\* What is matched of a part is at most the part.
LEMMA MatchedOf ==
  ASSUME NEW T \in SUBSET Items, NEW S
  PROVE  /\ Cardinality(S \intersect T) \in Nat
         /\ Cardinality(S \intersect T) <= Asked(T)
<1>1. S \intersect T \in SUBSET Items /\ S \intersect T \in SUBSET T
  OBVIOUS
<1>2. Cardinality(S \intersect T) <= Cardinality(T)
  BY <1>1, FewerItems
<1>3. Cardinality(S \intersect T) \in Nat
  BY <1>1, SomeItems
<1>4. T = {} => S \intersect T = {}
  OBVIOUS
<1>5. T = {} => Cardinality(S \intersect T) = 0
  BY <1>4, FS_EmptySet
<1> QED BY <1>2, <1>3, <1>5, SomeItems DEF Asked

LEMMA MatchedMore ==
  ASSUME NEW T \in SUBSET Items, NEW S, NEW R \in SUBSET S
  PROVE  Cardinality(R \intersect T) <= Cardinality(S \intersect T)
<1>1. S \intersect T \in SUBSET Items /\ R \intersect T \in SUBSET (S \intersect T)
  OBVIOUS
<1> QED BY <1>1, FewerItems

\* Weights of a task are numbers, and more items weigh no less.
LEMMA WeightIs ==
  ASSUME task \in Task, NEW T \in SUBSET Items, NEW S \in SUBSET T
  PROVE  Weight(S) \in Nat /\ Weight(T) \in Nat /\ Weight(S) <= Weight(T)
<1> DEFINE all == Items \X (1..MaxWeight)
           U(X) == UNION {{i} \X (1..task.weight[i]) : i \in X}
<1>1. MaxWeight \in Nat /\ IsFiniteSet(Items)
  BY ScoringAssumption
<1>2. IsFiniteSet(1..MaxWeight)
  BY <1>1, FS_Interval
<1>3. IsFiniteSet(all)
  BY <1>1, <1>2, FS_Product
<1>4. \A i \in Items : task.weight[i] \in Nat /\ task.weight[i] <= MaxWeight
  BY <1>1 DEF Task
<1>5. \A i \in Items : 1..task.weight[i] \subseteq 1..MaxWeight
  BY <1>4, <1>1
<1>6. \A i \in Items : {i} \X (1..task.weight[i]) \subseteq all
  BY <1>5
<1>7. U(T) \subseteq all
  BY <1>6
<1>8. U(S) \subseteq U(T)
  OBVIOUS
<1>9. IsFiniteSet(U(T)) /\ Cardinality(U(T)) \in Nat
  BY <1>3, <1>7, FS_Subset, FS_CardinalityType
<1>10. IsFiniteSet(U(S)) /\ Cardinality(U(S)) \in Nat /\ Cardinality(U(S)) <= Cardinality(U(T))
  BY <1>8, <1>9, FS_Subset, FS_CardinalityType
<1> QED BY <1>9, <1>10 DEF Weight

\* A part is worth between nothing and its percentage of the marks, rounded.
LEMMA PartIs ==
  ASSUME NEW T \in SUBSET Items, NEW S, NEW percent \in Nat
  PROVE  Part(S, T, percent) \in Nat
<1>1. Asked(T) \in Nat \ {0} /\ Cardinality(S \intersect T) \in Nat
  BY AskedIs, MatchedOf
<1> DEFINE c == Cardinality(S \intersect T)  d == Asked(T)
<1>2. c \in Nat /\ d \in Nat \ {0}
  BY <1>1
<1> HIDE DEF c, d
<1>3. 100 * d \in Nat \ {0}
  BY <1>2
<1>4. c * percent \in Nat
  BY <1>2
<1>5. c * percent * Marks \in Nat
  BY <1>4, ScoringAssumption
<1>6. Rounded(c * percent * Marks, 100 * d) \in Nat
  BY <1>3, <1>5, RoundedIs
<1> QED BY <1>6 DEF Part, c, d

LEMMA PartMore ==
  ASSUME NEW T \in SUBSET Items, NEW S, NEW R \in SUBSET S, NEW percent \in Nat
  PROVE  Part(R, T, percent) <= Part(S, T, percent)
<1> DEFINE r == Cardinality(R \intersect T)  c == Cardinality(S \intersect T)  d == Asked(T)
<1>1. r \in Nat /\ c \in Nat /\ r <= c /\ d \in Nat \ {0} /\ Marks \in Nat
  BY AskedIs, MatchedOf, MatchedMore, ScoringAssumption
<1> HIDE DEF r, c, d
<1>2. r * percent <= c * percent /\ r * percent \in Nat /\ c * percent \in Nat
  BY <1>1, Scaled
<1>3. r * percent * Marks <= c * percent * Marks
  BY <1>1, <1>2, Scaled
<1>4. r * percent * Marks \in Nat /\ c * percent * Marks \in Nat /\ 100 * d \in Nat \ {0}
  BY <1>1, <1>2
<1>5. Rounded(r * percent * Marks, 100 * d) <= Rounded(c * percent * Marks, 100 * d)
  BY <1>3, <1>4, RoundedMono
<1> QED BY <1>5 DEF Part, r, c, d

LEMMA PartBound ==
  ASSUME NEW T \in SUBSET Items, NEW S, NEW percent \in Nat
  PROVE  Part(S, T, percent) <= Rounded(percent * Marks, 100)
<1> DEFINE c == Cardinality(S \intersect T)  d == Asked(T)  p == percent * Marks
           m == Rounded(p, 100)
<1>0. c \in Nat /\ c <= d /\ d \in Nat \ {0} /\ Marks \in Nat
  BY AskedIs, MatchedOf, ScoringAssumption
<1>1. c \in Nat /\ c <= d /\ d \in Nat \ {0} /\ Marks \in Nat /\ p \in Nat
  <2>1. percent * Marks \in Nat
    BY <1>0
  <2> QED BY <1>0, <2>1
<1>2. m = (2 * p + 100) \div 200
  BY DEF Rounded
<1>3. m \in Int /\ 2 * p + 100 < 200 * m + 200
  <2> HIDE DEF p
  <2> QED BY <1>1, <1>2
<1>4. c * percent * Marks = c * p
  <2> HIDE DEF c, d
  <2> QED BY <1>1
<1> HIDE DEF c, d, p, m
<1>5. c * p <= d * p /\ c * p \in Nat /\ d * p \in Nat
  BY <1>1, Scaled
<1>6. 2 * p < 200 * m + 100
  BY <1>1, <1>3
<1>7. 2 * p + 1 <= 200 * m + 100
  BY <1>1, <1>3, <1>6
<1>8. (2 * p + 1) * d <= (200 * m + 100) * d
  BY <1>1, <1>3, <1>7, Scaled
<1>9. 2 * (d * p) + 100 * d < (200 * d) * m + 200 * d
  BY <1>1, <1>3, <1>8
<1>10. 2 * (c * p) + 100 * d < (200 * d) * m + 200 * d
  BY <1>5, <1>9, <1>1, <1>3
<1>11. (2 * (c * p) + 100 * d) \div (2 * (100 * d)) <= m
  <2> DEFINE n == 2 * (c * p) + 100 * d  e == 2 * (100 * d)
  <2>1. n \in Int /\ e \in Nat \ {0} /\ n < e * m + e
    BY <1>1, <1>3, <1>5, <1>10
  <2> HIDE DEF n, e
  <2>2. e * (n \div e) <= n /\ n \div e \in Int
    BY <2>1
  <2>3. e * (n \div e) < e * (m + 1)
    BY <2>1, <2>2, <1>3
  <2>4. n \div e >= m + 1 => e * (n \div e) >= e * (m + 1)
    BY <2>1, <2>2, <1>3, Scaled
  <2>5. n \div e <= m
    BY <2>1, <2>2, <2>3, <2>4, <1>3
  <2> QED BY <2>5 DEF n, e
<1>12. Part(S, T, percent) = Rounded(c * percent * Marks, 100 * d)
  BY DEF Part, c, d
<1>13. Part(S, T, percent) = (2 * (c * p) + 100 * d) \div (2 * (100 * d))
  BY <1>4, <1>12 DEF Rounded
<1> QED BY <1>11, <1>13 DEF m, p
-----------------------------------------------------------------------------
\* A task, as ScoringInit makes them: one part, for those that have one.
TaskFits ==
    /\ task \in Task
    /\ task.kind \in {"checkpoints", "mcq"} => task.second = {}

\* Marks that are a score, from nothing to m.
FairScore(r, m) == r.marks \in 0..m /\ r.status \in {"none", "auto_scored", "manual_review"}

LEMMA TaskIs ==
  ASSUME task \in Task
  PROVE  /\ task.kind \in Kinds
         /\ task.first \in SUBSET Items /\ task.second \in SUBSET Items
         /\ task.first \union task.second \in SUBSET Items
         /\ task.share \in Nat /\ task.share <= MaxWeight
         /\ MaxWeight \in Nat \ {0} /\ Marks \in Nat
  BY ScoringAssumption DEF Task

LEMMA Statuses ==
  ASSUME NEW m \in Int
  PROVE  /\ AutoScored(m).marks = m /\ AutoScored(m).status = "auto_scored"
         /\ ManualReview(m).marks = m /\ ManualReview(m).status = "manual_review"
         /\ Reviewed(m).marks = m /\ Reviewed(m).status \in {"auto_scored", "manual_review"}
         /\ Unscored.marks = 0 /\ Unscored.status = "none"
  BY DEF AutoScored, ManualReview, Reviewed, Unscored

LEMMA CheckpointsFair ==
  ASSUME TaskFits, task.kind = "checkpoints",
         NEW S \in SUBSET (task.first \union task.second), NEW R \in SUBSET S
  PROVE  /\ FairScore(Checkpoints(S), Marks)
         /\ Checkpoints(R).marks <= Checkpoints(S).marks
<1> DEFINE w == Weight(task.first)  s == Weight(S)  r == Weight(R)
<1>1. S \in SUBSET task.first /\ R \in SUBSET task.first /\ task.first \in SUBSET Items
       /\ S \in SUBSET Items /\ task \in Task /\ Marks \in Nat
  BY TaskIs DEF TaskFits
<1>2. w \in Nat /\ s \in Nat /\ r \in Nat /\ s <= w /\ r <= s
  BY <1>1, WeightIs
<1>3. CASE w = 0
  BY <1>1, <1>3, Statuses DEF Checkpoints, FairScore
<1>4. CASE w # 0
  <2> HIDE DEF w, s, r
  <2>1. s * Marks <= w * Marks /\ r * Marks <= s * Marks
    BY <1>1, <1>2, Scaled
  <2>2. s * Marks \in Nat /\ r * Marks \in Nat /\ w \in Nat \ {0}
    BY <1>1, <1>2, <1>4
  <2>3. Rounded(s * Marks, w) \in Int /\ 0 <= Rounded(s * Marks, w) /\ Rounded(r * Marks, w) \in Int
    BY <2>2, RoundedIs
  <2>4. Rounded(s * Marks, w) <= Marks
    BY <1>1, <2>1, <2>2, RoundedBound
  <2>5. Rounded(r * Marks, w) <= Rounded(s * Marks, w)
    BY <2>1, <2>2, RoundedMono
  <2>6. /\ Checkpoints(S) = Reviewed(Rounded(s * Marks, w))
        /\ Checkpoints(R) = Reviewed(Rounded(r * Marks, w))
    BY <1>4 DEF Checkpoints, w, s, r
  <2>7. /\ Checkpoints(S).marks = Rounded(s * Marks, w)
        /\ Checkpoints(S).status \in {"auto_scored", "manual_review"}
        /\ Checkpoints(R).marks = Rounded(r * Marks, w)
    BY <2>3, <2>6, Statuses
  <2> QED BY <1>1, <2>3, <2>4, <2>5, <2>7 DEF FairScore
<1> QED BY <1>3, <1>4

LEMMA SpreadsheetFair ==
  ASSUME TaskFits,
         NEW S \in SUBSET (task.first \union task.second), NEW R \in SUBSET S
  PROVE  /\ FairScore(Spreadsheet(S), Marks)
         /\ Spreadsheet(R).marks <= Spreadsheet(S).marks
<1> DEFINE cells == task.first \union task.second
           s == Part(S, cells, 100)  r == Part(R, cells, 100)
<1>1. cells \in SUBSET Items /\ Marks \in Nat
  BY TaskIs DEF TaskFits
<1>2. s \in Nat /\ r \in Nat
  BY <1>1, PartIs
<1>3. r <= s
  BY <1>1, PartMore
<1>4. s <= Rounded(100 * Marks, 100)
  BY <1>1, PartBound
<1>5. Rounded(100 * Marks, 100) = Marks
  BY <1>1, RoundedExact
<1> HIDE DEF cells
<1>6. Spreadsheet(S) = AutoScored(s) /\ Spreadsheet(R) = AutoScored(r)
  BY DEF Spreadsheet, cells
<1> HIDE DEF s, r
<1>7. s \in Int /\ r \in Int
  BY <1>2
<1>8. /\ Spreadsheet(S).marks = s /\ Spreadsheet(S).status = "auto_scored"
      /\ Spreadsheet(R).marks = r
  BY <1>6, <1>7, Statuses
<1> QED BY <1>1, <1>2, <1>3, <1>4, <1>5, <1>8 DEF FairScore
\* The values of a task of forms are worth at most 65 of 100 marks, and half of
\* a hundredth, by their rounding; nothing more when the marks are whole.
LEMMA SharesOf ==
  ASSUME Marks \in Nat
  PROVE  /\ Rounded(65 * Marks, 100) \in Nat
         /\ 100 * Rounded(65 * Marks, 100) <= 65 * Marks + 50
         /\ Marks % 100 = 0 => 100 * Rounded(65 * Marks, 100) <= 65 * Marks
<1>1. Rounded(65 * Marks, 100) \in Nat
  BY RoundedIs
<1>2. Rounded(65 * Marks, 100) = (2 * (65 * Marks) + 100) \div 200
  BY DEF Rounded
<1>3. 100 * Rounded(65 * Marks, 100) <= 65 * Marks + 50
  BY <1>1, <1>2
<1>4. ASSUME Marks % 100 = 0
      PROVE  100 * Rounded(65 * Marks, 100) <= 65 * Marks
  <2> DEFINE q == Marks \div 100
  <2>1. q \in Int /\ Marks = 100 * q
    BY <1>4
  <2> HIDE DEF q
  <2>2. 65 * Marks = 100 * (65 * q) /\ 65 * q \in Int
    BY <2>1
  <2>3. Rounded(100 * (65 * q), 100) = 65 * q
    BY <2>2, RoundedExact
  <2> QED BY <2>2, <2>3
<1> QED BY <1>1, <1>3, <1>4

LEMMA AccountingSum ==
  ASSUME NEW d \in Nat \ {0}, NEW v \in Nat, NEW c \in Nat, c <= d, Marks \in Nat,
         v <= Rounded(65 * Marks, 100)
  PROVE  /\ 100 * d * v + c * 35 * Marks <= (100 * d) * Marks + 100 * d
         /\ Marks % 100 = 0 => 100 * d * v + c * 35 * Marks <= (100 * d) * Marks
<1> DEFINE m == Rounded(65 * Marks, 100)
<1>1. m \in Nat /\ v <= m /\ 100 * m <= 65 * Marks + 50
      /\ (Marks % 100 = 0 => 100 * m <= 65 * Marks)
  BY SharesOf
<1> HIDE DEF m
<1>2. d * (100 * v) <= d * (100 * m)
  BY <1>1, Scaled
<1>3. c * (35 * Marks) <= d * (35 * Marks)
  BY Scaled
<1>4. d * (100 * m) <= d * (65 * Marks + 50)
  BY <1>1, Scaled
<1>5. Marks % 100 = 0 => d * (100 * m) <= d * (65 * Marks)
  BY <1>1, Scaled
<1>6. 100 * d * v = d * (100 * v) /\ c * 35 * Marks = c * (35 * Marks)
  OBVIOUS
<1>7. d * (65 * Marks + 50) + d * (35 * Marks) = (100 * d) * Marks + 50 * d
  OBVIOUS
<1>8. d * (65 * Marks) + d * (35 * Marks) = (100 * d) * Marks
  OBVIOUS
<1>9. /\ d * (100 * v) \in Int /\ d * (100 * m) \in Int /\ c * (35 * Marks) \in Int
      /\ d * (35 * Marks) \in Int /\ d * (65 * Marks + 50) \in Int /\ d * (65 * Marks) \in Int
      /\ (100 * d) * Marks \in Int
  BY <1>1
<1> DEFINE a == d * (100 * v)  b == d * (100 * m)  e == c * (35 * Marks)
           f == d * (35 * Marks)  g == d * (65 * Marks + 50)  h == d * (65 * Marks)
           k == (100 * d) * Marks
<1>10. /\ a \in Int /\ b \in Int /\ e \in Int /\ f \in Int /\ g \in Int /\ h \in Int /\ k \in Int
       /\ a <= b /\ e <= f /\ b <= g /\ g + f = k + 50 * d /\ h + f = k
       /\ (Marks % 100 = 0 => b <= h)
  BY <1>2, <1>3, <1>4, <1>5, <1>7, <1>8, <1>9
<1>11. 100 * d * v + c * 35 * Marks = a + e
  BY <1>6
<1> HIDE DEF a, b, e, f, g, h, k
<1>12. a + e <= k + 100 * d
  BY <1>10
<1>13. Marks % 100 = 0 => a + e <= k
  BY <1>10
<1> QED BY <1>11, <1>12, <1>13 DEF k

LEMMA AccountingFair ==
  ASSUME TaskFits, task.kind = "accounting",
         NEW S \in SUBSET (task.first \union task.second), NEW R \in SUBSET S
  PROVE  /\ FairScore(Accounting(S), Marks + Excess)
         /\ Accounting(R).marks <= Accounting(S).marks
<1> DEFINE forms == task.first  reds == task.second
           d == Asked(reds)
           v(X) == Part(X, forms, 65)
           c(X) == Cardinality(X \intersect reds)
           n(X) == 100 * d * v(X) + c(X) * 35 * Marks
<1>1. forms \in SUBSET Items /\ reds \in SUBSET Items /\ Marks \in Nat
  BY TaskIs DEF TaskFits
<1>2. /\ v(S) \in Nat /\ v(R) \in Nat /\ v(R) <= v(S) /\ v(S) <= Rounded(65 * Marks, 100)
  BY <1>1, PartIs, PartMore, PartBound
<1>3. /\ d \in Nat \ {0} /\ c(S) \in Nat /\ c(R) \in Nat /\ c(S) <= d /\ c(R) <= c(S)
  BY <1>1, AskedIs, MatchedOf, MatchedMore
<1>4. /\ Accounting(S) = Reviewed(Rounded(n(S), 100 * d))
      /\ Accounting(R) = Reviewed(Rounded(n(R), 100 * d))
  BY DEF Accounting
<1> DEFINE vS == v(S)  vR == v(R)  cS == c(S)  cR == c(R)  e == 100 * d
           nS == 100 * d * vS + cS * 35 * Marks  nR == 100 * d * vR + cR * 35 * Marks
<1>5. /\ vS \in Nat /\ vR \in Nat /\ vR <= vS /\ vS <= Rounded(65 * Marks, 100)
      /\ d \in Nat \ {0} /\ cS \in Nat /\ cR \in Nat /\ cS <= d /\ cR <= cS
  BY <1>2, <1>3
<1>6. n(S) = nS /\ n(R) = nR
  OBVIOUS
<1>7. Accounting(S) = Reviewed(Rounded(nS, e)) /\ Accounting(R) = Reviewed(Rounded(nR, e))
  BY <1>4, <1>6
<1> HIDE DEF v, c, n, d, vS, vR, cS, cR
<1>8. /\ nS <= e * Marks + e
      /\ Marks % 100 = 0 => nS <= e * Marks
  BY <1>1, <1>5, AccountingSum
<1>9. e \in Nat \ {0} /\ nS \in Nat /\ nR \in Nat
  <2>1. 100 * d * vS \in Nat /\ 100 * d * vR \in Nat
    BY <1>5
  <2>2. cS * 35 * Marks \in Nat /\ cR * 35 * Marks \in Nat
    BY <1>1, <1>5
  <2> QED BY <2>1, <2>2, <1>5
<1>10. nR <= nS
  <2>1. (100 * d) * vR <= (100 * d) * vS
    BY <1>5, Scaled
  <2>2. cR * (35 * Marks) <= cS * (35 * Marks)
    BY <1>1, <1>5, Scaled
  <2>3. (100 * d) * vR \in Int /\ (100 * d) * vS \in Int
    BY <1>5
  <2>4. cR * (35 * Marks) \in Int /\ cS * (35 * Marks) \in Int
    BY <1>1, <1>5
  <2>5. cR * 35 * Marks = cR * (35 * Marks) /\ cS * 35 * Marks = cS * (35 * Marks)
    BY <1>1, <1>5
  <2> QED BY <2>1, <2>2, <2>3, <2>4, <2>5
<1> HIDE DEF nS, nR, e
<1>11. /\ Rounded(nS, e) \in Int /\ 0 <= Rounded(nS, e) /\ Rounded(nR, e) \in Int
       /\ Rounded(nR, e) <= Rounded(nS, e)
  BY <1>9, <1>10, RoundedIs, RoundedMono
<1>12. Rounded(nS, e) <= Marks + 1
  BY <1>1, <1>8, <1>9, RoundedOver
<1>13. Marks % 100 = 0 => Rounded(nS, e) <= Marks
  BY <1>1, <1>8, <1>9, RoundedBound
<1>14. /\ Accounting(S).marks = Rounded(nS, e)
       /\ Accounting(S).status \in {"auto_scored", "manual_review"}
       /\ Accounting(R).marks = Rounded(nR, e)
  BY <1>7, <1>11, Statuses
<1>15. Excess = IF Marks % 100 # 0 THEN 1 ELSE 0
  BY DEF Excess
<1>16. CASE Marks % 100 = 0
  BY <1>1, <1>11, <1>13, <1>14, <1>15, <1>16 DEF FairScore
<1>17. CASE Marks % 100 # 0
  BY <1>1, <1>11, <1>12, <1>14, <1>15, <1>17 DEF FairScore
<1> QED BY <1>16, <1>17

-----------------------------------------------------------------------------
LEMMA EnglishSum ==
  ASSUME NEW l \in Nat \ {0}, NEW r \in Nat \ {0}, NEW h \in Nat, NEW e \in Nat,
         NEW g \in Nat, NEW w \in Nat \ {0}, h <= l, e <= r, g <= w, Marks \in Nat
  PROVE  g * Marks * (h * r + e * l) <= (2 * w * l * r) * Marks
<1> DEFINE p == l * r  s == h * r + e * l
<1>1. h * r <= p /\ e * l <= p /\ p \in Nat /\ h * r \in Nat /\ e * l \in Nat
  <2>1. h * r <= l * r /\ e * l <= r * l
    BY Scaled
  <2>2. l * r \in Nat /\ r * l = l * r /\ h * r \in Nat /\ e * l \in Nat
    OBVIOUS
  <2> QED BY <2>1, <2>2
<1>2. s \in Nat /\ s <= 2 * p
  BY <1>1
<1>3. 2 * w * l * r = 2 * (w * p)
  OBVIOUS
<1> HIDE DEF p, s
<1>4. g * Marks <= w * Marks /\ g * Marks \in Nat /\ w * Marks \in Nat
  BY Scaled
<1>5. (g * Marks) * s <= (w * Marks) * s
  BY <1>2, <1>4, Scaled
<1>6. (w * Marks) * s <= (w * Marks) * (2 * p)
  BY <1>1, <1>2, <1>4, Scaled
<1>7. (w * Marks) * (2 * p) = (2 * (w * p)) * Marks
  BY <1>1
<1>8. (g * Marks) * s \in Int /\ (w * Marks) * s \in Int /\ (w * Marks) * (2 * p) \in Int
  BY <1>1, <1>2, <1>4
<1>9. (g * Marks) * s <= (2 * (w * p)) * Marks
  BY <1>5, <1>6, <1>7, <1>8
<1> QED BY <1>3, <1>9 DEF s

LEMMA EnglishFair ==
  ASSUME TaskFits,
         NEW S \in SUBSET (task.first \union task.second), NEW R \in SUBSET S
  PROVE  /\ FairScore(English(S), Marks)
         /\ English(R).marks <= English(S).marks
<1> DEFINE l == Asked(task.first)  r == Asked(task.second)
           hS == Cardinality(S \intersect task.first)  eS == Cardinality(S \intersect task.second)
           hR == Cardinality(R \intersect task.first)  eR == Cardinality(R \intersect task.second)
           g == task.share
           d == 2 * MaxWeight * l * r
           nS == g * Marks * (hS * r + eS * l)
           nR == g * Marks * (hR * r + eR * l)
<1>1. /\ task.first \in SUBSET Items /\ task.second \in SUBSET Items /\ Marks \in Nat
      /\ g \in Nat /\ MaxWeight \in Nat \ {0} /\ g <= MaxWeight
  BY TaskIs DEF TaskFits
<1>2. /\ l \in Nat \ {0} /\ r \in Nat \ {0} /\ hS \in Nat /\ eS \in Nat /\ hR \in Nat /\ eR \in Nat
      /\ hS <= l /\ eS <= r /\ hR <= hS /\ eR <= eS
  BY <1>1, AskedIs, MatchedOf, MatchedMore
<1>3. English(S) = ManualReview(Rounded(nS, d)) /\ English(R) = ManualReview(Rounded(nR, d))
  BY DEF English
<1> HIDE DEF l, r, hS, eS, hR, eR, g
<1>4. nS <= d * Marks
  BY <1>1, <1>2, EnglishSum
<1>5. d \in Nat \ {0}
  <2>1. l * r \in Nat \ {0}
    BY <1>2
  <2>2. MaxWeight * (l * r) \in Nat \ {0}
    BY <1>1, <2>1
  <2>3. d = 2 * (MaxWeight * (l * r))
    BY <1>1, <1>2
  <2> QED BY <2>2, <2>3
<1>6. /\ hR * r <= hS * r /\ eR * l <= eS * l
      /\ hR * r \in Nat /\ hS * r \in Nat /\ eR * l \in Nat /\ eS * l \in Nat
  BY <1>2, Scaled
<1>7. /\ hR * r + eR * l <= hS * r + eS * l
      /\ hR * r + eR * l \in Nat /\ hS * r + eS * l \in Nat /\ g * Marks \in Nat
  BY <1>1, <1>6
<1>8. nR <= nS
  BY <1>7, Scaled
<1>9. nR \in Nat /\ nS \in Nat
  BY <1>7
<1> HIDE DEF nS, nR, d
<1>10. /\ Rounded(nS, d) \in Int /\ 0 <= Rounded(nS, d) /\ Rounded(nR, d) \in Int
       /\ Rounded(nR, d) <= Rounded(nS, d) /\ Rounded(nS, d) <= Marks
  BY <1>1, <1>4, <1>5, <1>8, <1>9, RoundedIs, RoundedMono, RoundedBound
<1>11. /\ English(S).marks = Rounded(nS, d) /\ English(S).status = "manual_review"
       /\ English(R).marks = Rounded(nR, d)
  BY <1>3, <1>10, Statuses
<1> QED BY <1>1, <1>10, <1>11 DEF FairScore
LEMMA QuestionsFair ==
  ASSUME TaskFits, task.kind = "mcq",
         NEW S \in SUBSET (task.first \union task.second), NEW R \in SUBSET S,
         NEW E \in SUBSET Items, NEW F \in SUBSET E
  PROVE  /\ FairScore(Questions(S, F), Marks)
         /\ Questions(R, E).marks <= Questions(S, F).marks
<1> DEFINE w == Weight(task.first)  s == Weight(S)  r == Weight(R)
           e == Cardinality(E)  f == Cardinality(F)  g == task.share
           nS == (s - g * f) * Marks  nR == (r - g * e) * Marks
<1>1. /\ S \in SUBSET task.first /\ R \in SUBSET task.first /\ task.first \in SUBSET Items
      /\ S \in SUBSET Items /\ task \in Task /\ Marks \in Nat /\ g \in Nat
  BY TaskIs DEF TaskFits
<1>2. w \in Nat /\ s \in Nat /\ r \in Nat /\ s <= w /\ r <= s
  BY <1>1, WeightIs
<1>3. e \in Nat /\ f \in Nat /\ f <= e
  BY SomeItems, FewerItems
<1>4. CASE w = 0
  BY <1>1, <1>4, Statuses DEF Questions, FairScore
<1>5. CASE w # 0
  <2>1. /\ Questions(S, F) = AutoScored(Floor(Rounded(nS, w)))
        /\ Questions(R, E) = AutoScored(Floor(Rounded(nR, w)))
    BY <1>5 DEF Questions
  <2> HIDE DEF w, s, r, e, f, g
  <2>2. g * f <= g * e /\ g * f \in Nat /\ g * e \in Nat
    BY <1>1, <1>3, Scaled
  <2>3. r - g * e <= s - g * f /\ s - g * f <= w /\ r - g * e \in Int /\ s - g * f \in Int
    BY <1>2, <2>2
  <2>4. nR <= nS /\ nS <= w * Marks
    BY <1>1, <1>2, <2>3, Scaled
  <2>5. nR \in Int /\ nS \in Int /\ w \in Nat \ {0}
    BY <1>1, <1>2, <1>5, <2>3
  <2> HIDE DEF nR, nS
  <2>6. /\ Rounded(nS, w) \in Int /\ Rounded(nR, w) \in Int
        /\ Rounded(nR, w) <= Rounded(nS, w) /\ Rounded(nS, w) <= Marks
    BY <1>1, <2>4, <2>5, RoundedIs, RoundedMono, RoundedBound
  <2>7. /\ Floor(Rounded(nS, w)) \in 0..Marks /\ Floor(Rounded(nR, w)) \in Int
        /\ Floor(Rounded(nR, w)) <= Floor(Rounded(nS, w))
    BY <1>1, <2>6 DEF Floor
  <2>8. Floor(Rounded(nS, w)) \in Int
    BY <2>7
  <2>9. /\ Questions(S, F).marks = Floor(Rounded(nS, w))
        /\ Questions(S, F).status = "auto_scored"
        /\ Questions(R, E).marks = Floor(Rounded(nR, w))
    BY <2>1, <2>7, <2>8, Statuses
  <2> QED BY <2>7, <2>9 DEF FairScore
<1> QED BY <1>4, <1>5

-----------------------------------------------------------------------------
\* Every way of grading is fair.
LEMMA GradedFair ==
  ASSUME TaskFits,
         NEW S \in SUBSET (task.first \union task.second), NEW R \in SUBSET S,
         NEW E \in SUBSET Items, NEW F \in SUBSET E
  PROVE  /\ FairScore(Graded(S, F), Marks + Excess)
         /\ Graded(R, E).marks <= Graded(S, F).marks
<1>1. Marks \in Nat /\ task.kind \in Kinds /\ Excess \in {0, 1}
  BY TaskIs DEF TaskFits, Excess
<1>2. \A x : FairScore(x, Marks) => FairScore(x, Marks + Excess)
  BY <1>1 DEF FairScore
<1>3. CASE task.kind = "checkpoints"
  <2>1. \A X, Y : Graded(X, Y) = Checkpoints(X)
    BY <1>3 DEF Graded
  <2> QED BY <1>2, <1>3, <2>1, CheckpointsFair
<1>4. CASE task.kind = "coding"
  <2>1. \A X, Y : Graded(X, Y) = ManualReview(0)
    BY <1>4 DEF Graded
  <2>2. ManualReview(0).marks = 0 /\ ManualReview(0).status = "manual_review"
    BY Statuses
  <2> QED BY <1>1, <2>1, <2>2 DEF FairScore
<1>5. CASE task.kind = "spreadsheet"
  <2>1. \A X, Y : Graded(X, Y) = Spreadsheet(X)
    BY <1>5 DEF Graded
  <2> QED BY <1>2, <1>5, <2>1, SpreadsheetFair
<1>6. CASE task.kind = "accounting"
  <2>1. \A X, Y : Graded(X, Y) = Accounting(X)
    BY <1>6 DEF Graded
  <2> QED BY <1>6, <2>1, AccountingFair
<1>7. CASE task.kind = "english"
  <2>1. \A X, Y : Graded(X, Y) = English(X)
    BY <1>7 DEF Graded
  <2> QED BY <1>2, <1>7, <2>1, EnglishFair
<1>8. CASE task.kind = "mcq"
  <2>1. \A X, Y : Graded(X, Y) = Questions(X, Y)
    BY <1>8 DEF Graded
  <2> QED BY <1>2, <1>8, <2>1, QuestionsFair
<1> QED BY <1>1, <1>3, <1>4, <1>5, <1>6, <1>7, <1>8 DEF Kinds

\* A score is the one the grading of what is matched gives.
ScoringInv ==
    /\ TaskFits
    /\ matched \in SUBSET (task.first \union task.second)
    /\ wrong \in SUBSET Items
    /\ score = Unscored \/ score = Graded(matched, wrong)

LEMMA ScoringStart ==
  ASSUME ScoringInit
  PROVE  ScoringInv
<1>1. TaskFits /\ matched \in SUBSET (task.first \union task.second) /\ score = Unscored
  BY DEF ScoringInit, TaskFits
<1>2. wrong \in SUBSET Items
  <2>1. task.first \in SUBSET Items
    BY <1>1, TaskIs DEF TaskFits
  <2>2. CASE task.kind = "mcq"
    BY <2>1, <2>2 DEF ScoringInit
  <2>3. CASE task.kind # "mcq"
    BY <2>3 DEF ScoringInit
  <2> QED BY <2>2, <2>3
<1> QED BY <1>1, <1>2 DEF ScoringInv

LEMMA ScoringStutter ==
  ASSUME ScoringInv, UNCHANGED scoringVars
  PROVE  ScoringInv'
<1>1. task' = task /\ matched' = matched /\ wrong' = wrong /\ score' = score
  BY DEF scoringVars
<1> QED BY <1>1 DEF ScoringInv, TaskFits, Task, Graded, Checkpoints, Spreadsheet, Accounting,
           English, Questions, Part, Weight, Reviewed, ManualReview, AutoScored, Asked, Unscored

LEMMA ScoringStep ==
  ASSUME ScoringInv, ScoringNext
  PROVE  ScoringInv'
<1>1. /\ task' = task /\ matched' = matched /\ wrong' = wrong
      /\ score' = Graded(matched, wrong)
  BY DEF ScoringNext, Grade
<1>2. TaskFits'
  BY <1>1 DEF ScoringInv, TaskFits, Task
<1>3. Graded(matched, wrong)' = Graded(matched, wrong)
  BY <1>1 DEF Graded, Checkpoints, Spreadsheet, Accounting,
     English, Questions, Part, Weight, Reviewed, ManualReview, AutoScored, Asked, Unscored
<1>4. score' = Graded(matched, wrong)'
  BY <1>1, <1>3
<1>5. matched' \in SUBSET (task'.first \union task'.second) /\ wrong' \in SUBSET Items
  BY <1>1 DEF ScoringInv
<1> QED BY <1>2, <1>4, <1>5 DEF ScoringInv

LEMMA ScoringInvHolds ==
  ASSUME ScoringInv
  PROVE  ScoringTypeOK /\ ScoresAreFair
<1> DEFINE all == task.first \union task.second
<1>1. /\ TaskFits /\ matched \in SUBSET all /\ wrong \in SUBSET Items
      /\ all \in SUBSET Items /\ Marks \in Nat /\ Excess \in {0, 1}
  BY TaskIs DEF ScoringInv, TaskFits, Excess
<1>2. FairScore(score, Marks + Excess)
  <2>1. CASE score = Unscored
    BY <1>1, <2>1, Statuses DEF FairScore
  <2>2. CASE score = Graded(matched, wrong)
    BY <1>1, <2>2, GradedFair
  <2> QED BY <2>1, <2>2 DEF ScoringInv
<1>3. ScoringTypeOK
  BY <1>1, <1>2 DEF ScoringTypeOK, FairScore, TaskFits
<1>4. ASSUME score # Unscored, NEW i \in all \ (matched \union wrong)
      PROVE  Graded(matched \union {i}, wrong).marks >= score.marks
  <2>1. score = Graded(matched, wrong)
    BY <1>4 DEF ScoringInv
  <2>2. matched \union {i} \in SUBSET all /\ matched \in SUBSET (matched \union {i})
    BY <1>1
  <2>3. Graded(matched, wrong).marks <= Graded(matched \union {i}, wrong).marks
    BY <1>1, <2>2, GradedFair
  <2> QED BY <2>1, <2>3
<1>5. ASSUME score # Unscored, NEW i \in wrong
      PROVE  Graded(matched, wrong \ {i}).marks >= score.marks
  <2>1. score = Graded(matched, wrong)
    BY <1>5 DEF ScoringInv
  <2>2. wrong \ {i} \in SUBSET wrong
    OBVIOUS
  <2>3. Graded(matched, wrong).marks <= Graded(matched, wrong \ {i}).marks
    BY <1>1, <2>2, GradedFair
  <2> QED BY <2>1, <2>3
<1> QED BY <1>2, <1>3, <1>4, <1>5 DEF ScoresAreFair, FairScore
-----------------------------------------------------------------------------
(* The model and its thresholds. *)

TrainerOps == {"none", "collect", "done", "ingest", "saving"} \union Writing

RuleSet == [by : {Torn} \union (0..MaxRuns), fitted : {Torn} \union (0..MaxRuns),
            warning : Int, review : Int, critical : Int]

TrainerJob == [op : TrainerOps, run : 0..MaxRuns, new : RuleSet, sessions : SUBSET Judged,
               alone : BOOLEAN]

\* Thresholds somebody may put in force.
Ordered(new) == new.by # Torn /\ new.review < new.critical /\ new.critical <= 97

Writes(t) == trainer[t].op \in Writing
Ingests(t) == trainer[t].op \in {"ingest", "saving"}

\* A training that no other one crossed wrote both files: what it is about to
\* write of the thresholds goes with the bundle there is.
ModelInv ==
    /\ \A t \in Trainers : Ordered(trainer[t].new)
    /\ rules.by # Torn => Ordered(rules)
    /\ \A t \in Trainers : trainer[t].op \in {"collect", "done"} \union Writing => trainer[t].run \in Runs
    /\ \A t, u \in Trainers : Writes(t) /\ trainer[t].alone /\ Writes(u) => t = u
    /\ \A t \in Trainers : trainer[t].op \in {"bundle", "bundling"} =>
          trainer[t].new.fitted = trainer[t].run
    /\ \A t \in Trainers : trainer[t].op \in {"rules", "ruling"} /\ trainer[t].alone =>
          trainer[t].new.fitted = bundle
    /\ "model" \notin upsets =>
          /\ \A t \in Trainers : Writes(t) => trainer[t].alone
          /\ (\A t \in Trainers : ~Writes(t)) => rules.by # Torn /\ rules.fitted = bundle

\* An ingestion that no other one crossed keeps what the file held.
CuratedInv ==
    "curated" \notin upsets =>
        /\ \A t, u \in Trainers : Ingests(t) /\ Ingests(u) => t = u
        /\ \A t \in Trainers : Ingests(t) => saved \subseteq trainer[t].sessions
        /\ (\A t \in Trainers : trainer[t].op # "saving") => ~curated.torn /\ saved \subseteq curated.sessions

TrainingInv ==
    /\ labels \in [Judged -> Verdict]
    /\ runs \in [Runs -> {"none", "running", "completed", "failed"}]
    /\ bundle \in {Torn} \union (0..MaxRuns)
    /\ rules \in RuleSet
    /\ curated \in [torn : BOOLEAN, sessions : SUBSET Judged] /\ saved \subseteq Judged
    /\ trainer \in [Trainers -> TrainerJob]
    /\ upsets \subseteq {"model", "curated"}
    /\ ModelInv /\ CuratedInv

-----------------------------------------------------------------------------
LEMMA RunNumbers ==
  /\ \A r \in Runs : r \in 0..MaxRuns /\ r # Torn
  /\ 0 \in 0..MaxRuns /\ 0 # Torn
  /\ \A r \in 0..MaxRuns : r # Torn
  BY TrainingAssumption DEF Runs, Torn

LEMMA ShippedOK ==
  /\ ShippedRules \in RuleSet /\ Ordered(ShippedRules) /\ ShippedRules.fitted = 0
  /\ TornRules \in RuleSet /\ TornRules.by = Torn
  BY RunNumbers DEF ShippedRules, TornRules, RuleSet, Ordered

LEMMA RestingTrainer ==
  /\ Resting \in TrainerJob /\ Resting.op = "none" /\ Resting.new = ShippedRules
  /\ Resting.run = 0 /\ Resting.sessions = {}
<1>1. Resting.alone \in BOOLEAN
  BY DEF Resting
<1> QED BY <1>1, ShippedOK, RunNumbers DEF Resting, TrainerJob, TrainerOps

LEMMA Thresholds ==
  ASSUME NEW r \in Runs, NEW review \in Reviews, NEW strict \in BOOLEAN
  PROVE  /\ Fitted(r, review, strict) \in RuleSet /\ Ordered(Fitted(r, review, strict))
         /\ Fitted(r, review, strict).fitted = r
<1>1. review \in {15, 92}
  BY DEF Reviews
<1> DEFINE w == Most(20, review - (IF strict THEN 14 ELSE 8))
           c == Least(97, IF strict THEN Most(72, review + 14) ELSE Most(70, review + 18))
<1>2. w \in Int /\ c \in Int /\ review \in Int /\ review < c /\ c <= 97
  <2>1. CASE strict
    BY <2>1, <1>1 DEF Most, Least
  <2>2. CASE ~strict
    BY <2>2, <1>1 DEF Most, Least
  <2> QED BY <2>1, <2>2
<1>3. Fitted(r, review, strict) = [by |-> r, fitted |-> r, review |-> review, warning |-> w, critical |-> c]
  BY DEF Fitted
<1> HIDE DEF w, c
<1>4. r \in {Torn} \union (0..MaxRuns) /\ r # Torn
  BY RunNumbers
<1> QED BY <1>2, <1>3, <1>4 DEF RuleSet, Ordered

LEMMA Percentiles ==
  ASSUME NEW r \in Runs, NEW p70 \in Percents, NEW p90 \in Percents, NEW strict \in BOOLEAN,
         bundle \in {Torn} \union (0..MaxRuns)
  PROVE  /\ Recalibrated(r, p70, p90, strict) \in RuleSet
         /\ Ordered(Recalibrated(r, p70, p90, strict))
         /\ Recalibrated(r, p70, p90, strict).fitted = bundle
<1>1. p70 \in {0, 100} /\ p90 \in {0, 100}
  BY DEF Percents
<1> DEFINE review == IF strict THEN Most(48, Least(88, p70)) ELSE Most(52, Least(90, p70 + 3))
           critical == IF strict THEN Least(97, Most(review + 14, p90))
                       ELSE Least(97, Most(review + 18, p90 + 4))
           w == IF strict THEN Most(20, review - 13) ELSE Most(24, review - 10)
           c == IF critical <= review THEN Least(97, review + 10) ELSE critical
<1>2. w \in Int /\ c \in Int /\ review \in Int /\ review < c /\ c <= 97
  <2>1. CASE strict
    <3>1. review = IF p70 = 0 THEN 48 ELSE 88
      BY <2>1, <1>1 DEF Most, Least
    <3>2. critical = Least(97, Most(review + 14, p90)) /\ w = Most(20, review - 13)
      BY <2>1
    <3> HIDE DEF review, critical, w
    <3> QED BY <3>1, <3>2, <1>1 DEF Most, Least, c
  <2>2. CASE ~strict
    <3>1. review = IF p70 = 0 THEN 52 ELSE 90
      BY <2>2, <1>1 DEF Most, Least
    <3>2. critical = Least(97, Most(review + 18, p90 + 4)) /\ w = Most(24, review - 10)
      BY <2>2
    <3> HIDE DEF review, critical, w
    <3> QED BY <3>1, <3>2, <1>1 DEF Most, Least, c
  <2> QED BY <2>1, <2>2
<1>3. Recalibrated(r, p70, p90, strict) =
        [by |-> r, fitted |-> bundle, review |-> review, warning |-> w, critical |-> c]
  BY DEF Recalibrated
<1> HIDE DEF review, critical, w, c
<1>4. r \in {Torn} \union (0..MaxRuns) /\ r # Torn
  BY RunNumbers
<1> QED BY <1>2, <1>3, <1>4 DEF RuleSet, Ordered

LEMMA TrainingStart == TrainingInit => TrainingInv
<1> SUFFICES ASSUME TrainingInit PROVE TrainingInv
  OBVIOUS
<1>1. /\ labels = [s \in Judged |-> [truth |-> "none", wrong |-> FALSE]]
      /\ runs = [r \in Runs |-> "none"] /\ bundle = 0 /\ rules = ShippedRules
      /\ curated = NoCurated /\ trainer = [t \in Trainers |-> Resting] /\ saved = {} /\ upsets = {}
  BY DEF TrainingInit
<1>2. labels \in [Judged -> Verdict]
  BY <1>1 DEF Verdict
<1>3. /\ curated \in [torn : BOOLEAN, sessions : SUBSET Judged] /\ curated.sessions = {}
      /\ ~curated.torn
  BY <1>1 DEF NoCurated
<1>4. trainer \in [Trainers -> TrainerJob] /\ \A t \in Trainers : trainer[t] = Resting
  BY <1>1, RestingTrainer
<1>5. bundle \in {Torn} \union (0..MaxRuns) /\ rules \in RuleSet /\ Ordered(rules) /\ rules.fitted = bundle
  BY <1>1, RunNumbers, ShippedOK
<1>6. ModelInv
  BY <1>1, <1>4, <1>5, RestingTrainer, ShippedOK DEF ModelInv, Writes, Writing, Ordered
<1>7. CuratedInv
  BY <1>1, <1>3, <1>4, RestingTrainer DEF CuratedInv, Ingests
<1> QED BY <1>1, <1>2, <1>3, <1>4, <1>5, <1>6, <1>7 DEF TrainingInv
-----------------------------------------------------------------------------
LEMMA TrainerTurns ==
  ASSUME TrainingInv, NEW t \in Trainers, NEW j \in TrainerJob, trainer' = [trainer EXCEPT ![t] = j]
  PROVE  /\ trainer' \in [Trainers -> TrainerJob] /\ trainer'[t] = j
         /\ \A u \in Trainers \ {t} : trainer'[u] = trainer[u]
  BY DEF TrainingInv

LEMMA TrainerGoes ==
  ASSUME TrainingInv, NEW t \in Trainers, NEW op \in TrainerOps, Goes(t, op)
  PROVE  /\ trainer' \in [Trainers -> TrainerJob]
         /\ trainer'[t].op = op /\ trainer'[t].run = trainer[t].run /\ trainer'[t].new = trainer[t].new
         /\ trainer'[t].sessions = trainer[t].sessions /\ trainer'[t].alone = trainer[t].alone
         /\ \A u \in Trainers \ {t} : trainer'[u] = trainer[u]
<1>1. trainer[t] \in TrainerJob /\ trainer' = [trainer EXCEPT ![t] = [trainer[t] EXCEPT !.op = op]]
  BY DEF TrainingInv, Goes
<1>2. [trainer[t] EXCEPT !.op = op] \in TrainerJob
  BY <1>1 DEF TrainerJob
<1>3. /\ trainer' \in [Trainers -> TrainerJob] /\ trainer'[t] = [trainer[t] EXCEPT !.op = op]
      /\ \A u \in Trainers \ {t} : trainer'[u] = trainer[u]
  BY <1>1, <1>2, TrainerTurns
<1> QED BY <1>1, <1>3 DEF TrainerJob

LEMMA TrainerStops ==
  ASSUME TrainingInv, NEW t \in Trainers, Stops(t)
  PROVE  /\ trainer' \in [Trainers -> TrainerJob] /\ trainer'[t] = Resting
         /\ \A u \in Trainers \ {t} : trainer'[u] = trainer[u]
  BY RestingTrainer, TrainerTurns DEF Stops

\* Whoever writes the model goes on as before.
LEMMA ModelQuiet ==
  ASSUME ModelInv, UNCHANGED <<rules, bundle>>, "model" \in upsets' <=> "model" \in upsets,
         \A u \in Trainers : trainer[u].op \in Writing \/ trainer'[u].op \in Writing =>
            trainer'[u] = trainer[u],
         \A u \in Trainers : Ordered(trainer'[u].new),
         \A u \in Trainers : trainer'[u].op \in {"collect", "done"} => trainer'[u].run \in Runs
  PROVE  ModelInv'
<1>1. \A u \in Trainers : Writes(u)' <=> Writes(u)
  BY DEF Writes
<1>2. \A u \in Trainers : Writes(u) => trainer'[u] = trainer[u]
  BY DEF Writes
<1>3. \A u \in Trainers : trainer'[u].op \in {"collect", "done"} \union Writing => trainer'[u].run \in Runs
  BY DEF ModelInv
<1>4. /\ \A u \in Trainers : trainer'[u].op \in {"bundle", "bundling"} =>
            trainer'[u].new.fitted = trainer'[u].run
      /\ \A u \in Trainers : trainer'[u].op \in {"rules", "ruling"} /\ trainer'[u].alone =>
            trainer'[u].new.fitted = bundle'
  BY DEF ModelInv, Writing
<1>5. \A u, v \in Trainers : Writes(u)' /\ trainer'[u].alone /\ Writes(v)' => u = v
  BY <1>1, <1>2 DEF ModelInv
<1>6. rules'.by # Torn => Ordered(rules')
  BY DEF ModelInv
<1>7. "model" \notin upsets' =>
          /\ \A u \in Trainers : Writes(u)' => trainer'[u].alone
          /\ (\A u \in Trainers : ~Writes(u)') => rules'.by # Torn /\ rules'.fitted = bundle'
  BY <1>1, <1>2 DEF ModelInv
<1> QED BY <1>3, <1>4, <1>5, <1>6, <1>7 DEF ModelInv, Ordered

\* Whoever ingests goes on as before.
LEMMA CuratedQuiet ==
  ASSUME CuratedInv, UNCHANGED <<curated, saved>>, "curated" \in upsets' <=> "curated" \in upsets,
         \A u \in Trainers : Ingests(u) \/ trainer'[u].op \in {"ingest", "saving"} =>
            trainer'[u].op = trainer[u].op /\ trainer'[u].sessions = trainer[u].sessions
  PROVE  CuratedInv'
<1>1. /\ \A u \in Trainers : trainer'[u].op \in {"ingest", "saving"} <=> Ingests(u)
      /\ \A u \in Trainers : trainer'[u].op = "saving" <=> trainer[u].op = "saving"
  BY DEF Ingests
<1>2. \A u \in Trainers : Ingests(u) => trainer'[u].sessions = trainer[u].sessions
  OBVIOUS
<1>3. \A u \in Trainers : Ingests(u)' <=> Ingests(u)
  BY <1>1 DEF Ingests
<1> QED BY <1>1, <1>2, <1>3 DEF CuratedInv

LEMMA GiveLabelKeeps ==
  ASSUME TrainingInv, NEW s \in Judged, NEW l \in {"correct", "incorrect"}, NEW decision \in Decisions,
         GiveLabel(s, l, decision)
  PROVE  TrainingInv'
<1> DEFINE v == [truth |-> Truth(l, decision), wrong |-> labels[s].wrong \/ l = "incorrect"]
<1>1. /\ labels' = [labels EXCEPT ![s] = v]
      /\ UNCHANGED <<runs, bundle, rules, curated, trainer, saved, upsets>>
  BY DEF GiveLabel
<1>2. v \in Verdict
  <2>1. Truth(l, decision) \in {"suspicious", "clear"}
    BY DEF Truth
  <2>2. (labels[s].wrong \/ l = "incorrect") \in BOOLEAN
    OBVIOUS
  <2> QED BY <2>1, <2>2 DEF Verdict
<1> HIDE DEF v
<1>3. labels' \in [Judged -> Verdict]
  BY <1>1, <1>2 DEF TrainingInv
<1>4. ModelInv'
  <2>1. \A u \in Trainers : Ordered(trainer[u].new)
          /\ (trainer[u].op \in {"collect", "done"} => trainer[u].run \in Runs)
    BY DEF TrainingInv, ModelInv
  <2> QED BY <1>1, <2>1, ModelQuiet DEF TrainingInv
<1>5. CuratedInv'
  BY <1>1, CuratedQuiet DEF TrainingInv
<1> QED BY <1>1, <1>3, <1>4, <1>5 DEF TrainingInv

LEMMA StartRunKeeps ==
  ASSUME TrainingInv, NEW t \in Trainers, StartRun(t)
  PROVE  TrainingInv'
<1>1. PICK r \in Runs :
        /\ runs' = [runs EXCEPT ![r] = "running"]
        /\ trainer' = [trainer EXCEPT ![t] = [Resting EXCEPT !.op = "collect", !.run = r]]
  BY DEF StartRun
<1>2. trainer[t] = Resting /\ UNCHANGED <<labels, bundle, rules, curated, saved, upsets>>
  BY DEF StartRun
<1> DEFINE j == [Resting EXCEPT !.op = "collect", !.run = r]
<1>3. j \in TrainerJob /\ j.op = "collect" /\ j.run = r /\ j.new = ShippedRules
  BY RestingTrainer, RunNumbers DEF TrainerJob, TrainerOps
<1>4. trainer' = [trainer EXCEPT ![t] = j]
  BY <1>1
<1> HIDE DEF j
<1>5. /\ trainer' \in [Trainers -> TrainerJob] /\ trainer'[t] = j
      /\ \A u \in Trainers \ {t} : trainer'[u] = trainer[u]
  BY <1>3, <1>4, TrainerTurns
<1>6. runs' \in [Runs -> {"none", "running", "completed", "failed"}]
  BY <1>1 DEF TrainingInv
<1>7. ModelInv'
  <2>1. \A u \in Trainers : Ordered(trainer[u].new)
          /\ (trainer[u].op \in {"collect", "done"} => trainer[u].run \in Runs)
    BY DEF TrainingInv, ModelInv
  <2>2. \A u \in Trainers : Ordered(trainer'[u].new)
    BY <1>3, <1>5, <2>1, ShippedOK
  <2>3. \A u \in Trainers : trainer'[u].op \in {"collect", "done"} => trainer'[u].run \in Runs
    BY <1>3, <1>5, <2>1
  <2>4. \A u \in Trainers : trainer[u].op \in Writing \/ trainer'[u].op \in Writing =>
            trainer'[u] = trainer[u]
    BY <1>2, <1>3, <1>5, RestingTrainer DEF Writing
  <2> QED BY <1>2, <2>2, <2>3, <2>4, ModelQuiet DEF TrainingInv
<1>8. CuratedInv'
  <2>1. \A u \in Trainers : Ingests(u) \/ trainer'[u].op \in {"ingest", "saving"} =>
            trainer'[u].op = trainer[u].op /\ trainer'[u].sessions = trainer[u].sessions
    BY <1>2, <1>3, <1>5, RestingTrainer DEF Ingests
  <2> QED BY <1>2, <2>1, CuratedQuiet DEF TrainingInv
<1> QED BY <1>2, <1>5, <1>6, <1>7, <1>8 DEF TrainingInv

\* What a training has chosen to write, and what it does to the others.
LEMMA ChoosesIs ==
  ASSUME TrainingInv, NEW t \in Trainers, NEW op \in {"bundle", "rules"}, NEW new \in RuleSet,
         Chooses(t, op, new)
  PROVE  /\ trainer' \in [Trainers -> TrainerJob]
         /\ trainer'[t].op = op /\ trainer'[t].run = trainer[t].run /\ trainer'[t].new = new
         /\ trainer'[t].alone <=> ~\E u \in Trainers \ {t} : Writes(u)
         /\ \A u \in Trainers \ {t} :
               /\ trainer'[u].op = trainer[u].op /\ trainer'[u].run = trainer[u].run
               /\ trainer'[u].new = trainer[u].new /\ trainer'[u].sessions = trainer[u].sessions
               /\ trainer'[u].alone <=> trainer[u].alone /\ trainer[u].op \notin Writing
         /\ upsets \subseteq upsets' /\ upsets' \subseteq {"model", "curated"}
         /\ "curated" \in upsets' <=> "curated" \in upsets
         /\ "model" \notin upsets' => ~\E u \in Trainers \ {t} : Writes(u)
<1>1. /\ trainer' = [u \in Trainers |->
           IF u = t THEN [trainer[t] EXCEPT !.op = op, !.new = new, !.alone = ~OthersAt(t, Writing)]
           ELSE [trainer[u] EXCEPT !.alone = trainer[u].alone /\ trainer[u].op \notin Writing]]
      /\ upsets' = upsets \union {u \in {"model"} : OthersAt(t, Writing)}
  BY DEF Chooses
<1>2. OthersAt(t, Writing) <=> \E u \in Trainers \ {t} : Writes(u)
  BY DEF OthersAt, Writes
<1>3. \A u \in Trainers : trainer[u] \in TrainerJob
  BY DEF TrainingInv
<1> DEFINE lone == ~OthersAt(t, Writing)
           j == [trainer[t] EXCEPT !.op = op, !.new = new, !.alone = lone]
<1>4. lone \in BOOLEAN
  BY DEF OthersAt
<1>5. j \in TrainerJob /\ j.op = op /\ j.run = trainer[t].run /\ j.new = new /\ j.alone = lone
  <2> HIDE DEF lone
  <2>1. op \in TrainerOps
    BY DEF TrainerOps, Writing
  <2> QED BY <2>1, <1>3, <1>4 DEF TrainerJob
<1>6. trainer'[t] = j
  BY <1>1
<1>7. ASSUME NEW u \in Trainers \ {t}
      PROVE  /\ trainer'[u] \in TrainerJob
             /\ trainer'[u].op = trainer[u].op /\ trainer'[u].run = trainer[u].run
             /\ trainer'[u].new = trainer[u].new /\ trainer'[u].sessions = trainer[u].sessions
             /\ trainer'[u].alone <=> trainer[u].alone /\ trainer[u].op \notin Writing
  <2> DEFINE b == trainer[u].alone /\ trainer[u].op \notin Writing
  <2>1. b \in BOOLEAN
    OBVIOUS
  <2>2. trainer'[u] = [trainer[u] EXCEPT !.alone = b]
    BY <1>1, <1>7
  <2> HIDE DEF b
  <2>3. /\ trainer'[u] \in TrainerJob /\ trainer'[u].op = trainer[u].op
        /\ trainer'[u].run = trainer[u].run /\ trainer'[u].new = trainer[u].new
        /\ trainer'[u].sessions = trainer[u].sessions /\ trainer'[u].alone = b
    BY <2>1, <2>2, <1>3 DEF TrainerJob
  <2> QED BY <2>3 DEF b
<1>8. trainer' \in [Trainers -> TrainerJob]
  <2>1. \A u \in Trainers : trainer'[u] \in TrainerJob
    BY <1>5, <1>6, <1>7
  <2> QED BY <2>1, <1>1
<1>9. trainer'[t].alone <=> ~\E u \in Trainers \ {t} : Writes(u)
  BY <1>2, <1>5, <1>6
<1>10. /\ upsets \subseteq upsets' /\ upsets' \subseteq {"model", "curated"}
       /\ "curated" \in upsets' <=> "curated" \in upsets
       /\ "model" \notin upsets' => ~\E u \in Trainers \ {t} : Writes(u)
  BY <1>1, <1>2 DEF TrainingInv
<1> HIDE DEF j, lone
<1> QED BY <1>5, <1>6, <1>7, <1>8, <1>9, <1>10

LEMMA ChoosesKeeps ==
  ASSUME TrainingInv, NEW t \in Trainers, NEW op \in {"bundle", "rules"}, NEW new \in RuleSet,
         Chooses(t, op, new), trainer[t].op = "collect", Ordered(new),
         op = "bundle" => new.fitted = trainer[t].run, op = "rules" => new.fitted = bundle,
         UNCHANGED <<labels, runs, bundle, rules, curated, saved>>
  PROVE  TrainingInv'
<1>1. \A u \in Trainers : u # t => (Writes(u)' <=> Writes(u))
  BY ChoosesIs DEF Writes
<1>2. Writes(t)'
  BY ChoosesIs DEF Writes, Writing
<1>3. \A u \in Trainers : Ordered(trainer'[u].new)
  BY ChoosesIs DEF TrainingInv, ModelInv
<1>4. \A u \in Trainers : trainer'[u].op \in {"collect", "done"} \union Writing => trainer'[u].run \in Runs
  BY ChoosesIs DEF TrainingInv, ModelInv
<1>5. \A u, v \in Trainers : Writes(u)' /\ trainer'[u].alone /\ Writes(v)' => u = v
  <2> SUFFICES ASSUME NEW u \in Trainers, NEW v \in Trainers, Writes(u)', trainer'[u].alone, Writes(v)'
               PROVE  u = v
    OBVIOUS
  <2>1. CASE u = t
    BY <2>1, <1>1, ChoosesIs
  <2>2. CASE u # t
    <3>1. Writes(u) /\ trainer[u].op \notin Writing
      BY <2>2, <1>1, ChoosesIs
    <3> QED BY <3>1 DEF Writes
  <2> QED BY <2>1, <2>2
<1>6. \A u \in Trainers : trainer'[u].op \in {"bundle", "bundling"} => trainer'[u].new.fitted = trainer'[u].run
  BY ChoosesIs DEF TrainingInv, ModelInv
<1>7. \A u \in Trainers : trainer'[u].op \in {"rules", "ruling"} /\ trainer'[u].alone =>
        trainer'[u].new.fitted = bundle'
  <2>1. \A u \in Trainers \ {t} : trainer'[u].op \in {"rules", "ruling"} => ~trainer'[u].alone
    BY ChoosesIs DEF Writing
  <2> QED BY <2>1, ChoosesIs
<1>8. ASSUME "model" \notin upsets' PROVE \A u \in Trainers : Writes(u)' => trainer'[u].alone
  BY <1>1, <1>8, ChoosesIs
<1>9. rules'.by # Torn => Ordered(rules')
  BY DEF TrainingInv, ModelInv
<1>10. ModelInv'
  BY <1>2, <1>3, <1>4, <1>5, <1>6, <1>7, <1>8, <1>9 DEF ModelInv, Ordered
<1>11. CuratedInv'
  <2>1. \A u \in Trainers : Ingests(u) \/ trainer'[u].op \in {"ingest", "saving"} =>
            trainer'[u].op = trainer[u].op /\ trainer'[u].sessions = trainer[u].sessions
    BY ChoosesIs DEF Ingests
  <2> QED BY <2>1, ChoosesIs, CuratedQuiet DEF TrainingInv
<1> QED BY <1>10, <1>11, ChoosesIs DEF TrainingInv
LEMMA CollectKeeps ==
  ASSUME TrainingInv, NEW t \in Trainers, Collect(t)
  PROVE  TrainingInv'
<1>1. /\ trainer[t].op = "collect" /\ UNCHANGED <<labels, runs, bundle, rules, curated, saved>>
  BY DEF Collect
<1>2. trainer[t].run \in Runs /\ bundle \in {Torn} \union (0..MaxRuns)
  BY <1>1 DEF TrainingInv, ModelInv
<1>3. PICK guesses \in [Pseudo -> Both], strict \in BOOLEAN :
         \/ \E review \in Reviews : Chooses(t, "bundle", Fitted(trainer[t].run, review, strict))
         \/ \E p70, p90 \in Percents : Chooses(t, "rules", Recalibrated(trainer[t].run, p70, p90, strict))
  BY Zenon DEF Collect
<1>4. CASE \E review \in Reviews : Chooses(t, "bundle", Fitted(trainer[t].run, review, strict))
  <2>1. PICK review \in Reviews : Chooses(t, "bundle", Fitted(trainer[t].run, review, strict))
    BY <1>4
  <2> DEFINE new == Fitted(trainer[t].run, review, strict)
  <2>2. new \in RuleSet /\ Ordered(new) /\ new.fitted = trainer[t].run
    BY <1>2, Thresholds
  <2>3. Chooses(t, "bundle", new)
    BY <2>1
  <2> HIDE DEF new
  <2> QED BY <1>1, <2>2, <2>3, ChoosesKeeps
<1>5. CASE \E p70, p90 \in Percents : Chooses(t, "rules", Recalibrated(trainer[t].run, p70, p90, strict))
  <2>1. PICK p70 \in Percents, p90 \in Percents :
          Chooses(t, "rules", Recalibrated(trainer[t].run, p70, p90, strict))
    BY <1>5
  <2> DEFINE new == Recalibrated(trainer[t].run, p70, p90, strict)
  <2>2. new \in RuleSet /\ Ordered(new) /\ new.fitted = bundle
    BY <1>2, Percentiles
  <2>3. Chooses(t, "rules", new)
    BY <2>1
  <2> HIDE DEF new
  <2> QED BY <1>1, <2>2, <2>3, ChoosesKeeps
<1> QED BY <1>3, <1>4, <1>5

\* A training that writes its files in turn.
LEMMA WritesOn ==
  ASSUME TrainingInv, NEW t \in Trainers, NEW op \in Writing, trainer[t].op \in Writing, Goes(t, op),
         op \in {"bundle", "bundling"} => trainer[t].op = "bundle",
         op \in {"rules", "ruling"} =>
            bundle' = IF trainer[t].op \in {"bundle", "bundling"} THEN trainer[t].run ELSE bundle,
         rules'.by # Torn => Ordered(rules'),
         bundle' \in {Torn} \union (0..MaxRuns), rules' \in RuleSet,
         UNCHANGED <<labels, runs, curated, saved, upsets>>
  PROVE  TrainingInv'
<1>1. op \in TrainerOps
  BY DEF TrainerOps
<1>2. \A u \in Trainers : Writes(u)' <=> Writes(u)
  BY <1>1, TrainerGoes DEF Writes
<1>3. /\ \A u \in Trainers : Ordered(trainer'[u].new)
      /\ \A u \in Trainers : trainer'[u].op \in {"collect", "done"} \union Writing => trainer'[u].run \in Runs
  BY <1>1, TrainerGoes DEF TrainingInv, ModelInv
<1>4. \A u \in Trainers : trainer'[u].alone = trainer[u].alone
  BY <1>1, TrainerGoes
<1>5. \A u, v \in Trainers : Writes(u)' /\ trainer'[u].alone /\ Writes(v)' => u = v
  BY <1>2, <1>4 DEF TrainingInv, ModelInv
<1>6. \A u \in Trainers : trainer'[u].op \in {"bundle", "bundling"} => trainer'[u].new.fitted = trainer'[u].run
  BY <1>1, TrainerGoes DEF TrainingInv, ModelInv
<1>7. \A u \in Trainers : trainer'[u].op \in {"rules", "ruling"} /\ trainer'[u].alone =>
        trainer'[u].new.fitted = bundle'
  <2> SUFFICES ASSUME NEW u \in Trainers, trainer'[u].op \in {"rules", "ruling"}, trainer'[u].alone
               PROVE  trainer'[u].new.fitted = bundle'
    OBVIOUS
  <2>1. CASE u = t
    <3>1. trainer'[t].new = trainer[t].new /\ trainer'[t].op = op /\ trainer[t].alone
      BY <2>1, <1>1, TrainerGoes
    <3>2. trainer[t].op \in {"bundle", "bundling"} => trainer[t].new.fitted = trainer[t].run
      BY DEF TrainingInv, ModelInv
    <3>3. trainer[t].op \in {"rules", "ruling"} => trainer[t].new.fitted = bundle
      BY <3>1 DEF TrainingInv, ModelInv
    <3>4. trainer[t].op \in {"bundle", "bundling", "rules", "ruling"}
      BY DEF Writing
    <3> QED BY <2>1, <3>1, <3>2, <3>3, <3>4
  <2>2. CASE u # t
    <3>1. Writes(u) /\ trainer[u].alone /\ Writes(t)
      BY <2>2, <1>1, TrainerGoes DEF Writes, Writing
    <3> QED BY <2>2, <3>1 DEF TrainingInv, ModelInv
  <2> QED BY <2>1, <2>2
<1>8. Writes(t)
  BY DEF Writes
<1>9. "model" \notin upsets' => \A u \in Trainers : Writes(u)' => trainer'[u].alone
  BY <1>2, <1>4 DEF TrainingInv, ModelInv
<1>10. ModelInv'
  BY <1>2, <1>3, <1>5, <1>6, <1>7, <1>8, <1>9 DEF ModelInv, Ordered
<1>11. CuratedInv'
  <2>1. \A u \in Trainers : Ingests(u) \/ trainer'[u].op \in {"ingest", "saving"} =>
            trainer'[u].op = trainer[u].op /\ trainer'[u].sessions = trainer[u].sessions
    BY <1>1, TrainerGoes DEF Ingests, Writing
  <2> QED BY <2>1, CuratedQuiet DEF TrainingInv
<1> QED BY <1>1, <1>10, <1>11, TrainerGoes DEF TrainingInv

LEMMA OpenBundleKeeps ==
  ASSUME TrainingInv, NEW t \in Trainers, OpenBundle(t)
  PROVE  TrainingInv'
<1>1. /\ trainer[t].op = "bundle" /\ bundle' = Torn /\ Goes(t, "bundling")
      /\ UNCHANGED <<labels, runs, rules, curated, saved, upsets>>
  BY DEF OpenBundle
<1>2. "bundling" \in Writing /\ "bundle" \in Writing
  BY DEF Writing
<1>3. rules' \in RuleSet /\ (rules'.by # Torn => Ordered(rules'))
  BY <1>1 DEF TrainingInv, ModelInv
<1> QED BY <1>1, <1>2, <1>3, WritesOn

LEMMA WriteBundleKeeps ==
  ASSUME TrainingInv, NEW t \in Trainers, WriteBundle(t)
  PROVE  TrainingInv'
<1>1. /\ trainer[t].op = "bundling" /\ bundle' = trainer[t].run /\ Goes(t, "rules")
      /\ UNCHANGED <<labels, runs, rules, curated, saved, upsets>>
  BY DEF WriteBundle
<1>2. "bundling" \in Writing /\ "rules" \in Writing
  BY DEF Writing
<1>3. rules' \in RuleSet /\ (rules'.by # Torn => Ordered(rules'))
  BY <1>1 DEF TrainingInv, ModelInv
<1>4. bundle' \in {Torn} \union (0..MaxRuns)
  BY <1>1 DEF TrainingInv, TrainerJob
<1> QED BY <1>1, <1>2, <1>3, <1>4, WritesOn

LEMMA OpenRulesKeeps ==
  ASSUME TrainingInv, NEW t \in Trainers, OpenRules(t)
  PROVE  TrainingInv'
<1>1. /\ trainer[t].op = "rules" /\ rules' = TornRules
      /\ trainer' = [trainer EXCEPT ![t] = [trainer[t] EXCEPT !.op = "ruling", !.new = trainer[t].new]]
      /\ UNCHANGED <<labels, runs, bundle, curated, saved, upsets>>
  BY DEF OpenRules, Merged, TrainingInv
<1>2. trainer[t] \in TrainerJob
  BY DEF TrainingInv
<1>3. [trainer[t] EXCEPT !.op = "ruling", !.new = trainer[t].new] = [trainer[t] EXCEPT !.op = "ruling"]
  BY <1>2 DEF TrainerJob
<1>4. Goes(t, "ruling")
  BY <1>1, <1>3 DEF Goes
<1>5. "ruling" \in Writing /\ "rules" \in Writing
  BY DEF Writing
<1>6. rules' \in RuleSet /\ ~(rules'.by # Torn)
  BY <1>1, ShippedOK
<1>7. bundle' = bundle /\ bundle' \in {Torn} \union (0..MaxRuns)
  BY <1>1 DEF TrainingInv
<1> QED BY <1>1, <1>4, <1>5, <1>6, <1>7, WritesOn

LEMMA WriteRulesKeeps ==
  ASSUME TrainingInv, NEW t \in Trainers, WriteRules(t)
  PROVE  TrainingInv'
<1>1. /\ trainer[t].op = "ruling" /\ rules' = trainer[t].new /\ Goes(t, "done")
      /\ upsets' = upsets \ {u \in {"model"} : trainer[t].alone /\ trainer[t].new.fitted = trainer[t].run}
      /\ UNCHANGED <<labels, runs, bundle, curated, saved>>
  BY DEF WriteRules
<1>2. "done" \in TrainerOps /\ "done" \notin Writing
  BY DEF TrainerOps, Writing
<1>3. trainer[t] \in TrainerJob /\ Writes(t)
  BY <1>1 DEF TrainingInv, Writes, Writing
<1>4. rules' \in RuleSet /\ Ordered(rules')
  BY <1>1, <1>3 DEF TrainingInv, ModelInv, TrainerJob
<1>5. /\ \A u \in Trainers : u # t => (Writes(u)' <=> Writes(u))
      /\ ~Writes(t)'
  BY <1>1, <1>2, TrainerGoes DEF Writes
<1>6. /\ \A u \in Trainers : Ordered(trainer'[u].new)
      /\ \A u \in Trainers : trainer'[u].op \in {"collect", "done"} \union Writing => trainer'[u].run \in Runs
  <2>1. trainer[t].run \in Runs
    BY <1>1 DEF TrainingInv, ModelInv, Writing
  <2> QED BY <2>1, <1>1, <1>2, TrainerGoes DEF TrainingInv, ModelInv
<1>7. \A u \in Trainers \ {t} : trainer'[u] = trainer[u]
  BY <1>1, <1>2, TrainerGoes
<1>8. \A u, v \in Trainers : Writes(u)' /\ trainer'[u].alone /\ Writes(v)' => u = v
  BY <1>5, <1>7 DEF TrainingInv, ModelInv
<1>9. /\ \A u \in Trainers : trainer'[u].op \in {"bundle", "bundling"} => trainer'[u].new.fitted = trainer'[u].run
      /\ \A u \in Trainers : trainer'[u].op \in {"rules", "ruling"} /\ trainer'[u].alone =>
           trainer'[u].new.fitted = bundle'
  <2>1. trainer'[t].op = "done"
    BY <1>1, <1>2, TrainerGoes
  <2> QED BY <2>1, <1>1, <1>7 DEF TrainingInv, ModelInv
<1>10. ASSUME "model" \notin upsets' PROVE trainer[t].alone
  BY <1>1, <1>3, <1>10 DEF TrainingInv, ModelInv
<1>11. ASSUME "model" \notin upsets' PROVE \A u \in Trainers : ~Writes(u)'
  <2>1. \A u \in Trainers : Writes(u) => u = t
    BY <1>3, <1>10, <1>11 DEF TrainingInv, ModelInv
  <2> QED BY <2>1, <1>5
<1>12. ASSUME "model" \notin upsets' PROVE rules'.by # Torn /\ rules'.fitted = bundle'
  <2>1. trainer[t].new.fitted = bundle
    BY <1>1, <1>10, <1>12 DEF TrainingInv, ModelInv
  <2> QED BY <2>1, <1>1, <1>4 DEF Ordered
<1>13. ModelInv'
  BY <1>4, <1>6, <1>8, <1>9, <1>11, <1>12 DEF ModelInv, Ordered
<1>14. CuratedInv'
  <2>1. \A u \in Trainers : Ingests(u) \/ trainer'[u].op \in {"ingest", "saving"} =>
            trainer'[u].op = trainer[u].op /\ trainer'[u].sessions = trainer[u].sessions
    BY <1>1, <1>2, TrainerGoes DEF Ingests
  <2>2. "curated" \in upsets' <=> "curated" \in upsets
    BY <1>1
  <2> QED BY <1>1, <2>1, <2>2, CuratedQuiet DEF TrainingInv
<1>15. upsets' \subseteq {"model", "curated"}
  BY <1>1 DEF TrainingInv
<1> QED BY <1>1, <1>2, <1>4, <1>13, <1>14, <1>15, TrainerGoes DEF TrainingInv

\* A training that ends, and one that is broken off.
LEMMA TrainingEnds ==
  ASSUME TrainingInv, NEW t \in Trainers, trainer[t].op \in {"collect", "done"} \union Writing, Stops(t),
         runs' \in [Runs -> {"none", "running", "completed", "failed"}],
         upsets' = upsets \union {u \in {"model"} : trainer[t].op \in Writing},
         UNCHANGED <<labels, bundle, rules, curated, saved>>
  PROVE  TrainingInv'
<1>1. \A u \in Trainers : u # t => (Writes(u)' <=> Writes(u))
  BY TrainerStops DEF Writes
<1>2. ~Writes(t)'
  BY TrainerStops, RestingTrainer DEF Writes, Writing
<1>3. /\ \A u \in Trainers : Ordered(trainer'[u].new)
      /\ \A u \in Trainers : trainer'[u].op \in {"collect", "done"} \union Writing => trainer'[u].run \in Runs
  BY TrainerStops, RestingTrainer, ShippedOK DEF TrainingInv, ModelInv, Writing
<1>4. \A u, v \in Trainers : Writes(u)' /\ trainer'[u].alone /\ Writes(v)' => u = v
  BY <1>1, <1>2, TrainerStops DEF TrainingInv, ModelInv
<1>5. /\ \A u \in Trainers : trainer'[u].op \in {"bundle", "bundling"} => trainer'[u].new.fitted = trainer'[u].run
      /\ \A u \in Trainers : trainer'[u].op \in {"rules", "ruling"} /\ trainer'[u].alone =>
           trainer'[u].new.fitted = bundle'
  BY TrainerStops, RestingTrainer DEF TrainingInv, ModelInv
<1>6. ASSUME "model" \notin upsets'
      PROVE  /\ \A u \in Trainers : Writes(u)' => trainer'[u].alone
             /\ (\A u \in Trainers : ~Writes(u)') => rules'.by # Torn /\ rules'.fitted = bundle'
  <2>1. "model" \notin upsets /\ ~Writes(t)
    BY <1>6 DEF Writes
  <2> QED BY <2>1, <1>1, <1>2, TrainerStops DEF TrainingInv, ModelInv
<1>7. rules'.by # Torn => Ordered(rules')
  BY DEF TrainingInv, ModelInv
<1>8. ModelInv'
  BY <1>3, <1>4, <1>5, <1>6, <1>7 DEF ModelInv, Ordered
<1>9. CuratedInv'
  <2>1. \A u \in Trainers : Ingests(u) \/ trainer'[u].op \in {"ingest", "saving"} =>
            trainer'[u].op = trainer[u].op /\ trainer'[u].sessions = trainer[u].sessions
    BY TrainerStops, RestingTrainer DEF Ingests, Writing
  <2> QED BY <2>1, CuratedQuiet DEF TrainingInv
<1>10. upsets' \subseteq {"model", "curated"}
  BY DEF TrainingInv
<1> QED BY <1>8, <1>9, <1>10, TrainerStops DEF TrainingInv

LEMMA EndRunKeeps ==
  ASSUME TrainingInv, NEW t \in Trainers, EndRun(t)
  PROVE  TrainingInv'
<1>1. /\ trainer[t].op = "done" /\ runs' = [runs EXCEPT ![trainer[t].run] = "completed"] /\ Stops(t)
      /\ UNCHANGED <<labels, bundle, rules, curated, saved, upsets>>
  BY DEF EndRun
<1>2. runs' \in [Runs -> {"none", "running", "completed", "failed"}]
  BY <1>1 DEF TrainingInv
<1>3. upsets' = upsets \union {u \in {"model"} : trainer[t].op \in Writing}
  BY <1>1 DEF Writing
<1> QED BY <1>1, <1>2, <1>3, TrainingEnds

LEMMA RunFailsKeeps ==
  ASSUME TrainingInv, NEW t \in Trainers, RunFails(t)
  PROVE  TrainingInv'
<1>1. /\ trainer[t].op \in Training /\ runs' = [runs EXCEPT ![trainer[t].run] = "failed"] /\ Halfway(t)
      /\ Stops(t) /\ UNCHANGED <<labels, bundle, rules, curated, saved>>
  BY DEF RunFails
<1>2. runs' \in [Runs -> {"none", "running", "completed", "failed"}]
  BY <1>1 DEF TrainingInv
<1> QED BY <1>1, <1>2, TrainingEnds DEF Halfway, Training

LEMMA RunDiesKeeps ==
  ASSUME TrainingInv, NEW t \in Trainers, RunDies(t)
  PROVE  TrainingInv'
<1>1. /\ trainer[t].op \in Training /\ Halfway(t)
      /\ Stops(t) /\ UNCHANGED <<labels, runs, bundle, rules, curated, saved>>
  BY DEF RunDies
<1>2. runs' \in [Runs -> {"none", "running", "completed", "failed"}]
  BY <1>1 DEF TrainingInv
<1> QED BY <1>1, <1>2, TrainingEnds DEF Halfway, Training

-----------------------------------------------------------------------------
\* An ingestion leaves the model and its thresholds.
LEMMA IngestQuiet ==
  ASSUME TrainingInv, NEW t \in Trainers, trainer[t].op \in {"none", "ingest", "saving"},
         NEW j \in TrainerJob, j.op \in {"none", "ingest", "saving"}, j.new = trainer[t].new \/ j.new = ShippedRules,
         trainer'[t] = j, \A u \in Trainers \ {t} : trainer'[u] = trainer[u],
         "model" \in upsets' <=> "model" \in upsets,
         UNCHANGED <<bundle, rules>>
  PROVE  ModelInv'
<1>1. \A u \in Trainers : trainer[u].op \in Writing \/ trainer'[u].op \in Writing => trainer'[u] = trainer[u]
  BY DEF Writing
<1>2. \A u \in Trainers : Ordered(trainer'[u].new)
  BY ShippedOK DEF TrainingInv, ModelInv
<1>3. \A u \in Trainers : trainer'[u].op \in {"collect", "done"} => trainer'[u].run \in Runs
  BY DEF TrainingInv, ModelInv
<1> QED BY <1>1, <1>2, <1>3, ModelQuiet DEF TrainingInv

LEMMA IngestKeeps ==
  ASSUME TrainingInv, NEW t \in Trainers, Ingest(t)
  PROVE  TrainingInv'
<1>1. PICK wrongs \in SUBSET {s \in Judged : labels[s].wrong} :
         trainer' = [trainer EXCEPT ![t] = [Resting EXCEPT !.op = "ingest",
                                             !.sessions = Existing \union wrongs]]
  BY DEF Ingest
<1>2. /\ trainer[t] = Resting
      /\ upsets' = upsets \union {u \in {"curated"} : OthersAt(t, {"ingest", "saving"})}
      /\ UNCHANGED <<labels, runs, bundle, rules, curated, saved>>
  BY DEF Ingest
<1> DEFINE j == [Resting EXCEPT !.op = "ingest", !.sessions = Existing \union wrongs]
<1>3. Existing \subseteq Judged
  BY DEF Existing, TrainingInv
<1>4. j \in TrainerJob /\ j.op = "ingest" /\ j.new = ShippedRules /\ j.sessions = Existing \union wrongs
  <2>1. Existing \union wrongs \in SUBSET Judged
    BY <1>3
  <2> QED BY <2>1, RestingTrainer DEF TrainerJob, TrainerOps
<1>5. trainer' = [trainer EXCEPT ![t] = j]
  BY <1>1
<1> HIDE DEF j
<1>6. /\ trainer' \in [Trainers -> TrainerJob] /\ trainer'[t] = j
      /\ \A u \in Trainers \ {t} : trainer'[u] = trainer[u]
  BY <1>4, <1>5, TrainerTurns
<1>7. ModelInv'
  BY <1>2, <1>4, <1>6, RestingTrainer, IngestQuiet
<1>8. CuratedInv'
  <2> SUFFICES ASSUME "curated" \notin upsets'
               PROVE  /\ \A a, u \in Trainers : Ingests(a)' /\ Ingests(u)' => a = u
                      /\ \A a \in Trainers : Ingests(a)' => saved' \subseteq trainer'[a].sessions
                      /\ (\A a \in Trainers : trainer'[a].op # "saving") =>
                            ~curated'.torn /\ saved' \subseteq curated'.sessions
    BY DEF CuratedInv
  <2>1. "curated" \notin upsets /\ \A u \in Trainers \ {t} : ~Ingests(u)
    BY <1>2 DEF OthersAt, Ingests
  <2>2. \A u \in Trainers : Ingests(u)' => u = t
    BY <2>1, <1>6 DEF Ingests
  <2>3. \A u \in Trainers : trainer[u].op # "saving"
    BY <2>1, <1>2, RestingTrainer DEF Ingests
  <2>4. ~curated.torn /\ saved \subseteq curated.sessions
    BY <2>1, <2>3 DEF TrainingInv, CuratedInv
  <2>5. saved \subseteq trainer'[t].sessions
    BY <2>4, <1>4, <1>6 DEF Existing
  <2> QED BY <2>2, <2>4, <2>5, <1>2
<1>9. upsets' \subseteq {"model", "curated"}
  BY <1>2 DEF TrainingInv
<1> QED BY <1>2, <1>6, <1>7, <1>8, <1>9 DEF TrainingInv

LEMMA OpenCuratedKeeps ==
  ASSUME TrainingInv, NEW t \in Trainers, OpenCurated(t)
  PROVE  TrainingInv'
<1>1. /\ trainer[t].op = "ingest" /\ curated' = [torn |-> TRUE, sessions |-> {}] /\ Goes(t, "saving")
      /\ UNCHANGED <<labels, runs, bundle, rules, saved, upsets>>
  BY DEF OpenCurated
<1>2. "saving" \in TrainerOps
  BY DEF TrainerOps
<1>3. ModelInv'
  <2>1. trainer'[t] \in TrainerJob /\ trainer'[t].op = "saving" /\ trainer'[t].new = trainer[t].new
        /\ \A u \in Trainers \ {t} : trainer'[u] = trainer[u]
    BY <1>1, <1>2, TrainerGoes
  <2> QED BY <2>1, <1>1, IngestQuiet
<1>4. CuratedInv'
  <2>1. \A u \in Trainers : Ingests(u)' <=> Ingests(u)
    BY <1>1, <1>2, TrainerGoes DEF Ingests
  <2>2. \A u \in Trainers : trainer'[u].sessions = trainer[u].sessions
    BY <1>1, <1>2, TrainerGoes
  <2>3. trainer'[t].op = "saving"
    BY <1>1, <1>2, TrainerGoes
  <2> QED BY <2>1, <2>2, <2>3, <1>1 DEF TrainingInv, CuratedInv
<1>5. curated' \in [torn : BOOLEAN, sessions : SUBSET Judged]
  BY <1>1
<1> QED BY <1>1, <1>2, <1>3, <1>4, <1>5, TrainerGoes DEF TrainingInv

LEMMA SaveCuratedKeeps ==
  ASSUME TrainingInv, NEW t \in Trainers, SaveCurated(t)
  PROVE  TrainingInv'
<1>1. /\ trainer[t].op = "saving" /\ curated' = [torn |-> FALSE, sessions |-> trainer[t].sessions]
      /\ saved' = saved \union trainer[t].sessions /\ Stops(t)
      /\ UNCHANGED <<labels, runs, bundle, rules, upsets>>
  BY DEF SaveCurated
<1>2. ModelInv'
  BY <1>1, TrainerStops, RestingTrainer, IngestQuiet
<1>3. trainer[t].sessions \subseteq Judged
  BY DEF TrainingInv, TrainerJob
<1>4. curated' \in [torn : BOOLEAN, sessions : SUBSET Judged] /\ curated'.sessions = trainer[t].sessions
      /\ ~curated'.torn
  BY <1>1, <1>3
<1>5. CuratedInv'
  <2>1. \A u \in Trainers : Ingests(u)' => Ingests(u) /\ u # t
    BY <1>1, TrainerStops, RestingTrainer DEF Ingests
  <2>2. ASSUME "curated" \notin upsets
        PROVE  /\ \A u \in Trainers : ~Ingests(u)' /\ saved' \subseteq curated'.sessions
    BY <2>1, <2>2, <1>1, <1>4 DEF TrainingInv, CuratedInv, Ingests
  <2>3. Trainers # {}
    OBVIOUS
  <2> QED BY <2>2, <2>3, <1>1, <1>4 DEF CuratedInv
<1>6. saved' \subseteq Judged
  BY <1>1, <1>3 DEF TrainingInv
<1> QED BY <1>1, <1>2, <1>4, <1>5, <1>6, TrainerStops DEF TrainingInv

LEMMA IngestDiesKeeps ==
  ASSUME TrainingInv, NEW t \in Trainers, IngestDies(t)
  PROVE  TrainingInv'
<1>1. /\ trainer[t].op \in {"ingest", "saving"}
      /\ upsets' = upsets \union {u \in {"curated"} : trainer[t].op = "saving"}
      /\ Stops(t) /\ UNCHANGED <<labels, runs, bundle, rules, curated, saved>>
  BY DEF IngestDies
<1>2. ModelInv'
  <2>1. "model" \in upsets' <=> "model" \in upsets
    BY <1>1
  <2> QED BY <2>1, <1>1, TrainerStops, RestingTrainer, IngestQuiet
<1>3. CuratedInv'
  <2>1. \A u \in Trainers : Ingests(u)' => Ingests(u) /\ u # t
    BY <1>1, TrainerStops, RestingTrainer DEF Ingests
  <2>2. \A u \in Trainers \ {t} : trainer'[u] = trainer[u]
    BY <1>1, TrainerStops
  <2>3. ASSUME "curated" \notin upsets'
        PROVE  "curated" \notin upsets /\ trainer[t].op # "saving"
    BY <1>1, <2>3
  <2>4. ASSUME "curated" \notin upsets', \A u \in Trainers : trainer'[u].op # "saving"
        PROVE  \A u \in Trainers : trainer[u].op # "saving"
    BY <2>2, <2>3, <2>4
  <2> QED BY <2>1, <2>2, <2>3, <2>4, <1>1 DEF TrainingInv, CuratedInv
<1>4. upsets' \subseteq {"model", "curated"}
  BY <1>1 DEF TrainingInv
<1> QED BY <1>1, <1>2, <1>3, <1>4, TrainerStops DEF TrainingInv

LEMMA TrainingStep ==
  ASSUME TrainingInv, TrainingNext
  PROVE  TrainingInv'
  BY GiveLabelKeeps, StartRunKeeps, CollectKeeps, OpenBundleKeeps, WriteBundleKeeps, OpenRulesKeeps,
     WriteRulesKeeps, EndRunKeeps, RunFailsKeeps, RunDiesKeeps, IngestKeeps, OpenCuratedKeeps,
     SaveCuratedKeeps, IngestDiesKeeps DEF TrainingNext

LEMMA TrainingStutter ==
  ASSUME TrainingInv, UNCHANGED trainingVars
  PROVE  TrainingInv'
<1>1. UNCHANGED <<labels, runs, bundle, rules, curated, trainer, saved, upsets>>
  BY DEF trainingVars
<1>2. (ModelInv => ModelInv') /\ (CuratedInv => CuratedInv')
  BY <1>1 DEF ModelInv, CuratedInv, Writes, Ingests, Ordered
<1> QED BY <1>1, <1>2 DEF TrainingInv

LEMMA TrainingInvHolds ==
  ASSUME TrainingInv
  PROVE  TrainingTypeOK /\ TrainingHolds
<1>1. TrainingTypeOK
  BY DEF TrainingInv, TrainingTypeOK, RuleSet
<1>2. "model" \in upsets \/ (\E t \in Trainers : trainer[t].op \in Writing) \/
      (Evaluable /\ rules.fitted = bundle)
  BY DEF TrainingInv, ModelInv, Writes, Evaluable
<1>3. Evaluable => rules.review < rules.critical /\ rules.critical <= 97
  BY DEF TrainingInv, ModelInv, Evaluable, Ordered
<1>4. CuratedKept
  BY DEF TrainingInv, CuratedInv, CuratedKept
<1> QED BY <1>1, <1>2, <1>3, <1>4 DEF TrainingHolds, ThresholdsFitModel
-----------------------------------------------------------------------------
(* The record, its paper, recordings, score and model together. *)

AttemptInv == IInv /\ PaperInv /\ EvidenceInv /\ ScoringInv /\ TrainingInv

\* A record nobody has touched, in the behaviours about another part.
LEMMA RestingRecord ==
  ASSUME issue = NewIssue, submitted = FALSE, req = [w \in Workers |-> Idle],
         raised = {}, overlapped = FALSE
  PROVE  IInv
<1>1. \A v \in Workers : /\ req[v].issue = NewIssue /\ req[v].signals = {}
                         /\ req[v].op = "idle" /\ ~Busy(v)
  BY DEF Idle, Busy
<1>2. TypeOK
  BY IdleType, NewIssueType DEF TypeOK
<1>3. Honest(NewRecord) /\ NewIssue.record = NewRecord
  BY DEF Honest, NewRecord, NewIssue
<1>4. HonestInv
  BY <1>1, <1>3 DEF HonestInv
<1>5. AloneInv /\ OpenInv
  BY <1>1 DEF AloneInv, OpenInv
<1>6. FlaggedIsReviewed
  BY <1>3 DEF FlaggedIsReviewed, NewRecord
<1> QED BY <1>2, <1>4, <1>5, <1>6 DEF IInv

\* A task nothing is matched of.
LEMMA RestingScore ==
  ASSUME task = [kind |-> "coding", first |-> {}, second |-> {},
                 weight |-> [i \in Items |-> 1], manual |-> TRUE, share |-> 0],
         matched = {}, wrong = {}, score = Unscored
  PROVE  ScoringInv
<1>1. MaxWeight \in Nat \ {0}
  BY ScoringAssumption
<1>2. 1 \in 0..MaxWeight /\ 0 \in 0..MaxWeight
  BY <1>1
<1>3. [i \in Items |-> 1] \in [Items -> 0..MaxWeight]
  BY <1>2
<1>4. task \in Task /\ task.kind = "coding"
  BY <1>2, <1>3 DEF Task, Kinds
<1> QED BY <1>4 DEF ScoringInv, TaskFits

LEMMA AttemptStart == AttemptInit => AttemptInv
<1> SUFFICES ASSUME AttemptInit PROVE AttemptInv
  OBVIOUS
<1>1. PaperInv /\ EvidenceInv /\ TrainingInv
  BY PaperStart, EvidenceStart, TrainingStart DEF AttemptInit
<1>2. IInv
  <2>1. CASE part = "record"
    BY <2>1, InitIInv DEF AttemptInit
  <2>2. CASE part # "record"
    BY <2>2, RestingRecord DEF AttemptInit
  <2> QED BY <2>1, <2>2
<1>3. ScoringInv
  <2>1. CASE part = "score"
    BY <2>1, ScoringStart DEF AttemptInit
  <2>2. CASE part # "score"
    BY <2>2, RestingScore DEF AttemptInit
  <2> QED BY <2>1, <2>2
<1> QED BY <1>1, <1>2, <1>3 DEF AttemptInv

LEMMA RecordStutter ==
  ASSUME IInv, UNCHANGED vars
  PROVE  IInv'
  BY NextKeeps

\* A step of one part leaves the others as they are.
LEMMA AttemptStep ==
  ASSUME AttemptInv, [AttemptNext]_attemptVars
  PROVE  AttemptInv' /\ (~overlapped' => Grows(issue.record, issue'.record))
<1> USE DEF AttemptInv
<1>1. CASE Next /\ UNCHANGED <<paperVars, evidenceVars, scoringVars, trainingVars>>
  <2>1. UNCHANGED paperVars /\ UNCHANGED evidenceVars /\ UNCHANGED scoringVars /\ UNCHANGED trainingVars
    BY <1>1
  <2> QED BY <1>1, <2>1, NextKeeps, PaperStutter, EvidenceStutter, ScoringStutter, TrainingStutter
<1>2. CASE PaperNext /\ UNCHANGED <<vars, evidenceVars, scoringVars, trainingVars>>
  <2>1. UNCHANGED vars /\ UNCHANGED evidenceVars /\ UNCHANGED scoringVars /\ UNCHANGED trainingVars
    BY <1>2
  <2> QED BY <1>2, <2>1, NextKeeps, PaperStep, EvidenceStutter, ScoringStutter, TrainingStutter
<1>3. CASE EvidenceNext /\ UNCHANGED <<vars, paperVars, scoringVars, trainingVars>>
  <2>1. UNCHANGED vars /\ UNCHANGED paperVars /\ UNCHANGED scoringVars /\ UNCHANGED trainingVars
    BY <1>3
  <2> QED BY <1>3, <2>1, NextKeeps, PaperStutter, EvidenceStep, ScoringStutter, TrainingStutter
<1>4. CASE ScoringNext /\ UNCHANGED <<vars, paperVars, evidenceVars, trainingVars>>
  <2>1. UNCHANGED vars /\ UNCHANGED paperVars /\ UNCHANGED evidenceVars /\ UNCHANGED trainingVars
    BY <1>4
  <2> QED BY <1>4, <2>1, NextKeeps, PaperStutter, EvidenceStutter, ScoringStep, TrainingStutter
<1>5. CASE TrainingNext /\ UNCHANGED <<vars, paperVars, evidenceVars, scoringVars>>
  <2>1. UNCHANGED vars /\ UNCHANGED paperVars /\ UNCHANGED evidenceVars /\ UNCHANGED scoringVars
    BY <1>5
  <2> QED BY <1>5, <2>1, NextKeeps, PaperStutter, EvidenceStutter, ScoringStutter, TrainingStep
<1>6. CASE UNCHANGED attemptVars
  <2>1. /\ UNCHANGED vars /\ UNCHANGED paperVars /\ UNCHANGED evidenceVars
        /\ UNCHANGED scoringVars /\ UNCHANGED trainingVars
    BY <1>6 DEF attemptVars
  <2> QED BY <2>1, NextKeeps, PaperStutter, EvidenceStutter, ScoringStutter, TrainingStutter
<1>7. AttemptNext =>
        \/ Next /\ UNCHANGED <<paperVars, evidenceVars, scoringVars, trainingVars>>
        \/ PaperNext /\ UNCHANGED <<vars, evidenceVars, scoringVars, trainingVars>>
        \/ EvidenceNext /\ UNCHANGED <<vars, paperVars, scoringVars, trainingVars>>
        \/ ScoringNext /\ UNCHANGED <<vars, paperVars, evidenceVars, trainingVars>>
        \/ TrainingNext /\ UNCHANGED <<vars, paperVars, evidenceVars, scoringVars>>
  BY DEF AttemptNext
<1> QED BY <1>1, <1>2, <1>3, <1>4, <1>5, <1>6, <1>7

\* The inductive invariant of all the parts.
THEOREM AttemptInvariance == AttemptSpec => []AttemptInv
<1>1. AttemptInv /\ [AttemptNext]_attemptVars => AttemptInv'
  BY AttemptStep
<1> QED BY <1>1, AttemptStart, PTL DEF AttemptSpec

\* Records, papers, recordings, scores and models have their types, for any
\* number of requests, questions, recordings and sessions.
THEOREM AttemptTypeCorrect == AttemptSpec => []AttemptTypeOK
<1>1. AttemptInv => AttemptTypeOK
  BY PaperInvHolds, EvidenceInvHolds, ScoringInvHolds, TrainingInvHolds
     DEF AttemptInv, IInv, AttemptTypeOK
<1> QED BY <1>1, AttemptInvariance, PTL

\* A published paper is complete, its total right, and an attempt is scored and
\* reviewed on what was shown; a recording a submission names is there; a score
\* is within the marks and monotone; the thresholds in force are those of the
\* model in force.
THEOREM ReportCorrect == AttemptSpec => []ReportHolds
<1>1. AttemptInv => ReportHolds
  BY PaperInvHolds, EvidenceInvHolds, ScoringInvHolds, TrainingInvHolds
     DEF AttemptInv, ReportHolds, PaperHolds
<1> QED BY <1>1, AttemptInvariance, PTL

\* The properties of the record, of the specification the run checks.
THEOREM AttemptFlagsCorrect == AttemptSpec => []FlagsHold
<1>1. AttemptInv => FlagsHold
  BY DEF AttemptInv, IInv, HonestInv, Honest, FlagsHaveSignals, FlagsHold
<1> QED BY <1>1, AttemptInvariance, PTL

THEOREM AttemptRecordKept == AttemptSpec => RecordGrows
<1>1. AttemptInv /\ [AttemptNext]_attemptVars
      => [~overlapped' => Grows(issue.record, issue'.record)]_vars
  BY AttemptStep
<1> QED BY <1>1, AttemptInvariance, PTL DEF AttemptSpec, RecordGrows
=============================================================================
