------------------------ MODULE DesktopSessionProofs ------------------------
(***************************************************************************)
(* For any number of workers, rows and events: a row that is closed as     *)
(* completed or terminated has no Windows session that still runs, and     *)
(* only the newest row holds the key.  Two facts carry the first: a        *)
(* session that has ended stays so, because one worker makes the call that *)
(* creates it and nobody knows its id before; and an answer that closes a  *)
(* row was given when the session had ended.                               *)
(***************************************************************************)
EXTENDS DesktopSession, SequenceTheorems, TLAPS

Closing == {"completed", "terminated"}

Indices == 1..Len(rows)

\* The worker is about to ask the broker for the session of a row.
Calling(w) == req[w].op = "start" /\ req[w].at = "calling"

\* A session exists as soon as its provider id is known.
KnownInv == \A i \in Indices : rows[i].psid => provider[i] # "none"

\* What an event says of a session has happened.
EventInv ==
    \A e \in events :
        /\ e.id \in Indices
        /\ provider[e.id] # "none"
        /\ e.status \in Closing => provider[e.id] = "ended"

\* Nobody else makes the session a start is about to ask for.
CallInv ==
    /\ \A i \in Ids : i > Len(rows) => provider[i] = "none"
    /\ \A w \in Workers : Calling(w) =>
          req[w].id \in Indices /\ provider[req[w].id] = "none"
    /\ \A v, w \in Workers :
          Calling(v) /\ Calling(w) /\ req[v].id = req[w].id => v = w

\* What a snapshot says of a session is still so.
SnapOK(w) ==
    \A i \in Ids : req[w].snap[i] # NoRow =>
        /\ i \in Indices
        /\ req[w].snap[i] \in Row
        /\ req[w].snap[i].psid => provider[i] # "none"

StartOK(w) ==
    req[w].op = "start" /\ req[w].at = "answered" =>
        /\ req[w].id \in Indices
        /\ req[w].out[req[w].id] \in {"active", "error"}
        /\ req[w].out[req[w].id] = "active" => provider[req[w].id] # "none"

FinalizeOK(w) ==
    Finalizing(w) /\ req[w].at = "answered" =>
        \A i \in Ids :
            /\ req[w].out[i] = "completed" => provider[i] = "ended"
            /\ req[w].snap[i] # NoRow => req[w].out[i] \in {"completed", "error"}

HeartbeatOK(w) ==
    req[w].op = "heartbeat" =>
        /\ req[w].id \in Indices
        /\ req[w].snap[req[w].id] \in Row
        /\ req[w].snap[req[w].id].psid => provider[req[w].id] # "none"
        /\ req[w].at = "answered" =>
              /\ req[w].out[req[w].id] \in {"active", "disconnected", "terminated", "error"}
              /\ req[w].out[req[w].id] = "terminated" => provider[req[w].id] = "ended"

EventOK(w) ==
    req[w].op = "event" =>
        /\ req[w].id \in Indices
        /\ req[w].snap[req[w].id] \in Row
        /\ provider[req[w].id] # "none"
        /\ req[w].out[req[w].id] \in SessionStatus
        /\ req[w].out[req[w].id] \in Closing => provider[req[w].id] = "ended"

\* What a worker carries from the broker to its commit.
Carries(w) == SnapOK(w) /\ StartOK(w) /\ FinalizeOK(w) /\ HeartbeatOK(w) /\ EventOK(w)

IInv ==
    /\ TypeOK
    /\ KnownInv /\ FinalizedMeansEnded /\ OnlyLatestHoldsKey
    /\ EventInv /\ CallInv
    /\ \A w \in Workers : Carries(w)

\* Sessions are made and end, and no step takes that back.
Forward ==
    \A i \in Ids :
        /\ provider[i] # "none" => provider'[i] # "none"
        /\ provider[i] = "ended" => provider'[i] = "ended"

\* No session is made.
NoneMade == \A i \in Ids : provider[i] = "none" => provider'[i] = "none"

Longer == Len(rows) <= Len(rows')

Others(w) == \A v \in Workers : v # w => req'[v] = req[v]
-----------------------------------------------------------------------------
(* Rows and snapshots. *)

LEMMA RowAt ==
    ASSUME TypeOK, NEW i \in Indices
    PROVE  rows[i] \in Row /\ i \in Ids
BY ElementOfSeq, LenProperties, DesktopAssumption DEF TypeOK, Indices, Ids

LEMMA LoadIs ==
    ASSUME TypeOK, NEW S, S \subseteq Indices
    PROVE  /\ Load(S) \in [Ids -> Row \union {NoRow}]
           /\ \A i \in Ids : Load(S)[i] # NoRow => i \in S /\ Load(S)[i] = rows[i]
           /\ \A i \in S : Load(S)[i] = rows[i]
BY RowAt DEF Load

LEMMA IdleIs ==
    /\ Idle \in Request
    /\ Idle.op = "idle"
    /\ \A i \in Ids : Idle.snap[i] = NoRow
BY DesktopAssumption DEF Idle, Request, Ops, Load, NoAnswer, SessionStatus

LEMMA IdleCarries ==
    ASSUME NEW w \in Workers, req'[w] = Idle
    PROVE  Carries(w)' /\ ~Calling(w)'
BY IdleIs, DesktopAssumption
   DEF Carries, SnapOK, StartOK, FinalizeOK, HeartbeatOK, EventOK, Finalizing, Calling

\* What a worker carries stays true while the others go on.
LEMMA StillCarries ==
    ASSUME TypeOK, TypeOK', NEW v \in Workers, Carries(v), req'[v] = req[v], Forward, Longer
    PROVE  Carries(v)'
<1>1. \A i : i \in Indices => i \in Indices' /\ i \in Ids
  BY LenProperties, RowAt DEF TypeOK, Indices, Longer
<1>2. SnapOK(v)'
  BY <1>1 DEF Carries, SnapOK, Forward
<1>3. StartOK(v)' /\ HeartbeatOK(v)' /\ EventOK(v)'
  BY <1>1 DEF Carries, StartOK, HeartbeatOK, EventOK, Forward
<1>4. FinalizeOK(v)'
  BY <1>1 DEF Carries, FinalizeOK, Finalizing, Forward
<1> QED
  BY <1>2, <1>3, <1>4 DEF Carries

\* No start is about to call that was not before.
LEMMA CallsKept ==
    ASSUME TypeOK, TypeOK', CallInv, NoneMade, Longer,
           \A v \in Workers : Calling(v)' => Calling(v) /\ req'[v].id = req[v].id
    PROVE  CallInv'
<1>1. Len(rows) \in Nat /\ Len(rows') \in Nat
  BY LenProperties DEF TypeOK
<1>2. \A i : i \in Indices => i \in Indices' /\ i \in Ids
  BY <1>1, RowAt DEF Indices, Longer
<1>3. \A i \in Ids : i > Len(rows') => provider'[i] = "none"
  BY <1>1 DEF CallInv, NoneMade, Longer, Ids
<1>4. \A v \in Workers : Calling(v)' =>
        req'[v].id \in Indices' /\ provider'[req'[v].id] = "none"
  BY <1>2 DEF CallInv, NoneMade
<1>5. \A u, v \in Workers :
        Calling(u)' /\ Calling(v)' /\ req'[u].id = req'[v].id => u = v
  BY DEF CallInv
<1> QED
  BY <1>3, <1>4, <1>5 DEF CallInv

\* A step of one worker that makes no session and leaves events alone.
LEMMA StepKeeps ==
    ASSUME IInv, TypeOK', NEW w \in Workers, Others(w), Carries(w)', ~Calling(w)',
           Forward, NoneMade, Longer, events' \subseteq events,
           KnownInv', FinalizedMeansEnded', OnlyLatestHoldsKey'
    PROVE  IInv'
<1>1. TypeOK /\ CallInv /\ EventInv
  BY DEF IInv
<1>2. \A v \in Workers : Carries(v)'
  BY <1>1, StillCarries DEF IInv, Others
<1>3. CallInv'
  BY <1>1, CallsKept DEF Others, Calling
<1>4. EventInv'
  <2>1. \A i : i \in Indices => i \in Indices' /\ i \in Ids
    BY <1>1, LenProperties, RowAt DEF TypeOK, Indices, Longer
  <2> QED
    BY <1>1, <2>1 DEF EventInv, Forward
<1> QED
  BY <1>2, <1>3, <1>4 DEF IInv

\* The rows and the sessions are as they were.
LEMMA RowsKept ==
    ASSUME IInv, rows' = rows, Forward
    PROVE  KnownInv' /\ FinalizedMeansEnded' /\ OnlyLatestHoldsKey' /\ Longer
<1>1. \A i \in Indices : i \in Ids
  BY RowAt DEF IInv
<1>2. Len(rows) \in Nat
  BY LenProperties DEF IInv, TypeOK
<1> QED
  BY <1>1, <1>2 DEF IInv, KnownInv, FinalizedMeansEnded, OnlyLatestHoldsKey, Indices,
     Forward, Longer

LEMMA ProviderKept ==
    ASSUME provider' = provider
    PROVE  Forward /\ NoneMade
BY DEF Forward, NoneMade
-----------------------------------------------------------------------------
(* One lemma for each step of a worker. *)

LEMMA InitIInv == Init => IInv
<1> SUFFICES ASSUME Init PROVE IInv
  OBVIOUS
<1> USE DEF Init
<1>1. rows = <<>> /\ Len(rows) = 0 /\ Indices = {}
  BY DEF Indices
<1>2. TypeOK
  BY <1>1, IdleIs, DesktopAssumption DEF TypeOK, Ids
<1>3. \A w \in Workers : Carries(w) /\ ~Calling(w)
  BY IdleIs, DesktopAssumption
     DEF Carries, SnapOK, StartOK, FinalizeOK, HeartbeatOK, EventOK, Finalizing, Calling
<1>4. KnownInv /\ FinalizedMeansEnded /\ OnlyLatestHoldsKey /\ EventInv /\ CallInv
  BY <1>1, <1>3 DEF KnownInv, FinalizedMeansEnded, OnlyLatestHoldsKey, EventInv, CallInv
<1> QED BY <1>2, <1>3, <1>4 DEF IInv

\* A request that has loaded rows.
LEMMA BeginKeeps ==
    ASSUME IInv, NEW w \in Workers, NEW op \in Ops \ {"event"}, NEW S,
           NEW i, IF op = "heartbeat" THEN i \in S ELSE i = 0,
           S \subseteq Indices,
           Begin(w, op, i, S), open' \in BOOLEAN,
           UNCHANGED <<rows, lapsed, provider, events>>
    PROVE  IInv'
<1>1. TypeOK /\ KnownInv
  BY DEF IInv
<1>2. /\ req'[w].op = op /\ req'[w].at = "read" /\ req'[w].id = i
      /\ req'[w].snap = Load(S) /\ req'[w].out = NoAnswer
      /\ Others(w)
  BY <1>1 DEF Begin, TypeOK, Others
<1>3. i \in Nat /\ (op = "heartbeat" => i \in Ids)
  BY <1>1, RowAt DEF Ids
<1>4. [op |-> op, at |-> "read", id |-> i, snap |-> Load(S), out |-> NoAnswer] \in Request
  BY <1>1, <1>3, LoadIs DEF Request, Ops, NoAnswer, SessionStatus
<1>5. TypeOK'
  BY <1>1, <1>4 DEF TypeOK, Begin
<1> DEFINE Good(j, r) == j \in Indices /\ r \in Row /\ (r.psid => provider[j] # "none")
<1>6. \A j \in S : Good(j, rows[j])
  BY <1>1, RowAt DEF KnownInv
<1>7. \A j \in Ids : Load(S)[j] # NoRow => Good(j, Load(S)[j])
  BY <1>1, <1>6, LoadIs
<1>8. op = "heartbeat" => Good(i, Load(S)[i])
  BY <1>1, <1>6, LoadIs
<1>9. Indices' = Indices /\ provider' = provider
  BY DEF Indices
<1>10. SnapOK(w)'
  BY <1>2, <1>7, <1>9 DEF SnapOK
<1>11. HeartbeatOK(w)'
  BY <1>2, <1>8, <1>9 DEF HeartbeatOK
<1>12. Carries(w)' /\ ~Calling(w)'
  BY <1>2, <1>10, <1>11 DEF Carries, StartOK, FinalizeOK, EventOK, Finalizing, Calling
<1> QED
  BY <1>2, <1>5, <1>12, StepKeeps, RowsKept, ProviderKept

LEMMA UnfinishedRows == Unfinished \subseteq Indices
BY DEF Unfinished, Indices

LEMMA Reads ==
    ASSUME IInv, NEW w \in Workers
    PROVE  /\ StartRead(w) => IInv'
           /\ \A i \in Indices : SubmitRead(w, i) => IInv'
           /\ Revoke(w) => IInv'
           /\ ReconcileRead(w) => IInv'
           /\ HeartbeatRead(w) => IInv'
<1>1. open \in BOOLEAN
  BY DEF IInv, TypeOK
<1>2. StartRead(w) => IInv'
  BY <1>1, BeginKeeps DEF StartRead, Ops
<1>3. \A i \in Indices : SubmitRead(w, i) => IInv'
  BY <1>1, BeginKeeps, UnfinishedRows DEF SubmitRead, Ops
<1>4. Revoke(w) => IInv'
  BY <1>1, BeginKeeps, UnfinishedRows DEF Revoke, Ops
<1>5. ReconcileRead(w) => IInv'
  BY <1>1, BeginKeeps, UnfinishedRows DEF ReconcileRead, Ops
<1>6. ASSUME HeartbeatRead(w) PROVE IInv'
  <2>1. PICK i \in Unfinished : Begin(w, "heartbeat", i, {i})
    BY <1>6 DEF HeartbeatRead
  <2> QED
    BY <1>1, <1>6, <2>1, BeginKeeps, UnfinishedRows DEF HeartbeatRead, Ops
<1> QED
  BY <1>2, <1>3, <1>4, <1>5, <1>6

\* A worker is done with its request, and the rows are as they were.
LEMMA FinishKeeps ==
    ASSUME IInv, NEW w \in Workers, Finish(w), UNCHANGED <<open, rows, lapsed, provider>>,
           EventInv', events' \subseteq [id : Ids, status : SessionStatus]
    PROVE  IInv'
<1>1. TypeOK /\ CallInv
  BY DEF IInv
<1>2. req'[w] = Idle /\ Others(w)
  BY <1>1 DEF Finish, Others, TypeOK
<1>3. TypeOK'
  BY <1>1, IdleIs DEF TypeOK, Finish
<1>4. Forward /\ NoneMade
  BY ProviderKept
<1>5. KnownInv' /\ FinalizedMeansEnded' /\ OnlyLatestHoldsKey' /\ Longer
  BY <1>4, RowsKept
<1>6. \A v \in Workers : Carries(v)'
  BY <1>1, <1>2, <1>3, <1>4, <1>5, IdleCarries, StillCarries DEF IInv, Others
<1>7. CallInv'
  BY <1>1, <1>2, <1>3, <1>4, <1>5, CallsKept, IdleCarries DEF Others, Calling
<1> QED
  BY <1>3, <1>5, <1>6, <1>7 DEF IInv

\* A worker commits one row: what it writes is true of the session, and it
\* gives no row the key.
LEMMA CommitKeeps ==
    ASSUME IInv, NEW w \in Workers, NEW i \in Indices, NEW r \in Row,
           rows' = [rows EXCEPT ![i] = r], Finish(w),
           UNCHANGED <<open, lapsed, provider, events>>,
           r.key => rows[i].key,
           r.psid => provider[i] # "none",
           r.status \in Closing => provider[i] = "ended"
    PROVE  IInv'
<1>1. TypeOK /\ KnownInv /\ FinalizedMeansEnded /\ OnlyLatestHoldsKey
  BY DEF IInv
<1>2. /\ rows' \in Seq(Row) /\ Len(rows') = Len(rows) /\ Len(rows) \in Nat
      /\ \A j \in Indices : rows'[j] = IF j = i THEN r ELSE rows[j]
  BY <1>1, ExceptSeq, LenProperties DEF TypeOK, Indices
<1>3. TypeOK'
  BY <1>1, <1>2, IdleIs DEF TypeOK, Finish
<1>4. req'[w] = Idle /\ Others(w)
  BY <1>1 DEF Finish, Others, TypeOK
<1>5. KnownInv' /\ OnlyLatestHoldsKey'
  BY <1>1, <1>2 DEF KnownInv, OnlyLatestHoldsKey, Indices
<1>6. FinalizedMeansEnded'
  BY <1>1, <1>2 DEF FinalizedMeansEnded, Closing, Indices
<1> QED
  BY <1>2, <1>3, <1>4, <1>5, <1>6, StepKeeps, IdleCarries, ProviderKept DEF Longer

LEMMA StartInserts ==
    ASSUME IInv, NEW w \in Workers, StartInsert(w)
    PROVE  IInv'
<1> DEFINE n == Len(rows) + 1
           r == [status |-> "provisioning", key |-> TRUE, psid |-> FALSE]
<1> USE DEF StartInsert
<1>1. TypeOK /\ KnownInv /\ FinalizedMeansEnded /\ CallInv /\ EventInv
  BY DEF IInv
<1>2. r \in Row
  BY DEF Row, SessionStatus
<1>3. /\ rows' \in Seq(Row) /\ Len(rows') = n /\ Len(rows) \in Nat
      /\ n \in Nat /\ n \in Ids /\ n <= MaxSessions
      /\ \A i \in Indices : rows'[i] = rows[i]
      /\ rows'[n] = r
      /\ \A i : i \in Indices' <=> i \in Indices \/ i = n
      /\ \A i \in Indices : i # n /\ i \in Ids
  BY <1>1, <1>2, AppendProperties, LenProperties, DesktopAssumption DEF TypeOK, Indices, Ids
<1>4. /\ req'[w].op = "start" /\ req'[w].at = "calling" /\ req'[w].id = n
      /\ req'[w].snap = req[w].snap
      /\ Others(w) /\ req' \in [Workers -> Request]
  <2>1. req[w] \in Request
    BY <1>1 DEF TypeOK
  <2>2. [req[w] EXCEPT !.at = "calling", !.id = n] \in Request
    BY <1>3, <2>1 DEF Request
  <2>3. req' = [req EXCEPT ![w] = [req[w] EXCEPT !.at = "calling", !.id = n]]
    BY <1>1 DEF TypeOK
  <2> QED
    BY <1>1, <2>1, <2>2, <2>3 DEF TypeOK, Others, Request, Serving
<1>5. TypeOK'
  BY <1>1, <1>3, <1>4 DEF TypeOK
<1>6. Forward /\ NoneMade
  BY ProviderKept
<1>7. Longer
  BY <1>3 DEF Longer
<1>8. SnapOK(w)'
  BY <1>3, <1>4 DEF IInv, Carries, SnapOK
<1>9. Carries(w)'
  BY <1>4, <1>8 DEF Carries, StartOK, FinalizeOK, HeartbeatOK, EventOK, Finalizing
<1>10. \A v \in Workers : Carries(v)'
  BY <1>1, <1>4, <1>5, <1>6, <1>7, <1>9, StillCarries DEF IInv, Others
<1>11. KnownInv' /\ FinalizedMeansEnded' /\ EventInv'
  BY <1>1, <1>3 DEF KnownInv, FinalizedMeansEnded, EventInv, Indices
<1>12. OnlyLatestHoldsKey'
  BY <1>3 DEF OnlyLatestHoldsKey, Indices
<1>13. CallInv'
  <2>1. \A v \in Workers : v # w /\ Calling(v)' => Calling(v) /\ req'[v].id = req[v].id
    BY <1>4 DEF Calling, Others
  <2>2. \A i \in Ids : i > Len(rows') => provider'[i] = "none"
    BY <1>1, <1>3 DEF CallInv, Ids
  <2>3. provider'[n] = "none"
    BY <1>1, <1>3 DEF CallInv
  <2>4. \A v \in Workers : Calling(v)' =>
          req'[v].id \in Indices' /\ provider'[req'[v].id] = "none"
    BY <1>1, <1>3, <1>4, <2>1, <2>3 DEF CallInv
  <2>5. \A u, v \in Workers :
          Calling(u)' /\ Calling(v)' /\ req'[u].id = req'[v].id => u = v
    BY <1>1, <1>3, <1>4, <2>1 DEF CallInv
  <2> QED
    BY <2>2, <2>4, <2>5 DEF CallInv
<1> QED
  BY <1>5, <1>10, <1>11, <1>12, <1>13 DEF IInv

LEMMA StartRefuses ==
    ASSUME IInv, NEW w \in Workers, StartRefused(w)
    PROVE  IInv'
<1>1. TypeOK /\ EventInv
  BY DEF IInv
<1>2. EventInv' /\ events' \subseteq [id : Ids, status : SessionStatus]
  BY <1>1 DEF StartRefused, EventInv, TypeOK, Indices
<1> QED
  BY <1>2, FinishKeeps DEF StartRefused

\* Nobody but this worker knows of the session it makes.
LEMMA StartCalls ==
    ASSUME IInv, NEW w \in Workers, StartCall(w)
    PROVE  IInv'
<1> DEFINE i == req[w].id
<1>1. TypeOK /\ CallInv /\ EventInv
  BY DEF IInv
<1>2. Calling(w) /\ UNCHANGED <<open, rows, lapsed, events>>
  BY DEF StartCall, Serving, Calling
<1>3. i \in Indices /\ i \in Ids /\ provider[i] = "none"
  BY <1>1, <1>2, RowAt DEF CallInv
<1>4. PICK granted \in BOOLEAN, answered \in BOOLEAN :
        /\ provider' = [provider EXCEPT ![i] = IF granted THEN "running" ELSE @]
        /\ req' = [req EXCEPT ![w].at = "answered",
                     ![w].out[i] = IF granted /\ answered THEN "active" ELSE "error"]
  BY DEF StartCall
<1> DEFINE a == IF granted /\ answered THEN "active" ELSE "error"
<1>5. /\ req[w] \in Request
      /\ req' = [req EXCEPT ![w] = [req[w] EXCEPT !.at = "answered", !.out[i] = a]]
      /\ [req[w] EXCEPT !.at = "answered", !.out[i] = a] \in Request
  <2>1. req[w] \in Request /\ a \in SessionStatus \union {"error"}
    BY <1>1 DEF TypeOK, SessionStatus
  <2>2. [req[w].out EXCEPT ![i] = a] \in [Ids -> SessionStatus \union {"none", "error"}]
    BY <1>3, <2>1 DEF Request
  <2>3. [req[w] EXCEPT !.at = "answered", !.out[i] = a] \in Request
    BY <2>1, <2>2 DEF Request
  <2>4. req' = [req EXCEPT ![w] = [req[w] EXCEPT !.at = "answered", !.out[i] = a]]
    BY <1>1, <1>4 DEF TypeOK
  <2> QED
    BY <2>1, <2>3, <2>4
<1>6. /\ req'[w].op = "start" /\ req'[w].at = "answered" /\ req'[w].id = i
      /\ req'[w].snap = req[w].snap /\ req'[w].out[i] = a
      /\ Others(w) /\ req' \in [Workers -> Request]
  BY <1>1, <1>2, <1>3, <1>5 DEF TypeOK, Others, Request, Calling
<1>7. /\ provider' \in [Ids -> {"none", "running", "ended"}]
      /\ \A j \in Ids : j # i => provider'[j] = provider[j]
      /\ a = "active" => provider'[i] = "running"
  BY <1>1, <1>3, <1>4 DEF TypeOK
<1>8. TypeOK'
  BY <1>1, <1>2, <1>6, <1>7 DEF TypeOK
<1>9. Forward
  BY <1>3, <1>7 DEF Forward
<1>10. KnownInv' /\ FinalizedMeansEnded' /\ OnlyLatestHoldsKey' /\ Longer
  BY <1>2, <1>9, RowsKept
<1>11. Indices' = Indices
  BY <1>2 DEF Indices
<1>12. EventInv'
  BY <1>1, <1>2, <1>9, <1>11, RowAt DEF EventInv, Forward
<1>13. SnapOK(w)'
  BY <1>6, <1>9, <1>11 DEF IInv, Carries, SnapOK, Forward
<1>14. StartOK(w)'
  BY <1>3, <1>6, <1>7, <1>11 DEF StartOK
<1>15. Carries(w)'
  BY <1>6, <1>13, <1>14 DEF Carries, FinalizeOK, HeartbeatOK, EventOK, Finalizing
<1>16. \A v \in Workers : Carries(v)'
  BY <1>1, <1>6, <1>8, <1>9, <1>10, <1>15, StillCarries DEF IInv, Others
<1>17. CallInv'
  <2>1. \A v \in Workers : Calling(v)' =>
          v # w /\ Calling(v) /\ req'[v].id = req[v].id /\ req[v].id # i
    BY <1>1, <1>2, <1>6 DEF Calling, Others, CallInv
  <2>2. \A j \in Ids : j > Len(rows') => provider'[j] = "none"
    <3>1. \A j \in Ids : j > Len(rows) => j # i
      BY <1>1, <1>3, LenProperties DEF TypeOK, Indices, Ids
    <3> QED BY <1>1, <1>2, <1>7, <3>1 DEF CallInv
  <2>3. \A v \in Workers : Calling(v)' =>
          req'[v].id \in Indices' /\ provider'[req'[v].id] = "none"
    BY <1>1, <1>7, <1>11, <2>1, RowAt DEF CallInv
  <2>4. \A u, v \in Workers :
          Calling(u)' /\ Calling(v)' /\ req'[u].id = req'[v].id => u = v
    BY <1>1, <2>1 DEF CallInv
  <2> QED
    BY <2>2, <2>3, <2>4 DEF CallInv
<1> QED
  BY <1>8, <1>10, <1>12, <1>16, <1>17 DEF IInv

LEMMA StartReplies ==
    ASSUME IInv, NEW w \in Workers, StartReply(w)
    PROVE  IInv'
<1> DEFINE i == req[w].id
           r == IF req[w].out[i] = "active"
                THEN [rows[i] EXCEPT !.status = "active", !.psid = TRUE]
                ELSE [rows[i] EXCEPT !.status = "failed", !.key = FALSE]
<1>1. StartOK(w) /\ TypeOK /\ KnownInv
  BY DEF IInv, Carries
<1>2. i \in Indices /\ (req[w].out[i] = "active" => provider[i] # "none")
  BY <1>1 DEF StartReply, Serving, StartOK
<1>3. rows[i] \in Row
  BY <1>1, <1>2, RowAt
<1>4. /\ r \in Row /\ (r.key => rows[i].key)
      /\ r.psid => rows[i].psid \/ req[w].out[i] = "active"
      /\ r.status \notin Closing
  BY <1>3 DEF Row, SessionStatus, TERMINAL_DESKTOP_SESSION_STATES, Closing
<1>5. rows' = [rows EXCEPT ![i] = r]
  BY DEF StartReply
<1> QED
  BY <1>1, <1>2, <1>4, <1>5, CommitKeeps DEF StartReply, KnownInv

LEMMA HeartbeatExpiresKeeps ==
    ASSUME IInv, NEW w \in Workers, HeartbeatExpires(w)
    PROVE  IInv'
<1> DEFINE i == req[w].id
           r == [rows[i] EXCEPT !.status = "expired",
                                !.key = Written(@, req[w].snap[i].key, FALSE)]
<1>1. HeartbeatOK(w) /\ TypeOK /\ KnownInv
  BY DEF IInv, Carries
<1>2. i \in Indices /\ req[w].snap[i] \in Row
  BY <1>1 DEF HeartbeatExpires, Serving, HeartbeatOK
<1>3. rows[i] \in Row
  BY <1>1, <1>2, RowAt
<1>4. /\ r \in Row /\ (r.key => rows[i].key) /\ r.psid = rows[i].psid
      /\ r.status \notin Closing
  BY <1>2, <1>3 DEF Row, SessionStatus, TERMINAL_DESKTOP_SESSION_STATES, Closing, Written
<1>5. rows' = [rows EXCEPT ![i] = r]
  BY <1>1, <1>2 DEF HeartbeatExpires, TypeOK, Indices
<1> QED
  BY <1>1, <1>2, <1>4, <1>5, CommitKeeps DEF HeartbeatExpires, KnownInv

LEMMA HeartbeatCommits ==
    ASSUME IInv, NEW w \in Workers, HeartbeatCommit(w)
    PROVE  IInv'
<1> DEFINE i == req[w].id
           a == req[w].out[i]
           r == [rows[i] EXCEPT !.status =
                   IF a = "error" THEN @ ELSE Written(@, req[w].snap[i].status, a)]
<1>1. HeartbeatOK(w) /\ TypeOK /\ KnownInv /\ FinalizedMeansEnded
  BY DEF IInv, Carries
<1>2. /\ i \in Indices /\ a \in {"active", "disconnected", "terminated", "error"}
      /\ a = "terminated" => provider[i] = "ended"
  BY <1>1 DEF HeartbeatCommit, Serving, HeartbeatOK
<1>3. rows[i] \in Row
  BY <1>1, <1>2, RowAt
<1>4. /\ r \in Row /\ r.key = rows[i].key /\ r.psid = rows[i].psid
      /\ r.status = rows[i].status \/ r.status = a
  BY <1>2, <1>3 DEF Row, SessionStatus, TERMINAL_DESKTOP_SESSION_STATES, Written
<1>5. rows' = [rows EXCEPT ![i] = r]
  BY <1>1, <1>2 DEF HeartbeatCommit, TypeOK, Indices
<1>6. r.status \in Closing => provider[i] = "ended"
  BY <1>1, <1>2, <1>4 DEF FinalizedMeansEnded, Closing, Indices
<1>7. Finish(w) /\ UNCHANGED <<open, lapsed, provider, events>>
  BY DEF HeartbeatCommit
<1> HIDE DEF r
<1> QED
  BY <1>1, <1>2, <1>4, <1>5, <1>6, <1>7, CommitKeeps DEF KnownInv

LEMMA EventCommits ==
    ASSUME IInv, NEW w \in Workers, EventCommit(w)
    PROVE  IInv'
<1> DEFINE i == req[w].id
           o == req[w].out[i]
           r == [status |-> Written(rows[i].status, req[w].snap[i].status, o),
                 psid |-> TRUE,
                 key |-> IF o \in TERMINAL_DESKTOP_SESSION_STATES
                         THEN Written(rows[i].key, req[w].snap[i].key, FALSE)
                         ELSE rows[i].key]
<1>1. EventOK(w) /\ TypeOK /\ FinalizedMeansEnded
  BY DEF IInv, Carries
<1>2. /\ i \in Indices /\ o \in SessionStatus /\ req[w].snap[i] \in Row
      /\ provider[i] # "none" /\ (o \in Closing => provider[i] = "ended")
  BY <1>1 DEF EventCommit, Serving, EventOK
<1>3. rows[i] \in Row
  BY <1>1, <1>2, RowAt
<1>4. /\ r \in Row /\ (r.key => rows[i].key)
      /\ r.status = rows[i].status \/ r.status = o
  BY <1>2, <1>3 DEF Row, Written
<1>5. rows' = [rows EXCEPT ![i] = r]
  BY DEF EventCommit
<1>6. r.status \in Closing => provider[i] = "ended"
  BY <1>1, <1>2, <1>4 DEF FinalizedMeansEnded, Closing, Indices
<1> QED
  BY <1>2, <1>4, <1>5, <1>6, CommitKeeps DEF EventCommit

\* An answer "completed" is given for a session that has ended.
LEMMA FinalizeCalls ==
    ASSUME IInv, NEW w \in Workers, NEW done \in SUBSET Ids, NEW lost \in SUBSET Ids,
           FinalizeCall(w, done, lost)
    PROVE  IInv'
<1> DEFINE answer == [i \in Ids |-> IF i \in done THEN "completed"
                                   ELSE IF i \in Loaded(w) THEN "error" ELSE "none"]
<1>1. TypeOK /\ Carries(w)
  BY DEF IInv
<1>2. UNCHANGED <<open, rows, lapsed, events>> /\ Finalizing(w) /\ req[w].at = "read"
  BY DEF FinalizeCall
<1>3. /\ provider' = [i \in Ids |-> IF i \in done \union lost THEN "ended" ELSE provider[i]]
      /\ \A i \in done \union lost : provider[i] # "none"
  BY <1>1 DEF FinalizeCall, Loaded, Carries, SnapOK
<1>4. /\ req[w] \in Request
      /\ answer \in [Ids -> SessionStatus \union {"none", "error"}]
      /\ req' = [req EXCEPT ![w] = [req[w] EXCEPT !.at = "answered", !.out = answer]]
  BY <1>1 DEF FinalizeCall, TypeOK, SessionStatus, TERMINAL_DESKTOP_SESSION_STATES
<1>5. [req[w] EXCEPT !.at = "answered", !.out = answer] \in Request
  BY <1>4 DEF Request
<1>6. /\ req'[w].op = req[w].op /\ req'[w].at = "answered"
      /\ req'[w].snap = req[w].snap /\ req'[w].out = answer
      /\ Others(w) /\ req' \in [Workers -> Request]
  BY <1>1, <1>4, <1>5 DEF TypeOK, Others, Request
<1>7. provider' \in [Ids -> {"none", "running", "ended"}]
  BY <1>1, <1>3 DEF TypeOK
<1>8. TypeOK'
  BY <1>1, <1>2, <1>6, <1>7 DEF TypeOK
<1>9. Forward /\ NoneMade
  BY <1>3 DEF Forward, NoneMade
<1>10. KnownInv' /\ FinalizedMeansEnded' /\ OnlyLatestHoldsKey' /\ Longer
  BY <1>2, <1>9, RowsKept
<1>11. Indices' = Indices
  BY <1>2 DEF Indices
<1>12. SnapOK(w)'
  BY <1>1, <1>6, <1>9, <1>11 DEF Carries, SnapOK, Forward
<1>13. FinalizeOK(w)'
  BY <1>3, <1>6 DEF FinalizeOK, Loaded
<1>14. Carries(w)' /\ ~Calling(w)'
  BY <1>2, <1>6, <1>12, <1>13
     DEF Carries, StartOK, HeartbeatOK, EventOK, Finalizing, Calling
<1> QED
  BY <1>2, <1>6, <1>8, <1>9, <1>10, <1>14, StepKeeps

LEMMA FinalizeCommits ==
    ASSUME IInv, NEW w \in Workers, FinalizeCommit(w)
    PROVE  IInv'
<1> DEFINE r(i) == [rows[i] EXCEPT
                      !.status = Written(@, req[w].snap[i].status, FinalStatus(req[w].out[i])),
                      !.key = Written(@, req[w].snap[i].key, FALSE)]
           new == [i \in 1..Len(rows) |-> IF i \notin Loaded(w) THEN rows[i] ELSE r(i)]
<1>1. TypeOK /\ KnownInv /\ FinalizedMeansEnded /\ OnlyLatestHoldsKey
  BY DEF IInv
<1>2. \A i \in Loaded(w) :
        /\ req[w].snap[i] \in Row
        /\ FinalStatus(req[w].out[i]) \in {"finalize_pending", "completed"}
        /\ FinalStatus(req[w].out[i]) = "completed" => provider[i] = "ended"
  BY DEF IInv, Carries, SnapOK, FinalizeOK, FinalizeCommit, Loaded, FinalStatus
<1>3. \A i \in Indices : rows[i] \in Row
  BY <1>1, RowAt
<1>4. ASSUME NEW i \in Indices, i \in Loaded(w)
      PROVE  /\ r(i) \in Row /\ (r(i).key => rows[i].key) /\ r(i).psid = rows[i].psid
             /\ r(i).status \in Closing => provider[i] = "ended"
  <2>1. /\ rows[i] \in Row /\ req[w].snap[i] \in Row
        /\ FinalStatus(req[w].out[i]) \in SessionStatus
    BY <1>2, <1>3, <1>4 DEF SessionStatus, TERMINAL_DESKTOP_SESSION_STATES
  <2>2. /\ r(i) \in Row /\ (r(i).key => rows[i].key) /\ r(i).psid = rows[i].psid
        /\ r(i).status = rows[i].status \/ r(i).status = FinalStatus(req[w].out[i])
    BY <2>1 DEF Row, Written
  <2> QED
    BY <1>1, <1>2, <1>4, <2>2 DEF FinalizedMeansEnded, Closing, Indices
<1>5. \A i \in Indices :
        /\ new[i] \in Row /\ (new[i].key => rows[i].key) /\ (new[i].psid => rows[i].psid)
        /\ new[i].status \in Closing => provider[i] = "ended"
  BY <1>1, <1>3, <1>4 DEF FinalizedMeansEnded, Closing, Indices
<1>6. rows' = new
  BY DEF FinalizeCommit
<1>7. Len(rows) \in Nat
  BY <1>1, LenProperties DEF TypeOK
<1>8. new \in Seq(Row) /\ Len(new) = Len(rows)
  <2>1. new \in [1..Len(rows) -> Row]
    BY <1>5 DEF Indices
  <2>2. new \in Seq(Row)
    BY <1>7, <2>1, SeqDef
  <2> HIDE DEF new
  <2>3. DOMAIN new = 1..Len(rows) /\ DOMAIN new = 1..Len(new) /\ Len(new) \in Nat
    BY <2>1, <2>2, LenProperties
  <2> QED
    BY <1>7, <2>2, <2>3
<1> HIDE DEF new
<1>9. Indices' = Indices
  BY <1>6, <1>8 DEF Indices
<1>10. req'[w] = Idle /\ Others(w)
  BY <1>1 DEF FinalizeCommit, Finish, Others, TypeOK
<1>11. TypeOK'
  BY <1>1, <1>6, <1>8, IdleIs DEF TypeOK, FinalizeCommit, Finish
<1>12. UNCHANGED <<provider, events>>
  BY DEF FinalizeCommit
<1>13. KnownInv'
  BY <1>1, <1>5, <1>6, <1>9, <1>12 DEF KnownInv
<1>14. FinalizedMeansEnded'
  BY <1>5, <1>6, <1>8, <1>9, <1>12 DEF FinalizedMeansEnded, Closing, Indices
<1>15. OnlyLatestHoldsKey'
  BY <1>1, <1>5, <1>6, <1>8 DEF OnlyLatestHoldsKey, Indices
<1>16. Longer
  BY <1>6, <1>7, <1>8 DEF Longer
<1> QED
  BY <1>10, <1>11, <1>12, <1>13, <1>14, <1>15, <1>16,
     StepKeeps, IdleCarries, ProviderKept

\* The broker says "terminated" of a session only when it has ended: it was
\* made, for its id is known.
LEMMA HeartbeatCalls ==
    ASSUME IInv, NEW w \in Workers, HeartbeatCall(w)
    PROVE  IInv'
<1> DEFINE i == req[w].id
<1>1. TypeOK /\ Carries(w)
  BY DEF IInv
<1>2. UNCHANGED <<open, rows, lapsed, provider, events>> /\ Indices' = Indices
  BY DEF HeartbeatCall, Indices
<1>3. /\ req[w] \in Request /\ req[w].op = "heartbeat"
      /\ i \in Indices /\ i \in Ids /\ req[w].snap[i] \in Row /\ provider[i] # "none"
      /\ provider[i] \in {"none", "running", "ended"}
  BY <1>1, RowAt DEF HeartbeatCall, Serving, Carries, HeartbeatOK, TypeOK
<1>4. PICK a \in (IF provider[i] = "running" THEN {"active", "disconnected"}
                 ELSE {"terminated"}) \union {"error"} :
        req' = [req EXCEPT ![w].at = "answered", ![w].out[i] = a]
  BY DEF HeartbeatCall
<1>5. /\ a \in {"active", "disconnected", "terminated", "error"}
      /\ a = "terminated" => provider[i] = "ended"
  BY <1>3, <1>4
<1>6. [req[w].out EXCEPT ![i] = a] \in [Ids -> SessionStatus \union {"none", "error"}]
  BY <1>3, <1>5 DEF Request, SessionStatus, TERMINAL_DESKTOP_SESSION_STATES
<1>7. [req[w] EXCEPT !.at = "answered", !.out[i] = a] \in Request
  BY <1>3, <1>6 DEF Request
<1>8. req' = [req EXCEPT ![w] = [req[w] EXCEPT !.at = "answered", !.out[i] = a]]
  BY <1>1, <1>4 DEF TypeOK
<1>9. /\ req'[w].op = "heartbeat" /\ req'[w].at = "answered" /\ req'[w].id = i
      /\ req'[w].snap = req[w].snap /\ req'[w].out[i] = a
      /\ Others(w) /\ req' \in [Workers -> Request]
  BY <1>1, <1>3, <1>7, <1>8 DEF TypeOK, Others, Request
<1>10. TypeOK'
  BY <1>1, <1>2, <1>9 DEF TypeOK
<1>11. SnapOK(w)'
  BY <1>1, <1>2, <1>9 DEF Carries, SnapOK
<1>12. HeartbeatOK(w)'
  BY <1>2, <1>3, <1>5, <1>9 DEF HeartbeatOK
<1>13. Carries(w)' /\ ~Calling(w)'
  BY <1>9, <1>11, <1>12 DEF Carries, StartOK, FinalizeOK, EventOK, Finalizing, Calling
<1> QED
  BY <1>2, <1>9, <1>10, <1>13, StepKeeps, RowsKept, ProviderKept

LEMMA EventReads ==
    ASSUME IInv, NEW w \in Workers, NEW e \in events, EventRead(w, e)
    PROVE  IInv'
<1> DEFINE r == [op |-> "event", at |-> "answered", id |-> e.id, snap |-> Load({e.id}),
                 out |-> [NoAnswer EXCEPT ![e.id] = e.status]]
<1>1. TypeOK /\ KnownInv /\ EventInv
  BY DEF IInv
<1>2. /\ e.id \in Indices /\ e.id \in Ids /\ e.status \in SessionStatus
      /\ provider[e.id] # "none" /\ (e.status \in Closing => provider[e.id] = "ended")
      /\ rows[e.id] \in Row
  BY <1>1, RowAt DEF EventInv, TypeOK
<1>3. /\ Load({e.id}) \in [Ids -> Row \union {NoRow}]
      /\ \A i \in Ids : Load({e.id})[i] # NoRow =>
            i = e.id /\ Load({e.id})[i] = rows[e.id]
      /\ Load({e.id})[e.id] = rows[e.id]
  BY <1>1, <1>2, LoadIs
<1>4. r.out \in [Ids -> SessionStatus \union {"none", "error"}] /\ r.out[e.id] = e.status
  BY <1>2 DEF NoAnswer
<1>5. r \in Request
  <2>1. e.id \in Nat
    BY <1>2 DEF Ids
  <2> QED
    BY <1>3, <1>4, <2>1 DEF Request, Ops
<1>6. /\ req' = [req EXCEPT ![w] = r] /\ events' = events \ {e}
      /\ UNCHANGED <<open, rows, lapsed, provider>> /\ Indices' = Indices
  BY DEF EventRead, Indices
<1>7. /\ req'[w].op = "event" /\ req'[w].at = "answered" /\ req'[w].id = e.id
      /\ req'[w].snap = Load({e.id}) /\ req'[w].out[e.id] = e.status
      /\ Others(w) /\ req' \in [Workers -> Request]
  BY <1>1, <1>4, <1>5, <1>6 DEF TypeOK, Others
<1>8. TypeOK'
  BY <1>1, <1>6, <1>7 DEF TypeOK
<1>9. SnapOK(w)'
  BY <1>2, <1>3, <1>6, <1>7 DEF SnapOK
<1>10. EventOK(w)'
  BY <1>2, <1>3, <1>6, <1>7 DEF EventOK
<1>11. Carries(w)' /\ ~Calling(w)'
  BY <1>7, <1>9, <1>10 DEF Carries, StartOK, FinalizeOK, HeartbeatOK, Finalizing, Calling
<1> QED
  BY <1>6, <1>7, <1>8, <1>11, StepKeeps, RowsKept, ProviderKept

\* An event that was not answered comes again, and says what it said.
LEMMA Crashes ==
    ASSUME IInv, NEW w \in Workers, Crash(w)
    PROVE  IInv'
<1> DEFINE again == [id |-> req[w].id, status |-> req[w].out[req[w].id]]
<1>1. TypeOK /\ EventInv /\ EventOK(w)
  BY DEF IInv, Carries
<1>2. UNCHANGED <<open, rows, lapsed, provider>> /\ Indices' = Indices
  BY DEF Crash, Indices
<1>3. events' = events \/ (req[w].op = "event" /\ events' = events \union {again})
  BY DEF Crash
<1>4. req[w].op = "event" =>
        /\ again.id \in Indices /\ again.id \in Ids /\ again.status \in SessionStatus
        /\ provider[again.id] # "none"
        /\ again.status \in Closing => provider[again.id] = "ended"
  BY <1>1, RowAt DEF EventOK
<1>5. EventInv'
  BY <1>1, <1>2, <1>3, <1>4 DEF EventInv
<1>6. events' \subseteq [id : Ids, status : SessionStatus]
  BY <1>1, <1>3, <1>4 DEF TypeOK
<1> QED
  BY <1>2, <1>5, <1>6, FinishKeeps DEF Crash

\* What the candidate, the broker and the clock do.
LEMMA Surroundings ==
    ASSUME IInv,
           \/ AccessExpires
           \/ \E i \in Indices :
                \/ LeaseEnds(i) \/ BrokerEnds(i)
                \/ \E s \in {"active", "disconnected"} : BrokerReports(i, s)
    PROVE  IInv'
<1>1. TypeOK /\ EventInv /\ CallInv
  BY DEF IInv
<1>2. /\ rows' = rows /\ req' = req /\ Indices' = Indices
      /\ open' \in BOOLEAN /\ lapsed' \subseteq Ids
  BY <1>1, RowAt DEF AccessExpires, LeaseEnds, BrokerEnds, BrokerReports, TypeOK, Indices
<1>3. \/ provider' = provider /\ events' = events
      \/ \E i \in Indices :
           /\ provider[i] = "running"
           /\ \/ \E s \in {"active", "disconnected"} :
                   events' = events \union {[id |-> i, status |-> s]} /\ provider' = provider
              \/ /\ provider' = [provider EXCEPT ![i] = "ended"]
                 /\ events' = events \union {[id |-> i, status |-> "finalizing"],
                                             [id |-> i, status |-> "completed"]}
  BY DEF AccessExpires, LeaseEnds, BrokerEnds, BrokerReports
<1>4. /\ provider' \in [Ids -> {"none", "running", "ended"}] /\ Forward /\ NoneMade
      /\ \A i \in Indices : i \in Ids
  BY <1>1, <1>3, RowAt DEF TypeOK, Forward, NoneMade
<1>5. events' \subseteq [id : Ids, status : SessionStatus] /\ EventInv'
  <2>1. CASE provider' = provider /\ events' = events
    BY <1>1, <1>2, <2>1 DEF EventInv, TypeOK
  <2>2. ASSUME NEW i \in Indices, provider[i] = "running",
               NEW s \in {"active", "disconnected"},
               events' = events \union {[id |-> i, status |-> s]}, provider' = provider
        PROVE  events' \subseteq [id : Ids, status : SessionStatus] /\ EventInv'
    BY <1>1, <1>2, <1>4, <2>2 DEF EventInv, TypeOK, SessionStatus, Closing
  <2>3. ASSUME NEW i \in Indices, provider[i] = "running",
               provider' = [provider EXCEPT ![i] = "ended"],
               events' = events \union {[id |-> i, status |-> "finalizing"],
                                        [id |-> i, status |-> "completed"]}
        PROVE  events' \subseteq [id : Ids, status : SessionStatus] /\ EventInv'
    <3>1. provider'[i] = "ended"
      BY <1>1, <1>4, <2>3 DEF TypeOK
    <3>2. events' \subseteq [id : Ids, status : SessionStatus]
      BY <1>1, <1>4, <2>3 DEF TypeOK, SessionStatus, TERMINAL_DESKTOP_SESSION_STATES
    <3>3. \A e \in events : e.id \in Indices' /\ provider'[e.id] # "none"
                         /\ (e.status \in Closing => provider'[e.id] = "ended")
      BY <1>1, <1>2, <1>4 DEF EventInv, Forward
    <3> QED
      BY <1>2, <2>3, <3>1, <3>2, <3>3 DEF EventInv, Closing
  <2> QED
    BY <1>3, <2>1, <2>2, <2>3
<1>6. TypeOK'
  BY <1>1, <1>2, <1>4, <1>5 DEF TypeOK
<1>7. KnownInv' /\ FinalizedMeansEnded' /\ OnlyLatestHoldsKey' /\ Longer
  BY <1>2, <1>4, RowsKept
<1>8. \A w \in Workers : Carries(w)'
  BY <1>1, <1>2, <1>4, <1>6, <1>7, StillCarries DEF IInv
<1>9. CallInv'
  BY <1>1, <1>2, <1>4, <1>6, <1>7, CallsKept DEF Calling
<1> QED
  BY <1>5, <1>6, <1>7, <1>8, <1>9 DEF IInv
-----------------------------------------------------------------------------
(* The theorems. *)

LEMMA NextKeeps == IInv /\ [Next]_vars => IInv'
<1> SUFFICES ASSUME IInv, [Next]_vars PROVE IInv'
  OBVIOUS
<1>1. ASSUME NEW w \in Workers, Handler(w) PROVE IInv'
  BY <1>1, Reads, StartInserts, StartRefuses, StartCalls, StartReplies, FinalizeCalls,
     FinalizeCommits, HeartbeatExpiresKeeps, HeartbeatCalls, HeartbeatCommits, EventReads,
     EventCommits DEF Handler, Indices
<1>2. ASSUME UNCHANGED vars PROVE IInv'
  BY <1>2 DEF vars, IInv, TypeOK, KnownInv, FinalizedMeansEnded, OnlyLatestHoldsKey, EventInv,
     CallInv, Carries, SnapOK, StartOK, FinalizeOK, HeartbeatOK, EventOK, Finalizing, Calling,
     Indices
<1> QED
  BY <1>1, <1>2, Crashes, Surroundings DEF Next, Indices

\* Every reachable state satisfies the invariant.
THEOREM Invariance == Spec => []IInv
BY InitIInv, NextKeeps, PTL DEF Spec

\* Rows, sessions, events and requests are what the code can make of them.
THEOREM TypeCorrect == Spec => []TypeOK
<1>1. IInv => TypeOK
  BY DEF IInv
<1> QED BY <1>1, Invariance, PTL

\* A row closed as completed or terminated has no Windows session that runs,
\* whatever calls are lost, repeated or late, for any number of workers.
THEOREM ClosedIsOver == Spec => []FinalizedMeansEnded
<1>1. IInv => FinalizedMeansEnded
  BY DEF IInv
<1> QED BY <1>1, Invariance, PTL

\* The row that holds active_key is the newest one, however starts, failed
\* starts and late events interleave.
THEOREM KeyIsTheLatest == Spec => []OnlyLatestHoldsKey
<1>1. IInv => OnlyLatestHoldsKey
  BY DEF IInv
<1> QED BY <1>1, Invariance, PTL
=============================================================================
