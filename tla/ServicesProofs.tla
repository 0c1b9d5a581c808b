--------------------------- MODULE ServicesProofs ---------------------------
(***************************************************************************)
(* The services that share no row, for any number of workers, events,      *)
(* pupils, sessions, leads, invitations, processes and any limits.  First  *)
(* the product events: only the stream's bound loses a published event, an *)
(* acknowledged entry is in the table, and every step of the pipeline is a *)
(* step of EventDelivery or leaves it alone; the argument follows each     *)
(* entry of the stream from xadd to the acknowledgement.  Then each        *)
(* service of MCServices has its inductive invariant, and at the end their *)
(* conjunction is shown to imply what the services run checks.             *)
(***************************************************************************)
EXTENDS ProductEvents, MCServices, FiniteSetTheorems, FunctionTheorems, TLAPS

\* An entry was dropped, is unread, is pending, or is in the table.
EntryInv ==
    \A p \in 1..Len(log) : p <= trimmed \/ p > given \/ p \in pending \/ log[p] \in table

\* What is marked as added or published has an entry.
AddedInv ==
    /\ \A e \in Events : row[e] = "published" => Positions(e) # {}
    /\ \A w \in Pipelines : \A e \in worker[w].added : Positions(e) # {}

\* A locked row is pending and has one owner.
LockInv ==
    /\ \A w \in Pipelines : \A e \in worker[w].batch : row[e] = "pending"
    /\ \A v, w \in Pipelines : v # w => worker[v].batch \cap worker[w].batch = {}
    /\ \A w \in Pipelines : worker[w].added \subseteq worker[w].batch
    /\ \A w \in Pipelines : worker[w].failed => worker[w].batch # worker[w].added

\* Entries in hand were given; those to be acknowledged are in the table.
HandInv ==
    \A w \in Pipelines :
        /\ worker[w].hand \subseteq 1..given
        /\ worker[w].phase = "ack" => EventsAt(worker[w].hand) \subseteq table

IInv == TypeOK /\ EntryInv /\ AddedInv /\ LockInv /\ HandInv
-----------------------------------------------------------------------------
\* Only worker w moves.
Alone(w) == \A v \in Pipelines : v # w => worker'[v] = worker[v]

LEMMA AtType == \A ph \in Phases : At(ph) \in Worker
  BY DEF At, Worker

\* What Go does to the workers.
LEMMA GoEffect ==
  ASSUME TypeOK, NEW w \in Pipelines, NEW ph \in Phases, Go(w, ph)
  PROVE  /\ worker' \in [Pipelines -> Worker] /\ worker'[w] = At(ph) /\ Alone(w)
  BY AtType DEF Go, TypeOK, Alone

LEMMA HandKept ==
  ASSUME HandInv, NEW w \in Pipelines, Alone(w),
         given \in 0..Len(log), given' \in Nat, given <= given', Len(log) \in Nat,
         \A p \in 1..Len(log) : log'[p] = log[p],
         table \subseteq table',
         worker'[w].hand \subseteq 1..given',
         worker'[w].phase = "ack" => \A p \in worker'[w].hand : log'[p] \in table'
  PROVE  HandInv'
<1> SUFFICES ASSUME NEW v \in Pipelines
             PROVE  /\ worker'[v].hand \subseteq 1..given'
                    /\ worker'[v].phase = "ack" =>
                          \A p \in worker'[v].hand : log'[p] \in table'
  BY DEF HandInv, EventsAt
<1>1. CASE v = w
  BY <1>1
<1>2. CASE v # w
  <2>1. worker'[v] = worker[v]
    BY <1>2 DEF Alone
  <2>2. /\ worker[v].hand \subseteq 1..given
        /\ worker[v].phase = "ack" => \A p \in worker[v].hand : log[p] \in table
    BY DEF HandInv, EventsAt
  <2> QED BY <2>1, <2>2
<1> QED BY <1>1, <1>2

LEMMA LockKept ==
  ASSUME LockInv, NEW w \in Pipelines, Alone(w),
         worker'[w].batch = worker[w].batch \/ worker'[w].batch = {},
         worker'[w].added \subseteq worker'[w].batch,
         worker'[w].failed => worker'[w].batch # worker'[w].added,
         \A v \in Pipelines : \A e \in worker'[v].batch : row'[e] = row[e]
  PROVE  LockInv'
<1>1. \A v \in Pipelines : worker'[v].batch \subseteq worker[v].batch
  BY DEF Alone
<1>2. \A v \in Pipelines : \A e \in worker'[v].batch : row'[e] = "pending"
  BY <1>1 DEF LockInv
<1>3. \A u, v \in Pipelines : u # v => worker'[u].batch \cap worker'[v].batch = {}
  BY <1>1 DEF LockInv
<1>4. \A v \in Pipelines : /\ worker'[v].added \subseteq worker'[v].batch
                           /\ worker'[v].failed => worker'[v].batch # worker'[v].added
  BY DEF Alone, LockInv
<1>5. /\ \A v \in Pipelines : worker'[v].added \subseteq worker'[v].batch
      /\ \A v \in Pipelines : worker'[v].failed => worker'[v].batch # worker'[v].added
  BY <1>4
<1> QED BY <1>2, <1>3, <1>5 DEF LockInv

LEMMA AddedKept ==
  ASSUME AddedInv, NEW w \in Pipelines, Alone(w), Len(log) \in Nat, Len(log') \in Nat,
         Len(log) <= Len(log'),
         \A p \in 1..Len(log) : log'[p] = log[p],
         \A e \in worker'[w].added : Positions(e)' # {},
         \A e \in Events : row'[e] = "published" =>
                             row[e] = "published" \/ Positions(e)' # {}
  PROVE  AddedInv'
<1>1. \A e : Positions(e) # {} => Positions(e)' # {}
  BY DEF Positions
<1>2. \A e \in Events : row'[e] = "published" => Positions(e)' # {}
  BY <1>1 DEF AddedInv
<1>3. \A v \in Pipelines : \A e \in worker'[v].added : Positions(e)' # {}
  BY <1>1 DEF AddedInv, Alone
<1> QED BY <1>2, <1>3 DEF AddedInv
-----------------------------------------------------------------------------
LEMMA InitIInv == Init => IInv
<1> SUFFICES ASSUME Init PROVE IInv
  OBVIOUS
<1> USE DEF Init
<1>1. Len(log) = 0
  OBVIOUS
<1>2. TypeOK
  <2>1. worker \in [Pipelines -> Worker]
    BY AtType DEF Phases
  <2> QED BY <2>1, <1>1, ProductEventsAssumption DEF TypeOK
<1>3. EntryInv /\ AddedInv /\ LockInv /\ HandInv
  BY <1>1 DEF EntryInv, AddedInv, LockInv, HandInv, At, EventsAt
<1> QED BY <1>2, <1>3 DEF IInv

LEMMA EmitKeeps ==
  ASSUME IInv, NEW e \in Events, Emit(e)
  PROVE  IInv'
<1> USE DEF Emit, IInv, redis
<1>1. TypeOK'
  BY DEF TypeOK
<1>2. \A f \in Events : /\ row'[f] = "published" => row[f] = "published"
                        /\ row[f] = "pending" => row'[f] = "pending"
  BY DEF TypeOK
<1>3. \A w \in Pipelines : worker[w].batch \subseteq Events
  BY DEF TypeOK, Worker
<1>4. AddedInv' /\ LockInv'
  BY <1>2, <1>3 DEF AddedInv, LockInv, Positions
<1>5. EntryInv' /\ HandInv'
  BY DEF EntryInv, HandInv, EventsAt
<1> QED BY <1>1, <1>4, <1>5

\* A worker that gives up, or crashes, keeps nothing and undoes nothing.
LEMMA GivesUpKeeps ==
  ASSUME IInv, NEW w \in Pipelines, NEW ph \in Phases \ {"ack"}, Go(w, ph),
         UNCHANGED <<outbox, log, trimmed>>, faults' \in 0..MaxFaults,
         table \subseteq table', table' \subseteq Events, EntryInv',
         given' \in 0..Len(log), given <= given',
         pending' \subseteq 1..given', idle' \subseteq pending'
  PROVE  IInv'
<1> USE DEF IInv, outbox
<1>1. worker' \in [Pipelines -> Worker] /\ worker'[w] = At(ph) /\ Alone(w)
  BY GoEffect
<1>2. TypeOK'
  BY <1>1 DEF TypeOK
<1>3. EntryInv'
  OBVIOUS
<1>4. /\ worker'[w].hand = {} /\ worker'[w].batch = {} /\ worker'[w].added = {}
      /\ worker'[w].phase # "ack" /\ ~worker'[w].failed
  BY <1>1 DEF At
<1>5. Len(log) \in Nat /\ given \in 0..Len(log)
  BY DEF TypeOK
<1>6. HandInv'
  BY <1>1, <1>4, <1>5, HandKept
<1>7. LockInv'
  BY <1>1, <1>4, LockKept
<1>8. AddedInv'
  BY <1>1, <1>4, <1>5, AddedKept
<1> QED BY <1>2, <1>3, <1>6, <1>7, <1>8

-----------------------------------------------------------------------------
(* What the stream's commands do to its entries. *)

LEMMA LowestSubset == \A n, S : Lowest(n, S) \subseteq S
  BY DEF Lowest

LEMMA XautoclaimEffect ==
  ASSUME TypeOK, EntryInv, Xautoclaim, table \subseteq table'
  PROVE  /\ given' = given /\ pending' \subseteq 1..given' /\ idle' \subseteq pending'
         /\ \A p \in pending \ pending' : p <= trimmed
         /\ EntryInv'
<1> USE DEF Xautoclaim, Claimable
<1>1. given' = given /\ log' = log /\ trimmed' = trimmed
  OBVIOUS
<1>2. pending' \subseteq 1..given' /\ idle' \subseteq pending'
  BY LowestSubset DEF TypeOK
<1>3. \A p \in pending \ pending' : p <= trimmed
  BY DEF TypeOK
<1> HIDE DEF Xautoclaim, Claimable
<1>4. EntryInv'
  BY <1>1, <1>3 DEF EntryInv
<1> QED BY <1>1, <1>2, <1>3, <1>4

LEMMA UptoType ==
  ASSUME TypeOK, HandInv, NEW w \in Pipelines
  PROVE  /\ From \in 0..Len(log) /\ given <= From /\ trimmed <= From
         /\ Upto(w) \in Int /\ Upto(w) <= Len(log)
<1>1. given \in Nat /\ trimmed \in Nat /\ Len(log) \in Nat
      /\ given <= Len(log) /\ trimmed <= Len(log)
  BY DEF TypeOK
<1>2. IsFiniteSet(worker[w].hand)
  <2>1. worker[w].hand \in SUBSET (1..given)
    BY DEF HandInv
  <2>2. IsFiniteSet(1..given)
    BY <1>1, FS_Interval
  <2> QED BY <2>1, <2>2, FS_Subset
<1>3. Cardinality(worker[w].hand) \in Nat
  BY <1>2, FS_CardinalityType
<1>4. From \in 0..Len(log) /\ given <= From /\ trimmed <= From
  BY <1>1 DEF From
<1>5. From + Batch - Cardinality(worker[w].hand) \in Int
  BY <1>3, <1>4, ProductEventsAssumption
<1>6. Upto(w) \in Int /\ Upto(w) <= Len(log)
  BY <1>1, <1>5 DEF Upto
<1> QED BY <1>4, <1>6

LEMMA XreadgroupEffect ==
  ASSUME TypeOK, EntryInv, HandInv, NEW w \in Pipelines, Xreadgroup(w),
         table \subseteq table'
  PROVE  /\ given' \in 0..Len(log) /\ given <= given'
         /\ pending' \subseteq 1..given' /\ idle' \subseteq pending'
         /\ NewEntries(w) \subseteq 1..given'
         /\ \A p \in NewEntries(w) : p > trimmed /\ p > given
         /\ EntryInv'
<1>1. /\ From \in 0..Len(log) /\ given <= From /\ trimmed <= From
      /\ Upto(w) \in Int /\ Upto(w) <= Len(log)
      /\ given \in Nat /\ trimmed \in Nat /\ Len(log) \in Nat
  BY UptoType DEF TypeOK
<1>2. CASE NewEntries(w) = {}
  <2>1. given' = given /\ pending' = pending /\ idle' = idle
        /\ log' = log /\ trimmed' = trimmed
    BY <1>2 DEF Xreadgroup
  <2> QED BY <2>1, <1>2 DEF TypeOK, EntryInv
<1>3. CASE NewEntries(w) # {}
  <2>1. /\ given' = Upto(w) /\ pending' = pending \union NewEntries(w) /\ idle' = idle
        /\ log' = log /\ trimmed' = trimmed
    BY <1>3 DEF Xreadgroup
  <2>2. From < Upto(w) /\ \A p \in Int : p \in NewEntries(w) <=> From < p /\ p <= Upto(w)
    BY <1>1, <1>3 DEF NewEntries
  <2>3. NewEntries(w) \subseteq Int
    BY <1>1 DEF NewEntries
  <2>4. given' \in 0..Len(log) /\ given <= given' /\ NewEntries(w) \subseteq 1..given'
        /\ \A p \in NewEntries(w) : p > trimmed /\ p > given
    BY <1>1, <2>1, <2>2, <2>3
  <2>5. pending' \subseteq 1..given' /\ idle' \subseteq pending'
    <3>1. pending \subseteq 1..given /\ idle \subseteq pending
      BY DEF TypeOK
    <3>2. 1..given \subseteq 1..given'
      BY <1>1, <2>4
    <3> QED BY <3>1, <3>2, <2>1, <2>4
  <2>6. ASSUME NEW p \in 1..Len(log)
        PROVE  p <= trimmed \/ p > given' \/ p \in pending' \/ log[p] \in table'
    <3>1. p <= trimmed \/ p > given \/ p \in pending \/ log[p] \in table
      BY DEF EntryInv
    <3>2. CASE p > given
      <4>1. p <= given \/ p <= trimmed \/ From < p
        BY <1>1 DEF From
      <4> QED BY <3>2, <4>1, <1>1, <2>1, <2>2
    <3> QED BY <3>1, <3>2, <2>1
  <2>7. EntryInv'
    BY <2>1, <2>6 DEF EntryInv
  <2> QED BY <2>4, <2>5, <2>7
<1> QED BY <1>2, <1>3

-----------------------------------------------------------------------------
LEMMA SelectKeeps ==
  ASSUME IInv, NEW w \in Pipelines, Select(w)
  PROVE  IInv'
<1> DEFINE batch == Lowest(Batch, Due \ LockedRows)
           ph == IF batch = {} THEN "claim" ELSE "publish"
<1> USE DEF IInv
<1>1. batch \subseteq Due \ LockedRows
  BY LowestSubset
<1>2. batch \subseteq Events /\ ph \in Phases \ {"ack"}
  BY <1>1 DEF Due, Phases
<1>3. [At(ph) EXCEPT !.batch = batch] \in Worker
  BY <1>2 DEF At, Worker
<1>4. /\ worker' = [worker EXCEPT ![w] = [At(ph) EXCEPT !.batch = batch]]
      /\ UNCHANGED <<row, waiting, log, trimmed, given, pending, idle, table, faults>>
  BY DEF Select, outbox, redis
<1>5. /\ worker' \in [Pipelines -> Worker] /\ Alone(w)
      /\ worker'[w].phase # "ack" /\ worker'[w].batch = batch
      /\ worker'[w].added = {} /\ ~worker'[w].failed /\ worker'[w].hand = {}
  BY <1>2, <1>3, <1>4 DEF TypeOK, Alone, At
<1> HIDE DEF batch, ph
<1>6. TypeOK' /\ EntryInv'
  BY <1>4, <1>5 DEF TypeOK, EntryInv
<1>7. Len(log) \in Nat /\ given \in 0..Len(log)
  BY DEF TypeOK
<1>8. HandInv'
  BY <1>4, <1>5, <1>7, HandKept
<1>9. AddedInv'
  BY <1>4, <1>5, <1>7, AddedKept
<1>10. LockInv'
  <2>1. \A e \in batch : row[e] = "pending" /\ \A v \in Pipelines : e \notin worker[v].batch
    BY <1>1 DEF Due, LockedRows
  <2>2. \A v \in Pipelines : \A e \in worker'[v].batch : row'[e] = "pending"
    BY <1>4, <1>5, <2>1 DEF LockInv, Alone
  <2>3. \A u, v \in Pipelines : u # v => worker'[u].batch \cap worker'[v].batch = {}
    BY <1>5, <2>1 DEF LockInv, Alone
  <2>4. \A v \in Pipelines : /\ worker'[v].added \subseteq worker'[v].batch
                             /\ worker'[v].failed => worker'[v].batch # worker'[v].added
    BY <1>5 DEF LockInv, Alone
  <2>5. /\ \A v \in Pipelines : worker'[v].added \subseteq worker'[v].batch
        /\ \A v \in Pipelines : worker'[v].failed => worker'[v].batch # worker'[v].added
    BY <2>4
  <2> QED BY <2>2, <2>3, <2>5 DEF LockInv
<1> QED BY <1>6, <1>8, <1>9, <1>10

\* Adding an entry moves no other entry, and the stream keeps the unread ones
\* it does not drop.
LEMMA XaddEffect ==
  ASSUME TypeOK, EntryInv, NEW e \in Events, Xadd(e), table' = table
  PROVE  /\ log' \in Seq(Events) /\ Len(log') = Len(log) + 1
         /\ \A p \in 1..Len(log) : log'[p] = log[p]
         /\ Positions(e)' # {}
         /\ trimmed' \in 0..Len(log') /\ given' \in 0..Len(log')
         /\ given' = given /\ pending' = pending /\ idle' = idle
         /\ EntryInv'
<1>1. /\ Len(log) \in Nat /\ trimmed \in 0..Len(log) /\ given \in 0..Len(log)
      /\ log \in Seq(Events)
  BY DEF TypeOK
<1>2. log' = Append(log, e) /\ given' = given /\ pending' = pending /\ idle' = idle
  BY DEF Xadd
<1>3. /\ log' \in Seq(Events) /\ Len(log') = Len(log) + 1
      /\ \A p \in 1..Len(log) : log'[p] = log[p]
      /\ log'[Len(log) + 1] = e
  BY <1>1, <1>2
<1>4. Positions(e)' # {}
  BY <1>1, <1>3 DEF Positions
<1>5. trimmed' \in trimmed..Len(log)
  BY <1>1 DEF Xadd
<1>6. ASSUME NEW p \in 1..Len(log')
      PROVE  p <= trimmed' \/ p > given \/ p \in pending \/ log'[p] \in table
  <2>1. CASE p = Len(log) + 1
    BY <1>1, <2>1
  <2>2. CASE p # Len(log) + 1
    <3>1. p \in 1..Len(log) /\ log'[p] = log[p]
      BY <1>1, <1>3, <2>2
    <3>2. p <= trimmed \/ p > given \/ p \in pending \/ log[p] \in table
      BY <3>1 DEF EntryInv
    <3> QED BY <3>1, <3>2, <1>1, <1>5
  <2> QED BY <2>1, <2>2
<1>7. EntryInv'
  BY <1>2, <1>6 DEF EntryInv
<1>8. trimmed' \in 0..Len(log') /\ given' \in 0..Len(log')
  BY <1>1, <1>2, <1>3, <1>5
<1> QED BY <1>2, <1>3, <1>4, <1>7, <1>8

\* A relay step of a worker that keeps its batch.
LEMMA RelayKeeps ==
  ASSUME IInv, NEW w \in Pipelines, NEW f \in BOOLEAN, NEW A \in SUBSET worker[w].batch,
         worker' = [worker EXCEPT ![w].added = A, ![w].failed = f],
         worker[w].phase = "publish",
         f => worker[w].batch # A,
         UNCHANGED <<row, waiting, table, given, pending, idle>>,
         log' \in Seq(Events), Len(log') \in Nat, Len(log) <= Len(log'),
         \A p \in 1..Len(log) : log'[p] = log[p],
         \A e \in A : Positions(e)' # {},
         trimmed' \in 0..Len(log'), given' \in 0..Len(log'), EntryInv',
         faults' \in 0..MaxFaults
  PROVE  IInv'
<1> USE DEF IInv
<1>1. worker[w] \in Worker /\ worker[w].batch \subseteq Events
  BY DEF TypeOK, Worker
<1>2. [worker[w] EXCEPT !.added = A, !.failed = f] \in Worker
  BY <1>1 DEF Worker
<1>3. worker' = [worker EXCEPT ![w] = [worker[w] EXCEPT !.added = A, !.failed = f]]
  BY DEF TypeOK
<1>4. worker' \in [Pipelines -> Worker]
  BY <1>2, <1>3 DEF TypeOK
<1>5. TypeOK'
  BY <1>4 DEF TypeOK
<1>6. /\ Alone(w) /\ worker'[w].batch = worker[w].batch /\ worker'[w].added = A
      /\ worker'[w].failed = f /\ worker'[w].hand = worker[w].hand
      /\ worker'[w].phase = "publish"
  BY <1>1 DEF TypeOK, Alone, Worker
<1>7. Len(log) \in Nat /\ given \in 0..Len(log) /\ worker[w].hand \subseteq 1..given
  BY DEF TypeOK, HandInv
<1>a. /\ given' = given /\ given' \in Nat /\ given <= given' /\ table \subseteq table'
      /\ worker'[w].hand \subseteq 1..given' /\ HandInv
  BY <1>6, <1>7
<1>8. HandInv'
  <2> HIDE DEF IInv
  <2> QED BY <1>6, <1>7, <1>a, HandKept
<1>9. AddedInv'
  BY <1>6, <1>7, AddedKept
<1>10. LockInv'
  BY <1>6, LockKept
<1> QED BY <1>5, <1>8, <1>9, <1>10

LEMMA AddKeeps ==
  ASSUME IInv, NEW w \in Pipelines, Add(w)
  PROVE  IInv'
<1>1. PICK e \in Upcoming(w) :
        Xadd(e) /\ worker' = [worker EXCEPT ![w].added = @ \union {e}]
  BY DEF Add
<1> DEFINE A == worker[w].added \union {e}
<1>2. /\ worker[w].phase = "publish" /\ ~worker[w].failed /\ TypeOK /\ EntryInv
      /\ UNCHANGED <<row, waiting, table, faults>>
  BY DEF Add, Ready, outbox, IInv
<1>3. worker[w] \in Worker /\ worker[w].batch \subseteq Events /\ faults \in 0..MaxFaults
  BY DEF IInv, TypeOK, Worker
<1>4. e \in worker[w].batch /\ e \in Events /\ A \in SUBSET worker[w].batch
  BY <1>3 DEF Upcoming, IInv, LockInv
<1>5. worker' = [worker EXCEPT ![w].added = A, ![w].failed = FALSE]
  <2>1. [worker[w] EXCEPT !.added = A] = [worker[w] EXCEPT !.added = A, !.failed = FALSE]
    BY <1>2, <1>3 DEF Worker
  <2> QED BY <1>1, <2>1 DEF IInv, TypeOK
<1>6. /\ log' \in Seq(Events) /\ Len(log') = Len(log) + 1
      /\ \A p \in 1..Len(log) : log'[p] = log[p]
      /\ Positions(e)' # {}
      /\ trimmed' \in 0..Len(log') /\ given' \in 0..Len(log')
      /\ given' = given /\ pending' = pending /\ idle' = idle
      /\ EntryInv'
  BY <1>1, <1>2, <1>4, XaddEffect
<1>7. Len(log) \in Nat /\ Len(log') \in Nat /\ Len(log) <= Len(log')
  BY <1>2, <1>6 DEF TypeOK
<1>8. \A f \in A : Positions(f)' # {}
  <2>1. ASSUME NEW f \in worker[w].added PROVE Positions(f)' # {}
    <3>1. Positions(f) # {}
      BY DEF IInv, AddedInv
    <3> QED BY <3>1, <1>6, <1>7 DEF Positions
  <2> QED BY <2>1, <1>6
<1> HIDE DEF A
<1> QED BY <1>2, <1>3, <1>4, <1>5, <1>6, <1>7, <1>8, RelayKeeps

LEMMA AddFailsKeeps ==
  ASSUME IInv, NEW w \in Pipelines, AddFails(w)
  PROVE  IInv'
<1> DEFINE A == worker[w].added
<1>1. /\ worker[w].phase = "publish" /\ worker[w].batch # A /\ TypeOK /\ EntryInv
      /\ UNCHANGED <<row, waiting, table>> /\ faults < MaxFaults /\ faults' = faults + 1
      /\ worker' = [worker EXCEPT ![w].failed = TRUE]
  BY DEF AddFails, Ready, outbox, IInv, Fault
<1>2. worker[w] \in Worker /\ worker[w].batch \subseteq Events
      /\ faults' \in 0..MaxFaults /\ A \in SUBSET worker[w].batch
  BY <1>1, ProductEventsAssumption DEF IInv, TypeOK, Worker, LockInv
<1>3. worker' = [worker EXCEPT ![w].added = A, ![w].failed = TRUE]
  <2>1. [worker[w] EXCEPT !.failed = TRUE] = [worker[w] EXCEPT !.added = A, !.failed = TRUE]
    BY <1>2 DEF Worker
  <2> QED BY <1>1, <2>1 DEF IInv, TypeOK
<1>4. /\ log' \in Seq(Events) /\ Len(log') \in Nat /\ Len(log) <= Len(log')
      /\ \A p \in 1..Len(log) : log'[p] = log[p]
      /\ trimmed' \in 0..Len(log') /\ given' \in 0..Len(log')
      /\ given' = given /\ pending' = pending /\ idle' = idle
      /\ EntryInv'
  <2>1. Len(log) \in Nat
    BY <1>1 DEF TypeOK
  <2>2. CASE UNCHANGED redis
    BY <1>1, <2>1, <2>2 DEF redis, EntryInv, TypeOK
  <2>3. CASE \E e \in Upcoming(w) : Xadd(e)
    <3>1. PICK e \in Upcoming(w) : Xadd(e)
      BY <2>3
    <3>2. e \in Events
      BY <1>2 DEF Upcoming
    <3>3. /\ log' \in Seq(Events) /\ Len(log') = Len(log) + 1
          /\ \A p \in 1..Len(log) : log'[p] = log[p]
          /\ trimmed' \in 0..Len(log') /\ given' \in 0..Len(log')
          /\ given' = given /\ pending' = pending /\ idle' = idle
          /\ EntryInv'
      BY <1>1, <3>1, <3>2, XaddEffect
    <3> QED BY <2>1, <3>3
  <2> QED BY <2>2, <2>3 DEF AddFails
<1>5. Len(log) \in Nat
  BY <1>1 DEF TypeOK
<1>6. \A f \in A : Positions(f)' # {}
  <2>1. ASSUME NEW f \in A PROVE Positions(f)' # {}
    <3>1. Positions(f) # {}
      BY DEF IInv, AddedInv
    <3> QED BY <3>1, <1>4, <1>5 DEF Positions
  <2> QED BY <2>1
<1> HIDE DEF A
<1> QED BY <1>1, <1>2, <1>3, <1>4, <1>6, RelayKeeps

LEMMA PublishKeeps ==
  ASSUME IInv, NEW w \in Pipelines, Publish(w)
  PROVE  IInv'
<1> USE DEF IInv
<1>1. /\ worker[w].phase = "publish" /\ Go(w, "claim") /\ "claim" \in Phases
      /\ row' = [e \in Events |-> IF e \in worker[w].added THEN "published" ELSE row[e]]
      /\ waiting' \subseteq waiting \union Upcoming(w)
      /\ UNCHANGED <<log, trimmed, given, pending, idle, table, faults>>
  BY DEF Publish, redis, Phases
<1>2. worker' \in [Pipelines -> Worker] /\ worker'[w] = At("claim") /\ Alone(w)
  BY <1>1, GoEffect
<1>3. /\ worker'[w].hand = {} /\ worker'[w].batch = {} /\ worker'[w].added = {}
      /\ worker'[w].phase = "claim" /\ ~worker'[w].failed
  BY <1>2 DEF At
<1>4. worker[w].added \subseteq worker[w].batch /\ worker[w].batch \subseteq Events
  BY DEF TypeOK, Worker, LockInv
<1>5. TypeOK'
  <2>1. row' \in [Events -> {"none", "pending", "published"}]
    BY <1>1 DEF TypeOK
  <2>2. waiting' \subseteq Events
    BY <1>1, <1>4 DEF TypeOK, Upcoming
  <2> QED BY <1>1, <1>2, <2>1, <2>2 DEF TypeOK
<1>6. EntryInv'
  BY <1>1 DEF EntryInv
<1>7. Len(log) \in Nat /\ given \in 0..Len(log)
  BY DEF TypeOK
<1>8. HandInv'
  BY <1>1, <1>2, <1>3, <1>7, HandKept
<1>9. AddedInv'
  <2>1. \A e \in Events : row'[e] = "published" =>
                             row[e] = "published" \/ Positions(e)' # {}
    BY <1>1 DEF AddedInv, Positions
  <2> QED BY <1>1, <1>2, <1>3, <1>7, <2>1, AddedKept
<1>10. LockInv'
  <2>1. ASSUME NEW v \in Pipelines, NEW e \in worker'[v].batch
        PROVE  row'[e] = row[e]
    <3>1. v # w /\ worker'[v] = worker[v]
      BY <2>1, <1>2, <1>3 DEF Alone
    <3>2. e \in Events /\ e \notin worker[w].batch
      BY <2>1, <3>1 DEF LockInv, TypeOK, Worker
    <3> QED BY <3>2, <1>1, <1>4
  <2> QED BY <2>1, <1>2, <1>3, LockKept
<1> QED BY <1>5, <1>6, <1>8, <1>9, <1>10

\* The steps of the consumer that go on with some entries in hand.
LEMMA ConsumeKeeps ==
  ASSUME IInv, NEW w \in Pipelines, NEW ph \in Phases, NEW H \in SUBSET (1..given'),
         Hold(w, ph, H),
         ph = "ack" => \A p \in H : log[p] \in table',
         UNCHANGED <<row, waiting, log, trimmed, faults>>,
         table \subseteq table', table' \subseteq Events, EntryInv',
         given' \in 0..Len(log), given <= given',
         pending' \subseteq 1..given', idle' \subseteq pending'
  PROVE  IInv'
<1>1. Len(log) \in Nat /\ given \in 0..Len(log) /\ given' \in Nat
  BY DEF IInv, TypeOK
<1>2. H \in SUBSET Nat
  BY <1>1
<1>3. [At(ph) EXCEPT !.hand = H] \in Worker
  BY <1>2 DEF At, Worker
<1>4. /\ worker' \in [Pipelines -> Worker] /\ Alone(w)
      /\ worker'[w].hand = H /\ worker'[w].batch = {} /\ worker'[w].added = {}
      /\ worker'[w].phase = ph /\ ~worker'[w].failed
  BY <1>3 DEF IInv, TypeOK, Alone, At, Hold
<1>5. TypeOK'
  BY <1>4 DEF IInv, TypeOK
<1>6. HandInv'
  BY <1>1, <1>4, HandKept DEF IInv
<1>7. AddedInv'
  BY <1>1, <1>4, AddedKept DEF IInv
<1>8. LockInv'
  BY <1>4, LockKept DEF IInv
<1> QED BY <1>5, <1>6, <1>7, <1>8 DEF IInv

LEMMA ClaimKeeps ==
  ASSUME IInv, NEW w \in Pipelines, Claim(w)
  PROVE  IInv'
<1> DEFINE H == Lowest(Batch, Claimable)
<1>1. /\ Xautoclaim /\ Hold(w, "read", H) /\ "read" \in Phases
      /\ UNCHANGED <<row, waiting, log, trimmed, table, faults>>
  BY DEF Claim, outbox, Xautoclaim, Phases
<1>2. TypeOK /\ EntryInv /\ table \subseteq Events
      /\ given \in 0..Len(log) /\ Len(log) \in Nat /\ given <= given
  BY DEF IInv, TypeOK
<1>3. /\ given' = given /\ pending' \subseteq 1..given' /\ idle' \subseteq pending'
      /\ EntryInv'
  BY <1>1, <1>2, XautoclaimEffect
<1>4. H \in SUBSET (1..given')
  BY <1>2, <1>3, LowestSubset DEF Claimable, TypeOK
<1> HIDE DEF H
<1> QED BY <1>1, <1>2, <1>3, <1>4, ConsumeKeeps

LEMMA ReadKeeps ==
  ASSUME IInv, NEW w \in Pipelines, Read(w)
  PROVE  IInv'
<1> DEFINE H == worker[w].hand \union NewEntries(w)
           ph == IF H = {} THEN "select" ELSE "insert"
<1>1. /\ Xreadgroup(w) /\ Hold(w, ph, H) /\ ph \in Phases /\ ph # "ack"
      /\ UNCHANGED <<row, waiting, log, trimmed, table, faults>>
  BY DEF Read, outbox, Xreadgroup, Phases
<1>2. TypeOK /\ EntryInv /\ HandInv /\ table \subseteq Events
      /\ given \in 0..Len(log) /\ Len(log) \in Nat
  BY DEF IInv, TypeOK
<1>3. /\ given' \in 0..Len(log) /\ given <= given'
      /\ pending' \subseteq 1..given' /\ idle' \subseteq pending'
      /\ NewEntries(w) \subseteq 1..given'
      /\ EntryInv'
  BY <1>1, <1>2, XreadgroupEffect
<1>4. H \in SUBSET (1..given')
  <2>1. worker[w].hand \subseteq 1..given
    BY <1>2 DEF HandInv
  <2>2. 1..given \subseteq 1..given'
    BY <1>2, <1>3
  <2> QED BY <1>3, <2>1, <2>2
<1> HIDE DEF H, ph
<1> QED BY <1>1, <1>2, <1>3, <1>4, ConsumeKeeps

\* Inserting puts the events of the entries in hand into the table.
LEMMA InsertedEvents ==
  ASSUME IInv, NEW w \in Pipelines, table' = table \union EventsAt(worker[w].hand)
  PROVE  /\ table \subseteq table' /\ table' \subseteq Events
         /\ \A p \in worker[w].hand : log[p] \in table'
<1>1. worker[w].hand \subseteq 1..Len(log) /\ log \in Seq(Events) /\ table \subseteq Events
  <2>1. given \in 0..Len(log) /\ Len(log) \in Nat
    BY DEF IInv, TypeOK
  <2>2. worker[w].hand \subseteq 1..given
    BY DEF IInv, HandInv
  <2> QED BY <2>1, <2>2 DEF IInv, TypeOK
<1> QED BY <1>1 DEF EventsAt

LEMMA InsertKeeps ==
  ASSUME IInv, NEW w \in Pipelines, Insert(w)
  PROVE  IInv'
<1>1. /\ Hold(w, "ack", worker[w].hand) /\ "ack" \in Phases
      /\ table' = table \union EventsAt(worker[w].hand)
      /\ UNCHANGED <<row, waiting, log, trimmed, given, pending, idle, faults>>
  BY DEF Insert, outbox, redis, Phases
<1>2. /\ table \subseteq table' /\ table' \subseteq Events
      /\ \A p \in worker[w].hand : log[p] \in table'
  BY <1>1, InsertedEvents
<1>3. /\ given' \in 0..Len(log) /\ given <= given' /\ pending' \subseteq 1..given'
      /\ idle' \subseteq pending' /\ worker[w].hand \in SUBSET (1..given')
  <2>1. /\ given \in 0..Len(log) /\ Len(log) \in Nat /\ given <= given
        /\ pending \subseteq 1..given /\ idle \subseteq pending
    BY DEF IInv, TypeOK
  <2>2. worker[w].hand \subseteq 1..given
    BY DEF IInv, HandInv
  <2> QED BY <1>1, <2>1, <2>2
<1>4. EntryInv'
  BY <1>1, <1>2 DEF IInv, EntryInv
<1> QED BY <1>1, <1>2, <1>3, <1>4, ConsumeKeeps

LEMMA AckKeeps ==
  ASSUME IInv, NEW w \in Pipelines, Ack(w)
  PROVE  IInv'
<1>1. /\ Go(w, "select") /\ "select" \in Phases \ {"ack"} /\ worker[w].phase = "ack"
      /\ pending' = pending \ worker[w].hand /\ idle' = idle \ worker[w].hand
      /\ UNCHANGED <<outbox, log, trimmed, given, table, faults>>
  BY DEF Ack, Phases
<1>2. \A p \in worker[w].hand : log[p] \in table
  BY <1>1 DEF IInv, HandInv, EventsAt
<1>3. EntryInv'
  BY <1>1, <1>2 DEF IInv, EntryInv
<1>4. /\ given' \in 0..Len(log) /\ given <= given' /\ pending' \subseteq 1..given'
      /\ idle' \subseteq pending' /\ table' \subseteq Events /\ faults' \in 0..MaxFaults
  <2>1. /\ given \in 0..Len(log) /\ Len(log) \in Nat /\ given <= given
        /\ pending \subseteq 1..given /\ idle \subseteq pending
        /\ table \subseteq Events /\ faults \in 0..MaxFaults
    BY DEF IInv, TypeOK
  <2> QED BY <1>1, <2>1
<1> QED BY <1>1, <1>3, <1>4, GivesUpKeeps

\* Every failure ends in a worker that holds nothing.
LEMMA FailureKeeps ==
  ASSUME IInv, NEW w \in Pipelines,
         RelayFails(w) \/ ClaimRefused(w) \/ ConsumeFails(w) \/ Crash(w)
  PROVE  IInv'
<1>1. /\ \E q \in Phases \ {"ack"} : Go(w, q)
      /\ UNCHANGED <<outbox, log, trimmed>> /\ faults < MaxFaults /\ faults' = faults + 1
  BY DEF RelayFails, ClaimRefused, ConsumeFails, Crash, Fault, Phases, redis,
         Xautoclaim, Xreadgroup
<1>2. /\ TypeOK /\ EntryInv /\ HandInv /\ given \in 0..Len(log) /\ Len(log) \in Nat
      /\ table \subseteq Events /\ given <= given
      /\ pending \subseteq 1..given /\ idle \subseteq pending
  BY DEF IInv, TypeOK
<1>3. faults' \in 0..MaxFaults
  BY <1>1, ProductEventsAssumption DEF IInv, TypeOK
<1>4. /\ table \subseteq table' /\ table' \subseteq Events /\ EntryInv'
      /\ given' \in 0..Len(log) /\ given <= given'
      /\ pending' \subseteq 1..given' /\ idle' \subseteq pending'
  <2>1. CASE UNCHANGED <<redis, table>>
    BY <1>2, <2>1 DEF redis, EntryInv
  <2>2. CASE Xautoclaim /\ UNCHANGED table
    BY <1>2, <2>2, XautoclaimEffect
  <2>3. CASE Xreadgroup(w) /\ UNCHANGED table
    BY <1>2, <2>3, XreadgroupEffect
  <2>4. CASE table' = table \union EventsAt(worker[w].hand) /\ UNCHANGED redis
    <3>1. table \subseteq table' /\ table' \subseteq Events
      BY <2>4, InsertedEvents
    <3> QED BY <1>2, <2>4, <3>1 DEF redis, EntryInv
  <2> QED BY <2>1, <2>2, <2>3, <2>4 DEF RelayFails, ClaimRefused, ConsumeFails, Crash
<1> QED BY <1>1, <1>3, <1>4, GivesUpKeeps

LEMMA TimeKeeps == IInv /\ (Retry \/ Minute \/ UNCHANGED vars) => IInv'
<1> SUFFICES ASSUME IInv, Retry \/ Minute \/ UNCHANGED vars PROVE IInv'
  OBVIOUS
<1>1. /\ UNCHANGED <<row, log, trimmed, given, pending, table, worker, faults>>
      /\ waiting' \subseteq waiting /\ idle' \subseteq pending
  BY DEF Retry, Minute, vars, redis, outbox, IInv, TypeOK
<1>2. TypeOK'
  BY <1>1 DEF IInv, TypeOK
<1> QED BY <1>1, <1>2 DEF IInv, EntryInv, AddedInv, LockInv, HandInv, Positions, EventsAt

LEMMA NextIInv == IInv /\ [Next]_vars => IInv'
<1> SUFFICES ASSUME IInv, [Next]_vars PROVE IInv'
  OBVIOUS
<1>1. ASSUME NEW e \in Events, Emit(e) PROVE IInv'
  BY <1>1, EmitKeeps
<1>2. ASSUME NEW w \in Pipelines, Step(w) PROVE IInv'
  BY <1>2, SelectKeeps, AddKeeps, PublishKeeps, ClaimKeeps, ReadKeeps, InsertKeeps,
     AckKeeps DEF Step
<1>3. ASSUME NEW w \in Pipelines, Fails(w) PROVE IInv'
  BY <1>3, AddFailsKeeps, FailureKeeps DEF Fails
<1>4. CASE Retry \/ Minute \/ UNCHANGED vars
  BY <1>4, TimeKeeps
<1> QED BY <1>1, <1>2, <1>3, <1>4 DEF Next

\* The strengthened invariant of the pipeline: what has happened to each entry
\* of the stream, and who holds which rows and entries.
THEOREM Invariance == Spec => []IInv
  BY InitIInv, NextIInv, PTL DEF Spec

\* Type correctness of rows, stream, pending list and workers.
THEOREM TypeCorrect == Spec => []TypeOK
<1>1. IInv => TypeOK
  BY DEF IInv
<1> QED BY Invariance, <1>1, PTL

\* A published event is in the table, or a consumer will still get it, unless
\* the stream's maximal length dropped an entry of it.
THEOREM OnlyTrimming == Spec => []OnlyTrimmingLoses
<1>1. IInv => OnlyTrimmingLoses
  <2> SUFFICES ASSUME IInv, NEW e \in Events, row[e] = "published"
               PROVE  \/ e \in table \/ Reachable(e)
                      \/ \E p \in Positions(e) : p <= trimmed
    BY DEF OnlyTrimmingLoses
  <2>1. PICK p \in Positions(e) : TRUE
    BY DEF IInv, AddedInv
  <2>2. p \in 1..Len(log) /\ log[p] = e /\ Len(log) \in Nat
        /\ trimmed \in 0..Len(log) /\ given \in 0..Len(log)
    BY <2>1 DEF Positions, IInv, TypeOK
  <2>3. p <= trimmed \/ p > given \/ p \in pending \/ log[p] \in table
    BY <2>2 DEF IInv, EntryInv
  <2>4. p <= trimmed \/ p > trimmed
    BY <2>2
  <2> QED BY <2>1, <2>2, <2>3, <2>4 DEF Reachable
<1> QED BY Invariance, <1>1, PTL

\* An entry that leaves the pending list has its event in the table, or the
\* stream has dropped it.
THEOREM AckedAreAccepted == Spec => AckedIsAccepted
<1> DEFINE Accepted == \A p \in pending \ pending' : p <= trimmed \/ log[p] \in table
<1>1. ASSUME IInv, [Next]_vars PROVE [Accepted]_vars
  <2>1. CASE UNCHANGED vars
    BY <2>1
  <2>2. ASSUME pending \subseteq pending' PROVE Accepted
    BY <2>2
  <2>3. ASSUME Xautoclaim PROVE Accepted
    <3>1. TypeOK /\ EntryInv /\ table \subseteq table
      BY <1>1 DEF IInv
    <3>2. pending \subseteq Int /\ trimmed \in Int
      BY <3>1 DEF TypeOK
    <3>3. pending' = pending \ (idle \ {p \in idle : p > trimmed})
      BY <2>3 DEF Xautoclaim, Claimable
    <3> QED BY <3>2, <3>3
  <2>4. ASSUME NEW w \in Pipelines, Ack(w) PROVE Accepted
    <3>1. \A p \in worker[w].hand : log[p] \in table
      BY <1>1, <2>4 DEF Ack, IInv, HandInv, EventsAt
    <3>2. pending' = pending \ worker[w].hand
      BY <2>4 DEF Ack
    <3> QED BY <3>1, <3>2
  <2>5. ASSUME NEW e \in Events, Emit(e) PROVE Accepted
    BY <2>5 DEF Emit, redis
  <2>6. ASSUME NEW w \in Pipelines, Step(w) PROVE Accepted
    BY <2>2, <2>3, <2>4, <2>6 DEF Step, Select, Add, Xadd, Publish, Claim, Read,
       Xreadgroup, Insert, redis
  <2>7. ASSUME NEW w \in Pipelines, Fails(w) PROVE Accepted
    BY <2>2, <2>3, <2>7 DEF Fails, AddFails, RelayFails, ClaimRefused, ConsumeFails,
       Crash, Xadd, Xreadgroup, redis
  <2>8. CASE Retry \/ Minute
    BY <2>8 DEF Retry, Minute, redis
  <2> HIDE DEF Accepted
  <2> QED BY <1>1, <2>1, <2>5, <2>6, <2>7, <2>8 DEF Next
<1> QED BY <1>1, Invariance, PTL DEF Spec, AckedIsAccepted
-----------------------------------------------------------------------------
(* Every step implements EventDelivery. *)

\* What no step but Emit does to rows, entries and hands: nothing that was
\* out of every consumer's reach comes back into it.
Frame ==
    /\ \A e \in Events : /\ row'[e] = "none" <=> row[e] = "none"
                         /\ row[e] = "published" => row'[e] = "published"
    /\ trimmed <= trimmed' /\ given <= given'
    /\ \A p \in 1..Len(log) : log'[p] = log[p]
    /\ \A p \in 1..Len(log') : p \in 1..Len(log) \/ row[log'[p]] = "pending"
    /\ \A p \in pending' : p \in pending \/ (p > trimmed /\ p > given)
    /\ \A v \in Pipelines : \A p \in worker'[v].hand :
          \/ p \in worker[v].hand
          \/ p \in 1..Len(log) /\ p > trimmed /\ (p > given \/ p \in pending)
    /\ \/ table' = table
       \/ /\ UNCHANGED <<row, redis>>
          /\ \E w \in Pipelines : /\ table' = table \union EventsAt(worker[w].hand)
                                  /\ Alone(w)

LEMMA LostStays ==
  ASSUME IInv, IInv', Frame, NEW e \in Events, Lost(e)
  PROVE  Lost(e)'
<1>1. row'[e] = "published" /\ row[e] = "published"
  BY DEF Frame, Lost
<1>2. /\ Len(log) \in Nat /\ given \in 0..Len(log) /\ trimmed \in 0..Len(log)
      /\ pending \subseteq 1..given
      /\ \A v \in Pipelines : worker[v].hand \subseteq 1..given
  BY DEF IInv, TypeOK, HandInv
<1>3. e \notin table'
  BY DEF Frame, Lost, Held
<1>4. \A p \in Positions(e)' : p \in Positions(e)
  BY <1>1 DEF Frame, Positions
<1>5. ~Reachable(e)'
  <2> SUFFICES ASSUME NEW p \in Positions(e)', p > trimmed', p > given' \/ p \in pending'
               PROVE  FALSE
    BY DEF Reachable
  <2>1. p \in Positions(e) /\ p \in Int /\ ~(p > trimmed /\ (p > given \/ p \in pending))
    BY <1>2, <1>4 DEF Lost, Reachable, Positions
  <2>2. given' \in Int /\ trimmed' \in Int /\ given \in Int /\ trimmed \in Int
    BY DEF IInv, TypeOK
  <2>3. trimmed <= trimmed' /\ given <= given'
        /\ (p \in pending' => p \in pending \/ (p > trimmed /\ p > given))
    BY DEF Frame
  <2>4. p > trimmed
    BY <2>1, <2>2, <2>3
  <2>5. p > given \/ p \in pending
    BY <2>1, <2>2, <2>3
  <2> QED BY <2>1, <2>4, <2>5
<1>6. ~Held(e)'
  <2> SUFFICES ASSUME NEW v \in Pipelines, NEW p \in worker'[v].hand, log'[p] = e
               PROVE  FALSE
    BY DEF Held, EventsAt
  <2>1. CASE p \in worker[v].hand
    <3>1. log[p] = e
      BY <1>2, <2>1 DEF Frame
    <3> QED BY <2>1, <3>1 DEF Lost, Held, EventsAt
  <2>2. CASE p \in 1..Len(log) /\ p > trimmed /\ (p > given \/ p \in pending)
    <3>1. p \in Positions(e)
      BY <2>2 DEF Frame, Positions
    <3> QED BY <2>2, <3>1 DEF Lost, Reachable
  <2> QED BY <2>1, <2>2 DEF Frame
<1> QED BY <1>1, <1>3, <1>5, <1>6 DEF Lost

\* A lost event had an entry, and the stream has dropped entries.
LostOverflow == \A e \in Events : Lost(e) => trimmed > 0

LEMMA LostOverflows == IInv => LostOverflow
<1> SUFFICES ASSUME IInv, NEW e \in Events, Lost(e) PROVE trimmed > 0
  BY DEF LostOverflow
<1>1. PICK p \in Positions(e) : TRUE
  BY DEF IInv, AddedInv, Lost
<1>2. p \in 1..Len(log) /\ log[p] = e /\ Len(log) \in Nat
      /\ trimmed \in Nat /\ given \in Nat
  BY <1>1 DEF Positions, IInv, TypeOK
<1>3. p <= trimmed \/ p > given \/ p \in pending \/ log[p] \in table
  BY <1>2 DEF IInv, EntryInv
<1>4. ~(p > trimmed /\ (p > given \/ p \in pending)) /\ log[p] \notin table
  BY <1>1, <1>2 DEF Lost, Reachable
<1>5. p <= trimmed
  BY <1>2, <1>3, <1>4
<1> QED BY <1>2, <1>5

LEMMA LostOverflowsNext == IInv' => LostOverflow'
  BY LostOverflows, PTL

\* What a step can do to the fate of an event.
LEMMA FateMoves ==
  ASSUME IInv, IInv', Frame, NEW e \in Events
  PROVE  /\ Fate(e) # "recorded" => Fate(e)' = Fate(e)
         /\ Fate(e) = "recorded" => Fate(e)' \in {"recorded", "delivered", "lost"}
         /\ table' = table => Fate(e)' # "delivered" \/ Fate(e) = "delivered"
<1>1. /\ row'[e] = "none" <=> row[e] = "none"
      /\ table \subseteq table'
  BY DEF Frame
<1>2. Lost(e) => Lost(e)'
  BY LostStays
<1>3. Lost(e) => row[e] # "none" /\ e \notin table
  BY DEF Lost
<1>4. Lost(e)' => row'[e] # "none" /\ e \notin table'
  BY DEF Lost
<1>5. Fate(e)' = IF row'[e] = "none" THEN "none"
                 ELSE IF e \in table' THEN "delivered"
                 ELSE IF Lost(e)' THEN "lost" ELSE "recorded"
  BY DEF Fate
<1>6. CASE row[e] = "none"
  BY <1>1, <1>3, <1>4, <1>5, <1>6 DEF Fate
<1>7. CASE row[e] # "none" /\ e \in table
  BY <1>1, <1>3, <1>4, <1>5, <1>7 DEF Fate
<1>8. CASE row[e] # "none" /\ e \notin table /\ Lost(e)
  BY <1>1, <1>2, <1>4, <1>5, <1>8 DEF Fate
<1>9. CASE row[e] # "none" /\ e \notin table /\ ~Lost(e)
  <2>1. Fate(e) = "recorded"
    BY <1>9 DEF Fate
  <2>2. Fate(e)' \in {"recorded", "delivered", "lost"}
    BY <1>1, <1>4, <1>5, <1>9
  <2>3. e \notin table' => Fate(e)' # "delivered"
    BY <1>1, <1>4, <1>5, <1>9
  <2> QED BY <1>9, <2>1, <2>2, <2>3
<1> QED BY <1>6, <1>7, <1>8, <1>9

LEMMA FrameImplements ==
  ASSUME IInv, IInv', Frame
  PROVE  [Delivery!Next]_(Delivery!vars)
<1> DEFINE F == [e \in Events |-> Fate(e)]
           G == [e \in Events |-> Fate(e)']
           O == trimmed > 0
           P == trimmed' > 0
           D == {e \in Events : F[e] # G[e] /\ G[e] = "delivered"}
           L == {e \in Events : F[e] # G[e] /\ G[e] = "lost"}
<1>1. O => P
  BY DEF Frame, IInv, TypeOK
<1>2. \A e \in Events : /\ F[e] # G[e] => F[e] = "recorded" /\ G[e] \in {"delivered", "lost"}
                        /\ table' = table => e \notin D
  BY FateMoves
<1>3. L # {} => P
  BY LostOverflowsNext DEF Fate, LostOverflow
<1>4. L = {} \/ D = {}
  <2>1. CASE table' = table
    BY <1>2, <2>1
  <2>2. CASE UNCHANGED <<row, redis>> /\ \E w \in Pipelines :
                /\ table' = table \union EventsAt(worker[w].hand) /\ Alone(w)
    <3>1. PICK w \in Pipelines : table' = table \union EventsAt(worker[w].hand) /\ Alone(w)
      BY <2>2
    <3>2. ASSUME NEW e \in L PROVE FALSE
      <4>1. Lost(e)' /\ ~Lost(e)
        BY <3>2 DEF Fate, Lost
      <4>2. /\ row[e] = "published" /\ e \notin table' /\ e \notin table /\ ~Reachable(e)
        BY <2>2, <3>1, <4>1 DEF Lost, Reachable, Positions, redis
      <4>3. PICK v \in Pipelines : e \in EventsAt(worker[v].hand)
        BY <4>1, <4>2 DEF Lost, Held
      <4>4. v # w
        BY <3>1, <4>2, <4>3
      <4>5. e \in EventsAt(worker[v].hand)'
        BY <2>2, <3>1, <4>3, <4>4 DEF Alone, EventsAt, redis
      <4> QED BY <4>1, <4>5 DEF Lost, Held
    <3> QED BY <3>2
  <2> QED BY <2>1, <2>2 DEF Frame
<1>5. /\ DOMAIN F = Events /\ DOMAIN G = Events
      /\ \A e \in Events : e \notin D /\ e \notin L => G[e] = F[e]
  BY <1>2
<1>6. CASE D = {} /\ L = {}
  <2>1. G = F
    BY <1>5, <1>6, Zenon
  <2>2. CASE O = P
    BY <2>1, <2>2 DEF Delivery!vars
  <2>3. CASE P /\ ~O
    BY <2>1, <2>3 DEF Delivery!Next, Delivery!Overflow
  <2> QED BY <1>1, <2>2, <2>3
<1>7. CASE D # {}
  <2>1. trimmed' = trimmed
    BY <1>2, <1>7 DEF Frame, redis
  <2> QED BY <2>1, <1>2, <1>4, <1>5, <1>7
          DEF Delivery!Next, Delivery!Deliver, Delivery!Move
<1>8. CASE L # {}
  BY <1>2, <1>3, <1>4, <1>5, <1>8 DEF Delivery!Next, Delivery!Lose, Delivery!Move
<1> QED BY <1>6, <1>7, <1>8

\* What a step takes in hand can still be reached.
LEMMA StepHand ==
  ASSUME IInv, NEW w \in Pipelines, Step(w) \/ Fails(w)
  PROVE  /\ Alone(w)
         /\ \A p \in worker'[w].hand :
               \/ p \in worker[w].hand
               \/ p \in 1..Len(log) /\ p > trimmed /\ (p > given \/ p \in pending)
<1>1. TypeOK /\ EntryInv /\ HandInv /\ worker[w] \in Worker /\ table \subseteq table
      /\ Len(log) \in Nat /\ given \in 0..Len(log) /\ pending \subseteq 1..given
      /\ idle \subseteq pending
  BY DEF IInv, TypeOK
<1>2. ASSUME NEW ph \in Phases, Go(w, ph) PROVE Alone(w) /\ worker'[w].hand = {}
  <2>1. worker'[w] = At(ph) /\ Alone(w)
    BY <1>1, <1>2, GoEffect DEF Alone
  <2>2. At(ph).hand = {}
    BY DEF At
  <2> QED BY <2>1, <2>2
<1>3. ASSUME NEW ph, NEW H, Hold(w, ph, H) PROVE Alone(w) /\ worker'[w].hand = H
  <2>1. worker' = [worker EXCEPT ![w] = [At(ph) EXCEPT !.hand = H]]
    BY <1>3 DEF Hold
  <2>2. [At(ph) EXCEPT !.hand = H].hand = H
    BY DEF At
  <2>3. DOMAIN worker = Pipelines
    BY <1>1 DEF TypeOK
  <2> QED BY <2>1, <2>2, <2>3 DEF Alone
<1>4. ASSUME Select(w) \/ Add(w) \/ AddFails(w)
      PROVE  Alone(w) /\ worker'[w].hand \subseteq worker[w].hand
  <2>1. CASE Select(w)
    BY <1>1, <2>1 DEF Select, TypeOK, Alone, At
  <2>2. CASE Add(w)
    BY <1>1, <2>2 DEF Add, TypeOK, Alone, Worker
  <2>3. CASE AddFails(w)
    BY <1>1, <2>3 DEF AddFails, TypeOK, Alone, Worker
  <2> QED BY <1>4, <2>1, <2>2, <2>3
<1>5. ASSUME \/ Publish(w) \/ Ack(w) \/ RelayFails(w) \/ ClaimRefused(w)
             \/ ConsumeFails(w) \/ Crash(w)
      PROVE  Alone(w) /\ worker'[w].hand = {}
  <2>1. \E ph \in Phases : Go(w, ph)
    BY <1>5 DEF Publish, Ack, RelayFails, ClaimRefused, ConsumeFails, Crash, Phases
  <2> QED BY <1>2, <2>1
<1>6. CASE Claim(w)
  <2>1. Alone(w) /\ worker'[w].hand = Lowest(Batch, Claimable)
    BY <1>3, <1>6 DEF Claim
  <2>2. \A p \in Claimable : p \in 1..Len(log) /\ p > trimmed /\ p \in pending
    BY <1>1 DEF Claimable
  <2> QED BY <2>1, <2>2, LowestSubset
<1>7. CASE Read(w)
  <2>1. Alone(w) /\ worker'[w].hand = worker[w].hand \union NewEntries(w) /\ Xreadgroup(w)
        /\ table' = table
    BY <1>3, <1>7 DEF Read
  <2>2. /\ NewEntries(w) \subseteq 1..given' /\ given' \in 0..Len(log)
        /\ \A p \in NewEntries(w) : p > trimmed /\ p > given
    BY <1>1, <2>1, XreadgroupEffect
  <2>3. NewEntries(w) \subseteq 1..Len(log)
    BY <1>1, <2>2
  <2> QED BY <2>1, <2>2, <2>3
<1>8. CASE Insert(w)
  BY <1>3, <1>8 DEF Insert
<1> QED BY <1>4, <1>5, <1>6, <1>7, <1>8 DEF Step, Fails

\* What a step does to rows and table.
LEMMA StepRows ==
  ASSUME IInv, NEW w \in Pipelines, Step(w) \/ Fails(w)
  PROVE  /\ \A e \in Events : /\ row'[e] = "none" <=> row[e] = "none"
                              /\ row[e] = "published" => row'[e] = "published"
         /\ \/ table' = table
            \/ /\ UNCHANGED <<row, redis>>
               /\ table' = table \union EventsAt(worker[w].hand)
<1>1. CASE Publish(w)
  <2>1. \A e \in worker[w].added : row[e] = "pending"
    BY DEF IInv, LockInv
  <2>2. /\ row' = [e \in Events |-> IF e \in worker[w].added THEN "published" ELSE row[e]]
        /\ table' = table
    BY <1>1 DEF Publish
  <2> QED BY <2>1, <2>2
<1>2. CASE ~Publish(w)
  <2>1. row' = row
    BY <1>2 DEF Step, Fails, Select, Add, Claim, Read, Insert, Ack, AddFails, RelayFails,
       ClaimRefused, ConsumeFails, Crash, outbox
  <2>2. \/ table' = table
        \/ UNCHANGED redis /\ table' = table \union EventsAt(worker[w].hand)
    BY <1>2 DEF Step, Fails, Select, Add, Claim, Read, Insert, Ack, AddFails, RelayFails,
       ClaimRefused, ConsumeFails, Crash
  <2> QED BY <2>1, <2>2
<1> QED BY <1>1, <1>2

\* What a step does to the stream.
LEMMA StepStream ==
  ASSUME IInv, NEW w \in Pipelines, Step(w) \/ Fails(w)
  PROVE  /\ trimmed <= trimmed' /\ given <= given'
         /\ \A p \in 1..Len(log) : log'[p] = log[p]
         /\ \A p \in 1..Len(log') : p \in 1..Len(log) \/ row[log'[p]] = "pending"
         /\ \A p \in pending' : p \in pending \/ (p > trimmed /\ p > given)
<1>1. /\ TypeOK /\ EntryInv /\ HandInv /\ Len(log) \in Nat
      /\ given \in 0..Len(log) /\ trimmed \in 0..Len(log)
      /\ given <= given /\ trimmed <= trimmed /\ log \in Seq(Events)
  BY DEF IInv, TypeOK
<1>2. CASE UNCHANGED redis
  BY <1>1, <1>2 DEF redis
<1>3. CASE \E e \in worker[w].batch : Xadd(e)
  <2>1. PICK e \in worker[w].batch : Xadd(e)
    BY <1>3
  <2>2. e \in Events /\ row[e] = "pending"
    BY DEF IInv, TypeOK, Worker, LockInv
  <2>3. log' = Append(log, e) /\ given' = given /\ pending' = pending
        /\ trimmed' \in trimmed..Len(log)
    BY <1>1, <2>1 DEF Xadd
  <2>4. /\ Len(log') = Len(log) + 1 /\ log'[Len(log) + 1] = e
        /\ \A p \in 1..Len(log) : log'[p] = log[p]
    BY <1>1, <2>2, <2>3
  <2>5. \A p \in 1..Len(log') : p \in 1..Len(log) \/ p = Len(log) + 1
    BY <1>1, <2>4
  <2> QED BY <1>1, <2>2, <2>3, <2>4, <2>5
<1>4. CASE Xautoclaim
  BY <1>1, <1>4 DEF Xautoclaim
<1>5. CASE Xreadgroup(w) /\ table' = table
  <2>1. /\ given <= given' /\ \A p \in NewEntries(w) : p > trimmed /\ p > given
    BY <1>1, <1>5, XreadgroupEffect
  <2> QED BY <1>1, <1>5, <2>1 DEF Xreadgroup
<1>6. CASE Ack(w)
  BY <1>1, <1>6 DEF Ack
<1>7. \/ UNCHANGED redis \/ Xautoclaim \/ (Xreadgroup(w) /\ table' = table) \/ Ack(w)
      \/ \E e \in worker[w].batch : Xadd(e)
  BY DEF Step, Fails, Select, Add, Publish, Claim, Read, Insert, Ack, AddFails, RelayFails,
     ClaimRefused, ConsumeFails, Crash, Upcoming
<1> QED BY <1>2, <1>3, <1>4, <1>5, <1>6, <1>7

LEMMA StepFrame ==
  ASSUME IInv, NEW w \in Pipelines, Step(w) \/ Fails(w)
  PROVE  Frame
<1>1. \A v \in Pipelines : \A p \in worker'[v].hand :
          \/ p \in worker[v].hand
          \/ p \in 1..Len(log) /\ p > trimmed /\ (p > given \/ p \in pending)
  BY StepHand DEF Alone
<1>2. \/ table' = table
      \/ /\ UNCHANGED <<row, redis>>
         /\ \E v \in Pipelines : /\ table' = table \union EventsAt(worker[v].hand)
                                 /\ Alone(v)
  BY StepRows, StepHand
<1> QED BY <1>1, <1>2, StepRows, StepStream DEF Frame

\* Entries and delivered events have a row.
RecordedInv ==
    /\ \A p \in 1..Len(log) : row[log[p]] # "none"
    /\ \A e \in table : row[e] # "none"

LEMMA FrameRecorded ==
  ASSUME IInv, IInv', RecordedInv, Frame
  PROVE  RecordedInv'
<1>1. /\ log' \in Seq(Events) /\ log \in Seq(Events) /\ table' \subseteq Events
      /\ Len(log) \in Nat /\ given \in 0..Len(log)
      /\ \A v \in Pipelines : worker[v].hand \subseteq 1..given
  BY DEF IInv, TypeOK, HandInv
<1>2. \A e \in Events : row'[e] = "none" <=> row[e] = "none"
  BY DEF Frame
<1>3. ASSUME NEW p \in 1..Len(log') PROVE row'[log'[p]] # "none"
  <2>1. log'[p] \in Events
    BY <1>1, <1>3
  <2>2. CASE p \in 1..Len(log)
    BY <1>2, <2>1, <2>2 DEF Frame, RecordedInv
  <2>3. CASE row[log'[p]] = "pending"
    BY <1>2, <2>1, <2>3
  <2> QED BY <1>3, <2>2, <2>3 DEF Frame
<1>4. ASSUME NEW e \in table' PROVE row'[e] # "none"
  <2>1. e \in table \/ \E w \in Pipelines : e \in EventsAt(worker[w].hand)
    BY <1>4 DEF Frame
  <2>2. CASE e \in table
    BY <1>1, <1>2, <1>4, <2>2 DEF RecordedInv
  <2>3. ASSUME NEW w \in Pipelines, e \in EventsAt(worker[w].hand) PROVE row[e] # "none"
    <3>1. PICK p \in worker[w].hand : e = log[p]
      BY <2>3 DEF EventsAt
    <3>2. p \in 1..Len(log)
      BY <1>1, <3>1
    <3> QED BY <3>1, <3>2 DEF RecordedInv
  <2> QED BY <1>1, <1>2, <1>4, <2>1, <2>2, <2>3
<1> QED BY <1>3, <1>4 DEF RecordedInv

\* What a new row does: the other rows, the stream and the hands stay.
LEMMA EmitEffect ==
  ASSUME IInv, NEW e \in Events, Emit(e)
  PROVE  /\ row[e] = "none" /\ row'[e] = "pending"
         /\ \A f \in Events : f # e => row'[f] = row[f]
         /\ UNCHANGED <<log, trimmed, given, pending, idle, table, worker>>
  BY DEF Emit, redis, IInv, TypeOK

LEMMA EmitRecorded ==
  ASSUME IInv, RecordedInv, NEW e \in Events, Emit(e)
  PROVE  RecordedInv'
<1>1. log \in Seq(Events) /\ table \subseteq Events
  BY DEF IInv, TypeOK
<1>2. \A f \in Events : row[f] # "none" => row'[f] # "none"
  BY EmitEffect
<1>3. UNCHANGED <<log, table>>
  BY EmitEffect
<1>4. \A p \in 1..Len(log) : log[p] \in Events
  BY <1>1
<1> QED BY <1>1, <1>2, <1>3, <1>4 DEF RecordedInv

\* A new row is an event that becomes recorded.
LEMMA EmitImplements ==
  ASSUME IInv, RecordedInv, NEW e \in Events, Emit(e)
  PROVE  [Delivery!Next]_(Delivery!vars)
<1> DEFINE F == [f \in Events |-> Fate(f)]
           G == [f \in Events |-> Fate(f)']
<1>1. /\ row[e] = "none" /\ row'[e] = "pending"
      /\ \A f \in Events : f # e => row'[f] = row[f]
      /\ UNCHANGED <<log, trimmed, given, pending, idle, table, worker>>
  BY EmitEffect
<1>2. e \notin table /\ e \notin table'
  BY <1>1 DEF RecordedInv
<1>3. F[e] = "none" /\ G[e] = "recorded"
  BY <1>1, <1>2 DEF Fate, Lost
<1>4. ASSUME NEW f \in Events, f # e PROVE F[f] = G[f]
  <2>1. Lost(f)' <=> Lost(f)
    BY <1>1, <1>4 DEF Lost, Reachable, Positions, Held, EventsAt
  <2> QED BY <1>1, <1>4, <2>1 DEF Fate
<1>5. (trimmed' > 0) = (trimmed > 0)
  BY <1>1
<1>6. Delivery!Record(e)
  BY <1>3, <1>4, <1>5 DEF Delivery!Record, Delivery!Move
<1> QED BY <1>6 DEF Delivery!Next

\* Waiting and the age of a pending entry are no concern of EventDelivery.
LEMMA TimeFrame == IInv /\ (Retry \/ Minute \/ UNCHANGED vars) => Frame
<1> SUFFICES ASSUME IInv, Retry \/ Minute \/ UNCHANGED vars PROVE Frame
  OBVIOUS
<1>1. UNCHANGED <<row, log, trimmed, given, pending, table, worker>>
  BY DEF Retry, Minute, vars, redis, outbox
<1>2. trimmed \in Int /\ given \in Int
  BY DEF IInv, TypeOK
<1> QED BY <1>1, <1>2 DEF Frame

LEMMA NextRecorded == IInv /\ IInv' /\ RecordedInv /\ [Next]_vars => RecordedInv'
<1> SUFFICES ASSUME IInv, IInv', RecordedInv, [Next]_vars PROVE RecordedInv'
  OBVIOUS
<1> QED BY EmitRecorded, StepFrame, TimeFrame, FrameRecorded DEF Next

LEMMA NextImplements ==
  IInv /\ IInv' /\ RecordedInv /\ [Next]_vars => [Delivery!Next]_(Delivery!vars)
<1> SUFFICES ASSUME IInv, IInv', RecordedInv, [Next]_vars
             PROVE  [Delivery!Next]_(Delivery!vars)
  OBVIOUS
<1>1. CASE \E e \in Events : Emit(e)
  BY <1>1, EmitImplements
<1>2. CASE Frame
  BY <1>2, FrameImplements
<1> QED BY <1>1, <1>2, StepFrame, TimeFrame DEF Next

LEMMA InitImplements == Init => RecordedInv /\ Delivery!Init
<1> SUFFICES ASSUME Init PROVE RecordedInv /\ Delivery!Init
  OBVIOUS
<1>1. Len(log) = 0 /\ table = {} /\ trimmed = 0
  BY DEF Init
<1>2. \A e \in Events : Fate(e) = "none"
  BY DEF Init, Fate
<1> QED BY <1>1, <1>2 DEF RecordedInv, Delivery!Init

\* The safety part of the refinement: the pipeline starts as EventDelivery
\* does, and every step of it is a step of EventDelivery or a stutter.
THEOREM Implements == Spec => Delivery!Init /\ [][Delivery!Next]_(Delivery!vars)
<1>1. IInv /\ IInv' /\ RecordedInv /\ [Next]_vars => RecordedInv'
  BY NextRecorded
<1>2. Spec => []RecordedInv
  BY InitImplements, Invariance, <1>1, PTL DEF Spec
<1> QED BY InitImplements, NextImplements, Invariance, <1>2, PTL DEF Spec
(* The live class. *)

\* Each tally that was announced is that of the votes, but for polls closed
\* while a vote was on its way; a vote on its way is of a poll without a tally,
\* or of such a poll; polls to come have none.
PollsStand ==
    /\ \A w \in Workers : visit[w].poll # 0 =>
          visit[w].poll \in lateVotes \/ lesson.announced[visit[w].poll] = {}
    /\ lesson.open => lesson.poll # 0 /\ lesson.announced[lesson.poll] = {}
    /\ \A k \in Polls : k > lesson.poll => lesson.announced[k] = {}
    /\ TallyStands

\* Where the host has removed a pupil, the room says so.
Barred == \A p \in Processes, s \in Pupils : <<p, s>> \in out => room[p].place[s] = "removed"

\* A message on its way has an id that was given; who is to be present was
\* admitted.
VisitsFit == \A w \in Workers :
    /\ visit[w].id <= board.given
    /\ visit[w].seat = "here" => visit[w].admitted

Board == [given : Nat, posted : SUBSET Nat, seen : SUBSET Nat]
Room == [gate : BOOLEAN, place : [Pupils -> Places]]

LiveInv ==
    /\ LiveTypeOK
    /\ process \in [Workers -> Processes]
    /\ board \in Board
    /\ VisitsFit /\ PollsStand /\ Barred

LEMMA LiveTypes ==
  ASSUME LiveInv
  PROVE  /\ MaxPolls \in Nat /\ MaxMessages \in Nat
         /\ room \in [Processes -> Room] /\ lesson \in Lesson
         /\ votes \in [Polls -> SUBSET Pupils] /\ seat \in [Pupils -> Seats]
         /\ board \in Board
         /\ board.posted \subseteq 1..board.given /\ board.seen \subseteq board.posted
         /\ board.given <= MaxMessages
         /\ visit \in [Workers -> Visit] /\ out \subseteq Processes \X Pupils
         /\ lateVotes \subseteq Polls /\ process \in [Workers -> Processes]
  BY LiveAssumption DEF LiveInv, LiveTypeOK, Room

LEMMA LiveTyped ==
  ASSUME room' \in [Processes -> Room], lesson' \in Lesson,
         votes' \in [Polls -> SUBSET Pupils], seat' \in [Pupils -> Seats],
         board' \in Board, board'.posted \subseteq 1..board'.given,
         board'.seen \subseteq board'.posted, board'.given <= MaxMessages,
         visit' \in [Workers -> Visit], out' \subseteq Processes \X Pupils,
         lateVotes' \subseteq Polls
  PROVE  LiveTypeOK'
  BY DEF LiveTypeOK, Room

LEMMA NoVisitIs ==
  NoVisit \in Visit /\ NoVisit.poll = 0 /\ NoVisit.id = 0 /\ NoVisit.seat = "same"
  /\ NoVisit.insert = FALSE /\ NoVisit.pupil = {} /\ NoVisit.admitted = FALSE
  BY LiveAssumption DEF NoVisit, Visit

LEMMA LiveStart == LiveInit => LiveInv
<1> SUFFICES ASSUME LiveInit PROVE LiveInv
  OBVIOUS
<1>1. /\ process \in [Workers -> Processes]
      /\ room = [p \in Processes |-> NewRoom]
      /\ lesson = [ended |-> FALSE, poll |-> 0, open |-> FALSE,
                   announced |-> [k \in Polls |-> {}]]
      /\ votes = [k \in Polls |-> {}] /\ seat = [s \in Pupils |-> "none"]
      /\ board = [given |-> 0, posted |-> {}, seen |-> {}]
      /\ visit = [w \in Workers |-> NoVisit] /\ out = {} /\ lateVotes = {}
  BY DEF LiveInit, DeploymentInit
<1>2. MaxPolls \in Nat /\ MaxMessages \in Nat
  BY LiveAssumption
<1>3. NewRoom \in Room
  BY DEF NewRoom, Room, Places
<1>4. [k \in Polls |-> {}] \in [Polls -> SUBSET SUBSET Pupils] /\ 0 \in 0..MaxPolls
  BY <1>2
<1>5. lesson \in Lesson
  BY <1>1, <1>4 DEF Lesson
<1>6. board \in Board /\ board.posted = {} /\ board.seen = {} /\ board.given = 0
  BY <1>1 DEF Board
<1>7. LiveTypeOK
  BY <1>1, <1>2, <1>3, <1>5, <1>6, NoVisitIs DEF LiveTypeOK, Room, Seats
<1>8. VisitsFit
  BY <1>1, <1>6, NoVisitIs DEF VisitsFit
<1>9. PollsStand
  BY <1>1, NoVisitIs DEF PollsStand, TallyStands
<1>10. Barred
  BY <1>1 DEF Barred
<1> QED BY <1>1, <1>6, <1>7, <1>8, <1>9, <1>10 DEF LiveInv

-----------------------------------------------------------------------------
\* What the polls do not notice: no new vote is on its way.
LEMMA PollsKept ==
  ASSUME PollsStand, lesson'.poll = lesson.poll, lesson'.announced = lesson.announced,
         lesson'.open = lesson.open, votes' = votes, lateVotes' = lateVotes,
         \A w \in Workers : visit'[w].poll = visit[w].poll \/ visit'[w].poll = 0
  PROVE  PollsStand'
<1>1. \A w \in Workers : visit'[w].poll # 0 =>
         visit'[w].poll \in lateVotes' \/ lesson'.announced[visit'[w].poll] = {}
  BY DEF PollsStand
<1>2. /\ lesson'.open => lesson'.poll # 0 /\ lesson'.announced[lesson'.poll] = {}
      /\ \A k \in Polls : k > lesson'.poll => lesson'.announced[k] = {}
  BY DEF PollsStand
<1>3. TallyStands'
  BY DEF PollsStand, TallyStands
<1> QED BY <1>1, <1>2, <1>3 DEF PollsStand

\* The host acts on a room.
LEMMA HostActsKeeps ==
  ASSUME LiveInv, NEW p \in Processes, NEW r \in Room, HostActs(p, r), lateVotes' = lateVotes,
         out' \subseteq Processes \X Pupils,
         \A q \in Processes, s \in Pupils : <<q, s>> \in out' =>
            IF q = p THEN r.place[s] = "removed" ELSE <<q, s>> \in out
  PROVE  LiveInv'
<1>1. room' = [room EXCEPT ![p] = r] /\ UNCHANGED <<process, lesson, votes, seat, board, visit>>
  BY DEF HostActs, lessonRows
<1>2. room' \in [Processes -> Room]
  BY <1>1, LiveTypes
<1>3. LiveTypeOK'
  BY <1>1, <1>2, LiveTypes, LiveTyped
<1>4. VisitsFit' /\ process' \in [Workers -> Processes] /\ board' \in Board
  BY <1>1 DEF LiveInv, VisitsFit
<1>5. PollsStand'
  BY <1>1, PollsKept DEF LiveInv
<1>6. Barred'
  <2> SUFFICES ASSUME NEW q \in Processes, NEW s \in Pupils, <<q, s>> \in out'
               PROVE  room'[q].place[s] = "removed"
    BY DEF Barred
  <2>1. CASE q = p
    BY <1>1, <2>1, LiveTypes
  <2>2. CASE q # p
    BY <1>1, <2>2, LiveTypes DEF LiveInv, Barred
  <2> QED BY <2>1, <2>2
<1> QED BY <1>3, <1>4, <1>5, <1>6 DEF LiveInv

LEMMA AdmitKeeps ==
  ASSUME LiveInv, NEW p \in Processes, NEW s \in Pupils, Admit(p, s)
  PROVE  LiveInv'
<1> DEFINE r == [room[p] EXCEPT !.place[s] = "admitted"]
<1>1. r \in Room
  BY LiveTypes DEF Room, Places
<1>2. \A t \in Pupils : t # s => r.place[t] = room[p].place[t]
  BY LiveTypes DEF Room
<1>3. out' = {o \in out : o[2] # s} /\ HostActs(p, r) /\ lateVotes' = lateVotes
  BY DEF Admit
<1>4. \A q \in Processes, t \in Pupils : <<q, t>> \in out' =>
         IF q = p THEN r.place[t] = "removed" ELSE <<q, t>> \in out
  BY <1>2, <1>3 DEF LiveInv, Barred
<1>5. out' \subseteq Processes \X Pupils
  BY <1>3, LiveTypes
<1> HIDE DEF r
<1> QED BY <1>1, <1>3, <1>4, <1>5, HostActsKeeps

LEMMA RemoveKeeps ==
  ASSUME LiveInv, NEW p \in Processes, NEW s \in Pupils, Remove(p, s)
  PROVE  LiveInv'
<1> DEFINE r == Rejected(room[p], s)
<1>1. r \in Room
  BY LiveTypes DEF Room, Places, Rejected
<1>2. r.place[s] = "removed" /\ \A t \in Pupils : t # s => r.place[t] = room[p].place[t]
  BY LiveTypes DEF Room, Rejected
<1>3. out' = out \union {<<p, s>>} /\ HostActs(p, r) /\ lateVotes' = lateVotes
  BY DEF Remove
<1>4. \A q \in Processes, t \in Pupils : <<q, t>> \in out' =>
         IF q = p THEN r.place[t] = "removed" ELSE <<q, t>> \in out
  BY <1>2, <1>3 DEF LiveInv, Barred
<1>5. out' \subseteq Processes \X Pupils
  BY <1>3, LiveTypes
<1> HIDE DEF r
<1> QED BY <1>1, <1>3, <1>4, <1>5, HostActsKeeps

LEMMA SetGateKeeps ==
  ASSUME LiveInv, NEW p \in Processes, NEW gate \in BOOLEAN, SetGate(p, gate)
  PROVE  LiveInv'
<1> DEFINE r == [gate |-> gate, place |-> [s \in Pupils |->
               IF ~gate /\ room[p].place[s] = "waiting" THEN "admitted" ELSE room[p].place[s]]]
<1>1. r \in Room
  <2>1. [s \in Pupils |-> IF ~gate /\ room[p].place[s] = "waiting" THEN "admitted"
                          ELSE room[p].place[s]] \in [Pupils -> Places]
    BY LiveTypes DEF Room, Places
  <2> QED BY <2>1 DEF Room
<1>2. \A t \in Pupils : room[p].place[t] = "removed" => r.place[t] = "removed"
  OBVIOUS
<1>3. out' = out /\ HostActs(p, r) /\ lateVotes' = lateVotes
  BY DEF SetGate
<1>4. \A q \in Processes, t \in Pupils : <<q, t>> \in out' =>
         IF q = p THEN r.place[t] = "removed" ELSE <<q, t>> \in out
  BY <1>2, <1>3 DEF LiveInv, Barred
<1>5. out' \subseteq Processes \X Pupils
  BY <1>3, LiveTypes
<1> HIDE DEF r
<1> QED BY <1>1, <1>3, <1>4, <1>5, HostActsKeeps

LEMMA ProcessEndsKeeps ==
  ASSUME LiveInv, NEW p \in Processes, ProcessEnds(p)
  PROVE  LiveInv'
<1>1. /\ room' = [room EXCEPT ![p] = NewRoom]
      /\ visit' = [w \in Workers |-> IF process[w] = p THEN NoVisit ELSE visit[w]]
      /\ out' = {o \in out : o[1] # p}
      /\ UNCHANGED <<process, lesson, votes, seat, board, lateVotes>>
  BY DEF ProcessEnds, lessonRows
<1>2. \A w \in Workers : visit'[w] = visit[w] \/ visit'[w] = NoVisit
  BY <1>1
<1>3. visit' \in [Workers -> Visit]
  BY <1>1, NoVisitIs, LiveTypes
<1>4. room' \in [Processes -> Room]
  BY <1>1, LiveTypes DEF Room, NewRoom, Places
<1>5. LiveTypeOK'
  BY <1>1, <1>3, <1>4, LiveTypes, LiveTyped
<1>6. board.given \in Nat
  BY LiveTypes DEF Board
<1>7. VisitsFit' /\ process' \in [Workers -> Processes] /\ board' \in Board
  BY <1>1, <1>2, <1>6, NoVisitIs DEF LiveInv, VisitsFit
<1>8. PollsStand'
  BY <1>1, <1>2, NoVisitIs, PollsKept DEF LiveInv
<1>9. Barred'
  BY <1>1, LiveTypes DEF LiveInv, Barred
<1> QED BY <1>5, <1>7, <1>8, <1>9 DEF LiveInv
-----------------------------------------------------------------------------
\* A message of the host, once the polls are seen to.
LEMMA AnnounceKeeps ==
  ASSUME LiveInv, NEW kept \in Lesson, Announce(kept), PollsStand', lateVotes' \subseteq Polls
  PROVE  LiveInv'
<1> DEFINE n == board.given + 1
<1>1. /\ board.given < MaxMessages /\ lesson' = kept
      /\ board' = [board EXCEPT !.given = n, !.posted = @ \union {n}]
      /\ UNCHANGED <<process, room, votes, seat, visit, out>>
  BY DEF Announce
<1>2. board.given \in Nat /\ board.posted \subseteq 1..board.given /\ board.seen \subseteq board.posted
      /\ MaxMessages \in Nat /\ board \in Board
  BY LiveTypes DEF Board
<1>3. board'.given = n /\ board'.posted = board.posted \union {n} /\ board'.seen = board.seen
      /\ board' \in Board
  <2>1. n \in Nat /\ board.posted \union {n} \in SUBSET Nat
    BY <1>2 DEF Board
  <2> HIDE DEF n
  <2> QED BY <1>1, <1>2, <2>1 DEF Board
<1>4. n \in Nat /\ n <= MaxMessages /\ 1..board.given \subseteq 1..n /\ n \in 1..n
  BY <1>1, <1>2
<1>5. LiveTypeOK'
  BY <1>1, <1>2, <1>3, <1>4, LiveTypes, LiveTyped
<1>6. VisitsFit'
  <2>1. \A w \in Workers : visit[w].id \in Nat
    BY LiveTypes DEF Visit
  <2>2. \A w \in Workers : visit[w].id <= n
    BY <1>2, <2>1 DEF LiveInv, VisitsFit
  <2> QED BY <1>1, <1>3, <2>2 DEF LiveInv, VisitsFit
<1>7. Barred' /\ process' \in [Workers -> Processes]
  BY <1>1 DEF LiveInv, Barred
<1> QED BY <1>3, <1>5, <1>6, <1>7 DEF LiveInv

LEMMA ClassTurnsKeeps ==
  ASSUME LiveInv, StartClass \/ EndClass \/ HostMessage
  PROVE  LiveInv'
<1>1. \E kept \in Lesson : /\ Announce(kept) /\ lateVotes' = lateVotes
                          /\ kept.poll = lesson.poll /\ kept.announced = lesson.announced
                          /\ kept.open = lesson.open
  <2>0. lesson \in Lesson
    BY LiveTypes
  <2>1. CASE StartClass
    <3> DEFINE kept == [lesson EXCEPT !.ended = FALSE]
    <3>1. kept \in Lesson /\ kept.poll = lesson.poll /\ kept.announced = lesson.announced
           /\ kept.open = lesson.open
      BY <2>0 DEF Lesson
    <3> QED BY <2>1, <3>1 DEF StartClass
  <2>2. CASE EndClass
    <3> DEFINE kept == [lesson EXCEPT !.ended = TRUE]
    <3>1. kept \in Lesson /\ kept.poll = lesson.poll /\ kept.announced = lesson.announced
           /\ kept.open = lesson.open
      BY <2>0 DEF Lesson
    <3> QED BY <2>2, <3>1 DEF EndClass
  <2>3. CASE HostMessage
    BY <2>0, <2>3 DEF HostMessage
  <2> QED BY <2>1, <2>2, <2>3
<1>2. PICK kept \in Lesson : /\ Announce(kept) /\ lateVotes' = lateVotes
                            /\ kept.poll = lesson.poll /\ kept.announced = lesson.announced
                            /\ kept.open = lesson.open
  BY <1>1
<1>3. PollsStand'
  BY <1>2, PollsKept DEF Announce, LiveInv
<1>4. lateVotes' \subseteq Polls
  BY <1>2, LiveTypes
<1> QED BY <1>2, <1>3, <1>4, AnnounceKeeps

LEMMA StartPollKeeps ==
  ASSUME LiveInv, StartPoll
  PROVE  LiveInv'
<1> DEFINE kept == [lesson EXCEPT !.poll = @ + 1, !.open = TRUE]
<1>1. Announce(kept) /\ lateVotes' = lateVotes /\ lesson.poll < MaxPolls
  BY DEF StartPoll
<1>2. lesson.poll \in Nat /\ MaxPolls \in Nat /\ lesson.announced \in [Polls -> SUBSET SUBSET Pupils]
  BY LiveTypes DEF Lesson
<1>3. lesson.poll + 1 \in 0..MaxPolls /\ lesson.poll + 1 \in Polls
  BY <1>1, <1>2 DEF Polls
<1>4. kept \in Lesson /\ kept.poll = lesson.poll + 1 /\ kept.announced = lesson.announced
  BY <1>3, LiveTypes DEF Lesson
<1> HIDE DEF kept
<1>5. lesson' = kept /\ votes' = votes /\ visit' = visit
  BY <1>1 DEF Announce
<1>6. PollsStand'
  <2>1. \A w \in Workers : visit'[w].poll # 0 =>
           visit'[w].poll \in lateVotes' \/ lesson'.announced[visit'[w].poll] = {}
    BY <1>1, <1>4, <1>5 DEF LiveInv, PollsStand
  <2>2. \A k \in Polls : k > lesson.poll => lesson.announced[k] = {}
    BY DEF LiveInv, PollsStand
  <2>3. lesson'.poll # 0 /\ lesson'.announced[lesson'.poll] = {}
    BY <1>2, <1>3, <1>4, <1>5, <2>2
  <2>4. \A k \in Polls : k > lesson'.poll => lesson'.announced[k] = {}
    BY <1>2, <1>4, <1>5, <2>2 DEF Polls
  <2>5. TallyStands'
    BY <1>1, <1>4, <1>5 DEF LiveInv, PollsStand, TallyStands
  <2> QED BY <2>1, <2>3, <2>4, <2>5 DEF PollsStand
<1>7. lateVotes' \subseteq Polls
  BY <1>1, LiveTypes
<1> QED BY <1>1, <1>4, <1>6, <1>7, AnnounceKeeps

LEMMA ClosePollKeeps ==
  ASSUME LiveInv, ClosePoll
  PROVE  LiveInv'
<1> DEFINE i == lesson.poll
           kept == [lesson EXCEPT !.open = FALSE, !.announced[i] = {votes[i]}]
<1>1. /\ i # 0 /\ Announce(kept)
      /\ lateVotes' = lateVotes \union {k \in {i} : Voting(k) # {}}
  BY DEF ClosePoll
<1>2. i \in Polls /\ lesson.announced \in [Polls -> SUBSET SUBSET Pupils]
      /\ votes[i] \in SUBSET Pupils
  BY <1>1, LiveTypes DEF Lesson, Polls
<1>3. /\ kept \in Lesson /\ kept.poll = i /\ kept.open = FALSE
      /\ kept.announced = [lesson.announced EXCEPT ![i] = {votes[i]}]
  BY <1>2, LiveTypes DEF Lesson
<1>4. /\ kept.announced[i] = {votes[i]}
      /\ \A k \in Polls : k # i => kept.announced[k] = lesson.announced[k]
  BY <1>2, <1>3
<1> HIDE DEF kept
<1>5. lesson' = kept /\ votes' = votes /\ visit' = visit
  BY <1>1 DEF Announce
<1>6. ASSUME NEW w \in Workers, visit[w].poll # 0
      PROVE  visit[w].poll \in lateVotes' \/ kept.announced[visit[w].poll] = {}
  <2>1. visit[w].poll \in Polls
    BY <1>6, LiveTypes DEF Visit, Polls
  <2>2. CASE visit[w].poll = i
    BY <1>1, <2>2 DEF Voting
  <2>3. CASE visit[w].poll # i
    BY <1>1, <1>4, <1>6, <2>1, <2>3 DEF LiveInv, PollsStand
  <2> QED BY <2>2, <2>3
<1>7. \A k \in Polls : k > i => kept.announced[k] = {}
  <2> SUFFICES ASSUME NEW k \in Polls, k > i PROVE kept.announced[k] = {}
    OBVIOUS
  <2>1. k # i
    BY LiveTypes, <1>2 DEF Polls
  <2> QED BY <1>4, <2>1 DEF LiveInv, PollsStand
<1>8. \A k \in Polls \ lateVotes' : kept.announced[k] \subseteq {votes[k]}
  BY <1>1, <1>4 DEF LiveInv, PollsStand, TallyStands
<1>9. PollsStand'
  BY <1>3, <1>5, <1>6, <1>7, <1>8 DEF PollsStand, TallyStands
<1>10. lateVotes' \subseteq Polls
  BY <1>1, <1>2, LiveTypes
<1> QED BY <1>1, <1>3, <1>9, <1>10, AnnounceKeeps

LEMMA ReadMessagesKeeps ==
  ASSUME LiveInv, ReadMessages
  PROVE  LiveInv'
<1>1. /\ board' = [board EXCEPT !.seen = @ \union ReadOn(board)]
      /\ UNCHANGED <<process, room, lesson, votes, seat, visit, out, lateVotes>>
  BY DEF ReadMessages, lessonRows
<1>2. ReadOn(board) \subseteq board.posted
  BY DEF ReadOn
<1>3. /\ board'.given = board.given /\ board'.posted = board.posted
      /\ board'.seen \subseteq board'.posted /\ board' \in Board
  BY <1>1, <1>2, LiveTypes DEF Board
<1>4. LiveTypeOK'
  BY <1>1, <1>3, LiveTypes, LiveTyped
<1>5. VisitsFit' /\ Barred' /\ process' \in [Workers -> Processes]
  BY <1>1, <1>3 DEF LiveInv, VisitsFit, Barred
<1>6. PollsStand'
  BY <1>1, PollsKept DEF LiveInv
<1> QED BY <1>3, <1>4, <1>5, <1>6 DEF LiveInv
-----------------------------------------------------------------------------
\* To ask for access admits nobody the host has removed from the room.
LEMMA SeatedIs ==
  ASSUME NEW r \in Room, NEW s \in Pupils
  PROVE  /\ Seated(r, s) \in Room
         /\ \A t \in Pupils : r.place[t] = "removed" => Seated(r, s).place[t] = "removed"
         /\ Seated(r, s).place[s] = "admitted" => r.place[s] # "removed"
<1>1. r.place \in [Pupils -> Places] /\ r.gate \in BOOLEAN
  BY DEF Room
<1>2. Registered(r, s) \in Places /\ (r.place[s] = "removed" => Registered(r, s) = "removed")
  BY <1>1 DEF Registered, Places
<1> DEFINE q == [r.place EXCEPT ![s] = Registered(r, s)]
<1>3. Seated(r, s).place = q
  BY DEF Seated, Room
<1>4. q \in [Pupils -> Places] /\ q[s] = Registered(r, s)
      /\ \A t \in Pupils : t # s => q[t] = r.place[t]
  BY <1>1, <1>2
<1>5. Seated(r, s) \in Room
  BY <1>3, <1>4 DEF Seated, Room
<1>6. \A t \in Pupils : r.place[t] = "removed" => q[t] = "removed"
  BY <1>2, <1>4
<1>7. q[s] = "admitted" => r.place[s] # "removed"
  BY <1>2, <1>4
<1> HIDE DEF q
<1> QED BY <1>3, <1>5, <1>6, <1>7

LEMMA RoomServes ==
  ASSUME LiveInv, NEW p \in Processes, NEW s \in Pupils,
         room' = [room EXCEPT ![p] = Seated(room[p], s)], out' = out
  PROVE  room' \in [Processes -> Room] /\ Barred'
<1>1. room \in [Processes -> Room] /\ room[p] \in Room
  BY LiveTypes
<1>2. /\ Seated(room[p], s) \in Room
      /\ \A t \in Pupils : room[p].place[t] = "removed" => Seated(room[p], s).place[t] = "removed"
  BY <1>1, SeatedIs
<1>3. room' \in [Processes -> Room]
  BY <1>1, <1>2
<1>4. \A q \in Processes, t \in Pupils :
         room[q].place[t] = "removed" => room'[q].place[t] = "removed"
  BY <1>1, <1>2
<1>5. Barred'
  BY <1>4 DEF LiveInv, Barred
<1> QED BY <1>3, <1>5

\* Of a pupil's request: only who is admitted is set to be present.
LEMMA SeatForIs ==
  ASSUME NEW s, NEW op, NEW admitted \in BOOLEAN
  PROVE  /\ SeatFor(s, op, admitted).insert \in BOOLEAN
         /\ SeatFor(s, op, admitted).seat \in {"same", "away", "here"}
         /\ SeatFor(s, op, admitted).seat = "here" => admitted
  BY DEF SeatFor

LEMMA AskAccessKeeps ==
  ASSUME LiveInv, NEW w \in Workers, NEW s \in Pupils,
         NEW op \in {"join", "message", "hand", "vote"}, AskAccess(w, s, op)
  PROVE  LiveInv'
<1> DEFINE p == process[w]
           r == Seated(room[p], s)
           admitted == r.place[s] = "admitted"
           set == SeatFor(s, op, admitted)
           k == IF op = "vote" THEN lesson.poll ELSE 0
           v == [pupil |-> {s}, admitted |-> admitted, poll |-> k,
                 id |-> 0, insert |-> set.insert, seat |-> set.seat]
<1>1. /\ room' = [room EXCEPT ![p] = r] /\ visit' = [visit EXCEPT ![w] = v]
      /\ UNCHANGED <<process, lesson, votes, seat, board, out, lateVotes>>
  BY DEF AskAccess, Ask, lessonRows
<1>2. p \in Processes
  BY LiveTypes
<1>3. room' \in [Processes -> Room] /\ Barred'
  BY <1>1, <1>2, RoomServes
<1>4. admitted \in BOOLEAN
  OBVIOUS
<1>5. /\ set.insert \in BOOLEAN /\ set.seat \in {"same", "away", "here"}
      /\ set.seat = "here" => admitted
  <2> HIDE DEF admitted
  <2> QED BY <1>4, SeatForIs
<1>6. k \in 0..MaxPolls /\ 0 \in 0..MaxMessages
  BY LiveTypes DEF Lesson
<1>7. v \in Visit
  <2> HIDE DEF admitted, set, k
  <2> QED BY <1>4, <1>5, <1>6 DEF Visit
<1>8. v.id = 0 /\ v.poll = k /\ (v.seat = "here" => v.admitted)
  <2> HIDE DEF admitted, set, k
  <2> QED BY <1>5
<1>9. op = "vote" => lesson.open
  BY DEF AskAccess, Permitted, PollOpen
<1>10. k # 0 => lesson.announced[k] = {}
  BY <1>9 DEF LiveInv, PollsStand
<1> HIDE DEF r, v, k
<1>11. visit \in [Workers -> Visit]
  BY LiveTypes
<1>12. /\ visit' \in [Workers -> Visit] /\ visit'[w] = v
       /\ \A u \in Workers : u # w => visit'[u] = visit[u]
  BY <1>1, <1>7, <1>11
<1>13. LiveTypeOK'
  BY <1>1, <1>3, <1>12, LiveTypes, LiveTyped
<1>14. board'.given = board.given /\ board.given \in Nat
  BY <1>1, LiveTypes DEF Board
<1>15. VisitsFit'
  BY <1>8, <1>12, <1>14 DEF LiveInv, VisitsFit
<1>16. PollsStand'
  <2>1. \A u \in Workers : visit'[u].poll # 0 =>
           visit'[u].poll \in lateVotes' \/ lesson'.announced[visit'[u].poll] = {}
    BY <1>1, <1>8, <1>10, <1>12 DEF LiveInv, PollsStand
  <2> QED BY <1>1, <2>1 DEF LiveInv, PollsStand, TallyStands
<1>17. process' \in [Workers -> Processes] /\ board' \in Board
  BY <1>1 DEF LiveInv
<1> QED BY <1>3, <1>13, <1>15, <1>16, <1>17 DEF LiveInv

LEMMA RefuseKeeps ==
  ASSUME LiveInv, NEW w \in Workers, NEW s \in Pupils, Refuse(w, s)
  PROVE  LiveInv'
<1>1. process[w] \in Processes /\ room \in [Processes -> Room]
  BY LiveTypes
<1>2. /\ room' = [room EXCEPT ![process[w]] = Seated(room[process[w]], s)]
      /\ UNCHANGED <<process, lesson, votes, seat, board, visit, out, lateVotes>>
  BY <1>1 DEF Refuse, lessonRows
<1>3. room' \in [Processes -> Room] /\ Barred'
  BY <1>1, <1>2, RoomServes
<1>4. LiveTypeOK'
  BY <1>2, <1>3, LiveTypes, LiveTyped
<1>5. PollsStand'
  BY <1>2, PollsKept DEF LiveInv
<1> QED BY <1>2, <1>3, <1>4, <1>5 DEF LiveInv, VisitsFit

LEMMA SeeRoomKeeps ==
  ASSUME LiveInv, NEW w \in Workers, NEW s \in Pupils, SeeRoom(w, s)
  PROVE  LiveInv'
<1> DEFINE r == Seated(room[process[w]], s)
<1>1. process[w] \in Processes /\ seat \in [Pupils -> Seats]
  BY LiveTypes
<1>2. /\ room' = [room EXCEPT ![process[w]] = r]
      /\ seat' = [seat EXCEPT ![s] = SeenSeat(r, s)]
      /\ UNCHANGED <<process, lesson, votes, board, visit, out, lateVotes>>
  BY DEF SeeRoom
<1>3. room' \in [Processes -> Room] /\ Barred'
  BY <1>1, <1>2, RoomServes
<1>4. SeenSeat(r, s) \in Seats
  BY DEF SeenSeat, Seats
<1> HIDE DEF r
<1>5. seat' \in [Pupils -> Seats]
  BY <1>1, <1>2, <1>4
<1>6. LiveTypeOK'
  BY <1>2, <1>3, <1>5, LiveTypes, LiveTyped
<1>7. PollsStand'
  BY <1>2, PollsKept DEF LiveInv
<1> QED BY <1>2, <1>3, <1>6, <1>7 DEF LiveInv, VisitsFit

\* A request ends, or begins to leave.
LEMMA QuietVisitKeeps ==
  ASSUME LiveInv, NEW w \in Workers, NEW v \in Visit, visit' = [visit EXCEPT ![w] = v],
         v.id = 0, v.poll = 0, v.seat # "here",
         UNCHANGED <<process, room, lesson, votes, seat, board, out, lateVotes>>
  PROVE  LiveInv'
<1>1. /\ visit' \in [Workers -> Visit] /\ visit'[w] = v
      /\ \A u \in Workers : u # w => visit'[u] = visit[u]
  BY LiveTypes
<1>2. LiveTypeOK'
  BY <1>1, LiveTypes, LiveTyped
<1>3. board'.given = board.given /\ board.given \in Nat
  BY LiveTypes DEF Board
<1>4. VisitsFit'
  BY <1>1, <1>3 DEF LiveInv, VisitsFit
<1>5. PollsStand'
  BY <1>1, PollsKept DEF LiveInv
<1> QED BY <1>2, <1>4, <1>5 DEF LiveInv, Barred

LEMMA LeaveKeeps ==
  ASSUME LiveInv, NEW w \in Workers, NEW s \in Pupils, Leave(w, s)
  PROVE  LiveInv'
<1> DEFINE v == [NoVisit EXCEPT !.pupil = {s}, !.seat = IF seat[s] = "here" THEN "away" ELSE "same"]
<1>1. v \in Visit /\ v.id = 0 /\ v.poll = 0 /\ v.seat # "here"
  BY NoVisitIs DEF Visit
<1>2. visit' = [visit EXCEPT ![w] = v]
      /\ UNCHANGED <<process, room, lesson, votes, seat, board, out, lateVotes>>
  BY DEF Leave, lessonRows
<1> HIDE DEF v
<1> QED BY <1>1, <1>2, QuietVisitKeeps

LEMMA RollBackKeeps ==
  ASSUME LiveInv, NEW w \in Workers, RollBack(w)
  PROVE  LiveInv'
<1>1. visit' = [visit EXCEPT ![w] = NoVisit]
      /\ UNCHANGED <<process, room, lesson, votes, seat, board, out, lateVotes>>
  BY DEF RollBack, lessonRows
<1> QED BY <1>1, NoVisitIs, QuietVisitKeeps

LEMMA FlushKeeps ==
  ASSUME LiveInv, NEW w \in Workers, Flush(w)
  PROVE  LiveInv'
<1> DEFINE n == board.given + 1
<1>1. /\ board.given < MaxMessages /\ board' = [board EXCEPT !.given = n]
      /\ visit' = [visit EXCEPT ![w].id = n]
      /\ UNCHANGED <<process, room, lesson, votes, seat, out, lateVotes>>
  BY DEF Flush, lessonRows
<1>2. board.given \in Nat /\ MaxMessages \in Nat /\ board \in Board
      /\ board.posted \subseteq 1..board.given /\ board.seen \subseteq board.posted
  BY LiveTypes DEF Board
<1>3. n \in Nat /\ n <= MaxMessages /\ n \in 0..MaxMessages /\ 1..board.given \subseteq 1..n
  BY <1>1, <1>2
<1>4. visit \in [Workers -> Visit] /\ visit[w] \in Visit
  BY LiveTypes
<1> HIDE DEF n
<1>5. board' \in Board /\ board'.given = n /\ board'.posted = board.posted
      /\ board'.seen = board.seen
  BY <1>1, <1>2, <1>3 DEF Board
<1>6. [visit[w] EXCEPT !.id = n] \in Visit
  BY <1>3, <1>4 DEF Visit
<1>7. /\ visit' \in [Workers -> Visit]
      /\ visit'[w] = [visit[w] EXCEPT !.id = n]
      /\ \A u \in Workers : u # w => visit'[u] = visit[u]
  BY <1>1, <1>4, <1>6
<1>8. /\ visit'[w].id = n /\ visit'[w].seat = visit[w].seat
      /\ visit'[w].admitted = visit[w].admitted /\ visit'[w].poll = visit[w].poll
  BY <1>4, <1>7 DEF Visit
<1>9. LiveTypeOK'
  BY <1>1, <1>2, <1>3, <1>5, <1>7, LiveTypes, LiveTyped
<1>10. VisitsFit'
  <2>1. \A u \in Workers : visit[u].id \in Nat /\ visit[u].id <= board.given
    BY LiveTypes DEF Visit, LiveInv, VisitsFit
  <2>2. \A u \in Workers : visit[u].id <= n
    BY <1>2, <2>1 DEF n
  <2>3. visit'[w].id <= board'.given
    BY <1>3, <1>5, <1>8
  <2>4. \A u \in Workers : u # w => visit'[u].id <= board'.given
    BY <1>5, <1>7, <2>2
  <2>5. \A u \in Workers : visit'[u].seat = "here" => visit'[u].admitted
    BY <1>7, <1>8 DEF LiveInv, VisitsFit
  <2> QED BY <2>3, <2>4, <2>5 DEF VisitsFit
<1>11. PollsStand'
  BY <1>1, <1>7, <1>8, PollsKept DEF LiveInv
<1> QED BY <1>1, <1>5, <1>9, <1>10, <1>11 DEF LiveInv, Barred
LEMMA PostKeeps ==
  ASSUME LiveInv, NEW w \in Workers, Post(w)
  PROVE  LiveInv'
<1> DEFINE v == visit[w]
<1>1. /\ v.id # 0
      /\ seat' = [s \in Pupils |-> IF s \in v.pupil /\ v.seat # "same" THEN v.seat ELSE seat[s]]
      /\ votes' = IF v.poll = 0 THEN votes ELSE [votes EXCEPT ![v.poll] = @ \union v.pupil]
      /\ board' = [board EXCEPT !.posted = @ \union {v.id}]
      /\ visit' = [visit EXCEPT ![w] = NoVisit]
      /\ UNCHANGED <<process, room, lesson, out, lateVotes>>
  BY DEF Post
<1>2. /\ v \in Visit /\ v.id \in Nat /\ v.id <= board.given /\ v.poll \in 0..MaxPolls
      /\ v.pupil \subseteq Pupils /\ v.seat \in {"same", "away", "here"}
      /\ visit \in [Workers -> Visit]
  BY LiveTypes DEF Visit, LiveInv, VisitsFit
<1>3. board.given \in Nat /\ board \in Board /\ MaxPolls \in Nat
      /\ board.posted \subseteq 1..board.given /\ board.seen \subseteq board.posted
  BY LiveTypes DEF Board
<1> HIDE DEF v
<1>4. v.id \in 1..board.given
  BY <1>1, <1>2, <1>3
<1>5. /\ board' \in Board /\ board'.given = board.given /\ board'.seen = board.seen
      /\ board'.posted = board.posted \union {v.id}
  BY <1>1, <1>2, <1>3 DEF Board
<1>6. seat' \in [Pupils -> Seats]
  BY <1>1, <1>2, LiveTypes DEF Seats
<1>7. votes' \in [Polls -> SUBSET Pupils] /\ \A k \in Polls : k # v.poll => votes'[k] = votes[k]
  <2>1. votes \in [Polls -> SUBSET Pupils]
    BY LiveTypes
  <2>2. CASE v.poll = 0
    BY <1>1, <2>1, <2>2
  <2>3. CASE v.poll # 0
    <3>1. v.poll \in Polls
      BY <1>2, <1>3, <2>3 DEF Polls
    <3>2. votes' = [votes EXCEPT ![v.poll] = votes[v.poll] \union v.pupil]
      BY <1>1, <2>3
    <3> QED BY <1>2, <2>1, <3>1, <3>2
  <2> QED BY <2>2, <2>3
<1>8. /\ visit' \in [Workers -> Visit] /\ visit'[w] = NoVisit
      /\ \A u \in Workers : u # w => visit'[u] = visit[u]
  BY <1>1, <1>2, NoVisitIs
<1>9. LiveTypeOK'
  BY <1>1, <1>3, <1>4, <1>5, <1>6, <1>7, <1>8, LiveTypes, LiveTyped
<1>10. VisitsFit'
  BY <1>3, <1>5, <1>8, NoVisitIs DEF LiveInv, VisitsFit
<1>11. PollsStand'
  <2>1. \A u \in Workers : visit'[u].poll # 0 =>
           visit'[u].poll \in lateVotes' \/ lesson'.announced[visit'[u].poll] = {}
    BY <1>1, <1>8, NoVisitIs DEF LiveInv, PollsStand
  <2>2. ASSUME NEW k \in Polls \ lateVotes'
        PROVE  lesson'.announced[k] \subseteq {votes'[k]}
    <3>1. CASE k = v.poll
      <4>1. k # 0
        BY <1>3 DEF Polls
      <4>2. lesson.announced[k] = {}
        BY <1>1, <2>2, <3>1, <4>1 DEF LiveInv, PollsStand, v
      <4> QED BY <1>1, <4>2
    <3>2. CASE k # v.poll
      BY <1>1, <1>7, <3>2 DEF LiveInv, PollsStand, TallyStands
    <3> QED BY <3>1, <3>2
  <2> QED BY <1>1, <2>1, <2>2 DEF LiveInv, PollsStand, TallyStands
<1> QED BY <1>1, <1>5, <1>9, <1>10, <1>11 DEF LiveInv, Barred

LEMMA StaffedAre ==
  ASSUME LiveInv
  PROVE  Staffed \subseteq Processes
  BY LiveTypes DEF Staffed

LEMMA LiveStep ==
  ASSUME LiveInv, LiveNext
  PROVE  LiveInv'
<1>1. CASE StartClass \/ EndClass \/ StartPoll \/ ClosePoll \/ HostMessage \/ ReadMessages
  BY <1>1, ClassTurnsKeeps, StartPollKeeps, ClosePollKeeps, ReadMessagesKeeps
<1>2. ASSUME NEW p \in Staffed,
             \/ \E s \in Pupils : Admit(p, s) \/ Remove(p, s)
             \/ \E gate \in BOOLEAN : SetGate(p, gate)
             \/ ProcessEnds(p)
      PROVE  LiveInv'
  <2>1. p \in Processes
    BY <1>2, StaffedAre
  <2>2. CASE \E s \in Pupils : Admit(p, s) \/ Remove(p, s)
    BY <2>1, <2>2, AdmitKeeps, RemoveKeeps
  <2>3. CASE \E gate \in BOOLEAN : SetGate(p, gate)
    <3>1. PICK gate \in BOOLEAN : SetGate(p, gate)
      BY <2>3, Zenon
    <3> QED BY <2>1, <3>1, SetGateKeeps
  <2>4. CASE ProcessEnds(p)
    BY <2>1, <2>4, ProcessEndsKeeps
  <2> QED BY <1>2, <2>2, <2>3, <2>4
<1>3. ASSUME NEW w \in Workers,
             \/ \E s \in Pupils :
                  \/ \E op \in {"join", "message", "hand", "vote"} :
                        AskAccess(w, s, op) \/ AskInVain(w, s, op)
                  \/ Leave(w, s) \/ ListClasses(w, s) \/ SeeRoom(w, s)
             \/ Flush(w) \/ Post(w) \/ RollBack(w)
      PROVE  LiveInv'
  <2>1. ASSUME NEW s \in Pupils, NEW op \in {"join", "message", "hand", "vote"},
               AskAccess(w, s, op) \/ AskInVain(w, s, op)
        PROVE  LiveInv'
    BY <2>1, AskAccessKeeps, RefuseKeeps DEF AskInVain
  <2>2. ASSUME NEW s \in Pupils, Leave(w, s) \/ ListClasses(w, s) \/ SeeRoom(w, s)
        PROVE  LiveInv'
    BY <2>2, LeaveKeeps, RefuseKeeps, SeeRoomKeeps DEF ListClasses
  <2>3. CASE Flush(w) \/ Post(w) \/ RollBack(w)
    BY <2>3, FlushKeeps, PostKeeps, RollBackKeeps
  <2> QED BY <1>3, <2>1, <2>2, <2>3
<1> QED BY <1>1, <1>2, <1>3 DEF LiveNext

LEMMA LiveStutter ==
  ASSUME LiveInv, UNCHANGED liveVars
  PROVE  LiveInv'
<1>1. UNCHANGED <<process, room, lesson, votes, seat, board, visit, out, lateVotes>>
  BY DEF liveVars, lessonRows
<1> QED BY <1>1 DEF LiveInv, LiveTypeOK, VisitsFit, PollsStand, TallyStands, Barred

LEMMA LiveInvHolds ==
  ASSUME LiveInv
  PROVE  LiveTypeOK /\ TallyStands
  BY DEF LiveInv, PollsStand

-----------------------------------------------------------------------------
\* Only a page that reads has more messages, and it has all it asked for.
LEMMA OthersReadNothing ==
  ASSUME LiveInv, LiveNext \/ UNCHANGED liveVars
  PROVE  \/ ReadMessages
         \/ board'.seen = board.seen
<1>1. board \in Board
  BY LiveTypes
<1>2. CASE UNCHANGED liveVars
  BY <1>2 DEF liveVars
<1>3. CASE StartClass \/ EndClass \/ StartPoll \/ ClosePoll \/ HostMessage
  <2>1. PICK kept : Announce(kept)
    BY <1>3 DEF StartClass, EndClass, StartPoll, ClosePoll, HostMessage
  <2> QED BY <1>1, <2>1 DEF Announce, Board
<1>4. ASSUME NEW p \in Staffed,
             \/ \E s \in Pupils : Admit(p, s) \/ Remove(p, s)
             \/ \E gate \in BOOLEAN : SetGate(p, gate)
             \/ ProcessEnds(p)
      PROVE  board' = board
  BY <1>4 DEF Admit, Remove, SetGate, HostActs, ProcessEnds
<1>5. ASSUME NEW w \in Workers,
             \/ \E s \in Pupils :
                  \/ \E op \in {"join", "message", "hand", "vote"} :
                        AskAccess(w, s, op) \/ AskInVain(w, s, op)
                  \/ Leave(w, s) \/ ListClasses(w, s) \/ SeeRoom(w, s)
             \/ RollBack(w)
      PROVE  board' = board
  BY <1>5 DEF AskAccess, Ask, AskInVain, Refuse, Leave, ListClasses, SeeRoom, RollBack
<1>6. ASSUME NEW w \in Workers, Flush(w) \/ Post(w)
      PROVE  board'.seen = board.seen
  BY <1>1, <1>6 DEF Flush, Post, Board
<1>7. CASE ReadMessages
  BY <1>7
<1> QED BY <1>2, <1>3, <1>4, <1>5, <1>6, <1>7 DEF LiveNext

\* A step loses no message that a page could have been sent.
LEMMA MessagesSeenStep ==
  ASSUME LiveInv, [LiveNext]_liveVars
  PROVE  Missed(board') \intersect board.posted \subseteq Missed(board)
<1>1. CASE board'.seen = board.seen
  BY <1>1 DEF Missed, After
<1>2. CASE ReadMessages
  <2>1. board'.seen = board.seen \union ReadOn(board)
    BY <1>2, LiveTypes DEF ReadMessages, Board
  <2>2. ASSUME NEW m \in board.posted, m \notin board'.seen
        PROVE  m \in Missed(board)
    BY <2>1, <2>2 DEF Missed, ReadOn
  <2> QED BY <2>2 DEF Missed
<1> QED BY <1>1, <1>2, OthersReadNothing
-----------------------------------------------------------------------------
\* A step serves nobody the host has removed, and shows him to nobody.
ServesAdmitted == \A w \in Workers : (visit'[w].admitted /\ ~visit[w].admitted) =>
    \A s \in visit'[w].pupil : <<process[w], s>> \notin out

ShowsAdmitted == \A s \in Roster' \ Roster :
    \/ \E p \in Processes : room'[p].place[s] = "admitted" /\ <<p, s>> \notin out
    \/ \E w \in Workers : visit[w].admitted /\ s \in visit[w].pupil

LEMMA NobodyNew ==
  ASSUME seat' = seat
  PROVE  ShowsAdmitted
  BY DEF ShowsAdmitted, Roster

LEMMA NobodyServed ==
  ASSUME \A w \in Workers : visit'[w].admitted => visit[w].admitted
  PROVE  ServesAdmitted
  BY DEF ServesAdmitted

\* Who is admitted where he asks has not been removed there.
LEMMA AdmittedIsIn ==
  ASSUME LiveInv, NEW p \in Processes, NEW s \in Pupils,
         Seated(room[p], s).place[s] = "admitted"
  PROVE  <<p, s>> \notin out
<1>1. room[p] \in Room
  BY LiveTypes
<1>2. room[p].place[s] # "removed"
  BY <1>1, SeatedIs
<1> QED BY <1>2 DEF LiveInv, Barred

LEMMA AskServes ==
  ASSUME LiveInv, NEW w \in Workers, NEW s \in Pupils,
         NEW op \in {"join", "message", "hand", "vote"}, AskAccess(w, s, op)
  PROVE  ServesAdmitted /\ ShowsAdmitted
<1> DEFINE p == process[w]
           r == Seated(room[p], s)
           admitted == r.place[s] = "admitted"
           set == SeatFor(s, op, admitted)
           v == [pupil |-> {s}, admitted |-> admitted,
                 poll |-> IF op = "vote" THEN lesson.poll ELSE 0,
                 id |-> 0, insert |-> set.insert, seat |-> set.seat]
<1>1. visit' = [visit EXCEPT ![w] = v] /\ seat' = seat
  BY DEF AskAccess, Ask, lessonRows
<1>2. v.pupil = {s} /\ (v.admitted <=> admitted)
  <2> HIDE DEF admitted, set
  <2> QED OBVIOUS
<1>3. p \in Processes
  BY LiveTypes
<1>4. admitted => <<p, s>> \notin out
  BY <1>3, AdmittedIsIn
<1> HIDE DEF admitted, v
<1>5. /\ visit'[w] = v /\ \A u \in Workers : u # w => visit'[u] = visit[u]
  BY <1>1, LiveTypes
<1>6. ServesAdmitted
  BY <1>2, <1>4, <1>5 DEF ServesAdmitted
<1> QED BY <1>1, <1>6, NobodyNew

LEMMA SeeRoomShows ==
  ASSUME LiveInv, NEW w \in Workers, NEW s \in Pupils, SeeRoom(w, s)
  PROVE  ServesAdmitted /\ ShowsAdmitted
<1> DEFINE p == process[w]  r == Seated(room[p], s)
<1>1. /\ room' = [room EXCEPT ![p] = r] /\ seat' = [seat EXCEPT ![s] = SeenSeat(r, s)]
      /\ visit' = visit
  BY DEF SeeRoom
<1>2. p \in Processes /\ room \in [Processes -> Room] /\ seat \in [Pupils -> Seats]
  BY LiveTypes
<1>3. SeenSeat(r, s) = "here" => r.place[s] = "admitted"
  BY DEF SeenSeat
<1>4. r.place[s] = "admitted" => <<p, s>> \notin out
  BY <1>2, AdmittedIsIn
<1> HIDE DEF r
<1>5. room'[p] = r /\ seat'[s] = SeenSeat(r, s)
      /\ \A t \in Pupils : t # s => seat'[t] = seat[t]
  BY <1>1, <1>2
<1>6. ASSUME NEW t \in Pupils, t \in Roster' \ Roster
      PROVE  \E q \in Processes : room'[q].place[t] = "admitted" /\ <<q, t>> \notin out
  <2>1. seat'[t] = "here" /\ seat[t] # "here"
    BY <1>6 DEF Roster
  <2>2. t = s /\ SeenSeat(r, s) = "here"
    BY <1>5, <2>1
  <2> QED BY <1>2, <1>3, <1>4, <1>5, <2>2
<1>7. ShowsAdmitted
  BY <1>6 DEF ShowsAdmitted, Roster
<1>8. ServesAdmitted
  BY <1>1, NobodyServed
<1> QED BY <1>7, <1>8

LEMMA PostShows ==
  ASSUME LiveInv, NEW w \in Workers, Post(w)
  PROVE  ServesAdmitted /\ ShowsAdmitted
<1> DEFINE v == visit[w]
<1>1. /\ seat' = [s \in Pupils |-> IF s \in v.pupil /\ v.seat # "same" THEN v.seat ELSE seat[s]]
      /\ visit' = [visit EXCEPT ![w] = NoVisit]
  BY DEF Post
<1>2. v.seat = "here" => v.admitted
  BY DEF LiveInv, VisitsFit
<1>3. /\ visit'[w] = NoVisit /\ \A u \in Workers : u # w => visit'[u] = visit[u]
  BY <1>1, LiveTypes
<1>4. ServesAdmitted
  BY <1>3, NoVisitIs, NobodyServed
<1>5. ASSUME NEW s \in Pupils, s \in Roster' \ Roster
      PROVE  v.admitted /\ s \in v.pupil
  BY <1>1, <1>2, <1>5 DEF Roster
<1>6. ShowsAdmitted
  BY <1>5 DEF ShowsAdmitted, Roster
<1> QED BY <1>4, <1>6

LEMMA RemovedStayOutStep ==
  ASSUME LiveInv, [LiveNext]_liveVars
  PROVE  ServesAdmitted /\ ShowsAdmitted
<1>0. visit \in [Workers -> Visit] /\ NoVisit.admitted = FALSE
  BY LiveTypes, NoVisitIs
<1>1. CASE UNCHANGED liveVars
  BY <1>1, NobodyNew, NobodyServed DEF liveVars, lessonRows
<1>2. CASE StartClass \/ EndClass \/ StartPoll \/ ClosePoll \/ HostMessage \/ ReadMessages
  <2>1. seat' = seat /\ visit' = visit
    BY <1>2 DEF StartClass, EndClass, StartPoll, ClosePoll, HostMessage, Announce, ReadMessages,
                lessonRows
  <2> QED BY <2>1, NobodyNew, NobodyServed
<1>3. ASSUME NEW p \in Staffed,
             \/ \E s \in Pupils : Admit(p, s) \/ Remove(p, s)
             \/ \E gate \in BOOLEAN : SetGate(p, gate)
      PROVE  ServesAdmitted /\ ShowsAdmitted
  <2>1. seat' = seat /\ visit' = visit
    BY <1>3 DEF Admit, Remove, SetGate, HostActs, lessonRows
  <2> QED BY <2>1, NobodyNew, NobodyServed
<1>4. ASSUME NEW p \in Staffed, ProcessEnds(p)
      PROVE  ServesAdmitted /\ ShowsAdmitted
  <2>1. seat' = seat
        /\ visit' = [w \in Workers |-> IF process[w] = p THEN NoVisit ELSE visit[w]]
    BY <1>4 DEF ProcessEnds, lessonRows
  <2>2. \A w \in Workers : visit'[w].admitted => visit[w].admitted
    BY <1>0, <2>1
  <2> QED BY <2>1, <2>2, NobodyNew, NobodyServed
<1>5. ASSUME NEW w \in Workers, NEW s \in Pupils, NEW op \in {"join", "message", "hand", "vote"},
             AskInVain(w, s, op)
      PROVE  ServesAdmitted /\ ShowsAdmitted
  <2>1. seat' = seat /\ visit' = visit
    BY <1>5 DEF AskInVain, Refuse, lessonRows
  <2> QED BY <2>1, NobodyNew, NobodyServed
<1>6. ASSUME NEW w \in Workers, NEW s \in Pupils, Leave(w, s) \/ ListClasses(w, s)
      PROVE  ServesAdmitted /\ ShowsAdmitted
  <2>1. CASE Leave(w, s)
    <3> DEFINE v == [NoVisit EXCEPT !.pupil = {s},
                                    !.seat = IF seat[s] = "here" THEN "away" ELSE "same"]
    <3>1. v.admitted = FALSE
      BY DEF NoVisit
    <3>2. seat' = seat /\ visit' = [visit EXCEPT ![w] = v]
      BY <2>1 DEF Leave, lessonRows
    <3> HIDE DEF v
    <3>3. \A u \in Workers : visit'[u].admitted => visit[u].admitted
      BY <1>0, <3>1, <3>2
    <3> QED BY <3>2, <3>3, NobodyNew, NobodyServed
  <2>2. CASE ListClasses(w, s)
    <3>1. seat' = seat /\ visit' = visit
      BY <2>2 DEF ListClasses, Refuse, lessonRows
    <3> QED BY <3>1, NobodyNew, NobodyServed
  <2> QED BY <1>6, <2>1, <2>2
<1>7. ASSUME NEW w \in Workers, Flush(w) \/ RollBack(w)
      PROVE  ServesAdmitted /\ ShowsAdmitted
  <2>1. seat' = seat
    BY <1>7 DEF Flush, RollBack, lessonRows
  <2>2. CASE Flush(w)
    <3>1. visit' = [visit EXCEPT ![w].id = board.given + 1]
      BY <2>2 DEF Flush
    <3>2. visit'[w].admitted = visit[w].admitted /\ \A u \in Workers : u # w => visit'[u] = visit[u]
      BY <1>0, <3>1 DEF Visit
    <3> QED BY <2>1, <3>2, NobodyNew, NobodyServed
  <2>3. CASE RollBack(w)
    <3>1. visit' = [visit EXCEPT ![w] = NoVisit]
      BY <2>3 DEF RollBack
    <3>2. \A u \in Workers : visit'[u].admitted => visit[u].admitted
      BY <1>0, <3>1
    <3> QED BY <2>1, <3>2, NobodyNew, NobodyServed
  <2> QED BY <1>7, <2>2, <2>3
<1>8. CASE LiveNext
  BY <1>2, <1>3, <1>4, <1>5, <1>6, <1>7, <1>8, AskServes, SeeRoomShows, PostShows DEF LiveNext
<1> QED BY <1>1, <1>8
-----------------------------------------------------------------------------
(* The video of a stream course. *)

\* What a request is about to leave of the row it has loaded.
OutStatus(t) == IF "status" \in DOMAIN t.set THEN t.set["status"] ELSE t.seen.status
OutReady(t) == IF "ready" \in DOMAIN t.set THEN t.set["ready"] ELSE t.seen.ready

\* A request that nobody preceded has loaded the row as it is.  What it stores
\* is ready only if a body has been encoded, and takes that back only if
\* another body was sent.
TaskFits(t) ==
    /\ DOMAIN t = {"op", "seen", "set", "late"}
    /\ t.op \in {"none", "init", "body", "ask", "store"}
    /\ t.seen \in Video /\ t.late \in BOOLEAN
    /\ t.seen.ready => encoded
    /\ t.op = "store" =>
         /\ OutStatus(t) \in States /\ OutReady(t) \in BOOLEAN
         /\ OutStatus(t) = "ready" => OutReady(t)
         /\ OutReady(t) => encoded
         /\ t.seen.ready /\ ~OutReady(t) => bodies > 1
    /\ t.op \in {"body", "ask", "store"} /\ ~t.late => t.seen = video
    /\ t.op = "body" => made = "video"

StreamInv ==
    /\ StreamTypeOK
    /\ DOMAIN maker = Makers /\ \A m \in Makers : TaskFits(maker[m])
    /\ made # "video" => service = "none" /\ bodies = 0 /\ ~encoded
    /\ service = "encoded" => encoded
    /\ service \in {"encoding", "encoded"} => bodies > 0
    /\ encoded => bodies > 0
    /\ encoded /\ service # "encoded" => bodies > 1
    /\ "ready" \in hooks => encoded
    /\ ReadyIsEncoded

LEMMA VideoFields ==
  ASSUME NEW v \in Video
  PROVE  v.status \in States /\ v.ready \in BOOLEAN /\ DOMAIN v = {"status", "ready"}
  BY DEF Video

LEMMA BodiesAre ==
  ASSUME StreamTypeOK
  PROVE  bodies \in Nat /\ MaxBodies \in Nat /\ bodies <= MaxBodies
  BY StreamVideoAssumption DEF StreamTypeOK

LEMMA NoTaskIs ==
  /\ DOMAIN NoTask = {"op", "seen", "set", "late"}
  /\ NoTask.op = "none" /\ NoTask.seen = Fresh /\ NoTask.late = FALSE
  /\ DOMAIN NoTask.set = {}
  /\ Fresh \in Video /\ Fresh.ready = FALSE /\ Fresh.status = "pending"
<1>1. Fresh \in Video /\ Fresh.ready = FALSE /\ Fresh.status = "pending"
  BY DEF Fresh, Video, States
<1>2. DOMAIN NoChanges = {}
  BY DEF NoChanges
<1> QED BY <1>1, <1>2 DEF NoTask

LEMMA NoTaskFits == TaskFits(NoTask)
  BY NoTaskIs DEF TaskFits

\* A task stays what it is while the row does, and what it rests on grows.
LEMMA TaskStays ==
  ASSUME NEW t, TaskFits(t), video' = video, encoded => encoded', bodies > 1 => bodies' > 1,
         made = "video" => made' = "video"
  PROVE  TaskFits(t)'
  BY DEF TaskFits, OutStatus, OutReady

\* One request goes on; the others, and the row, stay.
LEMMA TasksKept ==
  ASSUME StreamInv, NEW m \in Makers, NEW t, maker' = [maker EXCEPT ![m] = t],
         video' = video, encoded => encoded', bodies > 1 => bodies' > 1,
         made = "video" => made' = "video", TaskFits(t)'
  PROVE  DOMAIN maker' = Makers /\ \A n \in Makers : TaskFits(maker[n])'
<1>1. DOMAIN maker = Makers /\ \A n \in Makers : TaskFits(maker[n])
  BY DEF StreamInv
<1>2. /\ DOMAIN maker' = Makers /\ maker'[m] = t
      /\ \A n \in Makers : n # m => maker'[n] = maker[n]
  BY <1>1
<1>3. ASSUME NEW n \in Makers
      PROVE  TaskFits(maker[n])'
  <2>1. CASE n = m
    BY <1>2, <2>1 DEF TaskFits, OutStatus, OutReady
  <2>2. CASE n # m
    <3> DEFINE r == maker[n]
    <3>1. TaskFits(r)
      BY <1>1
    <3>2. maker'[n] = maker[n]
      BY <1>2, <2>2
    <3>3. \A s : TaskFits(s) => TaskFits(s)'
      BY TaskStays
    <3> QED BY <3>1, <3>2, <3>3 DEF TaskFits, OutStatus, OutReady
  <2> QED BY <2>1, <2>2
<1> QED BY <1>2, <1>3

\* A request that does nothing to the rest of what is known.
LEMMA TaskTurnKeeps ==
  ASSUME StreamInv, NEW m \in Makers, NEW t, maker' = [maker EXCEPT ![m] = t], TaskFits(t),
         UNCHANGED <<made, video, service, hooks, bodies, encoded, mingled>>
  PROVE  StreamInv'
<1>1. TaskFits(t)'
  BY TaskStays
<1>2. DOMAIN maker' = Makers /\ \A n \in Makers : TaskFits(maker[n])'
  BY <1>1, TasksKept
<1>3. StreamTypeOK'
  BY DEF StreamInv, StreamTypeOK
<1> QED BY <1>2, <1>3 DEF StreamInv, ReadyIsEncoded

LEMMA StreamStart == StreamInit => StreamInv
<1> SUFFICES ASSUME StreamInit PROVE StreamInv
  OBVIOUS
<1>1. /\ made = "nothing" /\ video = Fresh /\ service = "none" /\ hooks = {}
      /\ maker = [m \in Makers |-> NoTask] /\ bodies = 0 /\ encoded = FALSE /\ mingled = FALSE
  BY DEF StreamInit
<1>2. 0 \in 0..MaxBodies
  BY StreamVideoAssumption
<1>3. StreamTypeOK
  BY <1>1, <1>2, NoTaskIs DEF StreamTypeOK
<1>4. DOMAIN maker = Makers /\ \A m \in Makers : TaskFits(maker[m])
  BY <1>1, NoTaskFits
<1> QED BY <1>1, <1>3, <1>4, NoTaskIs DEF StreamInv, ReadyIsEncoded

LEMMA MakingKeeps ==
  ASSUME StreamInv, CreateCourse \/ CreateLesson
  PROVE  StreamInv'
<1>1. /\ made # "video" /\ made' \in {"course", "lesson"}
      /\ UNCHANGED <<video, service, hooks, maker, bodies, encoded, mingled>>
  BY DEF CreateCourse, CreateLesson
<1>2. \A m \in Makers : TaskFits(maker[m])'
  BY <1>1 DEF StreamInv, TaskFits, OutStatus, OutReady
<1>3. StreamTypeOK'
  BY <1>1 DEF StreamInv, StreamTypeOK
<1> QED BY <1>1, <1>2, <1>3 DEF StreamInv, ReadyIsEncoded

LEMMA AsksKeeps ==
  ASSUME StreamInv, NEW m \in Makers, InitUpload(m) \/ SendBody(m) \/ AskStatus(m)
  PROVE  StreamInv'
<1>1. PICK op \in {"init", "body", "ask"} : Asks(m, op) /\ (op = "body" => made = "video")
  BY DEF InitUpload, SendBody, AskStatus
<1> DEFINE t == [NoTask EXCEPT !.op = op, !.seen = video]
<1>2. /\ DOMAIN t = {"op", "seen", "set", "late"} /\ t.op = op /\ t.seen = video
      /\ t.set = NoTask.set /\ t.late = FALSE
  BY NoTaskIs
<1>3. maker' = [maker EXCEPT ![m] = t]
  BY <1>1 DEF Asks, Tasks
<1>4. UNCHANGED <<made, video, service, hooks, bodies, encoded, mingled>>
  BY DEF InitUpload, SendBody, AskStatus
<1> HIDE DEF t
<1>5. TaskFits(t)
  BY <1>1, <1>2 DEF TaskFits, StreamInv, StreamTypeOK, ReadyIsEncoded
<1> QED BY <1>3, <1>4, <1>5, TaskTurnKeeps

LEMMA TaskFailsKeeps ==
  ASSUME StreamInv, NEW m \in Makers, TaskFails(m)
  PROVE  StreamInv'
  BY NoTaskFits, TaskTurnKeeps DEF TaskFails, Over, Tasks

LEMMA InitCommitsKeeps ==
  ASSUME StreamInv, NEW m \in Makers, InitCommits(m)
  PROVE  StreamInv'
<1>1. /\ made = "lesson" /\ made' = "video" /\ service' = "created"
      /\ maker' = [maker EXCEPT ![m] = NoTask]
      /\ UNCHANGED <<video, hooks, bodies, encoded, mingled>>
  BY DEF InitCommits, Over, Tasks
<1>2. TaskFits(NoTask)'
  BY <1>1, NoTaskFits, TaskStays
<1>3. DOMAIN maker' = Makers /\ \A n \in Makers : TaskFits(maker[n])'
  BY <1>1, <1>2, TasksKept
<1>4. StreamTypeOK'
  BY <1>1 DEF StreamInv, StreamTypeOK
<1> QED BY <1>1, <1>3, <1>4 DEF StreamInv, ReadyIsEncoded
LEMMA AnsweredKeeps ==
  ASSUME StreamInv, NEW m \in Makers, Answered(m)
  PROVE  StreamInv'
<1> DEFINE r == maker[m]
           t == [r EXCEPT !.op = "store", !.set = Details]
<1>1. TaskFits(r) /\ r.op = "ask"
  BY DEF StreamInv, Answered
<1>2. /\ DOMAIN t = {"op", "seen", "set", "late"} /\ t.op = "store" /\ t.set = Details
      /\ t.seen = r.seen /\ t.late = r.late
  BY <1>1 DEF TaskFits
<1>3. /\ Details \in Video /\ (Details.status = "ready" => Details.ready)
      /\ Details.ready => service = "encoded"
      /\ ~Details.ready => service # "encoded"
  BY NoTaskIs DEF Details, Video, States
<1>4. maker' = [maker EXCEPT ![m] = t]
      /\ UNCHANGED <<made, video, service, hooks, bodies, encoded, mingled>>
  BY DEF Answered, Tasks
<1> HIDE DEF t
<1>5. "status" \in DOMAIN t.set /\ "ready" \in DOMAIN t.set
  BY <1>2, <1>3, VideoFields
<1>6. OutStatus(t) = Details.status /\ OutReady(t) = Details.ready
  BY <1>2, <1>5 DEF OutStatus, OutReady
<1>7. TaskFits(t)
  <2>1. t.seen \in Video /\ t.late \in BOOLEAN /\ (t.seen.ready => encoded)
        /\ (~t.late => t.seen = video)
    BY <1>1, <1>2 DEF TaskFits
  <2>2. Details.status \in States /\ Details.ready \in BOOLEAN
    BY <1>3, VideoFields
  <2>3. Details.ready => encoded
    BY <1>3 DEF StreamInv
  <2>4. t.seen.ready /\ ~Details.ready => bodies > 1
    BY <1>3, <2>1 DEF StreamInv
  <2> QED BY <1>2, <1>3, <1>6, <2>1, <2>2, <2>3, <2>4 DEF TaskFits
<1> QED BY <1>4, <1>7, TaskTurnKeeps

LEMMA HookComesKeeps ==
  ASSUME StreamInv, NEW m \in Makers, NEW hook \in hooks, HookComes(m, hook)
  PROVE  StreamInv'
<1> DEFINE says == HookSays(hook, video)
           t == [NoTask EXCEPT !.op = "store", !.seen = video, !.set = says]
<1>1. /\ DOMAIN t = {"op", "seen", "set", "late"} /\ t.op = "store" /\ t.set = says
      /\ t.seen = video /\ t.late = FALSE
  BY NoTaskIs
<1>2. video \in Video /\ video.ready \in BOOLEAN /\ hook \in States
  BY VideoFields DEF StreamInv, StreamTypeOK
<1>3. DOMAIN says = {"status", "ready"} /\ says.status = hook
      /\ says.ready = (video.ready \/ hook = "ready")
  BY DEF HookSays
<1>4. maker' = [maker EXCEPT ![m] = t]
      /\ UNCHANGED <<made, video, service, hooks, bodies, encoded, mingled>>
  BY DEF HookComes, Tasks
<1> HIDE DEF t, says
<1>5. OutStatus(t) = hook /\ OutReady(t) = (video.ready \/ hook = "ready")
  BY <1>1, <1>3 DEF OutStatus, OutReady
<1>6. (video.ready \/ hook = "ready") \in BOOLEAN
  OBVIOUS
<1>7. (video.ready => encoded) /\ (hook = "ready" => encoded)
  BY DEF StreamInv, ReadyIsEncoded
<1>8. OutReady(t) \in BOOLEAN /\ (OutReady(t) => encoded) /\ (OutStatus(t) = "ready" => OutReady(t))
      /\ (video.ready => OutReady(t))
  BY <1>5, <1>6, <1>7
<1>9. TaskFits(t)
  BY <1>1, <1>2, <1>5, <1>7, <1>8 DEF TaskFits
<1> QED BY <1>4, <1>9, TaskTurnKeeps

LEMMA BodyTakenKeeps ==
  ASSUME StreamInv, NEW m \in Makers, BodyTaken(m)
  PROVE  StreamInv'
<1> DEFINE r == maker[m]
           t == [r EXCEPT !.op = "store", !.set = [status |-> "processing"]]
<1>1. TaskFits(r) /\ r.op = "body"
  BY DEF StreamInv, BodyTaken
<1>2. /\ bodies < MaxBodies /\ service' = "encoding" /\ bodies' = bodies + 1
      /\ maker' \in {[maker EXCEPT ![m] = t], [maker EXCEPT ![m] = NoTask]}
      /\ UNCHANGED <<made, video, hooks, encoded, mingled>>
  BY DEF BodyTaken
<1>3. bodies \in Nat /\ MaxBodies \in Nat
  BY BodiesAre DEF StreamInv
<1>4. bodies' \in 0..MaxBodies /\ bodies' > 0 /\ (bodies > 1 => bodies' > 1)
      /\ (bodies > 0 => bodies' > 1)
  BY <1>2, <1>3
<1>5. /\ DOMAIN t = {"op", "seen", "set", "late"} /\ t.op = "store" /\ t.set = [status |-> "processing"]
      /\ t.seen = r.seen /\ t.late = r.late
  BY <1>1 DEF TaskFits
<1>6. DOMAIN [status |-> "processing"] = {"status"} /\ [status |-> "processing"]["status"] = "processing"
  OBVIOUS
<1> HIDE DEF t
<1>7. OutStatus(t) = "processing" /\ OutReady(t) = t.seen.ready
  BY <1>5, <1>6 DEF OutStatus, OutReady
<1>8. TaskFits(t)
  <2>1. t.seen \in Video /\ t.late \in BOOLEAN /\ (t.seen.ready => encoded)
        /\ (~t.late => t.seen = video)
    BY <1>1, <1>5 DEF TaskFits
  <2>2. t.seen.ready \in BOOLEAN
    BY <2>1, VideoFields
  <2> QED BY <1>5, <1>7, <2>1, <2>2 DEF TaskFits, States
<1>9. PICK s : s = t /\ TaskFits(s)
  BY <1>8
<1>10. DOMAIN maker' = Makers /\ \A n \in Makers : TaskFits(maker[n])'
  <2>1. CASE maker' = [maker EXCEPT ![m] = t]
    <3>1. maker' = [maker EXCEPT ![m] = s]
      BY <1>9, <2>1
    <3>2. TaskFits(s)'
      BY <1>2, <1>4, <1>9, TaskStays
    <3> QED BY <1>2, <1>4, <3>1, <3>2, TasksKept
  <2>2. CASE maker' = [maker EXCEPT ![m] = NoTask]
    <3>1. TaskFits(NoTask)'
      BY <1>2, <1>4, NoTaskFits, TaskStays
    <3> QED BY <1>2, <1>4, <2>2, <3>1, TasksKept
  <2> QED BY <1>2, <2>1, <2>2
<1>11. StreamTypeOK'
  BY <1>2, <1>4 DEF StreamInv, StreamTypeOK
<1>12. made = "video"
  BY <1>1 DEF TaskFits
<1> QED BY <1>2, <1>4, <1>10, <1>11, <1>12 DEF StreamInv, ReadyIsEncoded

LEMMA EncodesKeeps ==
  ASSUME StreamInv, Encodes
  PROVE  StreamInv'
<1>1. /\ service = "encoding" /\ UNCHANGED <<made, video, maker, bodies, mingled>>
      /\ service' \in {"encoding", "encoded"} /\ (encoded => encoded')
      /\ encoded' \in BOOLEAN /\ hooks' \subseteq hooks \union {"ready", "processing"}
      /\ service' = "encoded" => encoded'
      /\ service' # "encoded" => encoded' = encoded
      /\ "ready" \in hooks' => "ready" \in hooks \/ encoded'
  BY DEF Encodes, StreamInv, StreamTypeOK
<1>2. \A m \in Makers : TaskFits(maker[m])'
  <2>1. \A t : TaskFits(t) => TaskFits(t)'
    BY <1>1, TaskStays
  <2> QED BY <1>1, <2>1 DEF StreamInv, TaskFits, OutStatus, OutReady
<1>3. StreamTypeOK'
  BY <1>1 DEF StreamInv, StreamTypeOK, States
<1>4. made = "video" /\ bodies > 0
  BY <1>1 DEF StreamInv
<1> QED BY <1>1, <1>2, <1>3, <1>4 DEF StreamInv, ReadyIsEncoded

-----------------------------------------------------------------------------
\* What a commit writes: of what is stored, what differs from what was loaded.
LEMMA RowWritten ==
  ASSUME NEW t, NEW kept \in Video, t.seen \in Video
  PROVE  LET w == Update(kept, Unlike(t)) IN
         /\ DOMAIN w = {"status", "ready"}
         /\ w = [f \in {"status", "ready"} |-> w[f]]
         /\ w["status"] = IF OutStatus(t) # t.seen.status THEN OutStatus(t) ELSE kept.status
         /\ w["ready"] = IF OutReady(t) # t.seen.ready THEN OutReady(t) ELSE kept.ready
<1> DEFINE o == Update(t.seen, t.set)  c == Unlike(t)  w == Update(kept, c)
<1>1. DOMAIN t.seen = {"status", "ready"} /\ DOMAIN kept = {"status", "ready"}
  BY VideoFields
<1>2. o["status"] = OutStatus(t) /\ o["ready"] = OutReady(t)
  BY <1>1 DEF Update, OutStatus, OutReady
<1>3. c = [f \in {g \in DOMAIN t.seen : o[g] # t.seen[g]} |-> o[f]]
  BY DEF Unlike, Changes
<1> HIDE DEF o
<1>4. /\ DOMAIN c = {g \in {"status", "ready"} : o[g] # t.seen[g]}
      /\ \A g \in DOMAIN c : c[g] = o[g]
  BY <1>1, <1>3
<1> HIDE DEF c
<1>5. w = [f \in {"status", "ready"} |-> IF f \in DOMAIN c THEN c[f] ELSE kept[f]]
  BY <1>1 DEF Update
<1>6. /\ DOMAIN w = {"status", "ready"}
      /\ w["status"] = IF "status" \in DOMAIN c THEN c["status"] ELSE kept["status"]
      /\ w["ready"] = IF "ready" \in DOMAIN c THEN c["ready"] ELSE kept["ready"]
  BY <1>5
<1>7. w["status"] = IF OutStatus(t) # t.seen.status THEN OutStatus(t) ELSE kept.status
  BY <1>2, <1>4, <1>6
<1>8. w["ready"] = IF OutReady(t) # t.seen.ready THEN OutReady(t) ELSE kept.ready
  BY <1>2, <1>4, <1>6
<1>9. w = [f \in {"status", "ready"} |-> w[f]]
  BY <1>5
<1> HIDE DEF w
<1>10. Update(kept, Unlike(t)) = w
  BY DEF w, c
<1> QED BY <1>6, <1>7, <1>8, <1>9, <1>10

LEMMA VideoOf ==
  ASSUME NEW w, DOMAIN w = {"status", "ready"}, w = [f \in {"status", "ready"} |-> w[f]],
         w["status"] \in States, w["ready"] \in BOOLEAN
  PROVE  w \in Video
  BY DEF Video

\* What a commit makes of the row.
LEMMA RowCommitsIs ==
  ASSUME StreamInv, NEW m \in Makers, RowCommits(m)
  PROVE  /\ video' \in Video
         /\ video'.ready => encoded
         /\ mingled' \/ (video'.status = "ready" => video'.ready)
         /\ video.ready /\ ~video'.ready => bodies > 1
         /\ mingled' \in BOOLEAN
<1> DEFINE t == maker[m]
<1>1. TaskFits(t) /\ t.op = "store" /\ video \in Video
  BY DEF StreamInv, RowCommits, StreamTypeOK
<1>2. video' = Update(video, Unlike(t)) /\ mingled' = (mingled \/ t.late)
  BY DEF RowCommits
<1> HIDE DEF t
<1>3. /\ t.seen \in Video /\ t.late \in BOOLEAN
      /\ OutStatus(t) \in States /\ OutReady(t) \in BOOLEAN
      /\ OutStatus(t) = "ready" => OutReady(t)
      /\ OutReady(t) => encoded
      /\ t.seen.ready /\ ~OutReady(t) => bodies > 1
      /\ ~t.late => t.seen = video
  BY <1>1 DEF TaskFits
<1>4. video.status \in States /\ video.ready \in BOOLEAN /\ (video.ready => encoded)
      /\ t.seen.status \in States /\ t.seen.ready \in BOOLEAN
  BY <1>1, <1>3, VideoFields DEF StreamInv, ReadyIsEncoded
<1>5. /\ DOMAIN video' = {"status", "ready"}
      /\ video' = [f \in {"status", "ready"} |-> video'[f]]
      /\ video'["status"] = IF OutStatus(t) # t.seen.status THEN OutStatus(t) ELSE video.status
      /\ video'["ready"] = IF OutReady(t) # t.seen.ready THEN OutReady(t) ELSE video.ready
  BY <1>1, <1>2, <1>3, RowWritten
<1>6. video'["status"] \in States /\ video'["ready"] \in BOOLEAN
  BY <1>3, <1>4, <1>5
<1>7. video' \in Video
  BY <1>5, <1>6, VideoOf
<1>8. mingled' \in BOOLEAN /\ (mingled' \/ ~t.late)
  BY <1>2, <1>3 DEF StreamInv, StreamTypeOK
<1>9. video'.ready => encoded
  BY <1>3, <1>4, <1>5
<1>10. video.ready /\ ~video'.ready => bodies > 1
  BY <1>3, <1>4, <1>5
<1>11. ~t.late => video'.status = OutStatus(t) /\ video'.ready = OutReady(t)
  BY <1>3, <1>5
<1>12. mingled' \/ (video'.status = "ready" => video'.ready)
  BY <1>3, <1>8, <1>11
<1> QED BY <1>7, <1>8, <1>9, <1>10, <1>12

LEMMA RowCommitsKeeps ==
  ASSUME StreamInv, NEW m \in Makers, RowCommits(m)
  PROVE  StreamInv'
<1>1. /\ maker' = [n \in Makers |-> IF n = m THEN NoTask
                     ELSE [maker[n] EXCEPT !.late = @ \/ maker[n].op \in {"body", "ask", "store"}]]
      /\ UNCHANGED <<made, service, hooks, bodies, encoded>>
  BY DEF RowCommits
<1>2. ASSUME NEW n \in Makers
      PROVE  TaskFits(maker[n])'
  <2>1. CASE n = m
    <3>1. maker'[n] = NoTask
      BY <1>1, <2>1
    <3> QED BY <3>1, NoTaskIs DEF TaskFits
  <2>2. CASE n # m
    <3> DEFINE r == maker[n]  t == maker'[n]
               late == r.late \/ r.op \in {"body", "ask", "store"}
    <3>1. TaskFits(r)
      BY DEF StreamInv
    <3>2. t = [r EXCEPT !.late = late]
      BY <1>1, <2>2
    <3>3. late \in BOOLEAN
      BY <3>1 DEF TaskFits
    <3>4. r.op \in {"body", "ask", "store"} => late
      OBVIOUS
    <3> HIDE DEF late, t
    <3>5. /\ DOMAIN t = {"op", "seen", "set", "late"} /\ t.op = r.op /\ t.seen = r.seen
          /\ t.set = r.set /\ t.late = late
      BY <3>1, <3>2 DEF TaskFits
    <3>6. OutStatus(t) = OutStatus(r) /\ OutReady(t) = OutReady(r)
      BY <3>5 DEF OutStatus, OutReady
    <3> HIDE DEF r
    <3>7. /\ t.op \in {"none", "init", "body", "ask", "store"}
          /\ t.seen \in Video /\ t.late \in BOOLEAN /\ (t.seen.ready => encoded)
          /\ t.op = "body" => made = "video"
          /\ ~(t.op \in {"body", "ask", "store"} /\ ~t.late)
      BY <3>1, <3>3, <3>4, <3>5 DEF TaskFits
    <3>8. t.op = "store" =>
         /\ OutStatus(t) \in States /\ OutReady(t) \in BOOLEAN
         /\ OutStatus(t) = "ready" => OutReady(t)
         /\ OutReady(t) => encoded
         /\ t.seen.ready /\ ~OutReady(t) => bodies > 1
      BY <3>1, <3>5, <3>6 DEF TaskFits
    <3> QED BY <1>1, <3>5, <3>7, <3>8 DEF TaskFits, OutStatus, OutReady, t
  <2> QED BY <2>1, <2>2
<1>3. DOMAIN maker' = Makers
  BY <1>1
<1>4. StreamTypeOK' /\ ReadyIsEncoded'
  BY <1>1, RowCommitsIs DEF StreamInv, StreamTypeOK, ReadyIsEncoded
<1> QED BY <1>1, <1>2, <1>3, <1>4 DEF StreamInv

LEMMA StreamStep ==
  ASSUME StreamInv, StreamNext
  PROVE  StreamInv'
  BY MakingKeeps, AsksKeeps, TaskFailsKeeps, InitCommitsKeeps, AnsweredKeeps, HookComesKeeps,
     BodyTakenKeeps, EncodesKeeps, RowCommitsKeeps DEF StreamNext

LEMMA StreamStutter ==
  ASSUME StreamInv, UNCHANGED streamVars
  PROVE  StreamInv'
<1>1. UNCHANGED <<made, video, service, hooks, maker, bodies, encoded, mingled>>
  BY DEF streamVars
<1>2. \A m \in Makers : TaskFits(maker[m])'
  BY <1>1 DEF StreamInv, TaskFits, OutStatus, OutReady
<1> QED BY <1>1, <1>2 DEF StreamInv, StreamTypeOK, ReadyIsEncoded

LEMMA StreamInvHolds ==
  ASSUME StreamInv
  PROVE  StreamTypeOK /\ ReadyIsEncoded
  BY DEF StreamInv

\* Only a commit touches the row.
LEMMA ReadyStaysStep ==
  ASSUME StreamInv, [StreamNext]_streamVars
  PROVE  video.ready /\ ~video'.ready => bodies > 1
<1>1. video' = video \/ \E m \in Makers : RowCommits(m)
  BY DEF StreamNext, streamVars, CreateCourse, CreateLesson, Encodes, InitUpload, InitCommits,
         SendBody, BodyTaken, AskStatus, Answered, HookComes, TaskFails
<1> QED BY <1>1, RowCommitsIs

-----------------------------------------------------------------------------
(* Watching a stream. *)

\* A heartbeat on its way: what it has loaded, the level of use with it.
BeatsLoaded == \A w \in Workers : request[w].op = "beat" =>
    /\ request[w].watched < MaxWatched
    /\ request[w].level = Level(request[w].watched)
    /\ \E b \in Beats : request[w].beat = {b}

\* Unless one was sent again, heartbeats on their way are new, each of them.
BeatsApart == "again" \notin slips =>
    \A w \in Workers : request[w].op = "beat" =>
        /\ request[w].beat \intersect beats = {}
        /\ \A v \in Workers \ {w} : request[v].op = "beat" =>
              request[w].beat \intersect request[v].beat = {}

\* A level reached and not logged is one a heartbeat has crossed that has yet
\* to say so; nobody has loaded a level above the one reached.
LevelsOwed == slips \intersect {"cut", "back"} = {} =>
    /\ \A w \in Workers : request[w].op \in {"beat", "settle"} =>
          request[w].level <= Level(progress.watched)
    /\ \A x \in Levels : warned < x /\ x <= Level(progress.watched) =>
          \E w \in Workers : request[w].op = "settle" /\ request[w].level < x

BeatsStand == BeatsLoaded /\ BeatsApart /\ LevelsOwed /\ UsageCounted

WatchInv ==
    /\ WatchTypeOK
    /\ process \in [Workers -> Processes]
    /\ BeatsStand /\ SessionsBounded

LEMMA WatchConstants ==
  /\ Allowance \in Nat /\ MaxOpen \in Nat \ {0} /\ MaxSessions \in Nat
  /\ MaxBeats \in Nat /\ MaxWatched \in Nat
  BY WatchAssumption

LEMMA WatchTypes ==
  ASSUME WatchInv
  PROVE  /\ market \in [ready : BOOLEAN, paid : BOOLEAN]
         /\ sessions \in [Sessions -> {"none", "open", "ended"}]
         /\ progress.found \in BOOLEAN /\ progress.watched \in 0..MaxWatched
         /\ progress.watched \in Nat
         /\ nonces \in [Processes -> SUBSET Beats]
         /\ request \in [Workers -> Request]
         /\ warned \in Levels /\ beats \subseteq Beats
         /\ slips \subseteq {"starts", "overlap", "back", "again", "cut"}
  BY WatchConstants DEF WatchInv, WatchTypeOK

LEMMA SessionsFinite ==
  /\ IsFiniteSet(Sessions) /\ IsFiniteSet(Beats)
  /\ \A S \in SUBSET Sessions : IsFiniteSet(S) /\ Cardinality(S) \in Nat
  /\ \A B \in SUBSET Beats : IsFiniteSet(B) /\ Cardinality(B) \in Nat
<1>1. IsFiniteSet(1..MaxSessions) /\ IsFiniteSet(1..MaxBeats)
  BY WatchConstants, FS_Interval
<1>2. IsFiniteSet(Sessions) /\ IsFiniteSet(Beats)
  BY <1>1, FS_Product DEF Sessions, Beats
<1> QED BY <1>2, FS_Subset, FS_CardinalityType

LEMMA NoRequestIs ==
  NoRequest \in Request /\ NoRequest.op = "idle" /\ NoRequest.beat = {}
  BY WatchConstants DEF NoRequest, Request, Levels

\* The levels are four, and watching more never lowers them.
LEMMA LevelBounds ==
  /\ \A n \in Nat : Level(n) \in Levels
  /\ \A m, n \in Nat : m <= n => Level(m) <= Level(n)
  /\ Level(0) \in Levels
<1> DEFINE K(n) == {k \in {8, 10, 12} : 10 * n >= k * Allowance}
<1>1. IsFiniteSet({8, 10, 12}) /\ Cardinality({8, 10, 12}) = 3
  <2>1. IsFiniteSet({8}) /\ Cardinality({8}) = 1
    BY FS_Singleton
  <2>2. IsFiniteSet({8} \union {10}) /\ Cardinality({8} \union {10}) = 2
    BY <2>1, FS_AddElement
  <2>3. IsFiniteSet(({8} \union {10}) \union {12})
        /\ Cardinality(({8} \union {10}) \union {12}) = 3
    BY <2>2, FS_AddElement
  <2>4. ({8} \union {10}) \union {12} = {8, 10, 12}
    OBVIOUS
  <2> QED BY <2>3, <2>4
<1>2. \A n : IsFiniteSet(K(n)) /\ Cardinality(K(n)) \in Nat /\ Cardinality(K(n)) <= 3
  BY <1>1, FS_Subset, FS_CardinalityType
<1>3. \A m, n \in Nat : m <= n => Cardinality(K(m)) <= Cardinality(K(n))
  <2> SUFFICES ASSUME NEW m \in Nat, NEW n \in Nat, m <= n
               PROVE  Cardinality(K(m)) <= Cardinality(K(n))
    OBVIOUS
  <2>1. K(m) \subseteq K(n)
    BY WatchConstants
  <2> QED BY <1>2, <2>1, FS_Subset
<1>4. \A n : Level(n) = IF Allowance = 0 THEN 0 ELSE Cardinality(K(n))
  BY DEF Level
<1> HIDE DEF K
<1> QED BY <1>2, <1>3, <1>4 DEF Levels

\* After the oldest of open sessions are revoked there is room for one.
LEMMA StaleLeaveRoom ==
  ASSUME NEW O \in SUBSET Sessions
  PROVE  Cardinality(O \ Stale(O)) <= MaxOpen - 1
<1> DEFINE Up(s) == {t \in O : t >= s}
           A == O \ Stale(O)
           f == [s \in A |-> Cardinality(Up(s))]
<1>1. \A s : IsFiniteSet(Up(s)) /\ Cardinality(Up(s)) \in Nat
  BY SessionsFinite
<1>2. \A s \in A : s \in Sessions /\ s \in Up(s) /\ Cardinality(Up(s)) < MaxOpen
  <2>1. \A s \in A : s \in O /\ s \in Nat /\ ~(Cardinality(Up(s)) >= MaxOpen)
    BY WatchConstants DEF Stale, Sessions
  <2> QED BY <1>1, <2>1, WatchConstants
<1>3. \A s \in A : Cardinality(Up(s)) \in 1..(MaxOpen - 1)
  <2> SUFFICES ASSUME NEW s \in A PROVE Cardinality(Up(s)) \in 1..(MaxOpen - 1)
    OBVIOUS
  <2>1. Cardinality(Up(s)) # 0
    BY <1>1, <1>2, FS_EmptySet
  <2> HIDE DEF Up, A
  <2> QED BY <1>1, <1>2, <2>1, WatchConstants
<1>4. \A s, t \in A : s < t => Cardinality(Up(s)) # Cardinality(Up(t))
  <2> SUFFICES ASSUME NEW s \in A, NEW t \in A, s < t
               PROVE  Cardinality(Up(s)) # Cardinality(Up(t))
    OBVIOUS
  <2>1. \A r \in O : r \in Nat
    BY WatchConstants DEF Sessions
  <2>2. s \in O /\ t \in O
    OBVIOUS
  <2>3. Up(t) \subseteq Up(s) /\ s \in Up(s) /\ s \notin Up(t)
    BY <2>1, <2>2
  <2> QED BY <1>1, <2>3, FS_Subset
<1>5. \A s, t \in A : s # t => Cardinality(Up(s)) # Cardinality(Up(t))
  <2>1. \A s \in A : s \in Nat
    BY WatchConstants DEF Sessions
  <2> HIDE DEF Up, A
  <2> QED BY <1>4, <2>1
<1>6. f \in [A -> 1..(MaxOpen - 1)] /\ (\A s, t \in A : f[s] = f[t] => s = t)
  <2> HIDE DEF Up, A
  <2> QED BY <1>3, <1>5
<1>7. f \in Injection(A, 1..(MaxOpen - 1))
  <2> HIDE DEF f, A
  <2> QED BY <1>6 DEF Injection, IsInjective
<1>8. IsFiniteSet(1..(MaxOpen - 1)) /\ Cardinality(1..(MaxOpen - 1)) = MaxOpen - 1
  BY FS_Interval, WatchConstants
<1>9. Cardinality(A) <= MaxOpen - 1
  <2> HIDE DEF f, A
  <2> QED BY <1>7, <1>8, FS_Injection
<1> QED BY <1>9

LEMMA WatchStart == WatchInit => WatchInv
<1> SUFFICES ASSUME WatchInit PROVE WatchInv
  OBVIOUS
<1>1. /\ process \in [Workers -> Processes]
      /\ market = [ready |-> FALSE, paid |-> FALSE]
      /\ sessions = [s \in Sessions |-> "none"] /\ progress = [found |-> FALSE, watched |-> 0]
      /\ nonces = [p \in Processes |-> {}] /\ request = [w \in Workers |-> NoRequest]
      /\ warned = 0 /\ beats = {} /\ slips = {}
  BY DEF WatchInit, DeploymentInit
<1>2. WatchTypeOK
  BY <1>1, NoRequestIs, WatchConstants DEF WatchTypeOK, Levels
<1>3. BeatsLoaded /\ BeatsApart
  BY <1>1, NoRequestIs DEF BeatsLoaded, BeatsApart
<1>4. LevelsOwed
  <2>1. Level(0) = 0
    <3>1. Allowance # 0 => {k \in {8, 10, 12} : 10 * 0 >= k * Allowance} = {}
      BY WatchConstants
    <3> QED BY <3>1, FS_EmptySet DEF Level
  <2> QED BY <1>1, <2>1, NoRequestIs DEF LevelsOwed, Levels
<1>5. UsageCounted
  BY <1>1, FS_EmptySet DEF UsageCounted
<1>6. SessionsBounded
  <2>1. OpenSessions = {}
    BY <1>1 DEF OpenSessions
  <2> QED BY <2>1, FS_EmptySet, WatchConstants DEF SessionsBounded
<1> QED BY <1>1, <1>2, <1>3, <1>4, <1>5, <1>6 DEF WatchInv, BeatsStand

-----------------------------------------------------------------------------
\* Requests that end or load sessions leave the count and the log alone, but a
\* heartbeat cut between its commits is noted.
LEMMA BeatsKept ==
  ASSUME WatchInv, progress' = progress, warned' = warned, beats' = beats, slips \subseteq slips',
         \A w \in Workers : request'[w] = request[w] \/ request'[w].op \in {"idle", "token"},
         "cut" \in slips' \/ \A w \in Workers : request[w].op = "settle" => request'[w] = request[w]
  PROVE  BeatsStand'
<1>1. BeatsStand
  BY DEF WatchInv
<1>2. BeatsLoaded'
  BY <1>1 DEF BeatsStand, BeatsLoaded, Level
<1>3. BeatsApart'
  BY <1>1 DEF BeatsStand, BeatsApart
<1>4. Level(progress.watched)' = Level(progress.watched)
  BY DEF Level
<1>5. LevelsOwed'
  BY <1>1, <1>4 DEF BeatsStand, LevelsOwed
<1>6. UsageCounted'
  BY <1>1 DEF BeatsStand, UsageCounted
<1> QED BY <1>2, <1>3, <1>5, <1>6 DEF BeatsStand

\* While no session is opened, no more are open.
LEMMA OpenKept ==
  ASSUME WatchInv, slips \subseteq slips', \A s \in Sessions : sessions'[s] = "open" => sessions[s] = "open"
  PROVE  SessionsBounded'
<1>1. OpenSessions' \subseteq OpenSessions /\ OpenSessions \subseteq Sessions
  BY DEF OpenSessions
<1>2. Cardinality(OpenSessions') <= Cardinality(OpenSessions)
  BY <1>1, SessionsFinite, FS_Subset
<1>3. Cardinality(OpenSessions) \in Nat /\ Cardinality(OpenSessions') \in Nat
  BY <1>1, SessionsFinite
<1>4. "starts" \in slips \/ Cardinality(OpenSessions) <= MaxOpen
  BY DEF WatchInv, SessionsBounded
<1> QED BY <1>2, <1>3, <1>4, WatchConstants DEF SessionsBounded

LEMMA RevokedAre ==
  ASSUME NEW gone \in SUBSET Sessions, NEW rows \in [Sessions -> {"none", "open", "ended"}]
  PROVE  /\ Revoked(rows, gone) \in [Sessions -> {"none", "open", "ended"}]
         /\ \A s \in Sessions : Revoked(rows, gone)[s] = IF s \in gone THEN "ended" ELSE rows[s]
  BY DEF Revoked

LEMMA MarketKeeps ==
  ASSUME WatchInv, market' \in [ready : BOOLEAN, paid : BOOLEAN],
         UNCHANGED <<process, sessions, progress, nonces, request, warned, beats, slips>>
  PROVE  WatchInv'
<1>1. BeatsStand'
  BY BeatsKept
<1>2. SessionsBounded'
  BY OpenKept
<1>3. WatchTypeOK' /\ process' \in [Workers -> Processes]
  BY DEF WatchInv, WatchTypeOK
<1> QED BY <1>1, <1>2, <1>3 DEF WatchInv

LEMMA EncodedKeeps ==
  ASSUME WatchInv, NEW ready \in BOOLEAN, Encoded(ready)
  PROVE  WatchInv'
<1>1. market' = [market EXCEPT !.ready = market.ready \/ ready]
  BY DEF Encoded
<1>2. (market.ready \/ ready) \in BOOLEAN
  OBVIOUS
<1>3. market' \in [ready : BOOLEAN, paid : BOOLEAN]
  BY <1>1, <1>2, WatchTypes
<1> QED BY <1>3, MarketKeeps DEF Encoded

LEMMA PurchaseCourseKeeps ==
  ASSUME WatchInv, PurchaseCourse
  PROVE  WatchInv'
<1>1. market' \in [ready : BOOLEAN, paid : BOOLEAN]
  BY WatchTypes DEF PurchaseCourse
<1> QED BY <1>1, MarketKeeps DEF PurchaseCourse

\* A request that is neither a heartbeat nor between the commits of one.
LEMMA RequestTurns ==
  ASSUME WatchInv, NEW w \in Workers, NEW r \in Request, r.op \in {"idle", "token"},
         request[w].op # "settle", request' = [request EXCEPT ![w] = r],
         slips \subseteq slips', slips' \subseteq {"starts", "overlap", "back", "again", "cut"},
         UNCHANGED <<process, market, progress, nonces, warned, beats>>,
         sessions' \in [Sessions -> {"none", "open", "ended"}], SessionsBounded'
  PROVE  WatchInv'
<1>1. /\ request' \in [Workers -> Request] /\ request'[w] = r
      /\ \A v \in Workers : v # w => request'[v] = request[v]
  BY WatchTypes
<1>2. BeatsStand'
  BY <1>1, BeatsKept
<1>3. WatchTypeOK' /\ process' \in [Workers -> Processes]
  BY <1>1 DEF WatchInv, WatchTypeOK
<1> QED BY <1>2, <1>3 DEF WatchInv

LEMMA TokenLoadKeeps ==
  ASSUME WatchInv, NEW w \in Workers, TokenLoad(w)
  PROVE  WatchInv'
<1> DEFINE r == [NoRequest EXCEPT !.op = "token", !.open = OpenSessions]
<1>1. OpenSessions \subseteq Sessions
  BY DEF OpenSessions
<1>2. r \in Request /\ r.op = "token"
  BY <1>1, NoRequestIs DEF Request
<1>3. request[w].op = "idle" /\ request' = [request EXCEPT ![w] = r]
      /\ UNCHANGED <<process, market, sessions, progress, nonces, warned, beats, slips>>
  BY DEF TokenLoad
<1> HIDE DEF r
<1>4. SessionsBounded'
  BY <1>3, OpenKept
<1> QED BY <1>2, <1>3, <1>4, RequestTurns, WatchTypes

LEMMA CardinalityOfOneMore ==
  ASSUME NEW K, NEW x, IsFiniteSet(K), Cardinality(K) \in Nat
  PROVE  /\ IsFiniteSet(K \union {x}) /\ Cardinality(K \union {x}) \in Nat
         /\ Cardinality(K \union {x}) <= Cardinality(K) + 1
         /\ x \notin K => Cardinality(K \union {x}) = Cardinality(K) + 1
<1>1. /\ IsFiniteSet(K \union {x})
      /\ Cardinality(K \union {x}) = IF x \in K THEN Cardinality(K) ELSE Cardinality(K) + 1
  BY FS_AddElement
<1> QED BY <1>1

LEMMA TokenStoreKeeps ==
  ASSUME WatchInv, NEW w \in Workers, TokenStore(w)
  PROVE  WatchInv'
<1>1. PICK s \in Sessions :
         /\ sessions[s] = "none"
         /\ sessions' = [Revoked(sessions, Stale(request[w].open)) EXCEPT ![s] = "open"]
  BY DEF TokenStore
<1>2. /\ request[w].op = "token" /\ request' = [request EXCEPT ![w] = NoRequest]
      /\ UNCHANGED <<process, market, progress, nonces, warned, beats>>
      /\ slips' = slips \union (IF OpenSessions \subseteq request[w].open THEN {} ELSE {"starts"})
  BY DEF TokenStore
<1>3. slips \subseteq slips' /\ slips' \subseteq {"starts", "overlap", "back", "again", "cut"}
  BY <1>2, WatchTypes
<1> DEFINE O == request[w].open
<1>4. O \in SUBSET Sessions /\ Stale(O) \in SUBSET Sessions
  BY WatchTypes DEF Request, Stale
<1>5. sessions' \in [Sessions -> {"none", "open", "ended"}]
      /\ \A t \in Sessions : sessions'[t] =
            IF t = s THEN "open" ELSE IF t \in Stale(O) THEN "ended" ELSE sessions[t]
  BY <1>1, <1>4, RevokedAre, WatchTypes
<1>6. SessionsBounded'
  <2>1. CASE OpenSessions \subseteq O
    <3>1. OpenSessions' \subseteq (O \ Stale(O)) \union {s}
      BY <1>5, <2>1 DEF OpenSessions
    <3>2. IsFiniteSet(O \ Stale(O)) /\ Cardinality(O \ Stale(O)) \in Nat
      BY <1>4, SessionsFinite
    <3>3. /\ IsFiniteSet((O \ Stale(O)) \union {s})
          /\ Cardinality((O \ Stale(O)) \union {s}) \in Nat
          /\ Cardinality((O \ Stale(O)) \union {s}) <= Cardinality(O \ Stale(O)) + 1
      BY <3>2, CardinalityOfOneMore
    <3>4. Cardinality(OpenSessions') <= Cardinality((O \ Stale(O)) \union {s})
          /\ Cardinality(OpenSessions') \in Nat
      BY <3>1, <3>3, FS_Subset, FS_CardinalityType
    <3>5. Cardinality(O \ Stale(O)) <= MaxOpen - 1
      BY <1>4, StaleLeaveRoom
    <3> QED BY <3>2, <3>3, <3>4, <3>5, WatchConstants DEF SessionsBounded
  <2>2. CASE ~(OpenSessions \subseteq O)
    BY <1>2, <2>2 DEF SessionsBounded
  <2> QED BY <2>1, <2>2
<1> QED BY <1>2, <1>3, <1>5, <1>6, NoRequestIs, RequestTurns

LEMMA BeatAllows ==
  ASSUME WatchInv, NEW w \in Workers, NEW s \in Sessions, NEW n \in 1..MaxBeats, NEW ends \in BOOLEAN,
         BeatAllowed(w, s, n, ends)
  PROVE  /\ request[w].op = "idle" /\ progress.watched < MaxWatched
         /\ <<s, n>> \in Beats /\ <<s, n>> \notin nonces[process[w]]
         /\ nonces' \in [Processes -> SUBSET Beats]
  BY WatchTypes DEF BeatAllowed, Beats, WatchInv

LEMMA BeatMismatchKeeps ==
  ASSUME WatchInv, NEW w \in Workers, NEW s \in Sessions, NEW n \in 1..MaxBeats, NEW ends \in BOOLEAN,
         BeatMismatch(w, s, n, ends)
  PROVE  WatchInv'
<1>1. /\ sessions' = Revoked(sessions, {s})
      /\ UNCHANGED <<process, market, progress, request, warned, beats, slips>>
  BY DEF BeatMismatch
<1>2. nonces' \in [Processes -> SUBSET Beats]
  BY BeatAllows DEF BeatMismatch
<1>3. sessions' \in [Sessions -> {"none", "open", "ended"}]
      /\ \A t \in Sessions : sessions'[t] = "open" => sessions[t] = "open"
  <2>1. {s} \in SUBSET Sessions /\ sessions \in [Sessions -> {"none", "open", "ended"}]
    BY WatchTypes
  <2> QED BY <1>1, <2>1, RevokedAre
<1>4. BeatsStand' /\ SessionsBounded'
  BY <1>1, <1>3, BeatsKept, OpenKept
<1>5. WatchTypeOK' /\ process' \in [Workers -> Processes]
  BY <1>1, <1>2, <1>3 DEF WatchInv, WatchTypeOK
<1> QED BY <1>4, <1>5 DEF WatchInv

LEMMA RevokeSessionsKeeps ==
  ASSUME WatchInv, NEW gone \in SUBSET Sessions, RevokeSessions(gone)
  PROVE  WatchInv'
<1>1. /\ sessions' = Revoked(sessions, gone)
      /\ UNCHANGED <<process, market, progress, nonces, request, warned, beats, slips>>
  BY DEF RevokeSessions
<1>2. sessions' \in [Sessions -> {"none", "open", "ended"}]
      /\ \A t \in Sessions : sessions'[t] = "open" => sessions[t] = "open"
  <2>1. sessions \in [Sessions -> {"none", "open", "ended"}]
    BY WatchTypes
  <2>2. \A t \in Sessions : sessions'[t] = IF t \in gone THEN "ended" ELSE sessions[t]
    BY <1>1, <2>1, RevokedAre
  <2>3. sessions' \in [Sessions -> {"none", "open", "ended"}]
    BY <1>1, <2>1, RevokedAre
  <2> QED BY <2>2, <2>3
<1>3. BeatsStand' /\ SessionsBounded'
  BY <1>1, <1>2, BeatsKept, OpenKept
<1>4. WatchTypeOK' /\ process' \in [Workers -> Processes]
  BY <1>1, <1>2 DEF WatchInv, WatchTypeOK
<1> QED BY <1>3, <1>4 DEF WatchInv

LEMMA CutKeeps ==
  ASSUME WatchInv, NEW lost \in SUBSET Workers, Cut(lost), nonces' \in [Processes -> SUBSET Beats]
  PROVE  WatchInv'
<1>1. /\ request' = [w \in Workers |-> IF w \in lost THEN NoRequest ELSE request[w]]
      /\ slips' = slips \union (IF \E w \in lost : request[w].op = "settle" THEN {"cut"} ELSE {})
      /\ UNCHANGED <<process, market, sessions, progress, warned, beats>>
  BY DEF Cut
<1>2. request' \in [Workers -> Request]
  BY <1>1, NoRequestIs, WatchTypes
<1>3. slips \subseteq slips' /\ slips' \subseteq {"starts", "overlap", "back", "again", "cut"}
  BY <1>1, WatchTypes
<1>4. "cut" \in slips' \/ \A w \in Workers : request[w].op = "settle" => request'[w] = request[w]
  BY <1>1
<1>5. BeatsStand' /\ SessionsBounded'
  BY <1>1, <1>3, <1>4, NoRequestIs, BeatsKept, OpenKept
<1>6. WatchTypeOK' /\ process' \in [Workers -> Processes]
  BY <1>1, <1>2, <1>3 DEF WatchInv, WatchTypeOK
<1> QED BY <1>5, <1>6 DEF WatchInv

LEMMA WatchProcessEndsKeeps ==
  ASSUME WatchInv, NEW p \in Processes, WatchProcessEnds(p)
  PROVE  WatchInv'
<1>1. nonces' \in [Processes -> SUBSET Beats]
  BY WatchTypes DEF WatchProcessEnds
<1>2. {w \in Workers : process[w] = p} \in SUBSET Workers
  OBVIOUS
<1> QED BY <1>1, <1>2, CutKeeps DEF WatchProcessEnds

LEMMA WatchFailsKeeps ==
  ASSUME WatchInv, NEW w \in Workers, WatchFails(w)
  PROVE  WatchInv'
<1>1. nonces' \in [Processes -> SUBSET Beats]
  BY WatchTypes DEF WatchFails
<1> QED BY <1>1, CutKeeps DEF WatchFails

-----------------------------------------------------------------------------
LEMMA BeatLoadKeeps ==
  ASSUME WatchInv, NEW w \in Workers, NEW s \in Sessions, NEW n \in 1..MaxBeats, NEW ends \in BOOLEAN,
         BeatLoad(w, s, n, ends)
  PROVE  WatchInv'
<1> DEFINE r == [op |-> "beat", open |-> OpenSessions \intersect {s}, beat |-> {<<s, n>>},
                 ends |-> ends, found |-> progress.found, watched |-> progress.watched,
                 level |-> Level(progress.watched)]
<1>1. /\ request[w].op = "idle" /\ progress.watched < MaxWatched
      /\ <<s, n>> \in Beats /\ <<s, n>> \notin nonces[process[w]]
      /\ nonces' \in [Processes -> SUBSET Beats]
  BY BeatAllows DEF BeatLoad
<1>2. /\ request' = [request EXCEPT ![w] = r]
      /\ slips' = slips \union (IF <<s, n>> \in Unmarked(process[w]) THEN {"again"} ELSE {})
      /\ UNCHANGED <<process, market, sessions, progress, warned, beats>>
  BY DEF BeatLoad
<1>3. r \in Request
  BY <1>1, WatchTypes, LevelBounds DEF Request, OpenSessions
<1>4. /\ r.op = "beat" /\ r.watched = progress.watched /\ r.beat = {<<s, n>>}
      /\ r.level = Level(progress.watched)
  OBVIOUS
<1> HIDE DEF r
<1>5. /\ request' \in [Workers -> Request] /\ request'[w] = r
      /\ \A v \in Workers : v # w => request'[v] = request[v]
  BY <1>2, <1>3, WatchTypes
<1>6. slips \subseteq slips' /\ slips' \subseteq {"starts", "overlap", "back", "again", "cut"}
      /\ ("cut" \in slips' <=> "cut" \in slips) /\ ("back" \in slips' <=> "back" \in slips)
  BY <1>2, WatchTypes
<1>7. BeatsStand
  BY DEF WatchInv
<1>8. Level(progress.watched)' = Level(progress.watched)
  BY <1>2 DEF Level
<1>9. BeatsLoaded'
  <2> SUFFICES ASSUME NEW v \in Workers, request'[v].op = "beat"
               PROVE  /\ request'[v].watched < MaxWatched
                      /\ request'[v].level = Level(request'[v].watched)
                      /\ \E b \in Beats : request'[v].beat = {b}
    BY DEF BeatsLoaded, Level
  <2>1. CASE v = w
    BY <1>1, <1>4, <1>5, <2>1
  <2>2. CASE v # w
    BY <1>5, <1>7, <2>2 DEF BeatsStand, BeatsLoaded
  <2> QED BY <2>1, <2>2
<1>10. BeatsApart'
  <2> SUFFICES ASSUME "again" \notin slips'
               PROVE  \A u \in Workers : request'[u].op = "beat" =>
                        /\ request'[u].beat \intersect beats = {}
                        /\ \A v \in Workers \ {u} : request'[v].op = "beat" =>
                              request'[u].beat \intersect request'[v].beat = {}
    BY <1>2 DEF BeatsApart
  <2>1. "again" \notin slips /\ <<s, n>> \notin Unmarked(process[w])
    BY <1>2
  <2>2. <<s, n>> \notin beats /\ \A v \in Workers : <<s, n>> \notin request[v].beat
    BY <1>1, <2>1 DEF Unmarked
  <2>3. \A u \in Workers : request[u].op = "beat" =>
            /\ request[u].beat \intersect beats = {}
            /\ \A v \in Workers \ {u} : request[v].op = "beat" =>
                  request[u].beat \intersect request[v].beat = {}
    BY <1>7, <2>1 DEF BeatsStand, BeatsApart
  <2>4. r.beat \intersect beats = {} /\ \A v \in Workers : r.beat \intersect request[v].beat = {}
    BY <1>4, <2>2
  <2> QED BY <1>5, <2>3, <2>4
<1>11. LevelsOwed'
  <2> SUFFICES ASSUME slips' \intersect {"cut", "back"} = {}
               PROVE  /\ \A v \in Workers : request'[v].op \in {"beat", "settle"} =>
                           request'[v].level <= Level(progress.watched)
                      /\ \A x \in Levels : warned < x /\ x <= Level(progress.watched) =>
                           \E v \in Workers : request'[v].op = "settle" /\ request'[v].level < x
    BY <1>2, <1>8 DEF LevelsOwed
  <2>1. /\ \A v \in Workers : request[v].op \in {"beat", "settle"} =>
             request[v].level <= Level(progress.watched)
        /\ \A x \in Levels : warned < x /\ x <= Level(progress.watched) =>
             \E v \in Workers : request[v].op = "settle" /\ request[v].level < x
    BY <1>6, <1>7 DEF BeatsStand, LevelsOwed
  <2>2. Level(progress.watched) <= Level(progress.watched)
    BY WatchTypes, LevelBounds DEF Levels
  <2> QED BY <1>1, <1>4, <1>5, <2>1, <2>2
<1>12. UsageCounted'
  BY <1>2, <1>6, <1>7 DEF BeatsStand, UsageCounted
<1>13. SessionsBounded'
  BY <1>2, <1>6, OpenKept
<1>14. WatchTypeOK' /\ process' \in [Workers -> Processes]
  BY <1>1, <1>2, <1>5, <1>6 DEF WatchInv, WatchTypeOK
<1> QED BY <1>9, <1>10, <1>11, <1>12, <1>13, <1>14 DEF WatchInv, BeatsStand

LEMMA BeatSettleKeeps ==
  ASSUME WatchInv, NEW w \in Workers, BeatSettle(w)
  PROVE  WatchInv'
<1> DEFINE new == Level(progress.watched)
<1>1. /\ request[w].op = "settle"
      /\ warned' = IF new > request[w].level /\ new > warned THEN new ELSE warned
      /\ request' = [request EXCEPT ![w] = NoRequest]
      /\ UNCHANGED <<process, market, sessions, progress, nonces, beats, slips>>
  BY DEF BeatSettle, Crossed
<1>2. /\ request' \in [Workers -> Request] /\ request'[w] = NoRequest
      /\ \A v \in Workers : v # w => request'[v] = request[v]
  BY <1>1, NoRequestIs, WatchTypes
<1>3. new \in Levels /\ warned \in Levels /\ \A v \in Workers : request[v].level \in Levels
  BY WatchTypes, LevelBounds DEF Request
<1>4. BeatsStand
  BY DEF WatchInv
<1>5. Level(progress.watched)' = new
  BY <1>1 DEF Level
<1> HIDE DEF new
<1>6. BeatsLoaded'
  BY <1>1, <1>2, <1>4, NoRequestIs DEF BeatsStand, BeatsLoaded, Level
<1>7. BeatsApart'
  BY <1>1, <1>2, <1>4, NoRequestIs DEF BeatsStand, BeatsApart
<1>8. UsageCounted'
  BY <1>1, <1>4 DEF BeatsStand, UsageCounted
<1>9. LevelsOwed'
  <2> SUFFICES ASSUME slips \intersect {"cut", "back"} = {}
               PROVE  /\ \A v \in Workers : request'[v].op \in {"beat", "settle"} =>
                           request'[v].level <= new
                      /\ \A x \in Levels : warned' < x /\ x <= new =>
                           \E v \in Workers : request'[v].op = "settle" /\ request'[v].level < x
    BY <1>1, <1>5 DEF LevelsOwed
  <2>1. /\ \A v \in Workers : request[v].op \in {"beat", "settle"} => request[v].level <= new
        /\ \A x \in Levels : warned < x /\ x <= new =>
             \E v \in Workers : request[v].op = "settle" /\ request[v].level < x
    BY <1>4 DEF BeatsStand, LevelsOwed, new
  <2>2. \A v \in Workers : request'[v].op \in {"beat", "settle"} => request'[v].level <= new
    BY <1>2, <2>1, NoRequestIs
  <2>3. ASSUME NEW x \in Levels, warned' < x, x <= new
        PROVE  \E v \in Workers : request'[v].op = "settle" /\ request'[v].level < x
    <3>1. warned < x /\ ~(request[w].level < x)
      BY <1>1, <1>3, <2>1, <2>3 DEF Levels
    <3>2. PICK v \in Workers : request[v].op = "settle" /\ request[v].level < x
      BY <2>1, <2>3, <3>1
    <3>3. v # w
      BY <3>1, <3>2
    <3> QED BY <1>2, <3>2, <3>3
  <2> QED BY <2>2, <2>3
<1>10. SessionsBounded'
  BY <1>1, OpenKept
<1>11. WatchTypeOK' /\ process' \in [Workers -> Processes]
  BY <1>1, <1>2, <1>3 DEF WatchInv, WatchTypeOK
<1> QED BY <1>6, <1>7, <1>8, <1>9, <1>10, <1>11 DEF WatchInv, BeatsStand

\* The insert of a progress row that is there by now.
LEMMA BeatRefusedKeeps ==
  ASSUME WatchInv, NEW w \in Workers, request[w].op = "beat",
         request' = [request EXCEPT ![w] = NoRequest],
         UNCHANGED <<process, market, sessions, progress, nonces, warned, beats, slips>>
  PROVE  WatchInv'
<1>1. SessionsBounded'
  BY OpenKept
<1> QED BY <1>1, NoRequestIs, RequestTurns, WatchTypes

LEMMA BeatStoreKeeps ==
  ASSUME WatchInv, NEW w \in Workers, BeatStore(w)
  PROVE  WatchInv'
<1> DEFINE r == request[w]
<1>1. r.op = "beat" /\ UNCHANGED <<process, market, nonces, warned>>
  BY DEF BeatStore
<1>2. CASE ~r.found /\ progress.found
  BY <1>1, <1>2, BeatRefusedKeeps DEF BeatStore
<1>3. CASE ~(~r.found /\ progress.found)
  <2>1. /\ \E b \in r.beat :
              sessions' = [sessions EXCEPT ![b[1]] = SessionAfter(sessions[b[1]], b[1] \in r.open, r.ends)]
        /\ progress' = [found |-> TRUE, watched |-> r.watched + 1]
        /\ beats' = beats \union r.beat
        /\ slips' = slips \union (IF progress.watched = r.watched THEN {} ELSE {"overlap"})
                          \union (IF progress.watched > r.watched + 1 THEN {"back"} ELSE {})
        /\ request' = [request EXCEPT ![w].op = "settle"]
    BY <1>1, <1>3 DEF BeatStore
  <2>2. r \in Request /\ r.watched \in Nat /\ r.level \in Levels /\ r.beat \subseteq Beats
    BY WatchTypes, WatchConstants DEF Request
  <2>3. BeatsStand
    BY DEF WatchInv
  <2>4. r.watched < MaxWatched /\ r.level = Level(r.watched)
    BY <1>1, <2>3 DEF BeatsStand, BeatsLoaded
  <2>5. PICK b \in Beats : r.beat = {b}
    BY <1>1, <2>3 DEF BeatsStand, BeatsLoaded
  <2>6. progress'.found = TRUE /\ progress'.watched = r.watched + 1
        /\ progress'.watched \in 0..MaxWatched /\ progress'.watched \in Nat
    BY <2>1, <2>2, <2>4, WatchConstants
  <2>7. slips \subseteq slips' /\ slips' \subseteq {"starts", "overlap", "back", "again", "cut"}
        /\ ("cut" \in slips' <=> "cut" \in slips) /\ ("again" \in slips' <=> "again" \in slips)
        /\ (progress.watched # r.watched => "overlap" \in slips')
        /\ (progress.watched > r.watched + 1 => "back" \in slips')
    BY <2>1, WatchTypes
  <2>8. /\ request' \in [Workers -> Request] /\ request'[w].op = "settle"
        /\ request'[w].level = r.level
        /\ \A v \in Workers : v # w => request'[v] = request[v]
    <3>1. [r EXCEPT !.op = "settle"] \in Request
      BY <2>2 DEF Request
    <3>2. [r EXCEPT !.op = "settle"].op = "settle" /\ [r EXCEPT !.op = "settle"].level = r.level
      BY <2>2 DEF Request
    <3>3. request' = [request EXCEPT ![w] = [r EXCEPT !.op = "settle"]]
      BY <2>1
    <3> QED BY <3>1, <3>2, <3>3, WatchTypes
  <2>9. b[1] \in Sessions
    BY <2>5 DEF Beats
  <2>10. sessions' = [sessions EXCEPT ![b[1]] = SessionAfter(sessions[b[1]], b[1] \in r.open, r.ends)]
    BY <2>1, <2>5
  <2>11. sessions' \in [Sessions -> {"none", "open", "ended"}]
         /\ \A s \in Sessions : sessions'[s] = "open" => sessions[s] = "open"
    BY <2>9, <2>10, WatchTypes DEF SessionAfter
  <2>12. SessionsBounded'
    BY <2>7, <2>11, OpenKept
  <2>13. beats' = beats \union {b} /\ beats' \subseteq Beats
    BY <2>1, <2>5, WatchTypes
  <2>14. WatchTypeOK' /\ process' \in [Workers -> Processes]
    BY <1>1, <2>6, <2>7, <2>8, <2>11, <2>13, WatchTypes DEF WatchInv, WatchTypeOK
  <2> HIDE DEF r
  <2>15. BeatsLoaded'
    <3>1. \A v \in Workers : request'[v].op = "beat" => v # w
      BY <2>8
    <3> QED BY <2>3, <2>8, <3>1 DEF BeatsStand, BeatsLoaded, Level
  <2>16. BeatsApart'
    <3>1. \A v \in Workers : request'[v].op = "beat" => v # w
      BY <2>8
    <3>2. ASSUME "again" \notin slips'
          PROVE  \A u \in Workers : request'[u].op = "beat" =>
                   /\ request'[u].beat \intersect beats' = {}
                   /\ \A v \in Workers \ {u} : request'[v].op = "beat" =>
                         request'[u].beat \intersect request'[v].beat = {}
      <4>1. \A u \in Workers : request[u].op = "beat" =>
              /\ request[u].beat \intersect beats = {}
              /\ \A v \in Workers \ {u} : request[v].op = "beat" =>
                    request[u].beat \intersect request[v].beat = {}
        BY <2>3, <2>7, <3>2 DEF BeatsStand, BeatsApart
      <4>2. \A u \in Workers : u # w /\ request[u].op = "beat" => b \notin request[u].beat
        BY <1>1, <2>5, <4>1 DEF r
      <4> QED BY <2>8, <2>13, <3>1, <4>1, <4>2
    <3> QED BY <3>2 DEF BeatsApart
  <2>17. UsageCounted'
    <3>1. ASSUME slips' \intersect {"overlap", "again"} = {}
          PROVE  progress'.watched = Cardinality(beats')
      <4>1. slips \intersect {"overlap", "again"} = {} /\ progress.watched = r.watched
        BY <2>7, <3>1
      <4>2. progress.watched = Cardinality(beats)
        BY <2>3, <4>1 DEF BeatsStand, UsageCounted
      <4>3. b \notin beats
        BY <1>1, <2>3, <2>5, <4>1 DEF BeatsStand, BeatsApart, r
      <4>4. IsFiniteSet(beats) /\ Cardinality(beats) \in Nat
        BY SessionsFinite, WatchTypes
      <4>5. Cardinality(beats \union {b}) = Cardinality(beats) + 1
        BY <4>3, <4>4, CardinalityOfOneMore
      <4> QED BY <2>6, <2>13, <4>1, <4>2, <4>5
    <3> QED BY <3>1 DEF UsageCounted
  <2>18. LevelsOwed'
    <3> DEFINE old == Level(progress.watched)  new == Level(r.watched + 1)
    <3>1. Level(progress.watched)' = new
      BY <2>6 DEF Level
    <3>2. old \in Levels /\ new \in Levels
      BY <2>2, WatchTypes, LevelBounds
    <3>3. r.level <= new
      <4>1. r.watched + 1 \in Nat /\ r.watched <= r.watched + 1
        BY <2>2
      <4> QED BY <2>2, <2>4, <4>1, LevelBounds
    <3>4. ASSUME slips' \intersect {"cut", "back"} = {}
          PROVE  /\ \A v \in Workers : request'[v].op \in {"beat", "settle"} =>
                      request'[v].level <= new
                 /\ \A x \in Levels : warned < x /\ x <= new =>
                      \E v \in Workers : request'[v].op = "settle" /\ request'[v].level < x
      <4>1. slips \intersect {"cut", "back"} = {} /\ ~(progress.watched > r.watched + 1)
        BY <2>7, <3>4
      <4>2. old <= new
        <5>1. progress.watched <= r.watched + 1 /\ r.watched + 1 \in Nat
          BY <2>2, <4>1, WatchTypes
        <5> QED BY <5>1, WatchTypes, LevelBounds
      <4>3. /\ \A v \in Workers : request[v].op \in {"beat", "settle"} => request[v].level <= old
            /\ \A x \in Levels : warned < x /\ x <= old =>
                 \E v \in Workers : request[v].op = "settle" /\ request[v].level < x
        BY <2>3, <4>1 DEF BeatsStand, LevelsOwed
      <4>4. \A v \in Workers : request[v].level \in Levels /\ request'[v].level \in Levels
        BY <2>8, WatchTypes DEF Request
      <4> HIDE DEF old, new
      <4>5. ASSUME NEW v \in Workers, request'[v].op \in {"beat", "settle"}
            PROVE  request'[v].level <= new
        <5>1. CASE v = w
          BY <2>8, <3>3, <5>1
        <5>2. CASE v # w
          <6>1. request[v].level <= old /\ request'[v].level = request[v].level
            BY <2>8, <4>3, <4>5, <5>2
          <6> QED BY <3>2, <4>2, <4>4, <6>1 DEF Levels
        <5> QED BY <5>1, <5>2
      <4>6. ASSUME NEW x \in Levels, warned < x, x <= new
            PROVE  \E v \in Workers : request'[v].op = "settle" /\ request'[v].level < x
        <5>1. CASE x <= old
          <6>1. PICK v \in Workers : request[v].op = "settle" /\ request[v].level < x
            BY <4>3, <4>6, <5>1
          <6>2. v # w
            BY <1>1, <6>1 DEF r
          <6> QED BY <2>8, <6>1, <6>2
        <5>2. CASE ~(x <= old)
          <6>1. r.level <= old
            BY <1>1, <4>3 DEF r
          <6>2. r.level < x
            BY <2>2, <3>2, <5>2, <6>1 DEF Levels
          <6> QED BY <2>8, <6>2
        <5> QED BY <5>1, <5>2
      <4> QED BY <4>5, <4>6
    <3> QED BY <1>1, <3>1, <3>4 DEF LevelsOwed
  <2> QED BY <2>12, <2>14, <2>15, <2>16, <2>17, <2>18 DEF WatchInv, BeatsStand
<1> QED BY <1>2, <1>3

LEMMA WatchStep == WatchInv /\ WatchNext => WatchInv'
<1> SUFFICES ASSUME WatchInv, WatchNext PROVE WatchInv'
  OBVIOUS
<1>1. ASSUME NEW ready \in BOOLEAN, Encoded(ready) PROVE WatchInv'
  BY <1>1, EncodedKeeps
<1>2. ASSUME NEW gone \in SUBSET Sessions, RevokeSessions(gone) PROVE WatchInv'
  BY <1>2, RevokeSessionsKeeps
<1>3. ASSUME NEW p \in Processes, WatchProcessEnds(p) PROVE WatchInv'
  BY <1>3, WatchProcessEndsKeeps
<1>4. ASSUME NEW w \in Workers, TokenLoad(w) \/ TokenStore(w) \/ BeatStore(w) \/ BeatSettle(w) \/ WatchFails(w)
      PROVE  WatchInv'
  BY <1>4, TokenLoadKeeps, TokenStoreKeeps, BeatStoreKeeps, BeatSettleKeeps, WatchFailsKeeps
<1>5. ASSUME NEW w \in Workers, NEW b \in Beats, NEW ends \in BOOLEAN,
             BeatLoad(w, b[1], b[2], ends) \/ BeatMismatch(w, b[1], b[2], ends)
      PROVE  WatchInv'
  <2>1. b[1] \in Sessions /\ b[2] \in 1..MaxBeats
    BY <1>5 DEF Beats
  <2> QED BY <1>5, <2>1, BeatLoadKeeps, BeatMismatchKeeps
<1> QED BY <1>1, <1>2, <1>3, <1>4, <1>5, PurchaseCourseKeeps DEF WatchNext

LEMMA WatchStutter == WatchInv /\ UNCHANGED watchVars => WatchInv'
<1> SUFFICES ASSUME WatchInv, UNCHANGED watchVars PROVE WatchInv'
  OBVIOUS
<1>1. UNCHANGED <<process, market, sessions, progress, nonces, request, warned, beats, slips>>
  BY DEF watchVars
<1> QED BY <1>1, WatchTypes, MarketKeeps

\* What the counts say: every level reached is logged once nobody settles.
LEMMA WatchInvHolds ==
  WatchInv => WatchTypeOK /\ UsageCounted /\ UseIsLogged /\ SessionsBounded
<1> SUFFICES ASSUME WatchInv PROVE WatchTypeOK /\ UsageCounted /\ UseIsLogged /\ SessionsBounded
  OBVIOUS
<1>1. Level(progress.watched) \in Levels /\ warned \in Levels
  BY WatchTypes, LevelBounds
<1>2. LevelsOwed
  BY DEF WatchInv, BeatsStand
<1>3. UseIsLogged
  <2> SUFFICES ASSUME slips \intersect {"cut", "back"} = {},
                      ~(Level(progress.watched) <= warned)
               PROVE  \E w \in Workers : request[w].op = "settle"
    BY DEF UseIsLogged
  <2>1. warned < Level(progress.watched) /\ Level(progress.watched) <= Level(progress.watched)
    BY <1>1 DEF Levels
  <2> QED BY <1>1, <1>2, <2>1 DEF LevelsOwed
<1> QED BY <1>3 DEF WatchInv, BeatsStand

\* An ended session is opened by no step.
StayEnded == \A s \in Sessions : sessions[s] = "ended" => sessions'[s] = "ended"

LEMMA EndedForGoodStep ==
  ASSUME WatchInv, [WatchNext]_watchVars
  PROVE  StayEnded
<1>1. CASE UNCHANGED watchVars
  BY <1>1 DEF watchVars, StayEnded
<1>2. ASSUME NEW w \in Workers, TokenStore(w) PROVE StayEnded
  <2>1. PICK s \in Sessions :
         /\ sessions[s] = "none"
         /\ sessions' = [Revoked(sessions, Stale(request[w].open)) EXCEPT ![s] = "open"]
    BY <1>2 DEF TokenStore
  <2>2. \A t \in Sessions : Revoked(sessions, Stale(request[w].open))[t] \in {"ended", sessions[t]}
        /\ DOMAIN Revoked(sessions, Stale(request[w].open)) = Sessions
    BY DEF Revoked
  <2> QED BY <2>1, <2>2 DEF StayEnded
<1>3. ASSUME NEW gone, sessions' = Revoked(sessions, gone) PROVE StayEnded
  BY <1>3 DEF Revoked, StayEnded
<1>4. ASSUME NEW w \in Workers, BeatStore(w) PROVE StayEnded
  <2>1. sessions' = sessions \/ \E b \in request[w].beat :
           sessions' = [sessions EXCEPT ![b[1]] =
                          SessionAfter(sessions[b[1]], b[1] \in request[w].open, request[w].ends)]
    BY <1>4 DEF BeatStore
  <2> QED BY <2>1, WatchTypes DEF SessionAfter, StayEnded
<1>5. ASSUME UNCHANGED sessions PROVE StayEnded
  BY <1>5 DEF StayEnded
<1>6. ASSUME WatchNext PROVE StayEnded
  <2>1. ASSUME NEW w \in Workers,
               \/ TokenLoad(w) \/ TokenStore(w) \/ BeatStore(w) \/ BeatSettle(w) \/ WatchFails(w)
               \/ \E b \in Beats, ends \in BOOLEAN :
                    BeatLoad(w, b[1], b[2], ends) \/ BeatMismatch(w, b[1], b[2], ends)
        PROVE  StayEnded
    BY <1>2, <1>3, <1>4, <1>5, <2>1 DEF TokenLoad, BeatSettle, WatchFails, Cut, BeatLoad, BeatMismatch
  <2>2. ASSUME \E ready \in BOOLEAN : Encoded(ready) PROVE StayEnded
    BY <1>5, <2>2 DEF Encoded
  <2>3. ASSUME PurchaseCourse PROVE StayEnded
    BY <1>5, <2>3 DEF PurchaseCourse
  <2>4. ASSUME \E gone \in SUBSET Sessions : RevokeSessions(gone) PROVE StayEnded
    BY <1>3, <2>4 DEF RevokeSessions
  <2>5. ASSUME \E p \in Processes : WatchProcessEnds(p) PROVE StayEnded
    BY <1>5, <2>5 DEF WatchProcessEnds, Cut
  <2> QED BY <1>6, <2>1, <2>2, <2>3, <2>4, <2>5 DEF WatchNext
<1> QED BY <1>1, <1>6

-----------------------------------------------------------------------------
(* Mails to leads. *)

\* A call that does not run holds nothing; what a call holds was queued for a
\* lead that had been approved; a lead mailed was not one that has answered.
MailsKnown ==
    /\ \A c \in Calls : ~calls[c].running =>
          calls[c].batch = {} /\ calls[c].sent = {} /\ calls[c].failed = {}
    /\ \A c \in Calls : \A m \in calls[c].batch \union calls[c].sent \union calls[c].failed :
          mails[m] # "none"
    /\ \A m \in Mails : mails[m] # "none" => leads[m[1]] \notin {"none", "research"}
    /\ \A c \in Calls : \A m \in calls[c].sent : calls[c].lead[m[1]] \notin {"none"} \union Stopped

RepliesStand == "overwrite" \notin mishaps => \A l \in stopped : leads[l] \in Stopped

\* One call at a time: its mails are queued still; a mail delivered is recorded
\* or held by it as sent; and the day is counted with what it may yet send.
OneCall == \A c, d \in Calls : calls[c].running /\ calls[d].running => c = d

HeldQueued == \A c \in Calls :
    /\ \A m \in calls[c].batch \union calls[c].sent \union calls[c].failed : mails[m] = "queued"
    /\ calls[c].batch \intersect calls[c].sent = {}

SentIsKnown ==
    /\ \A m \in Mails : delivered[m] <= 1
    /\ \A m \in Mails : delivered[m] > 0 => mails[m] = "sent" \/ \E c \in Calls : m \in calls[c].sent
    /\ \A m \in today : mails[m] = "sent"

DayCounted ==
    /\ Cardinality(today) <= DailyLimit
    /\ \A c \in Calls : calls[c].running =>
         /\ sentToday = Cardinality(today) + Cardinality(calls[c].sent)
         /\ Cardinality(today) + Cardinality(calls[c].sent) + Cardinality(calls[c].batch) <= DailyLimit
    /\ (\A c \in Calls : ~calls[c].running) => sentToday = Cardinality(today)

Undisturbed == mishaps \intersect {"overlap", "abort"} = {}

OutreachInv ==
    /\ OutreachTypeOK /\ MailsKnown /\ RepliesStand
    /\ Undisturbed => OneCall /\ HeldQueued /\ SentIsKnown /\ DayCounted

LEMMA OutreachTypes ==
  ASSUME OutreachInv
  PROVE  /\ leads \in [Leads -> LeadStatus] /\ mails \in [Mails -> {"none", "queued", "sent", "error"}]
         /\ today \subseteq Mails /\ calls \in [Calls -> Call]
         /\ delivered \in [Mails -> Nat] /\ delivered \in [Mails -> 0..MaxDelivered]
         /\ sentToday \in Nat /\ stopped \subseteq Leads
         /\ mishaps \subseteq {"overlap", "abort", "overwrite"}
         /\ DailyLimit \in Nat /\ MaxDelivered \in Nat
<1>1. DailyLimit \in Nat /\ MaxDelivered \in Nat
  BY OutreachAssumption
<1>2. delivered \in [Mails -> 0..MaxDelivered]
  BY DEF OutreachInv, OutreachTypeOK
<1>3. delivered \in [Mails -> Nat]
  BY <1>1, <1>2
<1> QED BY <1>1, <1>2, <1>3 DEF OutreachInv, OutreachTypeOK

LEMMA MailsFinite ==
  /\ IsFiniteSet(Mails)
  /\ \A B \in SUBSET Mails : IsFiniteSet(B) /\ Cardinality(B) \in Nat
<1>1. IsFiniteSet({1} \union {2})
  BY FS_Singleton, FS_AddElement
<1>2. {1, 2} = {1} \union {2}
  OBVIOUS
<1>3. IsFiniteSet({1, 2})
  BY <1>1, <1>2
<1>4. IsFiniteSet(Mails)
  BY <1>3, OutreachAssumption, FS_Product DEF Mails
<1> QED BY <1>4, FS_Subset, FS_CardinalityType

LEMMA NoCallIs ==
  /\ NoCall \in Call /\ NoCall.running = FALSE /\ NoCall.batch = {} /\ NoCall.sent = {}
  /\ NoCall.failed = {}
  BY DEF NoCall, Call, LeadStatus

LEMMA CallIs ==
  ASSUME OutreachInv, NEW c \in Calls
  PROVE  /\ calls[c] \in Call /\ calls[c].running \in BOOLEAN /\ calls[c].batch \subseteq Mails
         /\ calls[c].sent \subseteq Mails /\ calls[c].failed \subseteq Mails
         /\ calls[c].lead \in [Leads -> LeadStatus]
  BY OutreachTypes DEF Call

LEMMA OutreachStart == OutreachInit => OutreachInv
<1> SUFFICES ASSUME OutreachInit PROVE OutreachInv
  OBVIOUS
<1>1. /\ leads = [l \in Leads |-> "none"] /\ mails = [m \in Mails |-> "none"] /\ today = {}
      /\ calls = [c \in Calls |-> NoCall] /\ delivered = [m \in Mails |-> 0]
      /\ sentToday = 0 /\ stopped = {} /\ mishaps = {}
  BY DEF OutreachInit
<1>2. OutreachTypeOK
  BY <1>1, NoCallIs, OutreachAssumption DEF OutreachTypeOK, LeadStatus
<1>3. MailsKnown /\ RepliesStand
  BY <1>1, NoCallIs DEF MailsKnown, RepliesStand
<1>4. OneCall /\ HeldQueued /\ SentIsKnown
  BY <1>1, NoCallIs DEF OneCall, HeldQueued, SentIsKnown
<1>5. Cardinality(today) = 0
  BY <1>1, FS_EmptySet
<1>6. DayCounted
  BY <1>1, <1>5, NoCallIs, OutreachAssumption DEF DayCounted
<1> QED BY <1>2, <1>3, <1>4, <1>6 DEF OutreachInv

-----------------------------------------------------------------------------
\* A lead comes to have another status, and its mails if it has any are not of
\* one nobody has approved.
LEMMA LeadTurns ==
  ASSUME OutreachInv, NEW l \in Leads, NEW s \in LeadStatus,
         leads' = [leads EXCEPT ![l] = s],
         s \in {"none", "research"} => \A m \in Mails : m[1] = l => mails[m] = "none",
         stopped' \in SUBSET Leads, stopped \subseteq stopped', stopped' \subseteq stopped \union {l},
         l \in stopped' /\ "overwrite" \notin mishaps => s \in Stopped,
         UNCHANGED <<mails, today, calls, delivered, sentToday, mishaps>>
  PROVE  OutreachInv'
<1>1. \A k \in Leads : leads'[k] = IF k = l THEN s ELSE leads[k]
  BY OutreachTypes
<1>2. OutreachTypeOK'
  BY OutreachTypes DEF OutreachInv, OutreachTypeOK
<1>3. \A m \in Mails : m[1] \in Leads
  BY DEF Mails
<1>4. MailsKnown'
  <2>1. \A m \in Mails : mails[m] # "none" => leads'[m[1]] \notin {"none", "research"}
    BY <1>1, <1>3 DEF OutreachInv, MailsKnown
  <2> QED BY <2>1 DEF OutreachInv, MailsKnown, Stopped
<1>5. RepliesStand'
  BY <1>1, OutreachTypes DEF OutreachInv, RepliesStand, Stopped
<1>6. Undisturbed' => OneCall' /\ HeldQueued' /\ SentIsKnown' /\ DayCounted'
  BY DEF OutreachInv, Undisturbed, OneCall, HeldQueued, SentIsKnown, DayCounted
<1> QED BY <1>2, <1>4, <1>5, <1>6 DEF OutreachInv

LEMMA ResearchLeadKeeps ==
  ASSUME OutreachInv, NEW l \in Leads, ResearchLead(l)
  PROVE  OutreachInv'
<1>1. leads[l] = "none" /\ leads' = [leads EXCEPT ![l] = "research"]
      /\ UNCHANGED <<mails, today, calls, delivered, sentToday, stopped, mishaps>>
  BY DEF ResearchLead
<1>2. \A m \in Mails : m[1] = l => mails[m] = "none"
  BY <1>1 DEF OutreachInv, MailsKnown
<1>3. "overwrite" \notin mishaps => l \notin stopped
  BY <1>1 DEF OutreachInv, RepliesStand, Stopped
<1>4. "research" \in LeadStatus
  BY DEF LeadStatus
<1> QED BY <1>1, <1>2, <1>3, <1>4, OutreachTypes, LeadTurns

LEMMA ReplyKeeps ==
  ASSUME OutreachInv, NEW l \in Leads, NEW stop \in BOOLEAN, Reply(l, stop)
  PROVE  OutreachInv'
<1> DEFINE s == IF stop THEN "suppressed" ELSE "replied"
<1>1. /\ leads' = [leads EXCEPT ![l] = s]
      /\ stopped' = IF stop THEN stopped \union {l} ELSE stopped
      /\ UNCHANGED <<mails, today, calls, delivered, sentToday, mishaps>>
  BY DEF Reply
<1>2. s \in LeadStatus /\ s \in Stopped /\ s \notin {"none", "research"}
  BY DEF LeadStatus, Stopped
<1>3. stopped' \in SUBSET Leads /\ stopped \subseteq stopped' /\ stopped' \subseteq stopped \union {l}
  BY <1>1, OutreachTypes
<1> HIDE DEF s
<1> QED BY <1>1, <1>2, <1>3, LeadTurns

LEMMA ApproveLeadKeeps ==
  ASSUME OutreachInv, NEW l \in Leads, ApproveLead(l)
  PROVE  OutreachInv'
<1>1. leads[l] = "research" /\ leads' = [leads EXCEPT ![l] = "approved"]
      /\ mails' = [mails EXCEPT ![<<l, 1>>] = "queued"]
      /\ UNCHANGED <<today, calls, delivered, sentToday, stopped, mishaps>>
  BY DEF ApproveLead
<1>2. <<l, 1>> \in Mails /\ (\A m \in Mails : m[1] \in Leads) /\ <<l, 1>>[1] = l
  BY DEF Mails
<1>3. \A m \in Mails : m[1] = l => mails[m] = "none"
  BY <1>1 DEF OutreachInv, MailsKnown
<1>4. mails[<<l, 1>>] = "none"
  BY <1>2, <1>3
<1>5. \A m \in Mails : mails'[m] = IF m = <<l, 1>> THEN "queued" ELSE mails[m]
  BY <1>1, OutreachTypes
<1>6. \A k \in Leads : leads'[k] = IF k = l THEN "approved" ELSE leads[k]
  BY <1>1, OutreachTypes
<1>7. OutreachTypeOK'
  BY <1>1, OutreachTypes DEF OutreachInv, OutreachTypeOK, LeadStatus
<1>8. \A c \in Calls : calls[c].batch \union calls[c].sent \union calls[c].failed \subseteq Mails
  BY CallIs
<1>9. MailsKnown'
  <2>1. \A m \in Mails : mails'[m] # "none" => leads'[m[1]] \notin {"none", "research"}
    BY <1>2, <1>5, <1>6 DEF OutreachInv, MailsKnown
  <2>2. \A c \in Calls : \A m \in calls[c].batch \union calls[c].sent \union calls[c].failed :
          mails'[m] # "none"
    BY <1>5, <1>8 DEF OutreachInv, MailsKnown
  <2> QED BY <1>1, <2>1, <2>2 DEF OutreachInv, MailsKnown, Stopped
<1>10. RepliesStand'
  BY <1>1, <1>6, OutreachTypes DEF OutreachInv, RepliesStand, Stopped
<1>11. ASSUME Undisturbed' PROVE OneCall' /\ HeldQueued' /\ SentIsKnown' /\ DayCounted'
  <2>1. OneCall /\ HeldQueued /\ SentIsKnown /\ DayCounted
    BY <1>1, <1>11 DEF OutreachInv, Undisturbed
  <2>2. OneCall' /\ DayCounted'
    BY <1>1, <2>1 DEF OneCall, DayCounted
  <2>3. HeldQueued'
    BY <1>1, <1>5, <1>8, <2>1 DEF HeldQueued
  <2>4. SentIsKnown'
    BY <1>1, <1>4, <1>5, <2>1, OutreachTypes DEF SentIsKnown
  <2> QED BY <2>2, <2>3, <2>4
<1> QED BY <1>7, <1>9, <1>10, <1>11 DEF OutreachInv

-----------------------------------------------------------------------------
\* A call comes to hold other mails.
LEMMA CallTurns ==
  ASSUME OutreachInv, NEW c \in Calls, NEW k \in Call, calls' = [calls EXCEPT ![c] = k]
  PROVE  /\ calls' \in [Calls -> Call] /\ calls'[c] = k
         /\ \A d \in Calls : d # c => calls'[d] = calls[d]
  BY OutreachTypes

LEMMA CallBeginsKeeps ==
  ASSUME OutreachInv, NEW c \in Calls, CallBegins(c)
  PROVE  OutreachInv'
<1>1. PICK batch \in SUBSET Queued :
         /\ batch # {} /\ Cardinality(batch) <= Capacity
         /\ calls' = [calls EXCEPT ![c] = [NoCall EXCEPT !.running = TRUE, !.batch = batch]]
  BY DEF CallBegins
<1> DEFINE k == [NoCall EXCEPT !.running = TRUE, !.batch = batch]
<1>2. /\ ~calls[c].running
      /\ mishaps' = mishaps \union (IF \E d \in Calls : calls[d].running THEN {"overlap"} ELSE {})
      /\ UNCHANGED <<leads, mails, today, delivered, sentToday, stopped>>
  BY DEF CallBegins
<1>3. batch \subseteq Mails /\ \A m \in batch : mails[m] = "queued"
  BY DEF Queued
<1>4. /\ k \in Call /\ k.running = TRUE /\ k.batch = batch /\ k.sent = {} /\ k.failed = {}
      /\ calls' = [calls EXCEPT ![c] = k]
  BY <1>1, <1>3, NoCallIs DEF Call
<1> HIDE DEF k
<1>5. /\ calls' \in [Calls -> Call] /\ calls'[c] = k
      /\ \A d \in Calls : d # c => calls'[d] = calls[d]
  BY <1>4, CallTurns
<1>6. OutreachTypeOK'
  BY <1>2, <1>5, OutreachTypes DEF OutreachInv, OutreachTypeOK
<1>7. MailsKnown'
  BY <1>2, <1>3, <1>4, <1>5 DEF OutreachInv, MailsKnown
<1>8. RepliesStand'
  BY <1>2 DEF OutreachInv, RepliesStand
<1>9. ASSUME Undisturbed' PROVE OneCall' /\ HeldQueued' /\ SentIsKnown' /\ DayCounted'
  <2>1. Undisturbed /\ \A d \in Calls : ~calls[d].running
    BY <1>2, <1>9 DEF Undisturbed
  <2>2. OneCall /\ HeldQueued /\ SentIsKnown /\ DayCounted
    BY <2>1 DEF OutreachInv
  <2>3. OneCall'
    BY <1>5, <2>1 DEF OneCall
  <2>4. HeldQueued'
    BY <1>2, <1>3, <1>4, <1>5, <2>2 DEF HeldQueued
  <2>5. calls[c].sent = {}
    BY <1>2 DEF OutreachInv, MailsKnown
  <2>6. SentIsKnown'
    <3>1. \A m \in Mails : delivered[m] > 0 => mails[m] = "sent" \/ \E d \in Calls : m \in calls'[d].sent
      BY <1>5, <2>2, <2>5 DEF SentIsKnown
    <3> QED BY <1>2, <2>2, <3>1 DEF SentIsKnown
  <2>7. DayCounted'
    <3>1. Cardinality({}) = 0
      BY FS_EmptySet
    <3>2. Cardinality(today) \in Nat /\ Cardinality(batch) \in Nat
      BY <1>3, MailsFinite, OutreachTypes
    <3>3. Cardinality(today) <= DailyLimit /\ sentToday = Cardinality(today)
      BY <2>1, <2>2 DEF DayCounted
    <3>4. Cardinality(today) + Cardinality(batch) <= DailyLimit
      BY <1>1, <3>2, <3>3, OutreachTypes DEF Capacity
    <3>5. /\ calls'[c].running /\ calls'[c].sent = {} /\ calls'[c].batch = batch
          /\ \A d \in Calls : calls'[d].running => d = c
      BY <1>4, <1>5, <2>1
    <3>6. Cardinality(today) + 0 = Cardinality(today)
      BY <3>2
    <3>7. UNCHANGED <<today, sentToday>>
      BY <1>2
    <3> QED BY <3>1, <3>3, <3>4, <3>5, <3>6, <3>7 DEF DayCounted
  <2> QED BY <2>3, <2>4, <2>6, <2>7
<1> QED BY <1>6, <1>7, <1>8, <1>9 DEF OutreachInv

LEMMA CallAbortsKeeps ==
  ASSUME OutreachInv, NEW c \in Calls, CallAborts(c)
  PROVE  OutreachInv'
<1>1. /\ calls[c].running /\ calls' = [calls EXCEPT ![c] = NoCall]
      /\ mishaps' = mishaps \union (IF calls[c].sent = {} THEN {} ELSE {"abort"})
      /\ UNCHANGED <<leads, mails, today, delivered, sentToday, stopped>>
  BY DEF CallAborts, CallEnds
<1>2. /\ calls' \in [Calls -> Call] /\ calls'[c] = NoCall
      /\ \A d \in Calls : d # c => calls'[d] = calls[d]
  BY <1>1, NoCallIs, CallTurns
<1>3. OutreachTypeOK'
  BY <1>1, <1>2, OutreachTypes DEF OutreachInv, OutreachTypeOK
<1>4. MailsKnown'
  BY <1>1, <1>2, NoCallIs DEF OutreachInv, MailsKnown
<1>5. RepliesStand'
  BY <1>1 DEF OutreachInv, RepliesStand
<1>6. ASSUME Undisturbed' PROVE OneCall' /\ HeldQueued' /\ SentIsKnown' /\ DayCounted'
  <2>1. Undisturbed /\ calls[c].sent = {}
    BY <1>1, <1>6 DEF Undisturbed
  <2>2. OneCall /\ HeldQueued /\ SentIsKnown /\ DayCounted
    BY <2>1 DEF OutreachInv
  <2>3. \A d \in Calls : ~calls'[d].running
    BY <1>1, <1>2, <2>2, NoCallIs DEF OneCall
  <2>4. OneCall'
    BY <2>3 DEF OneCall
  <2>5. HeldQueued'
    BY <1>1, <1>2, <2>2, NoCallIs DEF HeldQueued
  <2>6. SentIsKnown'
    <3>1. \A m \in Mails : delivered[m] > 0 => mails[m] = "sent" \/ \E d \in Calls : m \in calls'[d].sent
      BY <1>2, <2>1, <2>2 DEF SentIsKnown
    <3> QED BY <1>1, <2>2, <3>1 DEF SentIsKnown
  <2>7. DayCounted'
    <3>1. Cardinality({}) = 0
      BY FS_EmptySet
    <3>2. Cardinality(today) \in Nat
      BY MailsFinite, OutreachTypes
    <3>3. sentToday = Cardinality(today) + Cardinality(calls[c].sent)
          /\ Cardinality(today) <= DailyLimit
      BY <1>1, <2>2 DEF DayCounted
    <3>4. Cardinality(calls[c].sent) = 0
      BY <2>1, <3>1
    <3>5. sentToday = Cardinality(today)
      BY <3>2, <3>3, <3>4
    <3> QED BY <1>1, <2>3, <3>3, <3>5 DEF DayCounted
  <2> QED BY <2>4, <2>5, <2>6, <2>7
<1> QED BY <1>3, <1>4, <1>5, <1>6 DEF OutreachInv

LEMMA NextDayKeeps ==
  ASSUME OutreachInv, NextDay
  PROVE  OutreachInv'
<1>1. /\ \A c \in Calls : ~calls[c].running
      /\ today' = {} /\ sentToday' = 0
      /\ UNCHANGED <<leads, mails, calls, delivered, stopped, mishaps>>
  BY DEF NextDay
<1>2. OutreachTypeOK'
  BY <1>1 DEF OutreachInv, OutreachTypeOK
<1>3. MailsKnown' /\ RepliesStand'
  BY <1>1 DEF OutreachInv, MailsKnown, RepliesStand
<1>4. ASSUME Undisturbed' PROVE OneCall' /\ HeldQueued' /\ SentIsKnown' /\ DayCounted'
  <2>1. OneCall /\ HeldQueued /\ SentIsKnown
    BY <1>1, <1>4 DEF OutreachInv, Undisturbed
  <2>2. OneCall' /\ HeldQueued' /\ SentIsKnown'
    BY <1>1, <2>1 DEF OneCall, HeldQueued, SentIsKnown
  <2>3. Cardinality(today') = 0
    BY <1>1, FS_EmptySet
  <2>4. DayCounted'
    BY <1>1, <2>3, OutreachTypes DEF DayCounted
  <2> QED BY <2>2, <2>4
<1> QED BY <1>2, <1>3, <1>4 DEF OutreachInv

-----------------------------------------------------------------------------
\* The call takes a mail of its batch, and sends it or not.
MailTaken(c, m, k) ==
    /\ k \in Call /\ k.running = calls[c].running /\ k.batch = calls[c].batch \ {m}
    /\ k.lead = [calls[c].lead EXCEPT ![m[1]] = Loaded(c, m[1])]
    /\ calls' = [calls EXCEPT ![c] = k]

LEMMA MailLoads ==
  ASSUME OutreachInv, NEW c \in Calls, NEW m \in calls[c].batch
  PROVE  /\ m \in Mails /\ m[1] \in Leads /\ calls[c].running
         /\ Loaded(c, m[1]) \in LeadStatus /\ Loaded(c, m[1]) # "none"
         /\ \A l \in Leads : calls[c].lead[l] # "none" => Loaded(c, l) = calls[c].lead[l]
<1>1. m \in Mails /\ m[1] \in Leads
  BY CallIs DEF Mails
<1>2. calls[c].running /\ mails[m] # "none" /\ leads[m[1]] # "none"
  BY <1>1, CallIs DEF OutreachInv, MailsKnown
<1> QED BY <1>1, <1>2, CallIs, OutreachTypes DEF Loaded

\* What taking a mail leaves to show: that it is sent or not.
LEMMA MailTakenKeeps ==
  ASSUME OutreachInv, NEW c \in Calls, NEW m \in calls[c].batch, NEW k, MailTaken(c, m, k),
         UNCHANGED <<leads, mails, today, stopped, mishaps>>,
         k.failed \subseteq calls[c].failed \union {m},
         \/ k.sent = calls[c].sent /\ UNCHANGED <<delivered, sentToday>>
         \/ /\ k.sent = calls[c].sent \union {m} /\ Loaded(c, m[1]) \notin Stopped
            /\ delivered[m] < MaxDelivered
            /\ delivered' = [delivered EXCEPT ![m] = delivered[m] + 1] /\ sentToday' = sentToday + 1
  PROVE  OutreachInv'
<1>1. /\ m \in Mails /\ m[1] \in Leads /\ calls[c].running
      /\ Loaded(c, m[1]) \in LeadStatus /\ Loaded(c, m[1]) # "none"
      /\ \A l \in Leads : calls[c].lead[l] # "none" => Loaded(c, l) = calls[c].lead[l]
  BY MailLoads
<1>2. /\ calls' \in [Calls -> Call] /\ calls'[c] = k
      /\ \A d \in Calls : d # c => calls'[d] = calls[d]
  BY CallTurns DEF MailTaken
<1>3. /\ k.running = TRUE /\ k.batch = calls[c].batch \ {m} /\ k.batch \subseteq Mails
      /\ k.sent \subseteq calls[c].sent \union {m} /\ k.failed \subseteq calls[c].failed \union {m}
      /\ k.lead[m[1]] = Loaded(c, m[1])
      /\ \A l \in Leads : l # m[1] => k.lead[l] = calls[c].lead[l]
  BY <1>1, CallIs DEF MailTaken, Call
<1>4. /\ delivered' \in [Mails -> 0..MaxDelivered] /\ sentToday' \in Nat
  <2>1. CASE UNCHANGED <<delivered, sentToday>>
    BY <2>1, OutreachTypes
  <2>2. CASE /\ delivered[m] < MaxDelivered
             /\ delivered' = [delivered EXCEPT ![m] = delivered[m] + 1] /\ sentToday' = sentToday + 1
    BY <1>1, <2>2, OutreachTypes
  <2> QED BY <2>1, <2>2
<1>5. OutreachTypeOK'
  BY <1>2, <1>4, OutreachTypes DEF OutreachTypeOK
<1>6. MailsKnown'
  <2>1. MailsKnown
    BY DEF OutreachInv
  <2>2. \A d \in Calls : ~calls'[d].running =>
          calls'[d].batch = {} /\ calls'[d].sent = {} /\ calls'[d].failed = {}
    BY <1>2, <1>3, <2>1 DEF MailsKnown
  <2>3. \A d \in Calls : \A n \in calls'[d].batch \union calls'[d].sent \union calls'[d].failed :
          mails[n] # "none"
    BY <1>2, <1>3, <2>1 DEF MailsKnown
  <2>4. \A n \in k.sent : k.lead[n[1]] \notin {"none"} \union Stopped
    <3> SUFFICES ASSUME NEW n \in k.sent PROVE k.lead[n[1]] \notin {"none"} \union Stopped
      OBVIOUS
    <3>1. n \in Mails /\ n[1] \in Leads
      BY <1>1, <1>3, CallIs DEF Mails
    <3>2. CASE n \in calls[c].sent
      <4>1. calls[c].lead[n[1]] \notin {"none"} \union Stopped
        BY <2>1, <3>2 DEF MailsKnown
      <4> QED BY <1>1, <1>3, <3>1, <4>1
    <3>3. CASE n \notin calls[c].sent
      <4>1. n = m /\ Loaded(c, m[1]) \notin Stopped
        BY <1>3, <3>3
      <4> QED BY <1>1, <1>3, <4>1
    <3> QED BY <3>2, <3>3
  <2>5. \A d \in Calls : \A n \in calls'[d].sent : calls'[d].lead[n[1]] \notin {"none"} \union Stopped
    BY <1>2, <2>1, <2>4 DEF MailsKnown
  <2> QED BY <2>1, <2>2, <2>3, <2>5 DEF MailsKnown, Stopped
<1>7. RepliesStand'
  BY DEF OutreachInv, RepliesStand, Stopped
<1>8. ASSUME Undisturbed' PROVE OneCall' /\ HeldQueued' /\ SentIsKnown' /\ DayCounted'
  <2>1. OneCall /\ HeldQueued /\ SentIsKnown /\ DayCounted
    BY <1>8 DEF OutreachInv, Undisturbed
  <2>2. OneCall'
    BY <1>1, <1>2, <1>3, <2>1 DEF OneCall
  <2>3. m \notin calls[c].sent /\ mails[m] = "queued"
    BY <2>1 DEF HeldQueued
  <2>4. HeldQueued'
    BY <1>2, <1>3, <2>1, <2>3 DEF HeldQueued
  <2>5. \A d \in Calls : d # c => calls[d].sent = {}
    BY <1>1, <2>1 DEF OneCall, OutreachInv, MailsKnown
  <2>6. delivered[m] = 0
    <3>1. ~(delivered[m] > 0)
      BY <1>1, <2>1, <2>3, <2>5 DEF SentIsKnown
    <3> QED BY <1>1, <3>1, OutreachTypes
  <2>7. \A n \in calls[c].sent : n \in calls'[c].sent
    BY <1>2
  <2>8. SentIsKnown'
    <3>1. ASSUME NEW n \in Mails
          PROVE  delivered'[n] <= 1
                 /\ (delivered'[n] > 0 => mails[n] = "sent" \/ \E d \in Calls : n \in calls'[d].sent)
      <4>1. CASE UNCHANGED <<delivered, sentToday>>
        BY <1>2, <2>1, <2>7, <4>1 DEF SentIsKnown
      <4>2. CASE /\ k.sent = calls[c].sent \union {m}
                 /\ delivered' = [delivered EXCEPT ![m] = delivered[m] + 1]
        <5>1. CASE n = m
          <6>1. delivered'[n] = 1 /\ n \in calls'[c].sent
            BY <1>1, <1>2, <2>6, <4>2, <5>1, OutreachTypes
          <6> QED BY <6>1
        <5>2. CASE n # m
          <6>1. delivered'[n] = delivered[n]
            BY <4>2, <5>2, OutreachTypes
          <6> QED BY <1>2, <2>1, <2>7, <6>1 DEF SentIsKnown
        <5> QED BY <5>1, <5>2
      <4> QED BY <4>1, <4>2
    <3>2. \A n \in today : mails[n] = "sent"
      BY <2>1 DEF SentIsKnown
    <3> QED BY <3>1, <3>2 DEF SentIsKnown
  <2>9. DayCounted'
    <3> DEFINE t == Cardinality(today)  b == Cardinality(calls[c].batch)  s == Cardinality(calls[c].sent)
    <3>1. /\ t \in Nat /\ b \in Nat /\ s \in Nat
          /\ IsFiniteSet(calls[c].batch) /\ IsFiniteSet(calls[c].sent)
      BY CallIs, MailsFinite, OutreachTypes
    <3>2. Cardinality(k.batch) = b - 1
      <4>1. Cardinality(calls[c].batch \ {m})
              = IF m \in calls[c].batch THEN Cardinality(calls[c].batch) - 1
                ELSE Cardinality(calls[c].batch)
        BY <3>1, FS_RemoveElement
      <4> QED BY <1>3, <4>1
    <3>3. t <= DailyLimit /\ sentToday = t + s /\ t + s + b <= DailyLimit
      BY <1>1, <2>1 DEF DayCounted
    <3>4. \A d \in Calls : calls'[d].running => d = c
      BY <1>1, <1>2, <2>1 DEF OneCall
    <3>5. \/ Cardinality(k.sent) = s /\ sentToday' = sentToday
          \/ Cardinality(k.sent) = s + 1 /\ sentToday' = sentToday + 1
      <4>1. Cardinality(calls[c].sent \union {m}) = s + 1
        BY <2>3, <3>1, FS_AddElement
      <4> QED BY <4>1
    <3>6. Cardinality(k.sent) \in Nat /\ Cardinality(k.batch) \in Nat
      BY <1>3, CallIs, MailsFinite, <1>1
    <3> HIDE DEF t, b, s
    <3>7. sentToday' = t + Cardinality(k.sent) /\ t + Cardinality(k.sent) + Cardinality(k.batch) <= DailyLimit
      BY <3>1, <3>2, <3>3, <3>5, <3>6, OutreachTypes
    <3> QED BY <1>2, <1>3, <3>3, <3>4, <3>7 DEF DayCounted, t
  <2> QED BY <2>2, <2>4, <2>8, <2>9
<1> QED BY <1>5, <1>6, <1>7, <1>8 DEF OutreachInv

LEMMA MailPassedKeeps ==
  ASSUME OutreachInv, NEW c \in Calls, NEW m \in Mails, MailPassed(c, m)
  PROVE  OutreachInv'
<1> DEFINE k == [calls[c] EXCEPT !.batch = @ \ {m}, !.lead[m[1]] = Loaded(c, m[1])]
<1>1. /\ m \in calls[c].batch /\ calls' = [calls EXCEPT ![c] = k]
      /\ UNCHANGED <<leads, mails, today, delivered, sentToday, stopped, mishaps>>
  BY DEF MailPassed
<1>2. m[1] \in Leads /\ Loaded(c, m[1]) \in LeadStatus
  BY <1>1, MailLoads
<1>3. /\ k \in Call /\ k.running = calls[c].running /\ k.batch = calls[c].batch \ {m}
      /\ k.lead = [calls[c].lead EXCEPT ![m[1]] = Loaded(c, m[1])]
      /\ k.sent = calls[c].sent /\ k.failed = calls[c].failed
  BY <1>2, CallIs DEF Call
<1> HIDE DEF k
<1> QED BY <1>1, <1>3, MailTakenKeeps DEF MailTaken

LEMMA MailFailedKeeps ==
  ASSUME OutreachInv, NEW c \in Calls, NEW m \in Mails, MailFailed(c, m)
  PROVE  OutreachInv'
<1> DEFINE k == [calls[c] EXCEPT !.batch = @ \ {m}, !.failed = @ \union {m},
                                 !.lead[m[1]] = Loaded(c, m[1])]
<1>1. /\ m \in calls[c].batch /\ calls' = [calls EXCEPT ![c] = k]
      /\ UNCHANGED <<leads, mails, today, delivered, sentToday, stopped, mishaps>>
  BY DEF MailFailed
<1>2. m[1] \in Leads /\ Loaded(c, m[1]) \in LeadStatus
  BY <1>1, MailLoads
<1>3. /\ k \in Call /\ k.running = calls[c].running /\ k.batch = calls[c].batch \ {m}
      /\ k.lead = [calls[c].lead EXCEPT ![m[1]] = Loaded(c, m[1])]
      /\ k.sent = calls[c].sent /\ k.failed = calls[c].failed \union {m}
  BY <1>2, CallIs DEF Call
<1> HIDE DEF k
<1> QED BY <1>1, <1>3, MailTakenKeeps DEF MailTaken

LEMMA MailSentKeeps ==
  ASSUME OutreachInv, NEW c \in Calls, NEW m \in Mails, MailSent(c, m)
  PROVE  OutreachInv'
<1> DEFINE k == [calls[c] EXCEPT !.batch = @ \ {m}, !.sent = @ \union {m},
                                 !.lead[m[1]] = Loaded(c, m[1])]
<1>1. /\ m \in calls[c].batch /\ calls' = [calls EXCEPT ![c] = k]
      /\ Loaded(c, m[1]) \notin Stopped /\ delivered[m] < MaxDelivered
      /\ delivered' = [delivered EXCEPT ![m] = delivered[m] + 1] /\ sentToday' = sentToday + 1
      /\ UNCHANGED <<leads, mails, today, stopped, mishaps>>
  BY DEF MailSent
<1>2. m[1] \in Leads /\ Loaded(c, m[1]) \in LeadStatus
  BY <1>1, MailLoads
<1>3. /\ k \in Call /\ k.running = calls[c].running /\ k.batch = calls[c].batch \ {m}
      /\ k.lead = [calls[c].lead EXCEPT ![m[1]] = Loaded(c, m[1])]
      /\ k.sent = calls[c].sent \union {m} /\ k.failed = calls[c].failed
  BY <1>2, CallIs DEF Call
<1> HIDE DEF k
<1> QED BY <1>1, <1>3, MailTakenKeeps DEF MailTaken

-----------------------------------------------------------------------------
\* The commit: what each mail becomes.
LEMMA MailsCommitted ==
  ASSUME OutreachInv, NEW c \in Calls, CallCommits(c)
  PROVE  /\ calls[c].running /\ calls[c].batch = {}
         /\ mails' \in [Mails -> {"none", "queued", "sent", "error"}]
         /\ \A m \in Mails : mails[m] # "none" =>
               mails'[m] = IF m \in calls[c].sent THEN "sent"
                           ELSE IF m \in calls[c].failed THEN "error" ELSE mails[m]
         /\ \A m \in Mails : mails[m] = "none" =>
               mails'[m] = "none" \/ (mails'[m] = "queued" /\ leads[m[1]] \notin {"none", "research"})
<1>1. /\ calls[c].running /\ calls[c].batch = {} /\ mails' = MailsAfter(c)
      /\ \A m \in FollowUps(c) : mails[m] = "none"
  BY DEF CallCommits
<1>2. mails' \in [Mails -> {"none", "queued", "sent", "error"}]
  BY <1>1, OutreachTypes DEF MailsAfter
<1>3. MailsKnown
  BY DEF OutreachInv
<1>4. \A m \in Mails : mails'[m] = IF m \in FollowUps(c) THEN "queued"
                                   ELSE IF m \in calls[c].sent THEN "sent"
                                   ELSE IF m \in calls[c].failed THEN "error" ELSE mails[m]
  BY <1>1 DEF MailsAfter
<1>5. \A m \in Mails : m \in calls[c].sent \/ m \in calls[c].failed => mails[m] # "none"
  BY <1>3 DEF MailsKnown
<1>6. \A m \in FollowUps(c) : leads[m[1]] \notin {"none", "research"}
  <2> SUFFICES ASSUME NEW n \in FirstMails(c)
               PROVE  leads[<<n[1], 2>>[1]] \notin {"none", "research"}
    BY DEF FollowUps
  <2>1. n \in Mails /\ mails[n] # "none"
    BY <1>3, CallIs DEF FirstMails, MailsKnown
  <2>2. leads[n[1]] \notin {"none", "research"}
    BY <1>3, <2>1 DEF MailsKnown
  <2> QED BY <2>2
<1>7. \A m \in Mails : mails[m] # "none" =>
         mails'[m] = IF m \in calls[c].sent THEN "sent"
                     ELSE IF m \in calls[c].failed THEN "error" ELSE mails[m]
  BY <1>1, <1>4
<1>8. \A m \in Mails : mails[m] = "none" =>
         mails'[m] = "none" \/ (mails'[m] = "queued" /\ leads[m[1]] \notin {"none", "research"})
  BY <1>4, <1>5, <1>6
<1> QED BY <1>1, <1>2, <1>7, <1>8

LEMMA CallCommitsKeeps ==
  ASSUME OutreachInv, NEW c \in Calls, CallCommits(c)
  PROVE  OutreachInv'
<1>1. /\ calls[c].running /\ calls[c].batch = {}
      /\ mails' \in [Mails -> {"none", "queued", "sent", "error"}]
      /\ \A m \in Mails : mails[m] # "none" =>
            mails'[m] = IF m \in calls[c].sent THEN "sent"
                        ELSE IF m \in calls[c].failed THEN "error" ELSE mails[m]
      /\ \A m \in Mails : mails[m] = "none" =>
            mails'[m] = "none" \/ (mails'[m] = "queued" /\ leads[m[1]] \notin {"none", "research"})
  BY MailsCommitted
<1>2. /\ leads' = [l \in Leads |->
            IF (\E m \in calls[c].sent : m[1] = l) /\ calls[c].lead[l] # "contacted"
            THEN "contacted" ELSE leads[l]]
      /\ today' = today \union calls[c].sent
      /\ calls' = [calls EXCEPT ![c] = NoCall]
      /\ mishaps' = mishaps \union
            (IF \E m \in calls[c].sent : leads[m[1]] # calls[c].lead[m[1]] THEN {"overwrite"} ELSE {})
      /\ UNCHANGED <<delivered, sentToday, stopped>>
  BY DEF CallCommits, CallEnds
<1>3. /\ calls' \in [Calls -> Call] /\ calls'[c] = NoCall
      /\ \A d \in Calls : d # c => calls'[d] = calls[d]
  BY <1>2, NoCallIs, CallTurns
<1>4. \A l \in Leads : leads'[l] \in LeadStatus /\ (leads'[l] = "contacted" \/ leads'[l] = leads[l])
  BY <1>2, OutreachTypes DEF LeadStatus
<1>5. OutreachTypeOK'
  <2>1. leads' \in [Leads -> LeadStatus]
    BY <1>2, <1>4
  <2>2. today' \subseteq Mails /\ mishaps' \subseteq {"overlap", "abort", "overwrite"}
    BY <1>2, CallIs, OutreachTypes
  <2> QED BY <1>1, <1>2, <1>3, <2>1, <2>2, OutreachTypes DEF OutreachTypeOK
<1>6. MailsKnown
  BY DEF OutreachInv
<1>7. \A m \in Mails : mails[m] # "none" => mails'[m] # "none"
  BY <1>1
<1>8. \A d \in Calls : calls[d].batch \union calls[d].sent \union calls[d].failed \subseteq Mails
  BY CallIs
<1>9. MailsKnown'
  <2>1. \A d \in Calls : \A m \in calls'[d].batch \union calls'[d].sent \union calls'[d].failed :
          mails'[m] # "none"
    BY <1>3, <1>6, <1>7, <1>8, NoCallIs DEF MailsKnown
  <2>2. \A m \in Mails : m[1] \in Leads
    BY DEF Mails
  <2>3. \A m \in Mails : mails'[m] # "none" => leads[m[1]] \notin {"none", "research"}
    BY <1>1, <1>6 DEF MailsKnown
  <2>4. \A m \in Mails : mails'[m] # "none" => leads'[m[1]] \notin {"none", "research"}
    BY <1>4, <2>2, <2>3
  <2>5. \A d \in Calls : ~calls'[d].running =>
          calls'[d].batch = {} /\ calls'[d].sent = {} /\ calls'[d].failed = {}
    BY <1>3, <1>6, NoCallIs DEF MailsKnown
  <2>6. \A d \in Calls : \A m \in calls'[d].sent : calls'[d].lead[m[1]] \notin {"none"} \union Stopped
    BY <1>3, <1>6, NoCallIs DEF MailsKnown
  <2> QED BY <2>1, <2>4, <2>5, <2>6 DEF MailsKnown, Stopped
<1>10. RepliesStand'
  <2> SUFFICES ASSUME "overwrite" \notin mishaps', NEW l \in stopped
               PROVE  leads'[l] \in Stopped
    BY <1>2 DEF RepliesStand, Stopped
  <2>1. /\ leads[l] \in Stopped /\ l \in Leads
        /\ \A m \in calls[c].sent : leads[m[1]] = calls[c].lead[m[1]]
    BY <1>2, OutreachTypes DEF OutreachInv, RepliesStand
  <2>2. \A m \in calls[c].sent : calls[c].lead[m[1]] \notin Stopped
    BY <1>6 DEF MailsKnown
  <2>3. \A m \in calls[c].sent : m[1] # l
    BY <2>1, <2>2
  <2> QED BY <1>2, <2>1, <2>3
<1>11. ASSUME Undisturbed' PROVE OneCall' /\ HeldQueued' /\ SentIsKnown' /\ DayCounted'
  <2>1. Undisturbed
    BY <1>2, <1>11 DEF Undisturbed
  <2>2. OneCall /\ HeldQueued /\ SentIsKnown /\ DayCounted
    BY <2>1 DEF OutreachInv
  <2>3. \A d \in Calls : ~calls'[d].running
    BY <1>1, <1>3, <2>2, NoCallIs DEF OneCall
  <2>4. \A d \in Calls : calls'[d].batch = {} /\ calls'[d].sent = {} /\ calls'[d].failed = {}
    BY <1>9, <2>3 DEF MailsKnown
  <2>5. OneCall' /\ HeldQueued'
    BY <2>3, <2>4 DEF OneCall, HeldQueued
  <2>6. \A m \in calls[c].failed \union calls[c].sent : mails[m] = "queued"
    BY <2>2 DEF HeldQueued
  <2>7. \A d \in Calls : d # c => calls[d].sent = {}
    BY <1>1, <1>6, <2>2 DEF OneCall, MailsKnown
  <2>8. \A m \in Mails : mails[m] = "sent" => mails'[m] = "sent"
    BY <1>1, <2>6
  <2>9. \A m \in calls[c].sent : m \in Mails /\ mails'[m] = "sent"
    BY <1>1, <1>8, <2>6
  <2>10. SentIsKnown'
    <3>1. \A m \in Mails : delivered[m] > 0 => mails'[m] = "sent"
      BY <2>2, <2>7, <2>8, <2>9 DEF SentIsKnown
    <3>2. \A m \in today' : mails'[m] = "sent"
      BY <1>2, <2>2, <2>8, <2>9, OutreachTypes DEF SentIsKnown
    <3> QED BY <1>2, <2>2, <3>1, <3>2 DEF SentIsKnown
  <2>11. DayCounted'
    <3>1. today \intersect calls[c].sent = {}
      BY <2>2, <2>6 DEF SentIsKnown
    <3>2. /\ IsFiniteSet(today) /\ Cardinality(today) \in Nat
          /\ IsFiniteSet(calls[c].sent) /\ Cardinality(calls[c].sent) \in Nat
      BY CallIs, MailsFinite, OutreachTypes
    <3>3. Cardinality(today \union calls[c].sent)
            = Cardinality(today) + Cardinality(calls[c].sent) - Cardinality(today \intersect calls[c].sent)
      BY <3>2, FS_Union
    <3>4. Cardinality(today') = Cardinality(today) + Cardinality(calls[c].sent)
      <4>1. Cardinality(today \intersect calls[c].sent) = 0
        BY <3>1, FS_EmptySet
      <4>2. Cardinality(today \union calls[c].sent) = Cardinality(today) + Cardinality(calls[c].sent)
        BY <3>2, <3>3, <4>1
      <4> QED BY <1>2, <4>2
    <3>5. /\ sentToday = Cardinality(today) + Cardinality(calls[c].sent)
          /\ Cardinality(today) + Cardinality(calls[c].sent) + Cardinality({}) <= DailyLimit
      BY <1>1, <2>2 DEF DayCounted
    <3>6. Cardinality(today) + Cardinality(calls[c].sent) <= DailyLimit
      BY <3>2, <3>5, FS_EmptySet
    <3> QED BY <1>2, <2>3, <3>4, <3>5, <3>6 DEF DayCounted
  <2> QED BY <2>5, <2>10, <2>11
<1> QED BY <1>5, <1>9, <1>10, <1>11 DEF OutreachInv

LEMMA OutreachStep == OutreachInv /\ OutreachNext => OutreachInv'
<1> SUFFICES ASSUME OutreachInv, OutreachNext PROVE OutreachInv'
  OBVIOUS
<1>1. ASSUME NEW l \in Leads, ResearchLead(l) \/ ApproveLead(l) \/ \E stop \in BOOLEAN : Reply(l, stop)
      PROVE  OutreachInv'
  BY <1>1, ResearchLeadKeeps, ApproveLeadKeeps, ReplyKeeps
<1>2. ASSUME NEW c \in Calls, CallBegins(c) \/ CallAborts(c) \/ CallCommits(c) PROVE OutreachInv'
  BY <1>2, CallBeginsKeeps, CallAbortsKeeps, CallCommitsKeeps
<1>3. ASSUME NEW c \in Calls, NEW m \in Mails, MailPassed(c, m) \/ MailSent(c, m) \/ MailFailed(c, m)
      PROVE  OutreachInv'
  BY <1>3, MailPassedKeeps, MailSentKeeps, MailFailedKeeps
<1> QED BY <1>1, <1>2, <1>3, NextDayKeeps DEF OutreachNext

LEMMA OutreachStutter == OutreachInv /\ UNCHANGED outreachVars => OutreachInv'
<1> SUFFICES ASSUME OutreachInv, UNCHANGED outreachVars PROVE OutreachInv'
  OBVIOUS
<1>1. UNCHANGED <<leads, mails, today, calls, delivered, sentToday, stopped, mishaps>>
  BY DEF outreachVars
<1>2. OutreachTypeOK' /\ MailsKnown' /\ RepliesStand'
  BY <1>1 DEF OutreachInv, OutreachTypeOK, MailsKnown, RepliesStand
<1>3. (Undisturbed' => OneCall' /\ HeldQueued' /\ SentIsKnown' /\ DayCounted')
  BY <1>1 DEF OutreachInv, Undisturbed, OneCall, HeldQueued, SentIsKnown, DayCounted
<1> QED BY <1>2, <1>3 DEF OutreachInv

LEMMA OutreachInvHolds == OutreachInv => OutreachTypeOK /\ MailsOnce
<1> SUFFICES ASSUME OutreachInv PROVE OutreachTypeOK /\ MailsOnce
  OBVIOUS
<1>1. ASSUME Undisturbed PROVE (\A m \in Mails : delivered[m] <= 1) /\ sentToday <= DailyLimit
  <2>1. SentIsKnown /\ DayCounted
    BY <1>1 DEF OutreachInv
  <2>2. sentToday <= DailyLimit
    <3>1. CASE \A c \in Calls : ~calls[c].running
      BY <2>1, <3>1 DEF DayCounted
    <3>2. ASSUME NEW c \in Calls, calls[c].running PROVE sentToday <= DailyLimit
      <4>1. /\ sentToday = Cardinality(today) + Cardinality(calls[c].sent)
            /\ Cardinality(today) + Cardinality(calls[c].sent) + Cardinality(calls[c].batch) <= DailyLimit
        BY <2>1, <3>2 DEF DayCounted
      <4>2. /\ Cardinality(today) \in Nat /\ Cardinality(calls[c].sent) \in Nat
            /\ Cardinality(calls[c].batch) \in Nat
        BY CallIs, MailsFinite, OutreachTypes
      <4> QED BY <4>1, <4>2, OutreachTypes
    <3> QED BY <3>1, <3>2
  <2> QED BY <2>1, <2>2 DEF SentIsKnown
<1> QED BY <1>1 DEF OutreachInv, MailsOnce, Undisturbed

\* A lead that asked for no more mails is sent one only by a call that loaded
\* it before.
MailsAnswered == \A m \in Mails :
    (delivered'[m] > delivered[m] /\ m[1] \in stopped /\ "overwrite" \notin mishaps)
    => \E c \in Calls : calls[c].lead[m[1]] \notin {"none", "replied", "suppressed"}

LEMMA RepliesHoldStep ==
  ASSUME OutreachInv, [OutreachNext]_outreachVars
  PROVE  MailsAnswered
<1>1. ASSUME UNCHANGED delivered PROVE MailsAnswered
  <2>1. \A m \in Mails : ~(delivered'[m] > delivered[m])
    BY <1>1, OutreachTypes
  <2> QED BY <2>1 DEF MailsAnswered
<1>2. ASSUME NEW c \in Calls, NEW m \in Mails, MailSent(c, m) PROVE MailsAnswered
  <2>1. /\ Loaded(c, m[1]) \notin Stopped
        /\ delivered' = [delivered EXCEPT ![m] = delivered[m] + 1]
    BY <1>2 DEF MailSent
  <2> SUFFICES ASSUME NEW n \in Mails, delivered'[n] > delivered[n], n[1] \in stopped,
                      "overwrite" \notin mishaps
               PROVE  \E d \in Calls : calls[d].lead[n[1]] \notin {"none", "replied", "suppressed"}
    BY DEF MailsAnswered
  <2>2. n = m
    <3>1. n # m => delivered'[n] = delivered[n]
      BY <2>1, OutreachTypes
    <3>2. delivered[n] \in Nat
      BY OutreachTypes
    <3> QED BY <3>1, <3>2
  <2>3. leads[m[1]] \in Stopped
    BY <2>2 DEF OutreachInv, RepliesStand
  <2>4. calls[c].lead[m[1]] # "none" /\ calls[c].lead[m[1]] \notin Stopped
    BY <2>1, <2>3 DEF Loaded
  <2> QED BY <2>2, <2>4 DEF Stopped
<1>3. ASSUME OutreachNext PROVE MailsAnswered
  <2>1. ASSUME NEW l \in Leads, ResearchLead(l) \/ ApproveLead(l) \/ \E stop \in BOOLEAN : Reply(l, stop)
        PROVE  MailsAnswered
    BY <1>1, <2>1 DEF ResearchLead, ApproveLead, Reply
  <2>2. ASSUME NEW c \in Calls, CallBegins(c) \/ CallAborts(c) \/ CallCommits(c) PROVE MailsAnswered
    BY <1>1, <2>2 DEF CallBegins, CallAborts, CallCommits
  <2>3. ASSUME NEW c \in Calls, NEW m \in Mails, MailPassed(c, m) \/ MailSent(c, m) \/ MailFailed(c, m)
        PROVE  MailsAnswered
    BY <1>1, <1>2, <2>3 DEF MailPassed, MailFailed
  <2>4. ASSUME NextDay PROVE MailsAnswered
    BY <1>1, <2>4 DEF NextDay
  <2> QED BY <1>3, <2>1, <2>2, <2>3, <2>4 DEF OutreachNext
<1>4. ASSUME UNCHANGED outreachVars PROVE MailsAnswered
  BY <1>1, <1>4 DEF outreachVars
<1> QED BY <1>3, <1>4

-----------------------------------------------------------------------------
(* The free allowance. *)

\* Who is about to renew an invitation holds the organization's row; the month
\* its limits were checked for is this one or has passed.
GrantsFit ==
    /\ held = {} \/ \E r \in Recruiters : held = {r}
    /\ \A r \in Recruiters : grant[r].renewed # {} =>
          held = {r} /\ \E m \in Months : m <= month /\ grant[r].renewed = {m}
    /\ \A r \in Recruiters : grant[r] = NoGrant \/ \E i \in Invites : grant[r].invite = {i}

MonthsPast == \A i \in Invites : invites[i].month <= month

\* What a resend found live is live, while it counts at all.
LivesStand == "revived" \notin lapses =>
    \A r \in Recruiters : \A i \in grant[r].invite :
        grant[r].renewed = {} /\ invites[i].month = month =>
            invites[i].status = "issued" /\ ~invites[i].ended

\* What is about to be renewed this month has a place.
PlaceLeft(i) ==
    /\ Cardinality(UsedEmails \union {invites[i].email}) <= FreeCandidates
    /\ Cardinality(UsedOf(invites[i].kind) \union {i}) <= FreeOfKind

PlacesHeld == lapses = {} =>
    \A r \in Recruiters : \A i \in grant[r].invite :
        grant[r].renewed = {month} => PlaceLeft(i)

AllowanceInv ==
    /\ AllowanceTypeOK /\ GrantsFit /\ MonthsPast
    /\ paid => "plan" \in lapses
    /\ LivesStand /\ PlacesHeld /\ AllowanceKept

LEMMA AllowanceConstants ==
  /\ FreeOfKind \in Nat /\ FreeCandidates \in Nat /\ MaxMonth \in Nat /\ MaxMonth > 0
  /\ IsFiniteSet(Invites) /\ IsFiniteSet(Emails)
  BY AllowanceAssumption

LEMMA AllowanceTypes ==
  ASSUME AllowanceInv
  PROVE  /\ month \in Months /\ month \in Nat /\ month > 0 /\ month <= MaxMonth
         /\ invites \in [Invites -> Invite]
         /\ held \subseteq Recruiters /\ grant \in [Recruiters -> Grant]
         /\ paid \in BOOLEAN /\ lapses \subseteq {"plan", "revived"}
  BY AllowanceConstants DEF AllowanceInv, AllowanceTypeOK, Months

LEMMA InviteIs ==
  ASSUME AllowanceInv, NEW i \in Invites
  PROVE  /\ invites[i] \in Invite /\ invites[i].status \in {"none", "issued", "revoked"}
         /\ invites[i].kind \in Kinds /\ invites[i].email \in Emails
         /\ invites[i].month \in 0..MaxMonth /\ invites[i].month \in Nat
         /\ invites[i].ended \in BOOLEAN /\ invites[i].started \in BOOLEAN
  BY AllowanceTypes, AllowanceConstants DEF Invite

LEMMA NoGrantIs == NoGrant \in Grant /\ NoGrant.invite = {} /\ NoGrant.renewed = {}
  BY DEF NoGrant, Grant

LEMMA UsersFinite ==
  /\ \A I \in SUBSET Invites : IsFiniteSet(I) /\ Cardinality(I) \in Nat
  /\ \A E \in SUBSET Emails : IsFiniteSet(E) /\ Cardinality(E) \in Nat
  BY AllowanceConstants, FS_Subset, FS_CardinalityType

LEMMA FewerAreLess ==
  ASSUME NEW S, NEW T, S \subseteq T, IsFiniteSet(T)
  PROVE  /\ IsFiniteSet(S) /\ Cardinality(S) \in Nat /\ Cardinality(T) \in Nat
         /\ Cardinality(S) <= Cardinality(T)
  BY FS_Subset, FS_CardinalityType

LEMMA HeldIsOne ==
  ASSUME NEW H, H = {} \/ \E r \in Recruiters : H = {r}
  PROVE  H \subseteq Recruiters /\ Cardinality(H) <= 1
<1>1. CASE H = {}
  BY <1>1, FS_EmptySet
<1>2. ASSUME NEW r \in Recruiters, H = {r} PROVE H \subseteq Recruiters /\ Cardinality(H) <= 1
  <2>1. Cardinality({r}) = 1
    BY FS_Singleton
  <2> QED BY <1>2, <2>1
<1> QED BY <1>1, <1>2

LEMMA AllowanceStart == AllowanceInit => AllowanceInv
<1> SUFFICES ASSUME AllowanceInit PROVE AllowanceInv
  OBVIOUS
<1>1. /\ month = 1 /\ held = {} /\ grant = [r \in Recruiters |-> NoGrant]
      /\ paid \in BOOLEAN /\ lapses = IF paid THEN {"plan"} ELSE {}
  BY DEF AllowanceInit
<1>2. /\ invites \in [Invites -> Invite]
      /\ \A i \in Invites : invites[i].status = "none" /\ invites[i].month = 0
                            /\ ~invites[i].ended /\ ~invites[i].started
  BY DEF AllowanceInit
<1>3. AllowanceTypeOK
  <2>1. Cardinality(held) <= 1
    BY <1>1, HeldIsOne
  <2>2. month \in Months
    BY <1>1, AllowanceConstants DEF Months
  <2> QED BY <1>1, <1>2, <2>1, <2>2, NoGrantIs DEF AllowanceTypeOK
<1>4. GrantsFit /\ MonthsPast
  BY <1>1, <1>2, NoGrantIs DEF GrantsFit, MonthsPast
<1>5. LivesStand /\ PlacesHeld
  BY <1>1, NoGrantIs DEF LivesStand, PlacesHeld
<1>6. AllowanceKept
  <2>1. Used = {}
    BY <1>1, <1>2 DEF Used, Counted
  <2>2. UsedEmails = {} /\ \A k \in Kinds : UsedOf(k) = {}
    BY <2>1 DEF UsedEmails, UsedOf
  <2> QED BY <2>2, FS_EmptySet, AllowanceConstants DEF AllowanceKept
<1> QED BY <1>1, <1>3, <1>4, <1>5, <1>6 DEF AllowanceInv

-----------------------------------------------------------------------------
\* Fewer invitations count, and of each candidate and kind as many or fewer.
LEMMA UsageShrinks ==
  ASSUME AllowanceInv, Used' \subseteq Used,
         \A i \in Invites : invites'[i].email = invites[i].email /\ invites'[i].kind = invites[i].kind
  PROVE  /\ UsedEmails' \subseteq UsedEmails /\ \A k \in Kinds : UsedOf(k)' \subseteq UsedOf(k)
         /\ Cardinality(UsedEmails') <= Cardinality(UsedEmails)
         /\ \A k \in Kinds : Cardinality(UsedOf(k)') <= Cardinality(UsedOf(k))
         /\ \A i \in Invites : PlaceLeft(i) => PlaceLeft(i)'
<1>1. Used \subseteq Invites
  BY DEF Used
<1>2. UsedEmails' \subseteq UsedEmails /\ \A k \in Kinds : UsedOf(k)' \subseteq UsedOf(k)
  BY <1>1 DEF UsedEmails, UsedOf
<1>3. UsedEmails \subseteq Emails /\ \A k \in Kinds : UsedOf(k) \subseteq Invites
  BY <1>1, InviteIs DEF UsedEmails, UsedOf
<1>4. IsFiniteSet(UsedEmails) /\ \A k \in Kinds : IsFiniteSet(UsedOf(k))
  BY <1>3, UsersFinite
<1>5. /\ Cardinality(UsedEmails') <= Cardinality(UsedEmails)
      /\ \A k \in Kinds : Cardinality(UsedOf(k)') <= Cardinality(UsedOf(k))
  BY <1>2, <1>4, FewerAreLess
<1>6. ASSUME NEW i \in Invites, PlaceLeft(i) PROVE PlaceLeft(i)'
  <2>1. PICK e \in Emails, k \in Kinds :
           /\ invites[i].email = e /\ invites[i].kind = k
           /\ invites'[i].email = e /\ invites'[i].kind = k
    BY InviteIs
  <2>2. UsedEmails \union {e} \subseteq Emails /\ UsedOf(k) \union {i} \subseteq Invites
    BY <1>3
  <2>3. IsFiniteSet(UsedEmails \union {e}) /\ IsFiniteSet(UsedOf(k) \union {i})
    BY <2>2, UsersFinite
  <2>4. /\ Cardinality(UsedEmails \union {e}) <= FreeCandidates
        /\ Cardinality(UsedOf(k) \union {i}) <= FreeOfKind
    BY <1>6, <2>1 DEF PlaceLeft
  <2>5. /\ UsedEmails' \union {e} \subseteq UsedEmails \union {e}
        /\ UsedOf(k)' \union {i} \subseteq UsedOf(k) \union {i}
    BY <1>2
  <2>6. Cardinality(UsedEmails' \union {e}) <= FreeCandidates
    <3>1. /\ Cardinality(UsedEmails' \union {e}) <= Cardinality(UsedEmails \union {e})
          /\ Cardinality(UsedEmails' \union {e}) \in Nat /\ Cardinality(UsedEmails \union {e}) \in Nat
      BY <2>3, <2>5, FewerAreLess
    <3> QED BY <2>4, <3>1, AllowanceConstants
  <2>7. Cardinality(UsedOf(k)' \union {i}) <= FreeOfKind
    <3>1. /\ Cardinality(UsedOf(k)' \union {i}) <= Cardinality(UsedOf(k) \union {i})
          /\ Cardinality(UsedOf(k)' \union {i}) \in Nat /\ Cardinality(UsedOf(k) \union {i}) \in Nat
      BY <2>3, <2>5, FewerAreLess
    <3> QED BY <2>4, <3>1, AllowanceConstants
  <2>8. UsedOf(invites[i].kind)' = UsedOf(k)'
    BY <2>1 DEF UsedOf
  <2> QED BY <2>1, <2>6, <2>7, <2>8 DEF PlaceLeft
<1> QED BY <1>2, <1>5, <1>6

\* A step in which no invitation comes to count keeps the limits.
LEMMA LimitsStand ==
  ASSUME AllowanceInv, month' = month, Used' \subseteq Used, lapses \subseteq lapses',
         \A i \in Invites : invites'[i].email = invites[i].email /\ invites'[i].kind = invites[i].kind
  PROVE  /\ AllowanceKept'
         /\ \A i \in Invites : lapses' = {} /\ PlaceLeft(i) => PlaceLeft(i)'
<1>1. /\ Cardinality(UsedEmails') <= Cardinality(UsedEmails)
      /\ \A k \in Kinds : Cardinality(UsedOf(k)') <= Cardinality(UsedOf(k))
      /\ \A i \in Invites : PlaceLeft(i) => PlaceLeft(i)'
      /\ UsedEmails' \subseteq UsedEmails /\ \A k \in Kinds : UsedOf(k)' \subseteq UsedOf(k)
  BY UsageShrinks
<1>2. /\ Cardinality(UsedEmails) \in Nat /\ Cardinality(UsedEmails') \in Nat
      /\ \A k \in Kinds : Cardinality(UsedOf(k)) \in Nat /\ Cardinality(UsedOf(k)') \in Nat
  <2>1. Used \subseteq Invites
    BY DEF Used
  <2>2. UsedEmails \subseteq Emails /\ \A k \in Kinds : UsedOf(k) \subseteq Invites
    BY <2>1, InviteIs DEF UsedEmails, UsedOf
  <2>3. UsedEmails' \subseteq Emails /\ \A k \in Kinds : UsedOf(k)' \subseteq Invites
    BY <1>1, <2>2
  <2> QED BY <2>2, <2>3, UsersFinite
<1>3. ASSUME lapses' = {}
      PROVE  /\ Cardinality(UsedEmails') <= FreeCandidates
             /\ \A k \in Kinds : Cardinality(UsedOf(k)') <= FreeOfKind
  <2>1. /\ Cardinality(UsedEmails) <= FreeCandidates
        /\ \A k \in Kinds : Cardinality(UsedOf(k)) <= FreeOfKind
    BY <1>3 DEF AllowanceInv, AllowanceKept
  <2> QED BY <1>1, <1>2, <2>1, AllowanceConstants
<1> QED BY <1>1, <1>3 DEF AllowanceKept

\* A request comes to hold a grant, or no more; no row changes.
LEMMA GrantTurns ==
  ASSUME AllowanceInv, NEW r \in Recruiters, NEW g \in Grant, grant' = [grant EXCEPT ![r] = g],
         UNCHANGED <<month, invites, paid, lapses>>,
         held' \in SUBSET Recruiters,
         g = NoGrant \/ \E i \in Invites : g.invite = {i},
         \/ held' = held \ {r} /\ g.renewed = {}
         \/ held' = held /\ g.renewed = {} /\ grant[r].renewed = {}
         \/ held = {} /\ held' = {r} /\ g.renewed = {month},
         g.renewed = {} => \A i \in g.invite :
             invites[i].status = "issued" /\ invites[i].month = month /\ ~invites[i].ended,
         g.renewed = {month} /\ lapses = {} => \A i \in g.invite : PlaceLeft(i)
  PROVE  AllowanceInv'
<1>1. /\ grant' \in [Recruiters -> Grant] /\ grant'[r] = g
      /\ \A q \in Recruiters : q # r => grant'[q] = grant[q]
  BY AllowanceTypes
<1>2. GrantsFit
  BY DEF AllowanceInv
<1>3. held' = {} \/ \E q \in Recruiters : held' = {q}
  BY <1>2 DEF GrantsFit
<1>4. AllowanceTypeOK'
  <2>1. held' \subseteq Recruiters /\ Cardinality(held') <= 1
    BY <1>3, HeldIsOne
  <2> QED BY <1>1, <2>1, AllowanceTypes DEF AllowanceTypeOK
<1>5. GrantsFit'
  <2>1. ASSUME NEW q \in Recruiters, grant'[q].renewed # {}
        PROVE  held' = {q} /\ \E m \in Months : m <= month /\ grant'[q].renewed = {m}
    <3>1. CASE q = r
      <4>1. held' = {r} /\ g.renewed = {month} /\ month <= month
        BY <1>1, <2>1, <3>1, AllowanceTypes
      <4> QED BY <1>1, <3>1, <4>1, AllowanceTypes
    <3>2. CASE q # r
      BY <1>1, <1>2, <2>1, <3>2 DEF GrantsFit
    <3> QED BY <3>1, <3>2
  <2>2. \A q \in Recruiters : grant'[q] = NoGrant \/ \E i \in Invites : grant'[q].invite = {i}
    BY <1>1, <1>2 DEF GrantsFit
  <2> QED BY <1>3, <2>1, <2>2 DEF GrantsFit, NoGrant
<1>6. MonthsPast' /\ (paid' => "plan" \in lapses')
  BY DEF AllowanceInv, MonthsPast
<1>7. LivesStand'
  BY <1>1 DEF AllowanceInv, LivesStand
<1>8. Used' = Used
  BY DEF Used, Counted
<1>9. AllowanceKept' /\ \A i \in Invites : lapses' = {} /\ PlaceLeft(i) => PlaceLeft(i)'
  BY <1>8, LimitsStand
<1>10. PlacesHeld'
  <2> SUFFICES ASSUME lapses = {}, NEW q \in Recruiters, NEW i \in grant'[q].invite,
                      grant'[q].renewed = {month}
               PROVE  PlaceLeft(i)'
    BY DEF PlacesHeld
  <2>1. i \in Invites
    BY <1>1 DEF Grant
  <2>2. PlaceLeft(i)
    BY <1>1 DEF AllowanceInv, PlacesHeld
  <2> QED BY <1>9, <2>1, <2>2
<1> QED BY <1>4, <1>5, <1>6, <1>7, <1>9, <1>10 DEF AllowanceInv

\* What the limits allow has a place.
LEMMA AllowedHasPlace ==
  ASSUME AllowanceInv, NEW i \in Invites, Allows(invites[i].kind, invites[i].email), lapses = {}
  PROVE  PlaceLeft(i)
<1>1. PICK e \in Emails, k \in Kinds : invites[i].email = e /\ invites[i].kind = k
  BY InviteIs
<1>2. Used \subseteq Invites
  BY DEF Used
<1>3. UsedEmails \subseteq Emails /\ UsedOf(k) \subseteq Invites
  BY <1>2, InviteIs DEF UsedEmails, UsedOf
<1>4. /\ IsFiniteSet(UsedEmails) /\ Cardinality(UsedEmails) \in Nat
      /\ IsFiniteSet(UsedOf(k)) /\ Cardinality(UsedOf(k)) \in Nat
  BY <1>3, UsersFinite
<1>5. /\ e \in UsedEmails \/ Cardinality(UsedEmails) < FreeCandidates
      /\ Cardinality(UsedOf(k)) < FreeOfKind
      /\ Cardinality(UsedEmails) <= FreeCandidates
  BY <1>1 DEF Allows, AllowanceInv, AllowanceKept
<1>6. /\ Cardinality(UsedEmails \union {e})
           = IF e \in UsedEmails THEN Cardinality(UsedEmails) ELSE Cardinality(UsedEmails) + 1
      /\ Cardinality(UsedOf(k) \union {i})
           = IF i \in UsedOf(k) THEN Cardinality(UsedOf(k)) ELSE Cardinality(UsedOf(k)) + 1
  BY <1>4, FS_AddElement
<1>7. /\ Cardinality(UsedEmails \union {e}) <= FreeCandidates
      /\ Cardinality(UsedOf(k) \union {i}) <= FreeOfKind
  BY <1>4, <1>5, <1>6, AllowanceConstants
<1> QED BY <1>1, <1>7 DEF PlaceLeft

LEMMA RenewsKeeps ==
  ASSUME AllowanceInv, NEW r \in Recruiters, NEW i \in Invites, held = {}, held' = {r},
         Allows(invites[i].kind, invites[i].email),
         grant' = [grant EXCEPT ![r] = [invite |-> {i}, renewed |-> {month}]],
         UNCHANGED <<month, invites, paid, lapses>>
  PROVE  AllowanceInv'
<1> DEFINE g == [invite |-> {i}, renewed |-> {month}]
<1>1. g \in Grant /\ g.invite = {i} /\ g.renewed = {month}
  BY AllowanceTypes DEF Grant
<1> HIDE DEF g
<1>2. g.renewed # {}
  BY <1>1
<1>3. grant' = [grant EXCEPT ![r] = g]
  BY DEF g
<1> QED BY <1>1, <1>2, <1>3, AllowedHasPlace, GrantTurns

LEMMA IssueInviteKeeps ==
  ASSUME AllowanceInv, NEW r \in Recruiters, NEW i \in Invites, IssueInvite(r, i)
  PROVE  AllowanceInv'
  BY RenewsKeeps DEF IssueInvite

LEMMA ResendReleasedKeeps ==
  ASSUME AllowanceInv, NEW r \in Recruiters, NEW i \in Invites, ResendReleased(r, i)
  PROVE  AllowanceInv'
  BY RenewsKeeps DEF ResendReleased

LEMMA ResendLiveKeeps ==
  ASSUME AllowanceInv, NEW r \in Recruiters, NEW i \in Invites, ResendLive(r, i)
  PROVE  AllowanceInv'
<1> DEFINE g == [invite |-> {i}, renewed |-> {}]
<1>1. g \in Grant /\ g.invite = {i} /\ g.renewed = {}
  BY DEF Grant
<1>2. /\ grant[r] = NoGrant /\ grant' = [grant EXCEPT ![r] = g] /\ held' = held
      /\ UNCHANGED <<month, invites, paid, lapses>>
      /\ invites[i].status = "issued" /\ invites[i].month = month /\ ~invites[i].ended
  BY DEF ResendLive, AllowanceIdle, Reserved
<1> HIDE DEF g
<1>3. grant[r].renewed = {} /\ {month} # {} /\ held \in SUBSET Recruiters
  BY <1>2, NoGrantIs, AllowanceTypes
<1> QED BY <1>1, <1>2, <1>3, GrantTurns

LEMMA GrantFailsKeeps ==
  ASSUME AllowanceInv, NEW r \in Recruiters, GrantFails(r)
  PROVE  AllowanceInv'
<1>1. /\ grant' = [grant EXCEPT ![r] = NoGrant] /\ held' = held \ {r}
      /\ UNCHANGED <<month, invites, paid, lapses>>
  BY DEF GrantFails
<1>2. held \ {r} \in SUBSET Recruiters
  BY AllowanceTypes
<1> QED BY <1>1, <1>2, NoGrantIs, GrantTurns

-----------------------------------------------------------------------------
\* A grant is committed: what becomes of the row.
LEMMA GrantIs ==
  ASSUME AllowanceInv, NEW r \in Recruiters, GrantCommits(r)
  PROVE  \E i \in grant[r].invite : \E m \in Nat :
         /\ i \in Invites /\ grant[r].invite = {i} /\ m <= month
         /\ held' = held \ {r} /\ grant' = [grant EXCEPT ![r] = NoGrant]
         /\ UNCHANGED <<month, paid, lapses>>
         /\ invites' \in [Invites -> Invite]
         /\ \A j \in Invites : j # i => invites'[j] = invites[j]
         /\ invites'[i].kind = invites[i].kind /\ invites'[i].email = invites[i].email
         /\ invites'[i].started = invites[i].started /\ ~invites'[i].ended
         /\ \/ /\ grant[r].renewed = {} /\ m = invites[i].month
               /\ invites'[i].status = invites[i].status /\ invites'[i].month = m
            \/ /\ grant[r].renewed = {m} /\ held = {r}
               /\ invites'[i].status = "issued" /\ invites'[i].month = m
<1>1. PICK i \in grant[r].invite :
         invites' = [invites EXCEPT
            ![i].status = IF grant[r].renewed = {} THEN @ ELSE "issued",
            ![i].month = IF grant[r].renewed = {} THEN @ ELSE CHOOSE m \in grant[r].renewed : TRUE,
            ![i].ended = FALSE]
  BY DEF GrantCommits
<1>2. /\ held' = held \ {r} /\ grant' = [grant EXCEPT ![r] = NoGrant]
      /\ UNCHANGED <<month, paid, lapses>>
  BY DEF GrantCommits
<1>3. grant[r].invite = {i} /\ i \in Invites
  BY NoGrantIs DEF AllowanceInv, GrantsFit
<1>4. PICK s \in {"none", "issued", "revoked"}, m \in 0..MaxMonth :
         /\ s = IF grant[r].renewed = {} THEN invites[i].status ELSE "issued"
         /\ m = IF grant[r].renewed = {} THEN invites[i].month ELSE CHOOSE n \in grant[r].renewed : TRUE
         /\ m <= month
         /\ grant[r].renewed # {} => grant[r].renewed = {m} /\ held = {r}
  <2>1. CASE grant[r].renewed = {}
    BY <1>3, <2>1, InviteIs DEF AllowanceInv, MonthsPast
  <2>2. CASE grant[r].renewed # {}
    <3>1. PICK n \in Months : n <= month /\ grant[r].renewed = {n} /\ held = {r}
      BY <2>2 DEF AllowanceInv, GrantsFit
    <3>2. (CHOOSE x \in {n} : TRUE) = n
      OBVIOUS
    <3>3. n \in 0..MaxMonth
      BY AllowanceConstants DEF Months
    <3> QED BY <2>2, <3>1, <3>2, <3>3
  <2> QED BY <2>1, <2>2
<1>5. m \in Nat
  BY <1>4, AllowanceConstants
<1> DEFINE kept == [invites[i] EXCEPT !.status = s, !.month = m, !.ended = FALSE]
<1>6. /\ kept \in Invite /\ kept.status = s /\ kept.month = m /\ kept.ended = FALSE
      /\ kept.kind = invites[i].kind /\ kept.email = invites[i].email
      /\ kept.started = invites[i].started
  BY <1>3, InviteIs DEF Invite
<1>7. invites' = [invites EXCEPT ![i] = kept]
  BY <1>1, <1>4
<1> HIDE DEF kept
<1>8. /\ invites' \in [Invites -> Invite] /\ invites'[i] = kept
      /\ \A j \in Invites : j # i => invites'[j] = invites[j]
  BY <1>3, <1>6, <1>7, AllowanceTypes
<1>9. \/ grant[r].renewed = {} /\ m = invites[i].month /\ s = invites[i].status
      \/ grant[r].renewed = {m} /\ held = {r} /\ s = "issued"
  BY <1>4
<1> QED BY <1>2, <1>3, <1>4, <1>5, <1>6, <1>8, <1>9

LEMMA GrantCommitsKeeps ==
  ASSUME AllowanceInv, NEW r \in Recruiters, GrantCommits(r)
  PROVE  AllowanceInv'
<1>1. PICK i \in grant[r].invite, m \in Nat :
         /\ i \in Invites /\ grant[r].invite = {i} /\ m <= month
         /\ held' = held \ {r} /\ grant' = [grant EXCEPT ![r] = NoGrant]
         /\ UNCHANGED <<month, paid, lapses>>
         /\ invites' \in [Invites -> Invite]
         /\ \A j \in Invites : j # i => invites'[j] = invites[j]
         /\ invites'[i].kind = invites[i].kind /\ invites'[i].email = invites[i].email
         /\ invites'[i].started = invites[i].started /\ ~invites'[i].ended
         /\ \/ /\ grant[r].renewed = {} /\ m = invites[i].month
               /\ invites'[i].status = invites[i].status /\ invites'[i].month = m
            \/ /\ grant[r].renewed = {m} /\ held = {r}
               /\ invites'[i].status = "issued" /\ invites'[i].month = m
  BY GrantIs
<1>2. /\ grant' \in [Recruiters -> Grant] /\ grant'[r] = NoGrant
      /\ \A q \in Recruiters : q # r => grant'[q] = grant[q]
  BY <1>1, AllowanceTypes, NoGrantIs
<1>3. GrantsFit
  BY DEF AllowanceInv
<1>4. held' = {} \/ \E q \in Recruiters : held' = {q}
  BY <1>1, <1>3 DEF GrantsFit
<1>5. AllowanceTypeOK'
  <2>1. held' \subseteq Recruiters /\ Cardinality(held') <= 1
    BY <1>4, HeldIsOne
  <2> QED BY <1>1, <1>2, <2>1, AllowanceTypes DEF AllowanceTypeOK
<1>6. GrantsFit'
  <2>1. ASSUME NEW q \in Recruiters, grant'[q].renewed # {}
        PROVE  held' = {q} /\ \E n \in Months : n <= month' /\ grant'[q].renewed = {n}
    <3>1. q # r
      BY <1>2, <2>1, NoGrantIs
    <3>2. held = {q} /\ \E n \in Months : n <= month /\ grant[q].renewed = {n}
      BY <1>2, <1>3, <2>1, <3>1 DEF GrantsFit
    <3> QED BY <1>1, <1>2, <3>1, <3>2
  <2>2. \A q \in Recruiters : grant'[q] = NoGrant \/ \E j \in Invites : grant'[q].invite = {j}
    BY <1>2, <1>3 DEF GrantsFit
  <2> QED BY <1>4, <2>1, <2>2 DEF GrantsFit, NoGrant
<1>7. MonthsPast' /\ (paid' => "plan" \in lapses')
  BY <1>1 DEF AllowanceInv, MonthsPast
<1>8. LivesStand'
  <2> SUFFICES ASSUME "revived" \notin lapses, NEW q \in Recruiters, NEW j \in grant'[q].invite,
                      grant'[q].renewed = {}, invites'[j].month = month
               PROVE  invites'[j].status = "issued" /\ ~invites'[j].ended
    BY <1>1 DEF LivesStand
  <2>1. q # r /\ grant'[q] = grant[q] /\ j \in Invites
    BY <1>2, NoGrantIs DEF Grant
  <2>2. LivesStand
    BY DEF AllowanceInv
  <2>3. CASE j # i
    BY <1>1, <2>1, <2>2, <2>3 DEF LivesStand
  <2>4. CASE j = i
    BY <1>1, <2>1, <2>2, <2>4 DEF LivesStand
  <2> QED BY <2>3, <2>4
<1>9. \A j \in Invites : invites'[j].email = invites[j].email /\ invites'[j].kind = invites[j].kind
  BY <1>1
<1>10. CASE lapses # {}
  BY <1>1, <1>5, <1>6, <1>7, <1>8, <1>10 DEF AllowanceInv, PlacesHeld, AllowanceKept
<1>11. CASE lapses = {} /\ ~(grant[r].renewed = {m} /\ m = month)
  <2>1. Used' \subseteq Used
    <3> SUFFICES ASSUME NEW j \in Invites, Counted(j)' PROVE Counted(j)
      BY DEF Used
    <3>1. CASE j # i
      BY <1>1, <3>1 DEF Counted
    <3>2. CASE j = i
      <4>1. invites'[i].month = month
        BY <1>1, <3>2 DEF Counted
      <4>2. grant[r].renewed = {} /\ invites[i].month = month
        BY <1>1, <1>11, <4>1
      <4>3. invites[i].status = "issued" /\ ~invites[i].ended
        BY <1>1, <1>11, <4>2 DEF AllowanceInv, LivesStand
      <4> QED BY <3>2, <4>2, <4>3 DEF Counted
    <3> QED BY <3>1, <3>2
  <2>2. AllowanceKept' /\ \A j \in Invites : lapses' = {} /\ PlaceLeft(j) => PlaceLeft(j)'
    BY <1>1, <1>9, <2>1, LimitsStand
  <2>3. PlacesHeld'
    <3> SUFFICES ASSUME NEW q \in Recruiters, NEW j \in grant'[q].invite, grant'[q].renewed = {month}
                 PROVE  PlaceLeft(j)'
      BY <1>1, <1>11 DEF PlacesHeld
    <3>1. q # r /\ grant'[q] = grant[q] /\ j \in Invites
      BY <1>2, NoGrantIs DEF Grant
    <3>2. PlaceLeft(j)
      BY <1>11, <3>1 DEF AllowanceInv, PlacesHeld
    <3> QED BY <1>1, <1>11, <2>2, <3>1, <3>2
  <2> QED BY <1>5, <1>6, <1>7, <1>8, <2>2, <2>3 DEF AllowanceInv
<1>12. CASE lapses = {} /\ grant[r].renewed = {m} /\ m = month
  <2>1. PlaceLeft(i)
    BY <1>12 DEF AllowanceInv, PlacesHeld
  <2>2. held = {r} /\ \A q \in Recruiters : q # r => grant'[q].renewed = {}
    BY <1>1, <1>2, <1>3, <1>12 DEF GrantsFit
  <2>3. PlacesHeld'
    BY <1>1, <1>2, <2>2, NoGrantIs DEF PlacesHeld
  <2>4. Used' \subseteq Used \union {i}
    BY <1>1 DEF Used, Counted
  <2>5. PICK e \in Emails, k \in Kinds :
           /\ invites[i].email = e /\ invites[i].kind = k
           /\ invites'[i].email = e /\ invites'[i].kind = k
    BY <1>1, InviteIs
  <2>6. Used \subseteq Invites
    BY DEF Used
  <2>7. /\ UsedEmails' \subseteq UsedEmails \union {e} /\ UsedOf(k)' \subseteq UsedOf(k) \union {i}
        /\ \A x \in Kinds : x # k => UsedOf(x)' \subseteq UsedOf(x)
    BY <1>9, <2>4, <2>5, <2>6 DEF UsedEmails, UsedOf
  <2>8. /\ UsedEmails \union {e} \subseteq Emails /\ UsedOf(k) \union {i} \subseteq Invites
        /\ \A x \in Kinds : UsedOf(x) \subseteq Invites
    BY <1>1, <2>6, InviteIs DEF UsedEmails, UsedOf
  <2>9. /\ IsFiniteSet(UsedEmails \union {e}) /\ IsFiniteSet(UsedOf(k) \union {i})
        /\ \A x \in Kinds : IsFiniteSet(UsedOf(x))
    BY <2>8, UsersFinite
  <2>10. /\ Cardinality(UsedEmails \union {e}) <= FreeCandidates
         /\ Cardinality(UsedOf(k) \union {i}) <= FreeOfKind
         /\ \A x \in Kinds : Cardinality(UsedOf(x)) <= FreeOfKind
    BY <1>12, <2>1, <2>5 DEF PlaceLeft, AllowanceInv, AllowanceKept
  <2>11. Cardinality(UsedEmails') <= FreeCandidates
    <3>1. /\ Cardinality(UsedEmails') <= Cardinality(UsedEmails \union {e})
          /\ Cardinality(UsedEmails') \in Nat /\ Cardinality(UsedEmails \union {e}) \in Nat
      BY <2>7, <2>9, FewerAreLess
    <3> QED BY <2>10, <3>1, AllowanceConstants
  <2>12. ASSUME NEW x \in Kinds PROVE Cardinality(UsedOf(x)') <= FreeOfKind
    <3>1. CASE x = k
      <4>1. /\ Cardinality(UsedOf(k)') <= Cardinality(UsedOf(k) \union {i})
            /\ Cardinality(UsedOf(k)') \in Nat /\ Cardinality(UsedOf(k) \union {i}) \in Nat
        BY <2>7, <2>9, FewerAreLess
      <4>2. Cardinality(UsedOf(k)') <= FreeOfKind
        BY <2>10, <4>1, AllowanceConstants
      <4> QED BY <3>1, <4>2
    <3>2. CASE x # k
      <4>1. /\ Cardinality(UsedOf(x)') <= Cardinality(UsedOf(x))
            /\ Cardinality(UsedOf(x)') \in Nat /\ Cardinality(UsedOf(x)) \in Nat
        BY <2>7, <2>9, <3>2, FewerAreLess
      <4> QED BY <2>10, <4>1, AllowanceConstants
    <3> QED BY <3>1, <3>2
  <2>13. AllowanceKept'
    BY <2>11, <2>12 DEF AllowanceKept
  <2> QED BY <1>5, <1>6, <1>7, <1>8, <2>3, <2>13 DEF AllowanceInv
<1> QED BY <1>10, <1>11, <1>12

-----------------------------------------------------------------------------
\* A row changes that no grant is about, or whose place is noted as given away.
LEMMA InviteTurns ==
  ASSUME AllowanceInv, NEW i \in Invites, NEW kept \in Invite, InviteChanges(i, kept),
         kept.kind = invites[i].kind, kept.email = invites[i].email, kept.month = invites[i].month,
         kept.started \/ (kept.status = "issued" /\ ~kept.ended) =>
            invites[i].started \/ (invites[i].status = "issued" /\ ~invites[i].ended),
         \/ lapses' = lapses /\ kept.status = invites[i].status /\ kept.ended = invites[i].ended
         \/ Releases(i)
  PROVE  AllowanceInv'
<1>1. invites' = [invites EXCEPT ![i] = kept] /\ UNCHANGED <<month, held, grant, paid>>
  BY DEF InviteChanges
<1>2. /\ invites' \in [Invites -> Invite] /\ invites'[i] = kept
      /\ \A j \in Invites : j # i => invites'[j] = invites[j]
  BY <1>1, AllowanceTypes
<1>3. lapses \subseteq lapses' /\ lapses' \subseteq {"plan", "revived"}
      /\ ("revived" \notin lapses' => "revived" \notin lapses)
  BY AllowanceTypes DEF Releases
<1>4. AllowanceTypeOK'
  BY <1>1, <1>2, <1>3 DEF AllowanceInv, AllowanceTypeOK
<1>5. GrantsFit' /\ MonthsPast' /\ (paid' => "plan" \in lapses')
  <2>1. GrantsFit'
    BY <1>1 DEF AllowanceInv, GrantsFit, NoGrant
  <2>2. MonthsPast'
    BY <1>1, <1>2 DEF AllowanceInv, MonthsPast
  <2> QED BY <1>1, <1>3, <2>1, <2>2 DEF AllowanceInv
<1>6. LivesStand'
  <2> SUFFICES ASSUME "revived" \notin lapses', NEW q \in Recruiters, NEW j \in grant[q].invite,
                      grant[q].renewed = {}, invites'[j].month = month
               PROVE  invites'[j].status = "issued" /\ ~invites'[j].ended
    BY <1>1 DEF LivesStand
  <2>1. j \in Invites /\ grant[q] \in Grant /\ grant[q].invite = {j}
    BY AllowanceTypes, NoGrantIs DEF Grant, AllowanceInv, GrantsFit
  <2>2. invites[j].month = month => invites[j].status = "issued" /\ ~invites[j].ended
    BY <1>3 DEF AllowanceInv, LivesStand
  <2>3. CASE j # i
    BY <1>2, <2>1, <2>2, <2>3
  <2>4. CASE j = i
    <3>1. grant[q] = [invite |-> {i}, renewed |-> {}]
      BY <2>1, <2>4 DEF Grant
    <3>2. ~Releases(i)
      BY <3>1 DEF Releases
    <3> QED BY <1>2, <2>2, <2>4, <3>2
  <2> QED BY <2>3, <2>4
<1>7. Used' \subseteq Used
  <2> SUFFICES ASSUME NEW j \in Invites, Counted(j)' PROVE Counted(j)
    BY DEF Used
  <2>1. CASE j # i
    BY <1>1, <1>2, <2>1 DEF Counted
  <2>2. CASE j = i
    BY <1>1, <1>2, <2>2 DEF Counted
  <2> QED BY <2>1, <2>2
<1>8. \A j \in Invites : invites'[j].email = invites[j].email /\ invites'[j].kind = invites[j].kind
  BY <1>2
<1>9. AllowanceKept' /\ \A j \in Invites : lapses' = {} /\ PlaceLeft(j) => PlaceLeft(j)'
  BY <1>1, <1>3, <1>7, <1>8, LimitsStand
<1>10. PlacesHeld'
  <2> SUFFICES ASSUME lapses' = {}, NEW q \in Recruiters, NEW j \in grant[q].invite,
                      grant[q].renewed = {month}
               PROVE  PlaceLeft(j)'
    BY <1>1 DEF PlacesHeld
  <2>1. j \in Invites
    BY AllowanceTypes DEF Grant
  <2>2. PlaceLeft(j)
    BY <1>3 DEF AllowanceInv, PlacesHeld
  <2> QED BY <1>9, <2>1, <2>2
<1> QED BY <1>4, <1>5, <1>6, <1>9, <1>10 DEF AllowanceInv

LEMMA InviteStartsKeeps ==
  ASSUME AllowanceInv, NEW i \in Invites, InviteStarts(i)
  PROVE  AllowanceInv'
<1> DEFINE kept == [invites[i] EXCEPT !.started = TRUE]
<1>1. /\ kept \in Invite /\ kept.kind = invites[i].kind /\ kept.email = invites[i].email
      /\ kept.month = invites[i].month /\ kept.status = invites[i].status
      /\ kept.ended = invites[i].ended
  BY InviteIs DEF Invite
<1>2. /\ invites[i].status = "issued" /\ ~invites[i].ended
      /\ InviteChanges(i, kept) /\ lapses' = lapses
  BY DEF InviteStarts
<1> HIDE DEF kept
<1> QED BY <1>1, <1>2, InviteTurns

LEMMA InviteExpiresKeeps ==
  ASSUME AllowanceInv, NEW i \in Invites, InviteExpires(i)
  PROVE  AllowanceInv'
<1> DEFINE kept == [invites[i] EXCEPT !.ended = TRUE]
<1>1. /\ kept \in Invite /\ kept.kind = invites[i].kind /\ kept.email = invites[i].email
      /\ kept.month = invites[i].month /\ kept.ended = TRUE /\ kept.started = invites[i].started
  BY InviteIs DEF Invite
<1>2. InviteChanges(i, kept) /\ Releases(i)
  BY DEF InviteExpires
<1> HIDE DEF kept
<1> QED BY <1>1, <1>2, InviteTurns

LEMMA InviteRevokedKeeps ==
  ASSUME AllowanceInv, NEW i \in Invites, InviteRevoked(i)
  PROVE  AllowanceInv'
<1> DEFINE kept == [invites[i] EXCEPT !.status = "revoked", !.ended = TRUE]
<1>1. /\ kept \in Invite /\ kept.kind = invites[i].kind /\ kept.email = invites[i].email
      /\ kept.month = invites[i].month /\ kept.ended = TRUE /\ kept.started = invites[i].started
  BY InviteIs DEF Invite
<1>2. InviteChanges(i, kept) /\ Releases(i)
  BY DEF InviteRevoked
<1> HIDE DEF kept
<1> QED BY <1>1, <1>2, InviteTurns

LEMMA PlanChangesKeeps ==
  ASSUME AllowanceInv, PlanChanges
  PROVE  AllowanceInv'
<1>1. paid' = ~paid /\ lapses' = lapses \union {"plan"} /\ UNCHANGED <<month, invites, held, grant>>
  BY DEF PlanChanges
<1>2. paid' \in BOOLEAN
  BY <1>1
<1>3. AllowanceTypeOK'
  BY <1>1, <1>2 DEF AllowanceInv, AllowanceTypeOK
<1>4. GrantsFit' /\ MonthsPast' /\ LivesStand'
  BY <1>1 DEF AllowanceInv, GrantsFit, NoGrant, MonthsPast, LivesStand
<1>5. "plan" \in lapses'
  BY <1>1
<1> QED BY <1>3, <1>4, <1>5 DEF AllowanceInv, PlacesHeld, AllowanceKept

LEMMA MonthEndsKeeps ==
  ASSUME AllowanceInv, MonthEnds
  PROVE  AllowanceInv'
<1>1. /\ month < MaxMonth /\ month' = month + 1 /\ lapses' = IF paid THEN {"plan"} ELSE {}
      /\ UNCHANGED <<invites, held, grant, paid>>
  BY DEF MonthEnds
<1>2. month' \in Months /\ \A m \in Months : m <= month => m <= month' /\ m # month'
  BY <1>1, AllowanceTypes, AllowanceConstants DEF Months
<1>3. AllowanceTypeOK'
  BY <1>1, <1>2 DEF AllowanceInv, AllowanceTypeOK
<1>4. GrantsFit'
  BY <1>1, <1>2 DEF AllowanceInv, GrantsFit, NoGrant
<1>5. \A i \in Invites : invites[i].month <= month' /\ invites[i].month # month'
  BY <1>1, AllowanceTypes, InviteIs DEF AllowanceInv, MonthsPast
<1>6. MonthsPast' /\ LivesStand'
  <2>1. \A r \in Recruiters : \A i \in grant[r].invite : i \in Invites
    BY AllowanceTypes DEF Grant
  <2> QED BY <1>1, <1>5, <2>1 DEF MonthsPast, LivesStand
<1>7. PlacesHeld'
  <2>1. \A r \in Recruiters : grant[r].renewed # {month'}
    BY <1>2 DEF AllowanceInv, GrantsFit
  <2> QED BY <1>1, <2>1 DEF PlacesHeld
<1>8. AllowanceKept'
  <2>1. Used' = {}
    BY <1>1, <1>5 DEF Used, Counted
  <2>2. UsedEmails' = {} /\ \A k \in Kinds : UsedOf(k)' = {}
    BY <2>1 DEF UsedEmails, UsedOf
  <2> QED BY <2>2, FS_EmptySet, AllowanceConstants DEF AllowanceKept
<1> QED BY <1>1, <1>3, <1>4, <1>6, <1>7, <1>8 DEF AllowanceInv

LEMMA AllowanceStep == AllowanceInv /\ AllowanceNext => AllowanceInv'
<1> SUFFICES ASSUME AllowanceInv, AllowanceNext PROVE AllowanceInv'
  OBVIOUS
<1>1. ASSUME NEW r \in Recruiters, NEW i \in Invites,
             IssueInvite(r, i) \/ ResendLive(r, i) \/ ResendReleased(r, i)
      PROVE  AllowanceInv'
  BY <1>1, IssueInviteKeeps, ResendLiveKeeps, ResendReleasedKeeps
<1>2. ASSUME NEW r \in Recruiters, GrantCommits(r) \/ GrantFails(r) PROVE AllowanceInv'
  BY <1>2, GrantCommitsKeeps, GrantFailsKeeps
<1>3. ASSUME NEW i \in Invites, InviteStarts(i) \/ InviteExpires(i) \/ InviteRevoked(i)
      PROVE  AllowanceInv'
  BY <1>3, InviteStartsKeeps, InviteExpiresKeeps, InviteRevokedKeeps
<1> QED BY <1>1, <1>2, <1>3, PlanChangesKeeps, MonthEndsKeeps DEF AllowanceNext

LEMMA AllowanceStutter == AllowanceInv /\ UNCHANGED allowanceVars => AllowanceInv'
<1> SUFFICES ASSUME AllowanceInv, UNCHANGED allowanceVars PROVE AllowanceInv'
  OBVIOUS
<1>1. UNCHANGED <<month, invites, held, grant, paid, lapses>>
  BY DEF allowanceVars
<1>2. AllowanceTypeOK' /\ GrantsFit' /\ MonthsPast' /\ LivesStand'
  BY <1>1 DEF AllowanceInv, AllowanceTypeOK, GrantsFit, NoGrant, MonthsPast, LivesStand
<1>3. Used' = Used
  BY <1>1 DEF Used, Counted
<1>4. UsedEmails' = UsedEmails /\ \A k : UsedOf(k)' = UsedOf(k)
  BY <1>1, <1>3 DEF UsedEmails, UsedOf
<1>5. AllowanceKept'
  BY <1>1, <1>4 DEF AllowanceInv, AllowanceKept
<1>6. \A i : UsedOf(invites[i].kind)' = UsedOf(invites[i].kind)
  BY <1>1, <1>3 DEF UsedOf
<1>7. \A i : PlaceLeft(i)' <=> PlaceLeft(i)
  BY <1>1, <1>4, <1>6 DEF PlaceLeft
<1>8. PlacesHeld'
  BY <1>1, <1>7 DEF AllowanceInv, PlacesHeld
<1> QED BY <1>1, <1>2, <1>5, <1>8 DEF AllowanceInv

-----------------------------------------------------------------------------
(* The rate limiter. *)

LEMMA RateConstants ==
  /\ MaxRequests \in Nat /\ MaxRequests > 0 /\ Window \in Nat /\ Window > 0
  /\ RetryAfter \in Nat /\ MaxLosses \in Nat /\ IsFiniteSet(Limiters)
  BY RateAssumption

\* Where a request that was allowed is counted: in the window of the key, in
\* the one before, in the memory of a process, or with what was lost.
KeyNow == <<"key", 0>>
KeyBefore == <<"before", 0>>
InMemory(p) == <<"memory", p>>
InLost(k) == <<"lost", k>>
PlacesFor(n) == {KeyNow, KeyBefore} \union ({"memory"} \X Limiters) \union ({"lost"} \X (1..n))
CountPlaces == PlacesFor(MaxLosses)
Turns == 1..MaxRequests

\* A request of each place and turn: its age, or that of one out of the window.
RequestAges == [CountPlaces -> [Turns -> 0..Window]]
AgedAt(g, a) == {x \in CountPlaces \X Turns : g[x[1]][x[2]] = a}
TurnsAt(h, a) == {n \in Turns : h[n] = a}

AllowedAre(g, f) == \A a \in Ages : f[a] = Cardinality(AgedAt(g, a))
EventsAre(g, ev) == \A p \in Limiters, a \in Ages : ev[p][a] = Cardinality(TurnsAt(g[InMemory(p)], a))

\* The turns in the key's window are those it counted, no older than it; those
\* of the window before are as old as it.
KeyIs(g, key) == \A n \in Turns :
    /\ g[KeyNow][n] < Window => n <= key.count /\ g[KeyNow][n] <= Window - key.left
    /\ key.count > 0 => g[KeyBefore][n] >= Window - key.left

LostAre(g, l) == \A k \in 1..MaxLosses, n \in Turns : k > l => g[InLost(k)][n] = Window

Accounted(g) == g \in RequestAges /\ AllowedAre(g, allowed) /\ EventsAre(g, events)
                /\ KeyIs(g, shared) /\ LostAre(g, losses)

RateInv ==
    /\ RateTypeOK
    /\ shared.count = 0 => shared = NoKey
    /\ shared.count > 0 => shared.left > 0
    /\ \E g : Accounted(g)

LEMMA PlacesAre ==
  /\ KeyNow \in CountPlaces /\ KeyBefore \in CountPlaces /\ KeyNow # KeyBefore
  /\ \A p \in Limiters : InMemory(p) \in CountPlaces /\ InMemory(p) # KeyNow /\ InMemory(p) # KeyBefore
  /\ \A p, q \in Limiters : InMemory(p) = InMemory(q) => p = q
  /\ \A k \in 1..MaxLosses : InLost(k) \in CountPlaces /\ InLost(k) # KeyNow /\ InLost(k) # KeyBefore
  /\ \A j, k \in 1..MaxLosses : InLost(j) = InLost(k) => j = k
  /\ \A p \in Limiters, k \in 1..MaxLosses : InMemory(p) # InLost(k)
  BY DEF KeyNow, KeyBefore, InMemory, InLost, CountPlaces, PlacesFor

LEMMA PlacesFinite ==
  ASSUME NEW n \in Nat
  PROVE  /\ IsFiniteSet(PlacesFor(n)) /\ Cardinality(Limiters) \in Nat
         /\ Cardinality(PlacesFor(n)) = 2 + Cardinality(Limiters) + n
<1> DEFINE K == {KeyNow, KeyBefore}  M == {"memory"} \X Limiters  L == {"lost"} \X (1..n)
<1>1. IsFiniteSet(K) /\ Cardinality(K) = 2
  <2>1. IsFiniteSet({KeyNow}) /\ Cardinality({KeyNow}) = 1
    BY FS_Singleton
  <2>2. /\ IsFiniteSet({KeyNow} \union {KeyBefore})
        /\ Cardinality({KeyNow} \union {KeyBefore})
             = IF KeyBefore \in {KeyNow} THEN Cardinality({KeyNow}) ELSE Cardinality({KeyNow}) + 1
    BY <2>1, FS_AddElement
  <2>3. {KeyNow} \union {KeyBefore} = K /\ KeyBefore \notin {KeyNow}
    BY PlacesAre
  <2> QED BY <2>1, <2>2, <2>3
<1>2. Cardinality(Limiters) \in Nat /\ IsFiniteSet(Limiters)
  BY RateConstants, FS_CardinalityType
<1>3. IsFiniteSet(M) /\ Cardinality(M) = Cardinality(Limiters)
  <2>1. IsFiniteSet({"memory"}) /\ Cardinality({"memory"}) = 1
    BY FS_Singleton
  <2>2. IsFiniteSet(M) /\ Cardinality(M) = Cardinality({"memory"}) * Cardinality(Limiters)
    BY <1>2, <2>1, FS_Product
  <2> QED BY <1>2, <2>1, <2>2
<1>4. IsFiniteSet(L) /\ Cardinality(L) = n
  <2>1. IsFiniteSet({"lost"}) /\ Cardinality({"lost"}) = 1
    BY FS_Singleton
  <2>2. IsFiniteSet(1..n) /\ Cardinality(1..n) = n
    BY FS_Interval
  <2>3. IsFiniteSet(L) /\ Cardinality(L) = Cardinality({"lost"}) * Cardinality(1..n)
    BY <2>1, <2>2, FS_Product
  <2> QED BY <2>1, <2>2, <2>3
<1>5. K \intersect M = {} /\ (K \union M) \intersect L = {}
  BY DEF KeyNow, KeyBefore
<1> HIDE DEF K, M, L
<1>6. IsFiniteSet(K \union M) /\ Cardinality(K \union M) = 2 + Cardinality(Limiters)
  <2>1. /\ IsFiniteSet(K \union M)
        /\ Cardinality(K \union M) = Cardinality(K) + Cardinality(M) - Cardinality(K \intersect M)
    BY <1>1, <1>3, FS_Union
  <2>2. Cardinality(K \intersect M) = 0
    BY <1>5, FS_EmptySet
  <2> QED BY <1>1, <1>2, <1>3, <2>1, <2>2
<1>7. IsFiniteSet((K \union M) \union L)
      /\ Cardinality((K \union M) \union L) = 2 + Cardinality(Limiters) + n
  <2>1. /\ IsFiniteSet((K \union M) \union L)
        /\ Cardinality((K \union M) \union L)
             = Cardinality(K \union M) + Cardinality(L) - Cardinality((K \union M) \intersect L)
    BY <1>4, <1>6, FS_Union
  <2>2. Cardinality((K \union M) \intersect L) = 0
    BY <1>5, FS_EmptySet
  <2> QED BY <1>2, <1>4, <1>6, <2>1, <2>2
<1> QED BY <1>2, <1>7 DEF PlacesFor, K, M, L

LEMMA TurnsFinite ==
  /\ IsFiniteSet(Turns) /\ Cardinality(Turns) = MaxRequests
  /\ IsFiniteSet(CountPlaces \X Turns)
  /\ \A g, a : IsFiniteSet(AgedAt(g, a)) /\ Cardinality(AgedAt(g, a)) \in Nat
  /\ \A h, a : /\ IsFiniteSet(TurnsAt(h, a)) /\ Cardinality(TurnsAt(h, a)) \in Nat
               /\ Cardinality(TurnsAt(h, a)) <= MaxRequests
<1>1. IsFiniteSet(Turns) /\ Cardinality(Turns) = MaxRequests
  BY RateConstants, FS_Interval DEF Turns
<1>2. IsFiniteSet(CountPlaces \X Turns)
  BY <1>1, PlacesFinite, RateConstants, FS_Product DEF CountPlaces
<1>3. \A g, a : AgedAt(g, a) \subseteq CountPlaces \X Turns
  BY DEF AgedAt
<1>4. \A h, a : TurnsAt(h, a) \subseteq Turns
  BY DEF TurnsAt
<1>5. \A h, a : /\ IsFiniteSet(TurnsAt(h, a)) /\ Cardinality(TurnsAt(h, a)) \in Nat
                /\ Cardinality(TurnsAt(h, a)) <= MaxRequests
  BY <1>1, <1>4, FS_Subset, FS_CardinalityType
<1> QED BY <1>1, <1>2, <1>3, <1>5, FS_Subset, FS_CardinalityType

\* The requests of all ages are those of an age in the window.
LEMMA TotalCounts ==
  ASSUME NEW S, IsFiniteSet(S), NEW h \in [S -> 0..Window], NEW f \in [Ages -> Nat],
         \A a \in Ages : f[a] = Cardinality({s \in S : h[s] = a})
  PROVE  Total(f) = Cardinality({s \in S : h[s] < Window})
<1> DEFINE U == {s \in S : h[s] < Window}
           C(a) == {s \in S : h[s] = a}
           T == UNION {{a} \X (1..f[a]) : a \in Ages}
           b == [a \in Ages |-> CHOOSE c : c \in Bijection(C(a), 1..f[a])]
           G == [s \in U |-> <<h[s], b[h[s]][s]>>]
<1>1. \A a \in Ages : IsFiniteSet(C(a)) /\ f[a] = Cardinality(C(a))
  BY FS_Subset
<1>2. \A a \in Ages : ExistsBijection(1..f[a], C(a))
  BY <1>1, FS_CardinalityType
<1>3. \A a \in Ages : ExistsBijection(C(a), 1..f[a])
  BY <1>2, Fun_ExistsBijSymmetric
<1>4. \A a \in Ages : b[a] \in Bijection(C(a), 1..f[a])
  <2> SUFFICES ASSUME NEW a \in Ages PROVE b[a] \in Bijection(C(a), 1..f[a])
    OBVIOUS
  <2>1. \E c : c \in Bijection(C(a), 1..f[a])
    BY <1>3 DEF ExistsBijection
  <2>2. b[a] = CHOOSE c : c \in Bijection(C(a), 1..f[a])
    OBVIOUS
  <2> QED BY <2>1, <2>2
<1> HIDE DEF b
<1>5. \A a \in Ages : /\ b[a] \in [C(a) -> 1..f[a]]
                      /\ \A s, t \in C(a) : b[a][s] = b[a][t] => s = t
                      /\ \A n \in 1..f[a] : \E s \in C(a) : b[a][s] = n
  BY <1>4 DEF Bijection, Injection, Surjection, IsInjective
<1>6. \A s \in U : h[s] \in Ages /\ s \in C(h[s])
  BY RateConstants DEF Ages
<1>7. \A a \in Ages : \A s \in C(a) : s \in U /\ h[s] = a
  BY RateConstants DEF Ages
<1>8. \A x : x \in T <=> \E a \in Ages : \E n \in 1..f[a] : x = <<a, n>>
  OBVIOUS
<1> HIDE DEF C, U, T
<1>9. G \in [U -> T]
  <2> SUFFICES ASSUME NEW s \in U PROVE <<h[s], b[h[s]][s]>> \in T
    OBVIOUS
  <2>1. b[h[s]][s] \in 1..f[h[s]]
    BY <1>5, <1>6
  <2> QED BY <1>6, <1>8, <2>1
<1>10. \A s, t \in U : G[s] = G[t] => s = t
  BY <1>5, <1>6
<1>11. \A x \in T : \E s \in U : G[s] = x
  <2> SUFFICES ASSUME NEW x \in T PROVE \E s \in U : G[s] = x
    OBVIOUS
  <2>1. PICK a \in Ages : \E n \in 1..f[a] : x = <<a, n>>
    BY <1>8
  <2>2. PICK n \in 1..f[a] : x = <<a, n>>
    BY <2>1
  <2>3. PICK s \in C(a) : b[a][s] = n
    BY <1>5
  <2>4. s \in U /\ h[s] = a
    BY <1>7
  <2> QED BY <2>2, <2>3, <2>4
<1> HIDE DEF G
<1>12. G \in Bijection(U, T)
  BY <1>9, <1>10, <1>11 DEF Bijection, Injection, Surjection, IsInjective
<1>13. IsFiniteSet(U)
  BY FS_Subset DEF U
<1>14. Cardinality(T) = Cardinality(U)
  BY <1>12, <1>13, FS_Bijection DEF ExistsBijection
<1> QED BY <1>14 DEF Total, T, U

\* The requests counted in two places change places.
Swapped(g, j, k) == [s \in CountPlaces |-> IF s = j THEN g[k] ELSE IF s = k THEN g[j] ELSE g[s]]

LEMMA PlacesSwapped ==
  ASSUME NEW g \in RequestAges, NEW j \in CountPlaces, NEW k \in CountPlaces, j # k,
         NEW gg, gg = Swapped(g, j, k)
  PROVE  /\ gg \in RequestAges /\ gg[j] = g[k] /\ gg[k] = g[j]
         /\ \A a \in Ages : Cardinality(AgedAt(gg, a)) = Cardinality(AgedAt(g, a))
<1>1. /\ gg \in RequestAges /\ gg[j] = g[k] /\ gg[k] = g[j]
      /\ \A s \in CountPlaces : s # j /\ s # k => gg[s] = g[s]
  BY DEF RequestAges, Swapped
<1> DEFINE sw(s) == IF s = j THEN k ELSE IF s = k THEN j ELSE s
<1>2. \A s \in CountPlaces : sw(s) \in CountPlaces /\ sw(sw(s)) = s /\ gg[sw(s)] = g[s]
  BY <1>1
<1>3. ASSUME NEW a PROVE Cardinality(AgedAt(gg, a)) = Cardinality(AgedAt(g, a))
  <2> DEFINE F == [x \in AgedAt(g, a) |-> <<sw(x[1]), x[2]>>]
  <2>1. \A x \in AgedAt(g, a) : /\ x[1] \in CountPlaces /\ x[2] \in Turns /\ x = <<x[1], x[2]>>
                                /\ g[x[1]][x[2]] = a
    BY DEF AgedAt
  <2>2. \A y \in AgedAt(gg, a) : /\ y[1] \in CountPlaces /\ y[2] \in Turns /\ y = <<y[1], y[2]>>
                                 /\ gg[y[1]][y[2]] = a
    BY DEF AgedAt
  <2>3. \A s \in CountPlaces : gg[s] = g[sw(s)]
    BY <1>1
  <2> HIDE DEF sw
  <2>4. \A x \in AgedAt(g, a) : <<sw(x[1]), x[2]>> \in AgedAt(gg, a)
    <3> SUFFICES ASSUME NEW x \in AgedAt(g, a) PROVE <<sw(x[1]), x[2]>> \in AgedAt(gg, a)
      OBVIOUS
    <3>1. sw(x[1]) \in CountPlaces /\ x[2] \in Turns /\ gg[sw(x[1])][x[2]] = a
      BY <1>2, <2>1
    <3> QED BY <3>1 DEF AgedAt
  <2>5. \A y \in AgedAt(gg, a) : <<sw(y[1]), y[2]>> \in AgedAt(g, a)
    <3> SUFFICES ASSUME NEW y \in AgedAt(gg, a) PROVE <<sw(y[1]), y[2]>> \in AgedAt(g, a)
      OBVIOUS
    <3>1. sw(y[1]) \in CountPlaces /\ y[2] \in Turns /\ g[sw(y[1])][y[2]] = a
      BY <1>2, <2>2, <2>3
    <3> QED BY <3>1 DEF AgedAt
  <2>6. F \in [AgedAt(g, a) -> AgedAt(gg, a)]
    BY <2>4
  <2>7. \A x, y \in AgedAt(g, a) : F[x] = F[y] => x = y
    <3> SUFFICES ASSUME NEW x \in AgedAt(g, a), NEW y \in AgedAt(g, a), F[x] = F[y] PROVE x = y
      OBVIOUS
    <3>1. sw(x[1]) = sw(y[1]) /\ x[2] = y[2]
      OBVIOUS
    <3>2. x[1] = y[1]
      BY <1>2, <2>1, <3>1
    <3> QED BY <2>1, <3>1, <3>2
  <2>8. \A y \in AgedAt(gg, a) : \E x \in AgedAt(g, a) : F[x] = y
    <3> SUFFICES ASSUME NEW y \in AgedAt(gg, a) PROVE \E x \in AgedAt(g, a) : F[x] = y
      OBVIOUS
    <3>1. <<sw(y[1]), y[2]>> \in AgedAt(g, a)
      BY <2>5
    <3>2. F[<<sw(y[1]), y[2]>>] = <<sw(sw(y[1])), y[2]>>
      BY <3>1
    <3>3. <<sw(sw(y[1])), y[2]>> = y
      BY <1>2, <2>2
    <3> QED BY <3>1, <3>2, <3>3
  <2> HIDE DEF F
  <2>9. F \in Bijection(AgedAt(g, a), AgedAt(gg, a))
    BY <2>6, <2>7, <2>8 DEF Bijection, Injection, Surjection, IsInjective
  <2> QED BY <2>9, TurnsFinite, FS_Bijection DEF ExistsBijection
<1> QED BY <1>1, <1>3

\* A request is counted in a place that had a turn left.
Entered(g, s, n) == [g EXCEPT ![s] = [g[s] EXCEPT ![n] = 0]]

LEMMA RequestEnters ==
  ASSUME NEW g \in RequestAges, NEW s \in CountPlaces, NEW n \in Turns, g[s][n] = Window,
         NEW f \in [Ages -> Nat], AllowedAre(g, f), NEW gg, gg = Entered(g, s, n)
  PROVE  /\ gg \in RequestAges /\ AllowedAre(gg, OneMore(f))
         /\ gg[s][n] = 0 /\ \A m \in Turns : m # n => gg[s][m] = g[s][m]
         /\ \A t \in CountPlaces : t # s => gg[t] = g[t]
<1>1. 0 \in 0..Window /\ 0 \in Ages /\ 0 # Window
  BY RateConstants DEF Ages
<1>2. /\ gg \in RequestAges /\ gg[s][n] = 0 /\ \A m \in Turns : m # n => gg[s][m] = g[s][m]
      /\ \A t \in CountPlaces : t # s => gg[t] = g[t]
  BY <1>1 DEF RequestAges, Entered
<1>3. ASSUME NEW a \in Ages PROVE OneMore(f)[a] = Cardinality(AgedAt(gg, a))
  <2>1. f[a] = Cardinality(AgedAt(g, a)) /\ a # Window
    BY RateConstants DEF AllowedAre, Ages
  <2>2. \A x \in CountPlaces \X Turns : x # <<s, n>> => gg[x[1]][x[2]] = g[x[1]][x[2]]
    BY <1>2
  <2>3. <<s, n>> \in CountPlaces \X Turns /\ <<s, n>>[1] = s /\ <<s, n>>[2] = n
    OBVIOUS
  <2>4. CASE a = 0
    <3>1. AgedAt(gg, a) = AgedAt(g, a) \union {<<s, n>>} /\ <<s, n>> \notin AgedAt(g, a)
      BY <1>1, <1>2, <2>2, <2>3, <2>4 DEF AgedAt
    <3>2. Cardinality(AgedAt(g, a) \union {<<s, n>>})
            = IF <<s, n>> \in AgedAt(g, a) THEN Cardinality(AgedAt(g, a))
              ELSE Cardinality(AgedAt(g, a)) + 1
      BY TurnsFinite, FS_AddElement
    <3>3. Cardinality(AgedAt(gg, a)) = f[a] + 1
      BY <2>1, <3>1, <3>2
    <3> QED BY <1>1, <2>4, <3>3 DEF OneMore
  <2>5. CASE a # 0
    <3>1. AgedAt(gg, a) = AgedAt(g, a)
      BY <1>2, <2>1, <2>2, <2>3, <2>5 DEF AgedAt
    <3> QED BY <2>1, <2>5, <3>1 DEF OneMore
  <2> QED BY <2>4, <2>5
<1> QED BY <1>2, <1>3 DEF AllowedAre

\* A tick later every request is a tick older.
Older(g) ==
    [s \in CountPlaces |-> [n \in Turns |-> IF g[s][n] = Window THEN Window ELSE g[s][n] + 1]]

LEMMA RequestsAge ==
  ASSUME NEW g \in RequestAges, NEW f \in [Ages -> Nat], AllowedAre(g, f),
         NEW ev, EventsAre(g, ev), NEW gg, gg = Older(g)
  PROVE  /\ gg \in RequestAges /\ AllowedAre(gg, Aged(f))
         /\ EventsAre(gg, [p \in Limiters |-> Aged(ev[p])])
         /\ \A s \in CountPlaces, n \in Turns :
               gg[s][n] = IF g[s][n] = Window THEN Window ELSE g[s][n] + 1
<1>1. \A s \in CountPlaces, n \in Turns :
         /\ g[s][n] \in 0..Window
         /\ gg[s][n] = IF g[s][n] = Window THEN Window ELSE g[s][n] + 1
         /\ gg[s][n] \in 0..Window
  <2> SUFFICES ASSUME NEW s \in CountPlaces, NEW n \in Turns
               PROVE  /\ g[s][n] \in 0..Window
                      /\ gg[s][n] = IF g[s][n] = Window THEN Window ELSE g[s][n] + 1
                      /\ gg[s][n] \in 0..Window
    OBVIOUS
  <2>1. g[s][n] \in 0..Window
    BY DEF RequestAges
  <2>2. gg[s][n] = IF g[s][n] = Window THEN Window ELSE g[s][n] + 1
    BY DEF Older
  <2>3. \A x \in 0..Window : (IF x = Window THEN Window ELSE x + 1) \in 0..Window
    BY RateConstants
  <2> QED BY <2>1, <2>2, <2>3
<1>2. gg \in RequestAges
  BY <1>1 DEF RequestAges, Older
<1>3. \A s \in CountPlaces, n \in Turns, a \in Ages :
         gg[s][n] = a <=> a > 0 /\ g[s][n] = a - 1
  <2> SUFFICES ASSUME NEW s \in CountPlaces, NEW n \in Turns, NEW a \in Ages
               PROVE  gg[s][n] = a <=> (a > 0 /\ g[s][n] = a - 1)
    OBVIOUS
  <2>1. PICK x \in 0..Window : x = g[s][n] /\ gg[s][n] = IF x = Window THEN Window ELSE x + 1
    BY <1>1
  <2>2. a \in Int /\ a < Window /\ a >= 0
    BY RateConstants DEF Ages
  <2>3. (IF x = Window THEN Window ELSE x + 1) = a <=> (a > 0 /\ x = a - 1)
    BY <2>2, RateConstants
  <2> QED BY <2>1, <2>3
<1>4. \A a \in Ages : a > 0 => a - 1 \in Ages
  BY RateConstants DEF Ages
<1>5. ASSUME NEW a \in Ages PROVE Aged(f)[a] = Cardinality(AgedAt(gg, a))
  <2>1. CASE a = 0
    <3>1. AgedAt(gg, a) = {}
      BY <1>3, <2>1 DEF AgedAt
    <3> QED BY <2>1, <3>1, FS_EmptySet DEF Aged
  <2>2. CASE a # 0
    <3>1. a > 0
      BY <2>2, RateConstants DEF Ages
    <3>2. AgedAt(gg, a) = AgedAt(g, a - 1)
      BY <1>3, <3>1 DEF AgedAt
    <3> QED BY <1>4, <2>2, <3>1, <3>2 DEF Aged, AllowedAre
  <2> QED BY <2>1, <2>2
<1>6. ASSUME NEW p \in Limiters, NEW a \in Ages
      PROVE  Aged(ev[p])[a] = Cardinality(TurnsAt(gg[InMemory(p)], a))
  <2>1. InMemory(p) \in CountPlaces
    BY PlacesAre
  <2>2. CASE a = 0
    <3>1. TurnsAt(gg[InMemory(p)], a) = {}
      BY <1>3, <2>1, <2>2 DEF TurnsAt
    <3> QED BY <2>2, <3>1, FS_EmptySet DEF Aged
  <2>3. CASE a # 0
    <3>1. a > 0
      BY <2>3, RateConstants DEF Ages
    <3>2. TurnsAt(gg[InMemory(p)], a) = TurnsAt(g[InMemory(p)], a - 1)
      BY <1>3, <2>1, <3>1 DEF TurnsAt
    <3> QED BY <1>4, <2>3, <3>1, <3>2 DEF Aged, EventsAre
  <2> QED BY <2>2, <2>3
<1> QED BY <1>1, <1>2, <1>5, <1>6 DEF AllowedAre, EventsAre

-----------------------------------------------------------------------------
LEMMA RateTypes ==
  ASSUME RateInv
  PROVE  /\ shared \in [count : 0..(MaxRequests + 1), left : 0..Window]
         /\ shared.count \in 0..(MaxRequests + 1) /\ shared.left \in 0..Window
         /\ events \in [Limiters -> [Ages -> 0..MaxRequests]]
         /\ retryIn \in [Limiters -> 0..RetryAfter]
         /\ allowed \in [Ages -> Nat] /\ losses \in 0..MaxLosses /\ losses \in Nat
         /\ shared.count = 0 => shared = NoKey
         /\ shared.count > 0 => shared.left > 0
  BY RateConstants DEF RateInv, RateTypeOK

LEMMA NoEventsAre ==
  /\ NoEvents \in [Ages -> 0..MaxRequests] /\ NoEvents \in [Ages -> Nat]
  /\ \A a \in Ages : NoEvents[a] = 0
  /\ \A f \in [Ages -> Nat] : OneMore(f) \in [Ages -> Nat] /\ Aged(f) \in [Ages -> Nat]
<1>1. 0 \in 0..MaxRequests /\ 0 \in Ages /\ \A a \in Ages : a # 0 => a - 1 \in Ages
  BY RateConstants DEF Ages
<1> QED BY <1>1 DEF NoEvents, OneMore, Aged

\* How many events a process holds of an age is bounded by its turns.
LEMMA EventsBounded ==
  ASSUME NEW g, NEW ev, NEW D, ev \in [Limiters -> [Ages -> D]], EventsAre(g, ev)
  PROVE  ev \in [Limiters -> [Ages -> 0..MaxRequests]]
<1>1. \A p \in Limiters, a \in Ages : ev[p][a] \in 0..MaxRequests
  BY TurnsFinite, RateConstants DEF EventsAre
<1> QED BY <1>1

LEMMA RateStart == RateInit => RateInv
<1> SUFFICES ASSUME RateInit PROVE RateInv
  OBVIOUS
<1>1. /\ shared = NoKey /\ events = [p \in Limiters |-> NoEvents]
      /\ retryIn = [p \in Limiters |-> 0] /\ allowed = NoEvents /\ losses = 0
  BY DEF RateInit
<1>2. NoKey.count = 0 /\ NoKey.left = 0
      /\ NoKey \in [count : 0..(MaxRequests + 1), left : 0..Window]
  BY RateConstants DEF NoKey
<1>3. RateTypeOK
  BY <1>1, <1>2, NoEventsAre, RateConstants DEF RateTypeOK
<1> DEFINE g == [s \in CountPlaces |-> [n \in Turns |-> Window]]
<1>4. \A s \in CountPlaces, n \in Turns : g[s][n] = Window
  OBVIOUS
<1>5. g \in RequestAges
  BY RateConstants DEF RequestAges
<1>6. \A a \in Ages : a # Window
  BY RateConstants DEF Ages
<1> HIDE DEF g
<1>7. \A a \in Ages : AgedAt(g, a) = {}
  BY <1>4, <1>6 DEF AgedAt
<1>8. \A p \in Limiters, a \in Ages : TurnsAt(g[InMemory(p)], a) = {}
  BY <1>4, <1>6, PlacesAre DEF TurnsAt
<1>9. AllowedAre(g, allowed)
  BY <1>1, <1>7, NoEventsAre, FS_EmptySet DEF AllowedAre
<1>10. EventsAre(g, events)
  BY <1>1, <1>8, NoEventsAre, FS_EmptySet DEF EventsAre
<1>11. KeyIs(g, shared)
  BY <1>1, <1>2, <1>4, PlacesAre, RateConstants DEF KeyIs
<1>12. LostAre(g, losses)
  BY <1>4, PlacesAre DEF LostAre
<1>13. Accounted(g)
  BY <1>5, <1>9, <1>10, <1>11, <1>12 DEF Accounted
<1> QED BY <1>1, <1>2, <1>3, <1>13 DEF RateInv

\* The key counts a request.
LEMMA KeyCounts ==
  ASSUME RateInv, NEW key, key = CountedIn(shared)
  PROVE  /\ key \in [count : 0..(MaxRequests + 1), left : 0..Window]
         /\ key.count > 0 /\ key.left > 0
         /\ key.count = IF shared.count > MaxRequests THEN shared.count ELSE shared.count + 1
         /\ shared.count > 0 => key.left = shared.left
         /\ shared.count = 0 => key.left = Window
<1>1. CASE shared.count = 0
  <2>1. key = [count |-> 1, left |-> Window]
    BY <1>1 DEF CountedIn
  <2>2. key.count = 1 /\ key.left = Window
    BY <2>1
  <2>3. key \in [count : 0..(MaxRequests + 1), left : 0..Window]
    BY <2>1, RateConstants
  <2> QED BY <1>1, <2>2, <2>3, RateConstants
<1>2. CASE shared.count # 0
  <2>1. PICK c \in 0..(MaxRequests + 1) :
           c = (IF shared.count > MaxRequests THEN shared.count ELSE shared.count + 1) /\ c > 0
    BY <1>2, RateTypes, RateConstants
  <2>2. key = [shared EXCEPT !.count = c]
    BY <1>2, <2>1 DEF CountedIn
  <2>3. key \in [count : 0..(MaxRequests + 1), left : 0..Window]
        /\ key.count = c /\ key.left = shared.left
    BY <2>2, RateTypes
  <2>4. shared.count > 0 /\ shared.left > 0
    BY <1>2, RateTypes, RateConstants
  <2> QED BY <1>2, <2>1, <2>3, <2>4
<1> QED BY <1>1, <1>2

LEMMA KeyStays ==
  ASSUME RateInv, NEW g, Accounted(g), NEW key \in {shared, CountedIn(shared)}
  PROVE  /\ KeyIs(g, key) /\ key \in [count : 0..(MaxRequests + 1), left : 0..Window]
         /\ key.count = 0 => key = NoKey
         /\ key.count > 0 => key.left > 0
<1>1. CASE key = shared
  BY <1>1, RateTypes DEF Accounted
<1>2. CASE key = CountedIn(shared)
  <2>1. /\ key \in [count : 0..(MaxRequests + 1), left : 0..Window]
        /\ key.count > 0 /\ key.left > 0
        /\ key.count = IF shared.count > MaxRequests THEN shared.count ELSE shared.count + 1
        /\ shared.count > 0 => key.left = shared.left
        /\ shared.count = 0 => key.left = Window
    BY <1>2, KeyCounts
  <2>2. ASSUME NEW n \in Turns
        PROVE  /\ g[KeyNow][n] < Window => n <= key.count /\ g[KeyNow][n] <= Window - key.left
               /\ key.count > 0 => g[KeyBefore][n] >= Window - key.left
    <3>1. /\ g[KeyNow][n] < Window => n <= shared.count /\ g[KeyNow][n] <= Window - shared.left
          /\ shared.count > 0 => g[KeyBefore][n] >= Window - shared.left
      BY DEF Accounted, KeyIs
    <3>2. n \in Nat /\ n > 0 /\ g[KeyBefore][n] \in 0..Window /\ g[KeyNow][n] \in 0..Window
      <4>1. n \in Nat /\ n > 0
        BY RateConstants DEF Turns
      <4>2. g \in [CountPlaces -> [Turns -> 0..Window]]
        BY DEF Accounted, RequestAges
      <4>3. g[KeyBefore][n] \in 0..Window /\ g[KeyNow][n] \in 0..Window
        BY <4>2, PlacesAre
      <4> QED BY <4>1, <4>3
    <3>3. shared.count \in Nat /\ key.count \in Nat /\ key.count >= shared.count
      BY <2>1, RateTypes, RateConstants
    <3>4. CASE shared.count = 0
      <4>1. ~(g[KeyNow][n] < Window)
        BY <3>1, <3>2, <3>4
      <4>2. Window - key.left = 0
        BY <2>1, <3>4, RateConstants
      <4> QED BY <3>2, <4>1, <4>2
    <3>5. CASE shared.count # 0
      <4>1. shared.count > 0 /\ key.left = shared.left
        BY <2>1, <3>3, <3>5
      <4> QED BY <3>1, <3>2, <3>3, <4>1
    <3> QED BY <3>4, <3>5
  <2>3. key.count # 0
    BY <2>1
  <2> QED BY <2>1, <2>2, <2>3 DEF KeyIs
<1> QED BY <1>1, <1>2

-----------------------------------------------------------------------------
\* A process that has room has a turn of its own left.
LEMMA RoomIsATurn ==
  ASSUME RateInv, NEW g, Accounted(g), NEW p \in Limiters, HasRoom(events[p])
  PROVE  \E n \in Turns : g[InMemory(p)][n] = Window
<1> DEFINE h == g[InMemory(p)]
<1>1. h \in [Turns -> 0..Window]
  <2>1. g \in [CountPlaces -> [Turns -> 0..Window]]
    BY DEF Accounted, RequestAges
  <2> QED BY <2>1, PlacesAre
<1>2. events[p] \in [Ages -> Nat]
  <2>1. events[p] \in [Ages -> 0..MaxRequests]
    BY RateTypes
  <2> QED BY <2>1, RateConstants
<1>3. \A a \in Ages : events[p][a] = Cardinality({n \in Turns : h[n] = a})
  BY DEF Accounted, EventsAre, TurnsAt
<1> HIDE DEF h
<1>4. Total(events[p]) = Cardinality({n \in Turns : h[n] < Window})
  BY <1>1, <1>2, <1>3, TurnsFinite, TotalCounts
<1>5. ASSUME \A n \in Turns : h[n] # Window PROVE FALSE
  <2>1. \A n \in Turns : h[n] < Window
    <3>1. \A n \in Turns : h[n] \in 0..Window
      BY <1>1
    <3>2. \A x \in 0..Window : x # Window => x < Window
      BY RateConstants
    <3> QED BY <1>5, <3>1, <3>2
  <2>2. {n \in Turns : h[n] < Window} = Turns
    BY <2>1
  <2>3. Total(events[p]) = MaxRequests
    BY <1>4, <2>2, TurnsFinite
  <2> QED BY <2>3, RateConstants DEF HasRoom
<1> QED BY <1>5 DEF h

\* The events of a process after it counted a request.
LEMMA EventEnters ==
  ASSUME RateInv, NEW g \in RequestAges, EventsAre(g, events), NEW p \in Limiters, NEW n \in Turns,
         g[InMemory(p)][n] = Window, NEW gg, gg = Entered(g, InMemory(p), n),
         NEW ev, ev = [events EXCEPT ![p] = OneMore(@)]
  PROVE  EventsAre(gg, ev) /\ ev \in [Limiters -> [Ages -> 0..MaxRequests]]
<1>1. 0 \in Ages /\ \A a \in Ages : a # Window
  BY RateConstants DEF Ages
<1>6. /\ gg[InMemory(p)][n] = 0
      /\ \A m \in Turns : m # n => gg[InMemory(p)][m] = g[InMemory(p)][m]
      /\ \A s \in CountPlaces : s # InMemory(p) => gg[s] = g[s]
  <2>1. g \in [CountPlaces -> [Turns -> 0..Window]] /\ InMemory(p) \in CountPlaces
    BY PlacesAre DEF RequestAges
  <2> QED BY <2>1 DEF Entered
<1>2. /\ events \in [Limiters -> [Ages -> Nat]]
      /\ ev \in [Limiters -> [Ages -> Nat]]
      /\ ev[p] = OneMore(events[p]) /\ \A q \in Limiters : q # p => ev[q] = events[q]
  <2>1. \A q \in Limiters : events[q] \in [Ages -> Nat]
    <3>1. \A q \in Limiters : events[q] \in [Ages -> 0..MaxRequests]
      BY RateTypes
    <3> QED BY <3>1, RateConstants
  <2>2. OneMore(events[p]) \in [Ages -> Nat]
    BY <2>1, NoEventsAre
  <2>3. events \in [Limiters -> [Ages -> Nat]]
    BY <2>1, RateTypes
  <2> QED BY <2>2, <2>3
<1>3. ASSUME NEW a \in Ages PROVE ev[p][a] = Cardinality(TurnsAt(gg[InMemory(p)], a))
  <2>1. events[p][a] = Cardinality(TurnsAt(g[InMemory(p)], a))
    BY DEF EventsAre
  <2>2. CASE a = 0
    <3>1. TurnsAt(gg[InMemory(p)], a) = TurnsAt(g[InMemory(p)], a) \union {n}
          /\ n \notin TurnsAt(g[InMemory(p)], a)
      BY <1>1, <1>6, <2>2 DEF TurnsAt
    <3>2. Cardinality(TurnsAt(g[InMemory(p)], a) \union {n})
            = IF n \in TurnsAt(g[InMemory(p)], a) THEN Cardinality(TurnsAt(g[InMemory(p)], a))
              ELSE Cardinality(TurnsAt(g[InMemory(p)], a)) + 1
      BY TurnsFinite, FS_AddElement
    <3>3. ev[p][a] = events[p][a] + 1
      BY <1>1, <1>2, <2>2 DEF OneMore
    <3> QED BY <2>1, <3>1, <3>2, <3>3
  <2>3. CASE a # 0
    <3>1. TurnsAt(gg[InMemory(p)], a) = TurnsAt(g[InMemory(p)], a)
      BY <1>1, <1>6, <2>3 DEF TurnsAt
    <3>2. ev[p][a] = events[p][a]
      BY <1>1, <1>2, <2>3 DEF OneMore
    <3> QED BY <2>1, <3>1, <3>2
  <2> QED BY <2>2, <2>3
<1>4. ASSUME NEW q \in Limiters, q # p, NEW a \in Ages
      PROVE  ev[q][a] = Cardinality(TurnsAt(gg[InMemory(q)], a))
  <2>1. InMemory(q) \in CountPlaces /\ InMemory(q) # InMemory(p)
    BY <1>4, PlacesAre
  <2>2. gg[InMemory(q)] = g[InMemory(q)]
    BY <1>6, <2>1
  <2> QED BY <1>2, <1>4, <2>2 DEF EventsAre
<1>5. EventsAre(gg, ev)
  BY <1>3, <1>4 DEF EventsAre
<1> QED BY <1>2, <1>5, EventsBounded

LEMMA LocallyCounted ==
  ASSUME RateInv, NEW p \in Limiters, AllowLocally(p), shared' \in {shared, CountedIn(shared)},
         losses' = losses, retryIn' \in [Limiters -> 0..RetryAfter]
  PROVE  RateInv'
<1>1. PICK g : Accounted(g)
  BY DEF RateInv
<1>2. /\ KeyIs(g, shared') /\ shared' \in [count : 0..(MaxRequests + 1), left : 0..Window]
      /\ shared'.count = 0 => shared' = NoKey
      /\ shared'.count > 0 => shared'.left > 0
  BY <1>1, KeyStays
<1>3. g \in RequestAges /\ AllowedAre(g, allowed) /\ EventsAre(g, events) /\ LostAre(g, losses)
  BY <1>1 DEF Accounted
<1>4. CASE HasRoom(events[p])
  <2>1. events' = [events EXCEPT ![p] = OneMore(@)] /\ allowed' = OneMore(allowed)
    BY <1>4 DEF AllowLocally
  <2>2. PICK n \in Turns : g[InMemory(p)][n] = Window
    BY <1>1, <1>4, RoomIsATurn
  <2>15. PICK gg : gg = Entered(g, InMemory(p), n)
    OBVIOUS
  <2>3. InMemory(p) \in CountPlaces /\ InMemory(p) # KeyNow /\ InMemory(p) # KeyBefore
        /\ \A k \in 1..MaxLosses : InMemory(p) # InLost(k)
    BY PlacesAre
  <2>16. allowed \in [Ages -> Nat]
    BY RateTypes
  <2>4. /\ gg \in RequestAges /\ AllowedAre(gg, OneMore(allowed))
        /\ gg[InMemory(p)][n] = 0
        /\ \A m \in Turns : m # n => gg[InMemory(p)][m] = g[InMemory(p)][m]
        /\ \A t \in CountPlaces : t # InMemory(p) => gg[t] = g[t]
    BY <1>3, <2>2, <2>3, <2>15, <2>16, RequestEnters
  <2>5. EventsAre(gg, events') /\ events' \in [Limiters -> [Ages -> 0..MaxRequests]]
    BY <1>3, <2>1, <2>2, <2>15, EventEnters
  <2>6. gg[KeyNow] = g[KeyNow] /\ gg[KeyBefore] = g[KeyBefore]
        /\ \A k \in 1..MaxLosses : gg[InLost(k)] = g[InLost(k)]
    BY <2>3, <2>4, PlacesAre
  <2>7. KeyIs(gg, shared') /\ LostAre(gg, losses')
    BY <1>2, <1>3, <2>6 DEF KeyIs, LostAre
  <2>8. Accounted(gg)'
    BY <2>1, <2>4, <2>5, <2>7 DEF Accounted
  <2>9. RateTypeOK'
    <3>1. allowed' \in [Ages -> Nat]
      BY <2>1, RateTypes, NoEventsAre
    <3> QED BY <1>2, <2>5, <3>1, RateTypes DEF RateTypeOK
  <2> QED BY <1>2, <2>8, <2>9 DEF RateInv
<1>5. CASE ~HasRoom(events[p])
  <2>1. events' = events /\ allowed' = allowed
    BY <1>5 DEF AllowLocally
  <2>2. Accounted(g)'
    BY <1>2, <1>3, <2>1 DEF Accounted
  <2>3. RateTypeOK'
    BY <1>2, <2>1, RateTypes DEF RateTypeOK
  <2> QED BY <1>2, <2>2, <2>3 DEF RateInv
<1> QED BY <1>4, <1>5

LEMMA AllowInsideKeeps ==
  ASSUME RateInv, NEW p \in Limiters, AllowInside(p)
  PROVE  RateInv'
<1>1. AllowLocally(p) /\ shared' = shared /\ retryIn' = retryIn /\ losses' = losses
  BY DEF AllowInside
<1> QED BY <1>1, RateTypes, LocallyCounted

LEMMA AllowFallbackKeeps ==
  ASSUME RateInv, NEW p \in Limiters, AllowFallback(p)
  PROVE  RateInv'
<1>1. /\ AllowLocally(p) /\ shared' \in {shared, CountedIn(shared)} /\ losses' = losses
      /\ retryIn' = [retryIn EXCEPT ![p] = RetryAfter]
  BY DEF AllowFallback
<1>2. retryIn' \in [Limiters -> 0..RetryAfter]
  BY <1>1, RateTypes, RateConstants
<1> QED BY <1>1, <1>2, LocallyCounted

LEMMA AllowSharedKeeps ==
  ASSUME RateInv, NEW p \in Limiters, AllowShared(p)
  PROVE  RateInv'
<1>1. /\ shared' = CountedIn(shared) /\ events' = events /\ retryIn' = retryIn /\ losses' = losses
      /\ allowed' = IF shared'.count <= MaxRequests THEN OneMore(allowed) ELSE allowed
  BY DEF AllowShared
<1>2. PICK g : Accounted(g)
  BY DEF RateInv
<1>3. /\ KeyIs(g, shared') /\ shared' \in [count : 0..(MaxRequests + 1), left : 0..Window]
      /\ shared'.count = 0 => shared' = NoKey
      /\ shared'.count > 0 => shared'.left > 0
  BY <1>1, <1>2, KeyStays
<1>4. g \in RequestAges /\ AllowedAre(g, allowed) /\ EventsAre(g, events) /\ LostAre(g, losses)
  BY <1>2 DEF Accounted
<1>5. CASE shared'.count <= MaxRequests
  <2>1. allowed' = OneMore(allowed)
    BY <1>1, <1>5
  <2>2. /\ shared'.count > 0 /\ shared'.left > 0
        /\ shared'.count = IF shared.count > MaxRequests THEN shared.count ELSE shared.count + 1
        /\ shared.count > 0 => shared'.left = shared.left
        /\ shared.count = 0 => shared'.left = Window
    BY <1>1, KeyCounts
  <2>3. PICK n \in Turns : shared'.count = n /\ n > shared.count
    <3>1. shared.count + 1 \in Turns /\ shared'.count = shared.count + 1
      BY <1>5, <2>2, RateTypes, RateConstants DEF Turns
    <3> QED BY <3>1, RateTypes, RateConstants
  <2>4. g \in [CountPlaces -> [Turns -> 0..Window]]
    BY <1>4 DEF RequestAges
  <2>5. g[KeyNow][n] = Window
    <3>1. g[KeyNow][n] \in 0..Window
      BY <2>3, <2>4, PlacesAre
    <3>2. g[KeyNow][n] < Window => n <= shared.count
      BY <1>2, <2>3 DEF Accounted, KeyIs
    <3>3. \A x \in 0..Window : ~(x < Window) => x = Window
      BY RateConstants
    <3>4. n \in Int /\ shared.count \in Int
      BY <2>3, RateTypes, RateConstants DEF Turns
    <3>5. ~(n <= shared.count)
      BY <2>3, <3>4
    <3> QED BY <3>1, <3>2, <3>3, <3>5
  <2>15. PICK gg : gg = Entered(g, KeyNow, n)
    OBVIOUS
  <2>16. allowed \in [Ages -> Nat] /\ KeyNow \in CountPlaces
    BY RateTypes, PlacesAre
  <2>6. /\ gg \in RequestAges /\ AllowedAre(gg, OneMore(allowed))
        /\ gg[KeyNow][n] = 0 /\ \A m \in Turns : m # n => gg[KeyNow][m] = g[KeyNow][m]
        /\ \A t \in CountPlaces : t # KeyNow => gg[t] = g[t]
    BY <1>4, <2>3, <2>5, <2>15, <2>16, RequestEnters
  <2>7. /\ gg[KeyBefore] = g[KeyBefore]
        /\ \A k \in 1..MaxLosses : gg[InLost(k)] = g[InLost(k)]
        /\ \A q \in Limiters : gg[InMemory(q)] = g[InMemory(q)]
    BY <2>6, PlacesAre
  <2>8. KeyIs(gg, shared')
    <3> SUFFICES ASSUME NEW m \in Turns
                 PROVE  /\ gg[KeyNow][m] < Window =>
                              m <= shared'.count /\ gg[KeyNow][m] <= Window - shared'.left
                        /\ shared'.count > 0 => gg[KeyBefore][m] >= Window - shared'.left
      BY DEF KeyIs
    <3>1. /\ g[KeyNow][m] < Window => m <= shared'.count /\ g[KeyNow][m] <= Window - shared'.left
          /\ shared'.count > 0 => g[KeyBefore][m] >= Window - shared'.left
      BY <1>3 DEF KeyIs
    <3>2. shared'.left \in 0..Window
      BY <1>3
    <3>3. 0 <= Window - shared'.left
      BY <3>2, RateConstants
    <3>4. n <= shared'.count
      BY <2>3, RateConstants DEF Turns
    <3>5. CASE m = n
      BY <2>6, <2>7, <3>1, <3>3, <3>4, <3>5
    <3>6. CASE m # n
      BY <2>6, <2>7, <3>1, <3>6
    <3> QED BY <3>5, <3>6
  <2>9. EventsAre(gg, events') /\ LostAre(gg, losses')
    BY <1>1, <1>4, <2>7 DEF EventsAre, LostAre
  <2>10. Accounted(gg)'
    BY <2>1, <2>6, <2>8, <2>9 DEF Accounted
  <2>11. RateTypeOK'
    <3>1. allowed' \in [Ages -> Nat]
      BY <2>1, RateTypes, NoEventsAre
    <3> QED BY <1>1, <1>3, <3>1, RateTypes DEF RateTypeOK
  <2> QED BY <1>3, <2>10, <2>11 DEF RateInv
<1>6. CASE ~(shared'.count <= MaxRequests)
  <2>1. allowed' = allowed
    BY <1>1, <1>6
  <2>2. Accounted(g)'
    BY <1>1, <1>3, <1>4, <2>1 DEF Accounted
  <2>3. RateTypeOK'
    BY <1>1, <1>3, <2>1, RateTypes DEF RateTypeOK
  <2> QED BY <1>3, <2>2, <2>3 DEF RateInv
<1> QED BY <1>5, <1>6

-----------------------------------------------------------------------------
\* The count of the key is lost, and with it what it counted.
LEMMA RedisLosesKeyKeeps ==
  ASSUME RateInv, RedisLosesKey
  PROVE  RateInv'
<1>1. /\ losses < MaxLosses /\ losses' = losses + 1 /\ shared' = NoKey
      /\ events' = events /\ retryIn' = retryIn /\ allowed' = allowed
  BY DEF RedisLosesKey
<1>2. PICK g : Accounted(g)
  BY DEF RateInv
<1>3. g \in RequestAges /\ AllowedAre(g, allowed) /\ EventsAre(g, events) /\ LostAre(g, losses)
  BY <1>2 DEF Accounted
<1>4. PICK k \in 1..MaxLosses : k = losses' /\ k = losses + 1
  BY <1>1, RateTypes, RateConstants
<1>5. /\ KeyNow \in CountPlaces /\ InLost(k) \in CountPlaces /\ KeyNow # InLost(k)
      /\ KeyBefore \in CountPlaces /\ InLost(k) # KeyBefore /\ KeyNow # KeyBefore
      /\ \A p \in Limiters : InMemory(p) \in CountPlaces /\ InMemory(p) # InLost(k)
                             /\ InMemory(p) # KeyNow
      /\ \A j \in 1..MaxLosses : InLost(j) \in CountPlaces /\ InLost(j) # KeyNow
                                 /\ (InLost(j) = InLost(k) => j = k)
  BY PlacesAre
<1>6. PICK gg : gg = Swapped(g, KeyNow, InLost(k))
  OBVIOUS
<1>16. KeyNow \in CountPlaces /\ InLost(k) \in CountPlaces /\ KeyNow # InLost(k) /\ g \in RequestAges
  BY <1>3, <1>5
<1>7. /\ gg \in RequestAges /\ gg[KeyNow] = g[InLost(k)] /\ gg[InLost(k)] = g[KeyNow]
      /\ \A a \in Ages : Cardinality(AgedAt(gg, a)) = Cardinality(AgedAt(g, a))
  BY <1>6, <1>16, PlacesSwapped
<1>17. \A s \in CountPlaces : s # KeyNow /\ s # InLost(k) => gg[s] = g[s]
  BY <1>6 DEF Swapped
<1>8. \A n \in Turns : gg[KeyNow][n] = Window
  <2>1. \A n \in Turns : g[InLost(k)][n] = Window
    <3>1. k > losses
      BY <1>4, RateTypes, RateConstants
    <3> QED BY <1>3, <3>1 DEF LostAre
  <2> QED BY <1>7, <2>1
<1>9. NoKey.count = 0 /\ NoKey.left = 0 /\ NoKey \in [count : 0..(MaxRequests + 1), left : 0..Window]
  BY RateConstants DEF NoKey
<1>10. KeyIs(gg, shared')
  <2>1. ~(Window < Window) /\ ~(NoKey.count > 0)
    BY <1>9, RateConstants
  <2> QED BY <1>1, <1>8, <2>1 DEF KeyIs
<1>11. AllowedAre(gg, allowed') /\ EventsAre(gg, events')
  <2>1. \A p \in Limiters : gg[InMemory(p)] = g[InMemory(p)]
    BY <1>5, <1>17
  <2> QED BY <1>1, <1>3, <1>7, <2>1 DEF AllowedAre, EventsAre
<1>12. LostAre(gg, losses')
  <2> SUFFICES ASSUME NEW j \in 1..MaxLosses, NEW n \in Turns, j > losses'
               PROVE  gg[InLost(j)][n] = Window
    BY DEF LostAre
  <2>1. j # k /\ j > losses
    BY <1>4, RateTypes, RateConstants
  <2>2. gg[InLost(j)] = g[InLost(j)]
    BY <1>5, <1>17, <2>1
  <2> QED BY <1>3, <2>1, <2>2 DEF LostAre
<1>13. Accounted(gg)'
  BY <1>7, <1>10, <1>11, <1>12 DEF Accounted
<1>14. RateTypeOK'
  <2>1. losses' \in 0..MaxLosses
    BY <1>1, RateTypes, RateConstants
  <2> QED BY <1>1, <1>9, <2>1, RateTypes DEF RateTypeOK
<1>15. shared'.count = 0 /\ ~(shared'.count > 0)
  BY <1>1, <1>9
<1> QED BY <1>1, <1>13, <1>14, <1>15 DEF RateInv

\* A process starts anew, and what it counted is lost.
LEMMA LimiterEndsKeeps ==
  ASSUME RateInv, NEW p \in Limiters, LimiterEnds(p)
  PROVE  RateInv'
<1>1. /\ losses < MaxLosses /\ losses' = losses + 1 /\ shared' = shared /\ allowed' = allowed
      /\ events' = [events EXCEPT ![p] = NoEvents] /\ retryIn' = [retryIn EXCEPT ![p] = 0]
  BY DEF LimiterEnds
<1>2. PICK g : Accounted(g)
  BY DEF RateInv
<1>3. g \in RequestAges /\ AllowedAre(g, allowed) /\ EventsAre(g, events) /\ LostAre(g, losses)
      /\ KeyIs(g, shared)
  BY <1>2 DEF Accounted
<1>4. PICK k \in 1..MaxLosses : k = losses' /\ k = losses + 1
  BY <1>1, RateTypes, RateConstants
<1>5. /\ InMemory(p) \in CountPlaces /\ InLost(k) \in CountPlaces /\ InMemory(p) # InLost(k)
      /\ KeyBefore \in CountPlaces /\ InLost(k) # KeyBefore /\ InMemory(p) # KeyBefore
      /\ KeyNow \in CountPlaces /\ InLost(k) # KeyNow /\ InMemory(p) # KeyNow
      /\ \A q \in Limiters : InMemory(q) \in CountPlaces /\ InMemory(q) # InLost(k)
                             /\ (q # p => InMemory(q) # InMemory(p))
      /\ \A j \in 1..MaxLosses : InLost(j) \in CountPlaces /\ InLost(j) # InMemory(p)
                                 /\ (InLost(j) = InLost(k) => j = k)
  BY PlacesAre
<1>6. PICK gg : gg = Swapped(g, InMemory(p), InLost(k))
  OBVIOUS
<1>16. InMemory(p) \in CountPlaces /\ InLost(k) \in CountPlaces /\ InMemory(p) # InLost(k) /\ g \in RequestAges
  BY <1>3, <1>5
<1>7. /\ gg \in RequestAges /\ gg[InMemory(p)] = g[InLost(k)] /\ gg[InLost(k)] = g[InMemory(p)]
      /\ \A a \in Ages : Cardinality(AgedAt(gg, a)) = Cardinality(AgedAt(g, a))
  BY <1>6, <1>16, PlacesSwapped
<1>17. \A s \in CountPlaces : s # InMemory(p) /\ s # InLost(k) => gg[s] = g[s]
  BY <1>6 DEF Swapped
<1>8. \A n \in Turns : gg[InMemory(p)][n] = Window
  <2>1. \A n \in Turns : g[InLost(k)][n] = Window
    <3>1. k > losses
      BY <1>4, RateTypes, RateConstants
    <3> QED BY <1>3, <3>1 DEF LostAre
  <2> QED BY <1>7, <2>1
<1>9. KeyIs(gg, shared')
  <2>1. gg[KeyNow] = g[KeyNow] /\ gg[KeyBefore] = g[KeyBefore]
    BY <1>5, <1>17
  <2> QED BY <1>1, <1>3, <2>1 DEF KeyIs
<1>10. AllowedAre(gg, allowed')
  BY <1>1, <1>3, <1>7 DEF AllowedAre
<1>11. EventsAre(gg, events') /\ events' \in [Limiters -> [Ages -> 0..MaxRequests]]
  <2>1. events'[p] = NoEvents /\ (\A q \in Limiters : q # p => events'[q] = events[q])
        /\ events' \in [Limiters -> [Ages -> 0..MaxRequests]]
    BY <1>1, NoEventsAre, RateTypes
  <2>2. \A a \in Ages : TurnsAt(gg[InMemory(p)], a) = {}
    <3>1. \A a \in Ages : a # Window
      BY RateConstants DEF Ages
    <3> QED BY <1>8, <3>1 DEF TurnsAt
  <2>3. \A a \in Ages : events'[p][a] = Cardinality(TurnsAt(gg[InMemory(p)], a))
    BY <2>1, <2>2, NoEventsAre, FS_EmptySet
  <2>4. \A q \in Limiters : q # p => gg[InMemory(q)] = g[InMemory(q)]
    BY <1>5, <1>17
  <2>5. \A q \in Limiters, a \in Ages : q # p =>
           events'[q][a] = Cardinality(TurnsAt(gg[InMemory(q)], a))
    BY <1>3, <2>1, <2>4 DEF EventsAre
  <2> QED BY <2>1, <2>3, <2>5 DEF EventsAre
<1>12. LostAre(gg, losses')
  <2> SUFFICES ASSUME NEW j \in 1..MaxLosses, NEW n \in Turns, j > losses'
               PROVE  gg[InLost(j)][n] = Window
    BY DEF LostAre
  <2>1. j # k /\ j > losses
    BY <1>4, RateTypes, RateConstants
  <2>2. gg[InLost(j)] = g[InLost(j)]
    BY <1>5, <1>17, <2>1
  <2> QED BY <1>3, <2>1, <2>2 DEF LostAre
<1>13. Accounted(gg)'
  BY <1>7, <1>9, <1>10, <1>11, <1>12 DEF Accounted
<1>14. RateTypeOK'
  <2>1. losses' \in 0..MaxLosses /\ retryIn' \in [Limiters -> 0..RetryAfter]
    BY <1>1, RateTypes, RateConstants
  <2> QED BY <1>1, <1>11, <2>1, RateTypes DEF RateTypeOK
<1> QED BY <1>1, <1>13, <1>14, RateTypes DEF RateInv

\* When a window ends, its requests become those of the window before, and the
\* requests of the window before that are too old to count.
LEMMA KeyTurns ==
  ASSUME RateInv, NEW g, Accounted(g), shared.left <= 1
  PROVE  \E f \in RequestAges :
           /\ AllowedAre(f, allowed) /\ EventsAre(f, events) /\ LostAre(f, losses)
           /\ \A n \in Turns : f[KeyNow][n] >= Window - 1
<1>1. g \in RequestAges /\ AllowedAre(g, allowed) /\ EventsAre(g, events) /\ LostAre(g, losses)
      /\ KeyIs(g, shared)
  BY DEF Accounted
<1>2. g \in [CountPlaces -> [Turns -> 0..Window]]
  BY <1>1 DEF RequestAges
<1>3. CASE shared.count = 0
  <2>1. ASSUME NEW n \in Turns PROVE g[KeyNow][n] >= Window - 1
    <3>1. PICK x \in 0..Window : x = g[KeyNow][n]
      BY <1>2, PlacesAre
    <3>2. x < Window => n <= 0
      BY <1>1, <1>3, <3>1 DEF KeyIs
    <3>3. ~(n <= 0)
      BY RateConstants DEF Turns
    <3>4. x >= Window - 1
      BY <3>2, <3>3, RateConstants
    <3> QED BY <3>1, <3>4
  <2> QED BY <1>1, <2>1
<1>4. CASE shared.count # 0
  <2>1. PICK f : f = Swapped(g, KeyNow, KeyBefore)
    OBVIOUS
  <2>2. KeyNow \in CountPlaces /\ KeyBefore \in CountPlaces /\ KeyNow # KeyBefore
    BY PlacesAre
  <2>3. /\ f \in RequestAges /\ f[KeyNow] = g[KeyBefore] /\ f[KeyBefore] = g[KeyNow]
        /\ \A a \in Ages : Cardinality(AgedAt(f, a)) = Cardinality(AgedAt(g, a))
    BY <1>1, <2>1, <2>2, PlacesSwapped
  <2>8. \A s \in CountPlaces : s # KeyNow /\ s # KeyBefore => f[s] = g[s]
    BY <2>1 DEF Swapped
  <2>4. ASSUME NEW n \in Turns PROVE f[KeyNow][n] >= Window - 1
    <3>1. shared.count > 0
      BY <1>4, RateTypes, RateConstants
    <3>2. g[KeyBefore][n] >= Window - shared.left
      BY <1>1, <3>1 DEF KeyIs
    <3>3. PICK x \in 0..Window : x = g[KeyBefore][n]
      BY <1>2, <2>2
    <3>4. PICK l \in 0..Window : l = shared.left
      BY RateTypes
    <3>5. x >= Window - l /\ l <= 1
      BY <3>2, <3>3, <3>4
    <3>6. x >= Window - 1
      BY <3>5, RateConstants
    <3> QED BY <2>3, <3>3, <3>6
  <2>5. AllowedAre(f, allowed)
    BY <1>1, <2>3 DEF AllowedAre
  <2>6. EventsAre(f, events)
    <3>1. \A p \in Limiters : f[InMemory(p)] = g[InMemory(p)]
      BY <2>8, PlacesAre
    <3> QED BY <1>1, <3>1 DEF EventsAre
  <2>7. LostAre(f, losses)
    <3>1. \A k \in 1..MaxLosses : f[InLost(k)] = g[InLost(k)]
      BY <2>8, PlacesAre
    <3> QED BY <1>1, <3>1 DEF LostAre
  <2> QED BY <2>3, <2>4, <2>5, <2>6, <2>7
<1> QED BY <1>3, <1>4

LEMMA TickKeeps ==
  ASSUME RateInv, Tick
  PROVE  RateInv'
<1>1. /\ shared' = IF shared.left <= 1 THEN NoKey ELSE [shared EXCEPT !.left = @ - 1]
      /\ events' = [p \in Limiters |-> Aged(events[p])]
      /\ retryIn' = [p \in Limiters |-> IF retryIn[p] = 0 THEN 0 ELSE retryIn[p] - 1]
      /\ allowed' = Aged(allowed) /\ losses' = losses
  BY DEF Tick
<1>2. PICK g : Accounted(g)
  BY DEF RateInv
<1>3. NoKey.count = 0 /\ NoKey.left = 0 /\ NoKey \in [count : 0..(MaxRequests + 1), left : 0..Window]
  BY RateConstants DEF NoKey
<1>4. allowed \in [Ages -> Nat] /\ allowed' \in [Ages -> Nat]
  BY <1>1, RateTypes, NoEventsAre
<1>5. retryIn' \in [Limiters -> 0..RetryAfter]
  <2>1. \A x \in 0..RetryAfter : (IF x = 0 THEN 0 ELSE x - 1) \in 0..RetryAfter
    BY RateConstants
  <2>2. \A p \in Limiters : retryIn[p] \in 0..RetryAfter
    BY RateTypes
  <2>3. \A p \in Limiters : (IF retryIn[p] = 0 THEN 0 ELSE retryIn[p] - 1) \in 0..RetryAfter
    BY <2>1, <2>2
  <2> QED BY <1>1, <2>3
<1>6. \A p \in Limiters : Aged(events[p]) \in [Ages -> Nat]
  <2>1. \A p \in Limiters : events[p] \in [Ages -> 0..MaxRequests]
    BY RateTypes
  <2>2. \A p \in Limiters : events[p] \in [Ages -> Nat]
    BY <2>1, RateConstants
  <2> QED BY <2>2, NoEventsAre
<1>7. ASSUME NEW f \in RequestAges, AllowedAre(f, allowed), EventsAre(f, events), LostAre(f, losses),
             NEW gg, gg = Older(f), KeyIs(gg, shared'),
             shared' \in [count : 0..(MaxRequests + 1), left : 0..Window],
             shared'.count = 0 => shared' = NoKey, shared'.count > 0 => shared'.left > 0
      PROVE  RateInv'
  <2>1. /\ gg \in RequestAges /\ AllowedAre(gg, Aged(allowed))
        /\ EventsAre(gg, [p \in Limiters |-> Aged(events[p])])
        /\ \A s \in CountPlaces, n \in Turns :
              gg[s][n] = IF f[s][n] = Window THEN Window ELSE f[s][n] + 1
    BY <1>4, <1>7, RequestsAge
  <2>2. LostAre(gg, losses')
    BY <1>1, <1>7, <2>1, PlacesAre DEF LostAre
  <2>3. EventsAre(gg, events') /\ events' \in [Limiters -> [Ages -> Nat]]
    BY <1>1, <1>6, <2>1
  <2>4. events' \in [Limiters -> [Ages -> 0..MaxRequests]]
    BY <2>3, EventsBounded
  <2>5. Accounted(gg)'
    BY <1>1, <1>7, <2>1, <2>2, <2>3 DEF Accounted
  <2>6. RateTypeOK'
    BY <1>1, <1>4, <1>5, <1>7, <2>4, RateTypes DEF RateTypeOK
  <2> QED BY <1>7, <2>5, <2>6 DEF RateInv
<1>8. CASE shared.left <= 1
  <2>1. shared' = NoKey
    BY <1>1, <1>8
  <2>2. PICK f \in RequestAges :
           /\ AllowedAre(f, allowed) /\ EventsAre(f, events) /\ LostAre(f, losses)
           /\ \A n \in Turns : f[KeyNow][n] >= Window - 1
    BY <1>2, <1>8, KeyTurns
  <2>3. PICK gg : gg = Older(f)
    OBVIOUS
  <2>4. /\ gg \in RequestAges /\ AllowedAre(gg, Aged(allowed))
        /\ EventsAre(gg, [p \in Limiters |-> Aged(events[p])])
        /\ \A s \in CountPlaces, n \in Turns :
              gg[s][n] = IF f[s][n] = Window THEN Window ELSE f[s][n] + 1
    BY <1>4, <2>2, <2>3, RequestsAge
  <2>5. ASSUME NEW n \in Turns PROVE gg[KeyNow][n] = Window
    <3>1. PICK x \in 0..Window : x = f[KeyNow][n]
      BY PlacesAre DEF RequestAges
    <3>2. x >= Window - 1
      BY <2>2, <3>1
    <3>3. (IF x = Window THEN Window ELSE x + 1) = Window
      BY <3>2, RateConstants
    <3> QED BY <2>4, <3>1, <3>3, PlacesAre
  <2>6. KeyIs(gg, shared')
    <3>1. ~(Window < Window) /\ ~(NoKey.count > 0)
      BY <1>3, RateConstants
    <3> QED BY <2>1, <2>5, <3>1 DEF KeyIs
  <2>7. shared'.count = 0 /\ ~(shared'.count > 0)
    BY <1>3, <2>1
  <2> QED BY <1>3, <1>7, <2>1, <2>2, <2>3, <2>6, <2>7
<1>9. CASE ~(shared.left <= 1)
  <2>1. PICK l \in 0..Window : l = shared.left /\ l > 1 /\ l - 1 \in 0..Window
    BY <1>9, RateTypes, RateConstants
  <2>2. shared' = [shared EXCEPT !.left = l - 1]
    BY <1>1, <1>9, <2>1
  <2>3. shared' \in [count : 0..(MaxRequests + 1), left : 0..Window]
        /\ shared'.count = shared.count /\ shared'.left = l - 1
    BY <2>1, <2>2, RateTypes
  <2>4. shared.count # 0
    BY <1>3, <2>1, RateTypes
  <2>5. g \in RequestAges /\ AllowedAre(g, allowed) /\ EventsAre(g, events) /\ LostAre(g, losses)
        /\ KeyIs(g, shared)
    BY <1>2 DEF Accounted
  <2>6. PICK gg : gg = Older(g)
    OBVIOUS
  <2>7. /\ gg \in RequestAges /\ AllowedAre(gg, Aged(allowed))
        /\ EventsAre(gg, [p \in Limiters |-> Aged(events[p])])
        /\ \A s \in CountPlaces, n \in Turns :
              gg[s][n] = IF g[s][n] = Window THEN Window ELSE g[s][n] + 1
    BY <1>4, <2>5, <2>6, RequestsAge
  <2>8. KeyIs(gg, shared')
    <3> SUFFICES ASSUME NEW n \in Turns
                 PROVE  /\ gg[KeyNow][n] < Window =>
                              n <= shared'.count /\ gg[KeyNow][n] <= Window - shared'.left
                        /\ shared'.count > 0 => gg[KeyBefore][n] >= Window - shared'.left
      BY DEF KeyIs
    <3>1. PICK x \in 0..Window : x = g[KeyNow][n]
      BY <2>5, PlacesAre DEF RequestAges
    <3>2. PICK y \in 0..Window : y = g[KeyBefore][n]
      BY <2>5, PlacesAre DEF RequestAges
    <3>3. /\ x < Window => n <= shared.count /\ x <= Window - l
          /\ shared.count > 0 => y >= Window - l
      BY <2>1, <2>5, <3>1, <3>2 DEF KeyIs
    <3>4. PICK xx \in Int : xx = gg[KeyNow][n] /\ xx = IF x = Window THEN Window ELSE x + 1
      BY <2>7, <3>1, PlacesAre, RateConstants
    <3>5. PICK yy \in Int : yy = gg[KeyBefore][n] /\ yy = IF y = Window THEN Window ELSE y + 1
      BY <2>7, <3>2, PlacesAre, RateConstants
    <3>6. xx < Window => n <= shared.count /\ xx <= Window - (l - 1)
      BY <2>1, <3>3, <3>4, RateConstants
    <3>7. shared.count > 0 => yy >= Window - (l - 1)
      BY <2>1, <3>3, <3>5, RateConstants
    <3> QED BY <2>3, <3>4, <3>5, <3>6, <3>7
  <2>9. shared'.count # 0 /\ shared'.left > 0
    BY <2>1, <2>3, <2>4, RateConstants
  <2> QED BY <1>7, <2>3, <2>5, <2>6, <2>8, <2>9
<1> QED BY <1>8, <1>9

LEMMA RateStep == RateInv /\ RateNext => RateInv'
<1> SUFFICES ASSUME RateInv, RateNext PROVE RateInv'
  OBVIOUS
<1>1. ASSUME NEW p \in Limiters, AllowShared(p) \/ AllowInside(p) \/ AllowFallback(p) \/ LimiterEnds(p)
      PROVE  RateInv'
  BY <1>1, AllowSharedKeeps, AllowInsideKeeps, AllowFallbackKeeps, LimiterEndsKeeps
<1> QED BY <1>1, RedisLosesKeyKeeps, TickKeeps DEF RateNext

LEMMA RateStutter == RateInv /\ UNCHANGED rateVars => RateInv'
<1> SUFFICES ASSUME RateInv, UNCHANGED rateVars PROVE RateInv'
  OBVIOUS
<1>1. shared' = shared /\ events' = events /\ retryIn' = retryIn /\ allowed' = allowed
      /\ losses' = losses
  BY DEF rateVars
<1>2. PICK g : Accounted(g)
  BY DEF RateInv
<1>3. Accounted(g)'
  BY <1>1, <1>2 DEF Accounted
<1> QED BY <1>1, <1>3 DEF RateInv, RateTypeOK

\* The requests in the window all have a turn in one of the places in use.
LEMMA RateInvHolds == RateInv => RateTypeOK /\ RateBounded
<1> SUFFICES ASSUME RateInv PROVE RateTypeOK /\ RateBounded
  OBVIOUS
<1>1. PICK g : Accounted(g)
  BY DEF RateInv
<1>2. g \in [CountPlaces -> [Turns -> 0..Window]] /\ AllowedAre(g, allowed) /\ LostAre(g, losses)
  BY <1>1 DEF Accounted, RequestAges
<1> DEFINE S == CountPlaces \X Turns
           h == [x \in S |-> g[x[1]][x[2]]]
           InUse == {x \in S : h[x] < Window}
           Slots == PlacesFor(losses) \X Turns
<1>3. h \in [S -> 0..Window]
  BY <1>2
<1>4. \A a \in Ages : allowed[a] = Cardinality({x \in S : h[x] = a})
  <2>1. \A a \in Ages : {x \in S : h[x] = a} = AgedAt(g, a)
    BY DEF AgedAt
  <2> QED BY <1>2, <2>1 DEF AllowedAre
<1>5. ASSUME NEW x \in InUse PROVE x \in Slots
  <2>1. x[1] \in CountPlaces /\ x[2] \in Turns /\ x = <<x[1], x[2]>> /\ g[x[1]][x[2]] < Window
    OBVIOUS
  <2>2. ASSUME NEW k \in 1..MaxLosses, x[1] = InLost(k) PROVE k \in 1..losses
    <3>1. k > losses => g[InLost(k)][x[2]] = Window
      BY <1>2, <2>1 DEF LostAre
    <3>2. ~(Window < Window)
      BY RateConstants
    <3>3. ~(k > losses)
      BY <2>1, <2>2, <3>1, <3>2
    <3> QED BY <3>3, RateTypes, RateConstants
  <2>3. x[1] \in PlacesFor(losses)
    <3>1. x[1] \in PlacesFor(MaxLosses)
      BY <2>1 DEF CountPlaces
    <3>2. CASE x[1] \in {KeyNow, KeyBefore} \union ({"memory"} \X Limiters)
      BY <3>2 DEF PlacesFor
    <3>3. CASE x[1] \in {"lost"} \X (1..MaxLosses)
      <4>1. PICK k \in 1..MaxLosses : x[1] = <<"lost", k>>
        BY <3>3
      <4>2. k \in 1..losses
        BY <2>2, <4>1 DEF InLost
      <4>3. <<"lost", k>> \in {"lost"} \X (1..losses)
        BY <4>2
      <4> QED BY <4>1, <4>3 DEF PlacesFor
    <3> QED BY <3>1, <3>2, <3>3 DEF PlacesFor
  <2> QED BY <2>1, <2>3
<1> HIDE DEF h
<1>6. Total(allowed) = Cardinality(InUse)
  <2>1. IsFiniteSet(S) /\ allowed \in [Ages -> Nat]
    BY TurnsFinite, RateTypes
  <2> HIDE DEF S
  <2> QED BY <1>3, <1>4, <2>1, TotalCounts
<1>7. /\ IsFiniteSet(Slots)
      /\ Cardinality(Slots) = (2 + Cardinality(Limiters) + losses) * MaxRequests
  <2>1. losses \in Nat
    BY RateTypes
  <2>2. /\ IsFiniteSet(PlacesFor(losses)) /\ Cardinality(Limiters) \in Nat
        /\ Cardinality(PlacesFor(losses)) = 2 + Cardinality(Limiters) + losses
    BY <2>1, PlacesFinite
  <2> QED BY <2>2, TurnsFinite, FS_Product
<1>8. Cardinality(InUse) <= Cardinality(Slots)
  BY <1>5, <1>7, FS_Subset
<1>9. RateBounded
  BY <1>6, <1>7, <1>8 DEF RateBounded
<1> QED BY <1>9 DEF RateInv

-----------------------------------------------------------------------------
(* The services together. *)

ServicesInv == LiveInv /\ WatchInv /\ StreamInv /\ OutreachInv /\ AllowanceInv /\ RateInv

LEMMA ServicesStart == ServicesInit => ServicesInv
  BY LiveStart, WatchStart, StreamStart, OutreachStart, AllowanceStart, RateStart
     DEF ServicesInit, ServicesInv

\* What a step of one service leaves alone.
LEMMA OthersStand ==
  ASSUME UNCHANGED others
  PROVE  UNCHANGED outreachVars /\ UNCHANGED allowanceVars /\ UNCHANGED rateVars
  BY DEF others

\* The steps of a behaviour are those of each service, or leave it alone.
LEMMA ServicesSteps ==
  ASSUME [ServicesNext]_servicesVars
  PROVE  /\ LiveNext \/ UNCHANGED liveVars
         /\ WatchNext \/ UNCHANGED watchVars
         /\ StreamNext \/ UNCHANGED streamVars
         /\ OutreachNext \/ UNCHANGED outreachVars
         /\ AllowanceNext \/ UNCHANGED allowanceVars
         /\ RateNext \/ UNCHANGED rateVars
<1>1. CASE LiveNext /\ UNCHANGED <<watchVars, streamVars, others>>
  <2>1. UNCHANGED watchVars /\ UNCHANGED streamVars /\ UNCHANGED others
    BY <1>1
  <2> QED BY <1>1, <2>1, OthersStand
<1>2. CASE WatchNext /\ UNCHANGED <<liveVars, streamVars, others>>
  <2>1. UNCHANGED liveVars /\ UNCHANGED streamVars /\ UNCHANGED others
    BY <1>2
  <2> QED BY <1>2, <2>1, OthersStand
<1>3. CASE StreamNext /\ UNCHANGED <<liveVars, watchVars, others>>
  <2>1. UNCHANGED liveVars /\ UNCHANGED watchVars /\ UNCHANGED others
    BY <1>3
  <2> QED BY <1>3, <2>1, OthersStand
<1>4. CASE OutreachNext /\ UNCHANGED <<liveVars, watchVars, streamVars, allowanceVars, rateVars, part>>
  <2>1. /\ UNCHANGED liveVars /\ UNCHANGED watchVars /\ UNCHANGED streamVars
        /\ UNCHANGED allowanceVars /\ UNCHANGED rateVars
    BY <1>4
  <2> QED BY <1>4, <2>1
<1>5. CASE AllowanceNext /\ UNCHANGED <<liveVars, watchVars, streamVars, outreachVars, rateVars, part>>
  <2>1. /\ UNCHANGED liveVars /\ UNCHANGED watchVars /\ UNCHANGED streamVars
        /\ UNCHANGED outreachVars /\ UNCHANGED rateVars
    BY <1>5
  <2> QED BY <1>5, <2>1
<1>6. CASE RateNext /\ UNCHANGED <<liveVars, watchVars, streamVars, outreachVars, allowanceVars, part>>
  <2>1. /\ UNCHANGED liveVars /\ UNCHANGED watchVars /\ UNCHANGED streamVars
        /\ UNCHANGED outreachVars /\ UNCHANGED allowanceVars
    BY <1>6
  <2> QED BY <1>6, <2>1
<1>7. CASE UNCHANGED servicesVars
  <2>1. /\ UNCHANGED liveVars /\ UNCHANGED watchVars /\ UNCHANGED streamVars /\ UNCHANGED others
    BY <1>7 DEF servicesVars
  <2> QED BY <2>1, OthersStand
<1>8. ServicesNext =>
        \/ LiveNext /\ UNCHANGED <<watchVars, streamVars, others>>
        \/ WatchNext /\ UNCHANGED <<liveVars, streamVars, others>>
        \/ StreamNext /\ UNCHANGED <<liveVars, watchVars, others>>
        \/ OutreachNext /\ UNCHANGED <<liveVars, watchVars, streamVars, allowanceVars, rateVars, part>>
        \/ AllowanceNext /\ UNCHANGED <<liveVars, watchVars, streamVars, outreachVars, rateVars, part>>
        \/ RateNext /\ UNCHANGED <<liveVars, watchVars, streamVars, outreachVars, allowanceVars, part>>
  BY DEF ServicesNext
<1> QED BY <1>1, <1>2, <1>3, <1>4, <1>5, <1>6, <1>7, <1>8

LEMMA ServicesStep ==
  ASSUME ServicesInv, [ServicesNext]_servicesVars
  PROVE  ServicesInv'
<1>1. LiveInv'
  BY ServicesSteps, LiveStep, LiveStutter DEF ServicesInv
<1>2. WatchInv'
  BY ServicesSteps, WatchStep, WatchStutter DEF ServicesInv
<1>3. StreamInv'
  BY ServicesSteps, StreamStep, StreamStutter DEF ServicesInv
<1>4. OutreachInv'
  BY ServicesSteps, OutreachStep, OutreachStutter DEF ServicesInv
<1>5. AllowanceInv'
  BY ServicesSteps, AllowanceStep, AllowanceStutter DEF ServicesInv
<1>6. RateInv'
  BY ServicesSteps, RateStep, RateStutter DEF ServicesInv
<1> QED BY <1>1, <1>2, <1>3, <1>4, <1>5, <1>6 DEF ServicesInv

\* The inductive invariant of all the services.
THEOREM ServicesInvariance == ServicesSpec => []ServicesInv
<1>1. ServicesInv /\ [ServicesNext]_servicesVars => ServicesInv'
  BY ServicesStep
<1> QED BY <1>1, ServicesStart, PTL DEF ServicesSpec

\* The rows of every service have their types, for any number of requests,
\* pupils, sessions, leads, invitations and processes.
THEOREM ServicesTypeCorrect == ServicesSpec => []ServicesTypeOK
<1>1. ServicesInv => ServicesTypeOK
  BY LiveInvHolds, WatchInvHolds, StreamInvHolds, OutreachInvHolds, RateInvHolds
     DEF ServicesInv, AllowanceInv, ServicesTypeOK
<1> QED BY <1>1, ServicesInvariance, PTL

\* Tallies, uses, mails, sessions, free places and requests are counted right and
\* stay within their limits, for any limits and any number of those who count.
THEOREM CountsCorrect == ServicesSpec => []CountsKept
<1>1. ServicesInv => CountsKept
  BY LiveInvHolds, WatchInvHolds, StreamInvHolds, OutreachInvHolds, RateInvHolds
     DEF ServicesInv, AllowanceInv, CountsKept, CountsStand, LimitsKept
<1> QED BY <1>1, ServicesInvariance, PTL

\* A message of the class that a pupil's page has passed over is never posted later.
THEOREM MessagesSeenCorrect == ServicesSpec => MessagesSeen
<1>1. ServicesInv /\ [ServicesNext]_servicesVars
      => [Missed(board') \intersect board.posted \subseteq Missed(board)]_liveVars
  BY ServicesSteps, MessagesSeenStep DEF ServicesInv
<1> QED BY <1>1, ServicesInvariance, PTL DEF ServicesSpec, MessagesSeen

\* What is over stays over: sessions that ended, videos that are ready, pupils
\* removed from a class, and leads that have answered.
THEOREM OverIsOverCorrect == ServicesSpec => OverIsOver
<1>1. ServicesInv /\ [ServicesNext]_servicesVars
      => [\A s \in Sessions : sessions[s] = "ended" => sessions'[s] = "ended"]_watchVars
  BY ServicesSteps, EndedForGoodStep DEF ServicesInv, StayEnded
<1>2. ServicesInv /\ [ServicesNext]_servicesVars
      => [video.ready /\ ~video'.ready => bodies > 1]_streamVars
  BY ServicesSteps, ReadyStaysStep DEF ServicesInv
<1>3. ServicesInv /\ [ServicesNext]_servicesVars
      => [/\ \A w \in Workers : (visit'[w].admitted /\ ~visit[w].admitted) =>
              \A s \in visit'[w].pupil : <<process[w], s>> \notin out
          /\ \A s \in Roster' \ Roster :
              \/ \E p \in Processes : room'[p].place[s] = "admitted" /\ <<p, s>> \notin out
              \/ \E w \in Workers : visit[w].admitted /\ s \in visit[w].pupil]_liveVars
  BY ServicesSteps, RemovedStayOutStep DEF ServicesInv, ServesAdmitted, ShowsAdmitted
<1>4. ServicesInv /\ [ServicesNext]_servicesVars
      => [\A m \in Mails :
            (delivered'[m] > delivered[m] /\ m[1] \in stopped /\ "overwrite" \notin mishaps)
            => \E c \in Calls : calls[c].lead[m[1]] \notin {"none", "replied", "suppressed"}]_outreachVars
  BY ServicesSteps, RepliesHoldStep DEF ServicesInv, MailsAnswered
<1> QED BY <1>1, <1>2, <1>3, <1>4, ServicesInvariance, PTL
        DEF ServicesSpec, OverIsOver, EndedForGood, ReadyStays, RemovedStayOut, RepliesHold
=============================================================================
