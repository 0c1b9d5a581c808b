--------------------------- MODULE ProductEvents ---------------------------
(***************************************************************************)
(* The product-event pipeline: app/services/product_events.py and the loop *)
(* of scripts/run_product_event_pipeline.py.  A business transaction adds  *)
(* outbox rows.  Each worker locks a batch of due rows, adds them to a     *)
(* Redis stream and commits; then it claims and reads entries of the       *)
(* stream, inserts them into ClickHouse and acknowledges them.             *)
(***************************************************************************)
EXTENDS Integers, Sequences, FiniteSets

CONSTANTS
    Pipelines,  \* product-event-worker processes
    Events,     \* ids of outbox rows
    Batch,      \* product_event_batch_size
    MaxLength,  \* product_event_stream_max_length
    MaxFaults   \* bound: crashes, failed calls and lost answers

ASSUME ProductEventsAssumption ==
    /\ Events \subseteq Nat \ {0}
    /\ Batch \in Nat \ {0}
    /\ MaxLength \in Nat \ {0}
    /\ MaxFaults \in Nat

VARIABLES
    row,        \* product_event_outbox: published_at of each event's row
    waiting,    \* rows whose next_attempt_at has not come
    log,        \* every entry ever added to the stream, by its event
    trimmed,    \* the stream has dropped its entries up to here
    given,      \* last-delivered-id of the consumer group
    pending,    \* entries given to a consumer and not acknowledged
    idle,       \* pending entries that were given 60 s ago
    table,      \* events in ClickHouse; one row per event_id
    worker,     \* what each worker is doing
    faults      \* how many faults there have been

vars == <<row, waiting, log, trimmed, given, pending, idle, table, worker, faults>>

-----------------------------------------------------------------------------
Phases == {"select", "publish", "claim", "read", "insert", "ack"}

\* batch: the rows it has locked; added: those the stream took; failed: the
\* next one was refused; hand: the entries it was given.
Worker == [phase : Phases, batch : SUBSET Events, added : SUBSET Events,
           failed : BOOLEAN, hand : SUBSET Nat]

At(phase) == [phase |-> phase, batch |-> {}, added |-> {}, failed |-> FALSE, hand |-> {}]

Go(w, phase) == worker' = [worker EXCEPT ![w] = At(phase)]

Hold(w, phase, entries) ==
    worker' = [worker EXCEPT ![w] = [At(phase) EXCEPT !.hand = entries]]

Positions(e) == {p \in 1..Len(log) : log[p] = e}

EventsAt(P) == {log[p] : p \in P}

Lowest(n, S) == {x \in S : Cardinality({y \in S : y < x}) < n}

LockedRows == UNION {worker[w].batch : w \in Pipelines}

Fault == faults < MaxFaults /\ faults' = faults + 1

redis == <<log, trimmed, given, pending, idle>>
outbox == <<row, waiting>>

Init ==
    /\ row = [e \in Events |-> "none"]
    /\ waiting = {}
    /\ log = <<>>
    /\ trimmed = 0 /\ given = 0
    /\ pending = {} /\ idle = {}
    /\ table = {}
    /\ worker = [w \in Pipelines |-> At("select")]
    /\ faults = 0

-----------------------------------------------------------------------------
\* emit_product_event in a business transaction that commits.
Emit(e) ==
    /\ row[e] = "none"
    /\ row' = [row EXCEPT ![e] = "pending"]
    /\ UNCHANGED <<waiting, redis, table, worker, faults>>

(* relay_outbox_batch *)

Due == {e \in Events : row[e] = "pending" /\ e \notin waiting}

\* FOR UPDATE SKIP LOCKED; without a row there is nothing to publish.
Select(w) ==
    LET batch == Lowest(Batch, Due \ LockedRows) IN
    /\ worker[w].phase = "select"
    /\ worker' = [worker EXCEPT ![w] =
                    [At(IF batch = {} THEN "claim" ELSE "publish") EXCEPT !.batch = batch]]
    /\ UNCHANGED <<outbox, redis, table, faults>>

Ready(w) == worker[w].phase = "publish" /\ worker[w].batch # worker[w].added
                /\ ~worker[w].failed

\* The next event of the batch, by id.
Upcoming(w) ==
    LET rest == worker[w].batch \ worker[w].added IN
    {e \in rest : \A f \in rest : e <= f}

\* xadd with an approximate maxlen: the stream keeps at least MaxLength entries.
Xadd(e) ==
    /\ log' = Append(log, e)
    /\ trimmed' \in {trimmed} \union {t \in trimmed..Len(log) : t + MaxLength <= Len(log) + 1}
    /\ UNCHANGED <<given, pending, idle>>

Add(w) ==
    /\ Ready(w)
    /\ \E e \in Upcoming(w) :
         /\ Xadd(e)
         /\ worker' = [worker EXCEPT ![w].added = @ \union {e}]
    /\ UNCHANGED <<outbox, table, faults>>

\* The call fails before or after the entry was added.
AddFails(w) ==
    /\ Ready(w) /\ Fault
    /\ \/ \E e \in Upcoming(w) : Xadd(e)
       \/ UNCHANGED redis
    /\ worker' = [worker EXCEPT ![w].failed = TRUE]
    /\ UNCHANGED <<outbox, table>>

\* Mutant of Publish: the whole batch is marked as published.
PublishAll(w) ==
    /\ worker[w].phase = "publish" /\ ~Ready(w)
    /\ row' = [e \in Events |-> IF e \in worker[w].batch THEN "published" ELSE row[e]]
    /\ waiting' = waiting
    /\ Go(w, "claim")
    /\ UNCHANGED <<redis, table, faults>>

Publish(w) ==
    /\ worker[w].phase = "publish" /\ ~Ready(w)
    /\ row' = [e \in Events |-> IF e \in worker[w].added THEN "published" ELSE row[e]]
    /\ waiting' = waiting \union (IF worker[w].failed THEN Upcoming(w) ELSE {})
    /\ Go(w, "claim")
    /\ UNCHANGED <<redis, table, faults>>

\* The select or the commit fails; the transaction is rolled back.
RelayFails(w) ==
    /\ worker[w].phase \in {"select", "publish"} /\ Fault
    /\ Go(w, "claim")
    /\ UNCHANGED <<outbox, redis, table>>

-----------------------------------------------------------------------------
(* consume_product_event_batch *)

\* Mutant of Xautoclaim: entries that are gone stay idle.
XautoclaimKeepsIdle ==
    /\ pending' = pending \ (idle \ {p \in idle : p > trimmed})
    /\ idle' = idle \ Lowest(Batch, {p \in idle : p > trimmed})
    /\ UNCHANGED <<log, trimmed, given>>

Claimable == {p \in idle : p > trimmed}

\* xautoclaim: entries that the stream dropped leave the pending list.
Xautoclaim ==
    /\ pending' = pending \ (idle \ Claimable)
    /\ idle' = Claimable \ Lowest(Batch, Claimable)
    /\ UNCHANGED <<log, trimmed, given>>

\* Mutant of Claim: entries of a consumer that died are not claimed.
ClaimNone(w) ==
    /\ worker[w].phase = "claim"
    /\ Go(w, "read")
    /\ UNCHANGED <<outbox, redis, table, faults>>

Claim(w) ==
    /\ worker[w].phase = "claim"
    /\ Xautoclaim
    /\ Hold(w, "read", Lowest(Batch, Claimable))
    /\ UNCHANGED <<outbox, table, faults>>

\* A ResponseError of xautoclaim is ignored.
ClaimRefused(w) ==
    /\ worker[w].phase = "claim" /\ Fault
    /\ Go(w, "read")
    /\ UNCHANGED <<outbox, redis, table>>

From == IF given < trimmed THEN trimmed ELSE given

Upto(w) ==
    LET to == From + Batch - Cardinality(worker[w].hand) IN
    IF to < Len(log) THEN to ELSE Len(log)

\* xreadgroup ">": the entries after given that the stream still has, as far
\* as the batch has room.
NewEntries(w) == From + 1..Upto(w)

Xreadgroup(w) ==
    /\ pending' = pending \union NewEntries(w)
    /\ given' = IF NewEntries(w) = {} THEN given ELSE Upto(w)
    /\ UNCHANGED <<log, trimmed, idle>>

Read(w) ==
    LET hand == worker[w].hand \union NewEntries(w) IN
    /\ worker[w].phase = "read"
    /\ Xreadgroup(w)
    /\ Hold(w, IF hand = {} THEN "select" ELSE "insert", hand)
    /\ UNCHANGED <<outbox, table, faults>>

\* Mutant of Insert: the entries are acknowledged before they are inserted.
InsertAcks(w) ==
    /\ worker[w].phase = "insert"
    /\ pending' = pending \ worker[w].hand /\ idle' = idle \ worker[w].hand
    /\ Hold(w, "ack", worker[w].hand)
    /\ UNCHANGED <<outbox, log, trimmed, given, table, faults>>

\* One row per event_id (ReplacingMergeTree).
Insert(w) ==
    /\ worker[w].phase = "insert"
    /\ table' = table \union EventsAt(worker[w].hand)
    /\ Hold(w, "ack", worker[w].hand)
    /\ UNCHANGED <<outbox, redis, faults>>

Ack(w) ==
    /\ worker[w].phase = "ack"
    /\ pending' = pending \ worker[w].hand
    /\ idle' = idle \ worker[w].hand
    /\ Go(w, "select")
    /\ UNCHANGED <<outbox, log, trimmed, given, table, faults>>

\* A call fails before or after it took effect; the batch is given up.
ConsumeFails(w) ==
    /\ worker[w].phase \in {"claim", "read", "insert", "ack"} /\ Fault
    /\ \/ UNCHANGED <<redis, table>>
       \/ worker[w].phase = "claim" /\ Xautoclaim /\ UNCHANGED table
       \/ worker[w].phase = "read" /\ Xreadgroup(w) /\ UNCHANGED table
       \/ /\ worker[w].phase = "insert"
          /\ table' = table \union EventsAt(worker[w].hand)
          /\ UNCHANGED redis
    /\ Go(w, "select")
    /\ UNCHANGED outbox

-----------------------------------------------------------------------------
\* The process dies and is started again.
Crash(w) ==
    /\ worker[w].phase # "select" /\ Fault
    /\ Go(w, "select")
    /\ UNCHANGED <<outbox, redis, table>>

\* next_attempt_at comes, or a minute goes by.
Retry ==
    /\ waiting # {}
    /\ waiting' = {}
    /\ UNCHANGED <<row, redis, table, worker, faults>>

Minute ==
    /\ idle # pending
    /\ idle' = pending
    /\ UNCHANGED <<outbox, log, trimmed, given, pending, table, worker, faults>>

Step(w) ==
    \/ Select(w) \/ Add(w) \/ Publish(w)
    \/ Claim(w) \/ Read(w) \/ Insert(w) \/ Ack(w)

Fails(w) ==
    \/ AddFails(w) \/ RelayFails(w)
    \/ ClaimRefused(w) \/ ConsumeFails(w) \/ Crash(w)

Next ==
    \/ \E e \in Events : Emit(e)
    \/ \E w \in Pipelines : Step(w) \/ Fails(w)
    \/ Retry \/ Minute

Spec == Init /\ [][Next]_vars

\* The loop of each worker goes on, and time passes.
FairSpec ==
    Spec /\ (\A w \in Pipelines : WF_vars(Step(w))) /\ WF_vars(Retry) /\ WF_vars(Minute)

-----------------------------------------------------------------------------
(* Properties. *)

TypeOK ==
    /\ row \in [Events -> {"none", "pending", "published"}]
    /\ waiting \subseteq Events
    /\ log \in Seq(Events)
    /\ trimmed \in 0..Len(log) /\ given \in 0..Len(log)
    /\ pending \subseteq 1..given /\ idle \subseteq pending
    /\ table \subseteq Events
    /\ worker \in [Pipelines -> Worker]
    /\ faults \in 0..MaxFaults

\* An entry that a consumer will still be given, or given again.
Reachable(e) ==
    \E p \in Positions(e) : p > trimmed /\ (p > given \/ p \in pending)

\* app/models/entities.py:899 "Durable product event": once published_at is
\* stored, the event is in the table or a consumer will still get it, unless
\* the stream's maximal length dropped its entries.
OnlyTrimmingLoses ==
    \A e \in Events : row[e] = "published" =>
        \/ e \in table
        \/ Reachable(e)
        \/ \E p \in Positions(e) : p <= trimmed

\* deploy/README.md:27 "acknowledges them only after ClickHouse accepts the
\* batch": an entry leaves the pending list when its event is in the table,
\* or when the stream has dropped it.
AckedIsAccepted ==
    [][\A p \in pending \ pending' : p <= trimmed \/ log[p] \in table]_vars

Held(e) == \E w \in Pipelines : e \in EventsAt(worker[w].hand)

Lost(e) == row[e] = "published" /\ e \notin table /\ ~Reachable(e) /\ ~Held(e)

Fate(e) ==
    IF row[e] = "none" THEN "none"
    ELSE IF e \in table THEN "delivered"
    ELSE IF Lost(e) THEN "lost" ELSE "recorded"

Delivery == INSTANCE EventDelivery WITH
    fate <- [e \in Events |-> Fate(e)],
    overflow <- trimmed > 0

\* The pipeline delivers every recorded event that the stream does not drop.
Delivers == Delivery!Spec
=============================================================================
