--------------------------- MODULE DesktopSession ---------------------------
(***************************************************************************)
(* The Windows desktop sessions of one issued assessment:                  *)
(* app/api/routes/desktop_sessions.py, desktop_session_lifecycle.py and    *)
(* the calls of desktop_session_broker.py to the external session broker.  *)
(* Handlers commit column by column from the snapshot they loaded, as in   *)
(* IssuedAssessment, and call the broker between their read and commit.    *)
(***************************************************************************)
EXTENDS Integers, Sequences, FiniteSets

CONSTANTS
    Workers,      \* threads that serve requests about this issue
    MaxSessions,  \* bound: rows of desktop_app_sessions
    MaxEvents,    \* bound: broker events on their way
    NoRow         \* a row the handler did not load

ASSUME DesktopAssumption ==
    /\ MaxSessions \in Nat \ {0}
    /\ MaxEvents \in Nat

VARIABLES
    open,      \* the candidate may still use the issued assessment
    rows,      \* committed desktop_app_sessions rows, oldest first
    lapsed,    \* rows past lease_expires_at
    provider,  \* the broker's Windows session for each row (external)
    events,    \* broker events on their way to /broker/events (external)
    req        \* what each worker is doing

vars == <<open, rows, lapsed, provider, events, req>>

-----------------------------------------------------------------------------
TERMINAL_DESKTOP_SESSION_STATES == {"completed", "terminated", "expired", "failed"}

SessionStatus == {"provisioning", "active", "disconnected", "finalizing",
                  "finalize_pending"} \union TERMINAL_DESKTOP_SESSION_STATES

\* key: the row holds active_key = "issue:<id>", which is UNIQUE.
\* psid: provider_session_id is known.
Row == [status : SessionStatus, key : BOOLEAN, psid : BOOLEAN]

Ids == 1..MaxSessions

Ops == {"idle", "start", "submit", "revoke", "reconcile", "heartbeat", "event"}

\* at: how far the handler got; id: the row it works on; snap: the rows it
\* loaded; out: what the broker answered for each row.
Request == [op : Ops, at : {"read", "calling", "answered"}, id : Nat,
            snap : [Ids -> Row \union {NoRow}],
            out : [Ids -> SessionStatus \union {"none", "error"}]]

Load(S) == [i \in Ids |-> IF i \in S THEN rows[i] ELSE NoRow]
NoAnswer == [i \in Ids |-> "none"]
Idle == [op |-> "idle", at |-> "read", id |-> 0, snap |-> Load({}), out |-> NoAnswer]

Written(c, old, new) == IF new = old THEN c ELSE new

IsTerminal(row) == row.status \in TERMINAL_DESKTOP_SESSION_STATES

\* The rows finalize and _candidate_session select.
Unfinished == {i \in 1..Len(rows) : ~IsTerminal(rows[i])}

Begin(w, op, id, S) ==
    /\ req[w].op = "idle"
    /\ req' = [req EXCEPT ![w] = [op |-> op, at |-> "read", id |-> id,
                                  snap |-> Load(S), out |-> NoAnswer]]

\* The rows a handler has loaded.
Loaded(w) == {i \in Ids : req[w].snap[i] # NoRow}

Finish(w) == req' = [req EXCEPT ![w] = Idle]

Serving(w, op, at) == req[w].op = op /\ req[w].at = at

Init ==
    /\ open = TRUE
    /\ rows = <<>>
    /\ lapsed = {}
    /\ provider = [i \in Ids |-> "none"]
    /\ events = {}
    /\ req = [w \in Workers |-> Idle]

-----------------------------------------------------------------------------
(* start_issued_desktop_session *)

\* A session that is not terminal is returned instead of a new one.
StartRead(w) ==
    /\ open
    /\ Unfinished = {}
    /\ Begin(w, "start", 0, {})
    /\ UNCHANGED <<open, rows, lapsed, provider, events>>

\* Mutant of StartInsert: active_key is not unique.
StartInsertAnyKey(w) ==
    /\ Serving(w, "start", "read")
    /\ Len(rows) < MaxSessions
    /\ rows' = Append(rows, [status |-> "provisioning", key |-> TRUE, psid |-> FALSE])
    /\ req' = [req EXCEPT ![w].at = "calling", ![w].id = Len(rows) + 1]
    /\ UNCHANGED <<open, lapsed, provider, events>>

StartInsert(w) ==
    /\ Serving(w, "start", "read")
    /\ Len(rows) < MaxSessions
    /\ \A i \in 1..Len(rows) : ~rows[i].key
    /\ rows' = Append(rows, [status |-> "provisioning", key |-> TRUE, psid |-> FALSE])
    /\ req' = [req EXCEPT ![w].at = "calling", ![w].id = Len(rows) + 1]
    /\ UNCHANGED <<open, lapsed, provider, events>>

\* IntegrityError: the row that holds the key is returned as it is.
StartRefused(w) ==
    /\ Serving(w, "start", "read")
    /\ \E i \in 1..Len(rows) : rows[i].key
    /\ Finish(w)
    /\ UNCHANGED <<open, rows, lapsed, provider, events>>

\* POST /v1/sessions: granted, refused, or granted with the answer lost.
StartCall(w) ==
    LET i == req[w].id IN
    /\ Serving(w, "start", "calling")
    /\ \E granted, answered \in BOOLEAN :
         /\ provider' = [provider EXCEPT ![i] = IF granted THEN "running" ELSE @]
         /\ req' = [req EXCEPT ![w].at = "answered",
                      ![w].out[i] = IF granted /\ answered THEN "active" ELSE "error"]
    /\ UNCHANGED <<open, rows, lapsed, events>>

\* The commit after the broker's answer; the row was loaded as provisioning.
StartReply(w) ==
    LET i == req[w].id IN
    /\ Serving(w, "start", "answered")
    /\ rows' = [rows EXCEPT ![i] =
         IF req[w].out[i] = "active"
         THEN [@ EXCEPT !.status = "active", !.psid = TRUE]
         ELSE [@ EXCEPT !.status = "failed", !.key = FALSE]]
    /\ Finish(w)
    /\ UNCHANGED <<open, lapsed, provider, events>>

-----------------------------------------------------------------------------
(* finalize_desktop_sessions_for_issue and its three callers *)

\* issued_candidate_submit (exams.py) with a usable session of this issue.
SubmitRead(w, i) ==
    /\ open
    /\ rows[i].status \notin {"failed", "terminated", "expired"}
    /\ rows[i].psid
    /\ Begin(w, "submit", 0, Unfinished)
    /\ UNCHANGED <<open, rows, lapsed, provider, events>>

\* revoke_issued_assessment_invitation commits the revocation first.
Revoke(w) ==
    /\ open
    /\ open' = FALSE
    /\ Begin(w, "revoke", 0, Unfinished)
    /\ UNCHANGED <<rows, lapsed, provider, events>>

\* Mutant of NeedsRecovery: the lease is not looked at.
NeedsRecoveryPending(i) == rows[i].status = "finalize_pending"

\* The rows reconcile_desktop_sessions selects.
NeedsRecovery(i) ==
    \/ rows[i].status = "finalize_pending"
    \/ rows[i].status \in {"provisioning", "active", "disconnected"} /\ i \in lapsed

ReconcileRead(w) ==
    /\ \E i \in 1..Len(rows) : NeedsRecovery(i)
    /\ Begin(w, "reconcile", 0, Unfinished)
    /\ UNCHANGED <<open, rows, lapsed, provider, events>>

Finalizing(w) == req[w].op \in {"submit", "revoke", "reconcile"}

\* broker.finalize for each unfinished row: it fails without a provider id;
\* otherwise the broker ends the session and answers, or the call fails with
\* the session ended or not.
FinalizeCall(w, done, lost) ==
    LET known == {i \in Loaded(w) : req[w].snap[i].psid} IN
    /\ Finalizing(w) /\ req[w].at = "read"
    /\ done \subseteq known
    /\ lost \subseteq known \ done
    /\ provider' = [i \in Ids |-> IF i \in done \union lost THEN "ended" ELSE provider[i]]
    /\ req' = [req EXCEPT ![w].at = "answered",
                 ![w].out = [i \in Ids |->
                    IF i \in done THEN "completed"
                    ELSE IF i \in Loaded(w) THEN "error" ELSE "none"]]
    /\ UNCHANGED <<open, rows, lapsed, events>>

\* Mutant of FinalStatus: a failed call counts as completed.
FinalStatusAlways(answer) == IF answer = "error" THEN "completed" ELSE "completed"

\* The status a finalized row gets: an error leaves it to the reconciler.
FinalStatus(answer) == IF answer = "error" THEN "finalize_pending" ELSE "completed"

FinalizeCommit(w) ==
    LET r == req[w] IN
    /\ Finalizing(w) /\ r.at = "answered"
    /\ rows' = [i \in 1..Len(rows) |->
         IF i \notin Loaded(w) THEN rows[i]
         ELSE [rows[i] EXCEPT
                 !.status = Written(@, r.snap[i].status, FinalStatus(r.out[i])),
                 !.key = Written(@, r.snap[i].key, FALSE)]]
    /\ open' = (open /\ r.op # "submit")
    /\ Finish(w)
    /\ UNCHANGED <<lapsed, provider, events>>

-----------------------------------------------------------------------------
(* heartbeat_issued_desktop_session *)

\* The newest row that is not terminal.
HeartbeatRead(w) ==
    /\ open
    /\ \E i \in Unfinished :
         /\ \A j \in Unfinished : j <= i
         /\ rows[i].status \in {"active", "disconnected"}
         /\ Begin(w, "heartbeat", i, {i})
    /\ UNCHANGED <<open, rows, lapsed, provider, events>>

\* The lease is over: the row expires and the broker is not called.
HeartbeatExpires(w) ==
    LET i == req[w].id IN
    /\ Serving(w, "heartbeat", "read")
    /\ i \in lapsed
    /\ rows' = [rows EXCEPT ![i].status = "expired",
                            ![i].key = Written(@, req[w].snap[i].key, FALSE)]
    /\ Finish(w)
    /\ UNCHANGED <<open, lapsed, provider, events>>

\* The broker reports what it knows of the session, or the call fails.
HeartbeatCall(w) ==
    LET i == req[w].id IN
    /\ Serving(w, "heartbeat", "read")
    /\ i \notin lapsed
    /\ req[w].snap[i].psid
    /\ \E a \in (IF provider[i] = "running" THEN {"active", "disconnected"}
                ELSE {"terminated"}) \union {"error"} :
         req' = [req EXCEPT ![w].at = "answered", ![w].out[i] = a]
    /\ UNCHANGED <<open, rows, lapsed, provider, events>>

\* Mutant of HeartbeatCommit: a failed call is stored as a status.
HeartbeatCommitRaw(w) ==
    LET i == req[w].id IN
    /\ Serving(w, "heartbeat", "answered")
    /\ rows' = [rows EXCEPT ![i].status =
                  Written(@, req[w].snap[i].status, req[w].out[i])]
    /\ Finish(w)
    /\ UNCHANGED <<open, lapsed, provider, events>>

\* Whatever status the broker reported is stored; the key is not touched.
HeartbeatCommit(w) ==
    LET i == req[w].id  a == req[w].out[req[w].id] IN
    /\ Serving(w, "heartbeat", "answered")
    /\ rows' = [rows EXCEPT ![i].status =
                  IF a = "error" THEN @ ELSE Written(@, req[w].snap[i].status, a)]
    /\ Finish(w)
    /\ UNCHANGED <<open, lapsed, provider, events>>

-----------------------------------------------------------------------------
(* receive_broker_session_event *)

EventRead(w, e) ==
    /\ e \in events
    /\ events' = events \ {e}
    /\ req[w].op = "idle"
    /\ req' = [req EXCEPT ![w] =
                 [op |-> "event", at |-> "answered", id |-> e.id,
                  snap |-> Load({e.id}),
                  out |-> [NoAnswer EXCEPT ![e.id] = e.status]]]
    /\ UNCHANGED <<open, rows, lapsed, provider>>

EventCommit(w) ==
    LET r == req[w]  i == req[w].id IN
    /\ Serving(w, "event", "answered")
    /\ rows' = [rows EXCEPT ![i] =
         [status |-> Written(@.status, r.snap[i].status, r.out[i]),
          psid |-> TRUE,
          key |-> IF r.out[i] \in TERMINAL_DESKTOP_SESSION_STATES
                  THEN Written(@.key, r.snap[i].key, FALSE) ELSE @.key]]
    /\ Finish(w)
    /\ UNCHANGED <<open, lapsed, provider, events>>

-----------------------------------------------------------------------------
(* The environment. *)

\* A worker dies or its request times out before its commit; a broker event
\* that was not answered is sent again.
Crash(w) ==
    /\ req[w].op # "idle"
    /\ events' = IF req[w].op = "event"
                 THEN events \union {[id |-> req[w].id, status |-> req[w].out[req[w].id]]}
                 ELSE events
    /\ Finish(w)
    /\ UNCHANGED <<open, rows, lapsed, provider>>

LeaseEnds(i) ==
    /\ i \notin lapsed
    /\ lapsed' = lapsed \union {i}
    /\ UNCHANGED <<open, rows, provider, events, req>>

\* access_expires_at passes: nothing is finalized by that.
AccessExpires ==
    /\ open
    /\ open' = FALSE
    /\ UNCHANGED <<rows, lapsed, provider, events, req>>

\* The candidate drops or resumes the connection.
BrokerReports(i, s) ==
    /\ provider[i] = "running"
    /\ Cardinality(events) < MaxEvents
    /\ events' = events \union {[id |-> i, status |-> s]}
    /\ UNCHANGED <<open, rows, lapsed, provider, req>>

\* The candidate signs out: artifacts are saved, then the session is gone.
\* The two events may arrive in either order.
BrokerEnds(i) ==
    /\ provider[i] = "running"
    /\ Cardinality(events) + 2 <= MaxEvents
    /\ provider' = [provider EXCEPT ![i] = "ended"]
    /\ events' = events \union {[id |-> i, status |-> "finalizing"],
                                [id |-> i, status |-> "completed"]}
    /\ UNCHANGED <<open, rows, lapsed, req>>

Handler(w) ==
    \/ StartRead(w) \/ StartInsert(w) \/ StartRefused(w) \/ StartCall(w) \/ StartReply(w)
    \/ \E i \in 1..Len(rows) : SubmitRead(w, i)
    \/ Revoke(w) \/ ReconcileRead(w)
    \/ \E done, lost \in SUBSET Ids : FinalizeCall(w, done, lost)
    \/ FinalizeCommit(w)
    \/ HeartbeatRead(w) \/ HeartbeatExpires(w) \/ HeartbeatCall(w) \/ HeartbeatCommit(w)
    \/ \E e \in events : EventRead(w, e)
    \/ EventCommit(w)

Next ==
    \/ \E w \in Workers : Handler(w) \/ Crash(w)
    \/ \E i \in 1..Len(rows) :
         \/ LeaseEnds(i) \/ BrokerEnds(i)
         \/ \E s \in {"active", "disconnected"} : BrokerReports(i, s)
    \/ AccessExpires

Spec == Init /\ [][Next]_vars

\* The broker answers "completed" for every row whose provider id was loaded.
AllEnded(w) == \A i \in Loaded(w) :
    req[w].snap[i].psid => req[w].out[i] = "completed"

\* An operator schedules reconcile, and the broker goes on sending an event
\* until it is accepted.  Of the calls and commits that are repeated for ever,
\* some succeed, and some of the successful calls live to their commit.
Fairness ==
    \A w \in Workers :
        /\ SF_vars(ReconcileRead(w))
        /\ SF_vars(FinalizeCall(w, {i \in Loaded(w) : req[w].snap[i].psid}, {}))
        /\ SF_vars(AllEnded(w) /\ FinalizeCommit(w))
        /\ WF_vars(FinalizeCommit(w))
        /\ SF_vars(\E e \in events : EventRead(w, e))
        /\ SF_vars(EventCommit(w))
        /\ WF_vars(StartInsert(w) \/ StartRefused(w) \/ StartCall(w) \/ StartReply(w)
                   \/ HeartbeatExpires(w) \/ HeartbeatCall(w) \/ HeartbeatCommit(w))

FairSpec == Spec /\ Fairness

-----------------------------------------------------------------------------
(* Properties. *)

TypeOK ==
    /\ open \in BOOLEAN
    /\ rows \in Seq(Row) /\ Len(rows) <= MaxSessions
    /\ lapsed \subseteq Ids
    /\ provider \in [Ids -> {"none", "running", "ended"}]
    /\ events \subseteq [id : Ids, status : SessionStatus]
    /\ req \in [Workers -> Request]

\* A row is "completed" or "terminated" only when the Windows session is
\* gone: a failed, lost or repeated broker call never closes the books on a
\* session that still runs.
FinalizedMeansEnded ==
    \A i \in 1..Len(rows) :
        rows[i].status \in {"completed", "terminated"} => provider[i] = "ended"

\* The row that holds active_key is the newest one, so the session a
\* candidate is sent back to is the one that was started last.
OnlyLatestHoldsKey == \A i \in 1..Len(rows) : rows[i].key => i = Len(rows)

\* Over, or "finalizing", which the reconciler does not select.
LeftToBroker(i) ==
    i <= Len(rows) /\ (IsTerminal(rows[i]) \/ rows[i].status = "finalizing")

\* A session whose provider id is known does not stay unfinished after its
\* lease.
FinalizedAfterLease ==
    \A i \in Ids :
        (i \in lapsed /\ i <= Len(rows) /\ rows[i].psid) ~> LeftToBroker(i)
=============================================================================
