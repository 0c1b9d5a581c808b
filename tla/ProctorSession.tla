--------------------------- MODULE ProctorSession ---------------------------
(***************************************************************************)
(* The proctor sessions of one student (app/api/routes/proctoring.py): a   *)
(* session is started for an attempt in progress or as a preview, collects *)
(* events and evidence, is finalized, and deleted when it is old.  Each    *)
(* request loads the row and commits the columns it changed.               *)
(***************************************************************************)
EXTENDS Integers, FiniteSets, Deployment

Sets == INSTANCE FiniteSetsExt

CONSTANTS
    Cloud,        \* the storage backend is not "local"
    FlagAt,       \* min_occurrences of the policy's high_confidence rule
    MaxSessions,  \* bound: proctor_sessions rows
    MaxEvents,    \* bound: events of the sessions on record
    MaxEvidence   \* bound: evidence uploads of a session

ASSUME ProctorAssumption ==
    /\ Cloud \in BOOLEAN
    /\ FlagAt \in Nat \ {0}
    /\ MaxSessions \in Nat /\ MaxEvents \in Nat /\ MaxEvidence \in Nat

VARIABLES
    sessions,     \* proctor_sessions rows, with counts of their events and evidence
    sessionLock,  \* per process: _session_start_lock
    task,         \* what each thread is doing, with the row it loaded
    mixed         \* history: "starts" in two processes, or requests of one session

proctorVars == <<process, sessions, sessionLock, task, mixed>>

-----------------------------------------------------------------------------
Ids == 1..MaxSessions

\* warned, high: events on record that warned the candidate, and that are
\* flags of high confidence; evidence: rows; files: local files or cloud objects of
\* these rows; strays: those without a row; of a deleted session, what is left;
\* age: ended before the retention cutoff, or finalized again after that.
Session == [status : {"none", "active", "completed", "deleted"},
            warnings : Nat, risk : Nat, flagged : BOOLEAN,
            warned : Nat, high : Nat, evidence : Nat, files : Nat, strays : Nat,
            age : {"new", "old", "renewed"}]
NoSession == [status |-> "none", warnings |-> 0, risk |-> 0,
              flagged |-> FALSE, warned |-> 0, high |-> 0,
              evidence |-> 0, files |-> 0, strays |-> 0, age |-> "new"]

\* What add_event and finalize_session read of the row and its events.
Loaded == [warnings : Nat, risk : Nat, flagged : BOOLEAN, warned : Nat, high : Nat]
Read(s) == [warnings |-> s.warnings, risk |-> s.risk, flagged |-> s.flagged,
            warned |-> s.warned, high |-> s.high]

\* done: the start has the lock, or the evidence is stored; old: what a cleanup
\* has found.
Task == [op : {"idle", "start", "event", "evidence", "finalize", "cleanup"},
         id : 0..MaxSessions, row : Loaded, old : SUBSET Ids, done : BOOLEAN]
NoTask == [op |-> "idle", id |-> 0, row |-> Read(NoSession),
           old |-> {}, done |-> FALSE]

ProctorInit ==
    /\ DeploymentInit
    /\ sessions = [i \in Ids |-> NoSession]
    /\ sessionLock = NoHolders
    /\ task = [t \in Workers |-> NoTask]
    /\ mixed = {}

-----------------------------------------------------------------------------
Doing(t, op) == task[t].op = op
Turn(t, x) == task' = [task EXCEPT ![t] = x]

\* The history with i, when another request of the session is under way.
Mixed(t, i) == IF \E u \in Workers \ {t} : task[u].id = i THEN {i} ELSE {}

\* A request of session i loads a row.
Load(t, op, i, row) ==
    /\ Doing(t, "idle")
    /\ Turn(t, [NoTask EXCEPT !.op = op, !.id = i, !.row = Read(row)])
    /\ mixed' = mixed \union Mixed(t, i)
    /\ UNCHANGED <<process, sessions, sessionLock>>

\* A request of session i commits its row.
Store(t, row) ==
    /\ sessions' = [sessions EXCEPT ![task[t].id] = row]
    /\ Turn(t, NoTask)
    /\ UNCHANGED <<process, sessionLock, mixed>>

\* An UPDATE names the columns whose value is not the one that was loaded.
Column(now, loaded, new) == IF new = loaded THEN now ELSE new

Live == {i \in Ids : sessions[i].status = "active"}
Unused == {i \in Ids : sessions[i].status = "none"}

-----------------------------------------------------------------------------
(* Starting a session. *)

\* start_session up to the lock: a preview, or an attempt that is in progress.
SessionBegin(t) ==
    /\ Doing(t, "idle")
    /\ Cardinality({u \in Workers : Doing(u, "start")}) < Cardinality(Unused)
    /\ Turn(t, [NoTask EXCEPT !.op = "start"])
    /\ UNCHANGED <<process, sessions, sessionLock, mixed>>

SessionLocked(t) == LockFree(sessionLock, t)

Starts(t) == Doing(t, "start") /\ task[t].done

SessionCheck(t) ==
    /\ Doing(t, "start") /\ ~task[t].done
    /\ SessionLocked(t)
    /\ Live = {}
    /\ sessionLock' = Locked(sessionLock, t)
    /\ Turn(t, [task[t] EXCEPT !.done = TRUE])
    /\ mixed' = mixed \union
         (IF \E u \in Elsewhere(t) : Starts(u) THEN {0} ELSE {})
    /\ UNCHANGED <<process, sessions>>

\* The active session is returned, or refuses the start.
SessionFound(t) ==
    /\ Doing(t, "start") /\ ~task[t].done
    /\ SessionLocked(t)
    /\ Live # {}
    /\ Turn(t, NoTask)
    /\ UNCHANGED <<process, sessions, sessionLock, mixed>>

SessionStore(t) ==
    /\ Starts(t)
    /\ \E i \in Unused :
         /\ \A j \in Unused : i <= j
         /\ sessions' = [sessions EXCEPT ![i] = [NoSession EXCEPT !.status = "active"]]
    /\ sessionLock' = Unlocked(sessionLock, t)
    /\ Turn(t, NoTask)
    /\ UNCHANGED <<process, mixed>>

-----------------------------------------------------------------------------
(* Events, evidence and the end of a session. *)

EventLoad(t, i) == i \in Live /\ Load(t, "event", i, sessions[i])

\* _recompute_flag
Flagged(row, high) == row.flagged \/ high

\* classify_proctor_event: this event and those on record reach the rule.
HighConfidence(row) == row.warned + 1 >= FlagAt

Warned(row) == row.warnings + 1

\* The proctor_events rows.
OnRecord == Sets!MapThenSumSet(LAMBDA i : sessions[i].warned, Ids)

\* add_event: a warning of weight one; events that are ignored leave the row.
EventStore(t) ==
    LET was == task[t].row  now == sessions[task[t].id]  high == HighConfidence(was) IN
    /\ Doing(t, "event")
    /\ OnRecord < MaxEvents
    /\ Store(t, [now EXCEPT
         !.warnings = Column(@, was.warnings, Warned(was)),
         !.risk = Column(@, was.risk, was.risk + 1),
         !.flagged = Column(@, was.flagged, Flagged(was, high)),
         !.warned = @ + 1,
         !.high = IF high THEN @ + 1 ELSE @])

\* upload_evidence uses the row's identifiers only.
EvidenceLoad(t, i) == i \in Live /\ Load(t, "evidence", i, NoSession)

\* upload_evidence writes the file, and moves it to the cloud storage.
EvidenceKept(t) ==
    LET i == task[t].id IN
    /\ Doing(t, "evidence") /\ ~task[t].done
    /\ sessions[i].files + sessions[i].strays < MaxEvidence
    /\ sessions' = [sessions EXCEPT ![i].strays = @ + 1]
    /\ Turn(t, [task[t] EXCEPT !.done = TRUE])
    /\ UNCHANGED <<process, sessionLock, mixed>>

Kept(t) == task[t].done

EvidenceStore(t) ==
    LET stored == IF task[t].done THEN 1 ELSE 0 IN
    /\ Doing(t, "evidence") /\ Kept(t)
    /\ Store(t, [sessions[task[t].id] EXCEPT
         !.evidence = @ + 1, !.files = @ + stored, !.strays = @ - stored])

\* finalize_session asks for no status.
FinalizeLoad(t, i) ==
    /\ sessions[i].status \in {"active", "completed"}
    /\ Load(t, "finalize", i, sessions[i])

\* Mutant of Assessed: the evaluation replaces the score.
AssessedAnew(row) == 2 * row.high

\* The larger of the score and the evaluation, which a flag raises.
Assessed(row) == IF 2 * row.high > row.risk THEN 2 * row.high ELSE row.risk

FinalizeStore(t) ==
    LET was == task[t].row  now == sessions[task[t].id] IN
    /\ Doing(t, "finalize")
    /\ now.status # "deleted"
    /\ Store(t, [now EXCEPT
         !.status = "completed", !.age = IF @ = "new" THEN @ ELSE "renewed",
         !.risk = Column(@, was.risk, Assessed(was)),
         !.flagged = Column(@, was.flagged, Flagged(was, was.high > 0))])

-----------------------------------------------------------------------------
(* Retention. *)

\* The retention period of a completed session ends: no request lasts so long.
Expire(i) ==
    /\ sessions[i].status = "completed" /\ sessions[i].age # "old"
    /\ \A t \in Workers : task[t].id # i
    /\ sessions' = [sessions EXCEPT ![i].age = "old"]
    /\ UNCHANGED <<process, sessionLock, task, mixed>>

Old == {i \in Ids : sessions[i].status = "completed" /\ sessions[i].age = "old"}

\* run_proctor_retention_cleanup unlinks local files of the evidence on record;
\* it calls no storage backend.
Emptied(s) == IF Cloud THEN s ELSE [s EXCEPT !.files = 0]

\* The files first,
CleanupFiles(t) ==
    /\ Doing(t, "idle")
    /\ Old # {} /\ \A u \in Workers : ~Doing(u, "cleanup")
    /\ sessions' = [i \in Ids |-> IF i \in Old THEN Emptied(sessions[i]) ELSE sessions[i]]
    /\ Turn(t, [NoTask EXCEPT !.op = "cleanup", !.old = Old])
    /\ UNCHANGED <<process, sessionLock, mixed>>

\* then the rows.
CleanupStore(t) ==
    /\ Doing(t, "cleanup")
    /\ sessions' = [i \in Ids |->
         IF i \in task[t].old
         THEN [NoSession EXCEPT !.status = "deleted", !.age = "old", !.files = sessions[i].files,
                                !.strays = sessions[i].strays, !.flagged = sessions[i].flagged]
         ELSE sessions[i]]
    /\ Turn(t, NoTask)
    /\ UNCHANGED <<process, sessionLock, mixed>>

-----------------------------------------------------------------------------
\* A request fails, or its process ends: it is rolled back, its lock is free.
Fail(t) ==
    /\ ~Doing(t, "idle")
    /\ Turn(t, NoTask)
    /\ sessionLock' = [p \in Processes |-> sessionLock[p] \ {t}]
    /\ UNCHANGED <<process, sessions, mixed>>

ProctorNext ==
    \/ \E t \in Workers :
         \/ SessionBegin(t)
         \/ SessionCheck(t) \/ SessionFound(t) \/ SessionStore(t)
         \/ \E i \in Ids : EventLoad(t, i) \/ EvidenceLoad(t, i) \/ FinalizeLoad(t, i)
         \/ EventStore(t) \/ EvidenceKept(t) \/ EvidenceStore(t) \/ FinalizeStore(t)
         \/ CleanupFiles(t) \/ CleanupStore(t)
         \/ Fail(t)
    \/ \E i \in Ids : Expire(i)

ProctorSpec == ProctorInit /\ [][ProctorNext]_proctorVars

-----------------------------------------------------------------------------
(* Properties. *)

ProctorTypeOK ==
    /\ process \in [Workers -> Processes]
    /\ sessions \in [Ids -> Session]
    /\ sessionLock \in [Processes -> SUBSET Workers]
    /\ task \in [Workers -> Task]
    /\ mixed \subseteq 0..MaxSessions

\* A student has one active session, unless two processes start one at once.
OneSession == 0 \in mixed \/ Cardinality(Live) <= 1

\* Every warning on record is in the count a recruiter sees, unless requests
\* of the session overlap.
WarningsCounted ==
    \A i \in Ids \ mixed : sessions[i].warnings = sessions[i].warned

\* A session whose events repeat as often as the policy's rule of high
\* confidence asks for is flagged, unless requests of the session overlap.
RepeatsFlagged ==
    \A i \in Ids \ mixed : sessions[i].warned >= FlagAt => sessions[i].flagged

\* What a recruiter sees of a session agrees with its events.
SignalsCounted == OneSession /\ WarningsCounted /\ RepeatsFlagged

\* proctoring.py:185 "Once a high-confidence flag exists it is monotonic": a
\* flag on record flags the session, and no request of any process, with
\* whatever row it loaded, takes a flag away.
FlagIsMonotonic ==
    [][\A i \in Ids : /\ sessions[i].flagged => sessions'[i].flagged
                      /\ sessions'[i].high > 0 => sessions'[i].flagged]_proctorVars

\* The risk score of a session never falls, unless requests of it overlap.
RiskNeverFalls ==
    [][\A i \in Ids \ mixed' :
         sessions'[i].status # "deleted" => sessions'[i].risk >= sessions[i].risk]_proctorVars

\* Signals are kept: neither a flag nor risk is taken back.
SignalsStand == FlagIsMonotonic /\ RiskNeverFalls

\* Evidence on record can be shown, until the session is old once; and of a
\* session that is deleted, no local file is left that a row named.
EvidenceStored ==
    \A i \in Ids :
        sessions[i].age = "new" \/ (sessions[i].status = "deleted" /\ ~Cloud) =>
            sessions[i].evidence = sessions[i].files
=============================================================================
