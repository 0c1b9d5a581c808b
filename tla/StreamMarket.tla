------------------------------ MODULE StreamMarket ------------------------------
(***************************************************************************)
(* One video of a stream course and a user who watches it.                 *)
(*                                                                         *)
(* The video (stream_market.py, bunny_stream.py): the row is made after    *)
(* the video at the stream service, the body is passed on to it, and the   *)
(* row learns what became of it from the service's messages, which come    *)
(* late, twice and in any order, and from asking.                          *)
(*                                                                         *)
(* Watching (stream_market.py, fair_usage.py): playback tokens open watch  *)
(* sessions, at most so many at a time; heartbeats add a unit of watched   *)
(* time to the session and to the progress row the allowance is counted    *)
(* from; a nonce cache, one in each process, refuses a heartbeat sent      *)
(* again.                                                                  *)
(***************************************************************************)
EXTENDS Integers, FiniteSets, Deployment, RowChanges

CONSTANTS
    Makers,     \* requests that may run at a time
    MaxBodies   \* bound: bodies sent

ASSUME StreamVideoAssumption == MaxBodies \in Nat

VARIABLES
    made,       \* how far the creator got: course, lesson, video
    video,      \* the lesson_videos row
    service,    \* the video at the stream service (external)
    hooks,      \* messages of the service on their way (external)
    maker,      \* what each request has loaded and asked
    bodies,     \* history: bodies the service has begun to encode
    encoded,    \* history: the service has encoded one of them
    mingled     \* history: two requests changed the row at a time

streamVars == <<made, video, service, hooks, maker, bodies, encoded, mingled>>

-----------------------------------------------------------------------------
States == {"pending", "processing", "ready"}
Video == [status : States, ready : BOOLEAN]
Fresh == [status |-> "pending", ready |-> FALSE]

NoTask == [op |-> "none", seen |-> Fresh, set |-> NoChanges, late |-> FALSE]

StreamInit ==
    /\ made = "nothing"
    /\ video = Fresh
    /\ service = "none"
    /\ hooks = {}
    /\ maker = [m \in Makers |-> NoTask]
    /\ bodies = 0 /\ encoded = FALSE
    /\ mingled = FALSE

Tasks(m, task) == maker' = [maker EXCEPT ![m] = task]
Over(m) == Tasks(m, NoTask)

Asks(m, op) ==
    /\ maker[m] = NoTask
    /\ Tasks(m, [NoTask EXCEPT !.op = op, !.seen = video])

-----------------------------------------------------------------------------
\* create_stream_course, create_stream_lesson
CreateCourse ==
    /\ made = "nothing" /\ made' = "course"
    /\ UNCHANGED <<video, service, hooks, maker, bodies, encoded, mingled>>

CreateLesson ==
    /\ made = "course" /\ made' = "lesson"
    /\ UNCHANGED <<video, service, hooks, maker, bodies, encoded, mingled>>

\* init_stream_video_upload: the video at the service comes first; when the
\* commit fails it is left there without a row.
InitUpload(m) ==
    /\ made = "lesson"
    /\ Asks(m, "init")
    /\ UNCHANGED <<made, video, service, hooks, bodies, encoded, mingled>>

InitCommits(m) ==
    /\ maker[m].op = "init" /\ made = "lesson"
    /\ made' = "video"
    /\ service' = "created"
    /\ Over(m)
    /\ UNCHANGED <<video, hooks, bodies, encoded, mingled>>

-----------------------------------------------------------------------------
\* upload_stream_video_content: the body is sent in one call, and a body that
\* is sent again is encoded anew.
SendBody(m) ==
    /\ made = "video"
    /\ Asks(m, "body")
    /\ UNCHANGED <<made, video, service, hooks, bodies, encoded, mingled>>

\* The service takes the body; the answer may be lost.
BodyTaken(m) ==
    /\ maker[m].op = "body" /\ bodies < MaxBodies
    /\ service' = "encoding"
    /\ bodies' = bodies + 1
    /\ maker' \in {[maker EXCEPT ![m] = [@ EXCEPT !.op = "store", !.set = [status |-> "processing"]]],
                   [maker EXCEPT ![m] = NoTask]}
    /\ UNCHANGED <<made, video, hooks, encoded, mingled>>

\* stream_video_status with sync: what the service says of the video.
AskStatus(m) ==
    /\ made = "video"
    /\ Asks(m, "ask")
    /\ UNCHANGED <<made, video, service, hooks, bodies, encoded, mingled>>

\* get_video_details
Details ==
    CASE service = "encoded" -> [status |-> "ready", ready |-> TRUE]
      [] service = "encoding" -> [status |-> "processing", ready |-> FALSE]
      [] OTHER -> Fresh

Answered(m) ==
    /\ maker[m].op = "ask"
    /\ Tasks(m, [maker[m] EXCEPT !.op = "store", !.set = Details])
    /\ UNCHANGED <<made, video, service, hooks, bodies, encoded, mingled>>

\* bunny_stream_webhook
HookSays(hook, row) == [status |-> hook, ready |-> row.ready \/ hook = "ready"]

HookComes(m, hook) ==
    /\ maker[m] = NoTask
    /\ Tasks(m, [NoTask EXCEPT !.op = "store", !.seen = video, !.set = HookSays(hook, video)])
    /\ UNCHANGED <<made, video, service, hooks, bodies, encoded, mingled>>

\* Only what differs from the row that was loaded is written.
Unlike(task) == Changes(task.seen, Update(task.seen, task.set))

\* The commit; who has loaded the row before it is late.
RowCommits(m) ==
    /\ maker[m].op = "store"
    /\ video' = Update(video, Unlike(maker[m]))
    /\ mingled' = (mingled \/ maker[m].late)
    /\ maker' = [n \in Makers |-> IF n = m THEN NoTask
                                 ELSE [maker[n] EXCEPT !.late = @ \/ maker[n].op \in {"body", "ask", "store"}]]
    /\ UNCHANGED <<made, service, hooks, bodies, encoded>>

\* The service refuses, a call times out, or the commit fails.
TaskFails(m) ==
    /\ maker[m] # NoTask
    /\ Over(m)
    /\ UNCHANGED <<made, video, service, hooks, bodies, encoded, mingled>>

-----------------------------------------------------------------------------
\* The service encodes the body and says so; every message stays on its way.
Encodes ==
    /\ service = "encoding"
    /\ \/ /\ service' = "encoded" /\ encoded' = TRUE
          /\ hooks' = hooks \union {"ready"}
       \/ /\ hooks' = hooks \union {"processing"}
          /\ UNCHANGED <<service, encoded>>
    /\ UNCHANGED <<made, video, maker, bodies, mingled>>

StreamNext ==
    \/ CreateCourse \/ CreateLesson \/ Encodes
    \/ \E m \in Makers :
         \/ InitUpload(m) \/ InitCommits(m)
         \/ SendBody(m) \/ BodyTaken(m) \/ AskStatus(m) \/ Answered(m)
         \/ \E hook \in hooks : HookComes(m, hook)
         \/ RowCommits(m) \/ TaskFails(m)

StreamSpec == StreamInit /\ [][StreamNext]_streamVars

-----------------------------------------------------------------------------
(* Properties. *)

StreamTypeOK ==
    /\ made \in {"nothing", "course", "lesson", "video"}
    /\ video \in Video
    /\ service \in {"none", "created", "encoding", "encoded"}
    /\ hooks \subseteq States
    /\ bodies \in 0..MaxBodies
    /\ encoded \in BOOLEAN /\ mingled \in BOOLEAN

\* A video that tokens are given for has been encoded; and unless two requests
\* changed the row at a time, one whose status is ready is ready.
ReadyIsEncoded ==
    /\ video.ready => encoded
    /\ mingled \/ (video.status = "ready" => video.ready)

\* A video that is ready stays so, whatever late message or old answer is
\* stored, until another body is sent for it.
ReadyStays == [][video.ready /\ ~video'.ready => bodies > 1]_streamVars

-----------------------------------------------------------------------------
(* Watching: its own constants and variables. *)

CONSTANTS
    Allowance,      \* units the fair usage of the course allows; 0: no limit
    MaxOpen,        \* stream_drm_max_concurrent_sessions_per_course
    AutoRevoke,     \* stream_drm_auto_revoke_on_ip_mismatch, or on the user agent's
    MaxSessions,    \* bound: video_watch_sessions rows
    MaxBeats,       \* bound: nonces a player uses in a session
    MaxWatched      \* bound: units counted, heartbeats sent again included

ASSUME WatchAssumption ==
    /\ Allowance \in Nat /\ AutoRevoke \in BOOLEAN
    /\ MaxOpen \in Nat \ {0} /\ {MaxSessions, MaxBeats, MaxWatched} \subseteq Nat

VARIABLES
    market,     \* the video is ready; the course is paid for
    sessions,   \* video_watch_sessions: not there, open or ended
    progress,   \* the video_watch_progress row
    nonces,     \* _drm_nonce_cache of each process
    request,    \* what each thread is doing, with what it has loaded
    warned,     \* audit_log: the highest fair-usage level logged
    beats,      \* history: heartbeats committed
    slips       \* history: what happened that the code does not guard against

watchVars == <<process, market, sessions, progress, nonces, request, warned, beats, slips>>

-----------------------------------------------------------------------------
Sessions == 1..MaxSessions
Beats == Sessions \X (1..MaxBeats)
Levels == 0..3

Request == [op : {"idle", "token", "beat", "settle"}, open : SUBSET Sessions,
            beat : SUBSET Beats, ends : BOOLEAN, found : BOOLEAN,
            watched : 0..MaxWatched, level : Levels]
NoRequest == [op |-> "idle", open |-> {}, beat |-> {}, ends |-> FALSE, found |-> FALSE,
              watched |-> 0, level |-> 0]

WatchInit ==
    /\ DeploymentInit
    /\ market = [ready |-> FALSE, paid |-> FALSE]
    /\ sessions = [s \in Sessions |-> "none"]
    /\ progress = [found |-> FALSE, watched |-> 0]
    /\ nonces = [p \in Processes |-> {}]
    /\ request = [w \in Workers |-> NoRequest]
    /\ warned = 0
    /\ beats = {}
    /\ slips = {}

\* _usage_warning_level: 0.8, 1.0 and 1.2 of the allowance.
Level(watched) ==
    IF Allowance = 0 THEN 0
    ELSE Cardinality({k \in {8, 10, 12} : 10 * watched >= k * Allowance})

OpenSessions == {s \in Sessions : sessions[s] = "open"}

-----------------------------------------------------------------------------
\* bunny_stream_webhook: a message that comes late leaves the video ready.
Encoded(ready) ==
    /\ market' = [market EXCEPT !.ready = @ \/ ready]
    /\ UNCHANGED <<process, sessions, progress, nonces, request, warned, beats, slips>>

\* create_course_purchase
PurchaseCourse ==
    /\ market' = [market EXCEPT !.paid = TRUE]
    /\ UNCHANGED <<process, sessions, progress, nonces, request, warned, beats, slips>>

\* issue_stream_playback_token: what it asks for, and the sessions it loads.
TokenLoad(w) ==
    /\ request[w].op = "idle"
    /\ market.ready /\ market.paid
    /\ Allowance > 0 => progress.watched < Allowance
    /\ request' = [request EXCEPT ![w] = [NoRequest EXCEPT !.op = "token", !.open = OpenSessions]]
    /\ UNCHANGED <<process, market, sessions, progress, nonces, warned, beats, slips>>

\* The oldest sessions, so that with the new one MaxOpen are open.
Stale(open) == {s \in open : Cardinality({t \in open : t >= s}) >= MaxOpen}

Revoked(rows, gone) ==
    [s \in Sessions |-> IF s \in gone THEN "ended" ELSE rows[s]]

TokenStore(w) ==
    /\ request[w].op = "token"
    /\ \E s \in Sessions :
         /\ sessions[s] = "none" /\ \A t \in 1..(s - 1) : sessions[t] # "none"
         /\ sessions' = [Revoked(sessions, Stale(request[w].open)) EXCEPT ![s] = "open"]
    /\ request' = [request EXCEPT ![w] = NoRequest]
    /\ slips' = slips \union (IF OpenSessions \subseteq request[w].open THEN {} ELSE {"starts"})
    /\ UNCHANGED <<process, market, progress, nonces, warned, beats>>

\* stream_watch_heartbeat up to its first write: an ended session is served
\* only for its last heartbeat, and a nonce once by a process.
BeatAllowed(w, s, n, ends) ==
    /\ request[w].op = "idle"
    /\ sessions[s] = "open" \/ (sessions[s] = "ended" /\ ends)
    /\ <<s, n>> \notin nonces[process[w]]
    /\ progress.watched < MaxWatched
    /\ nonces' = [nonces EXCEPT ![process[w]] = @ \union {<<s, n>>}]

\* Heartbeats committed or on their way that process p has no mark of.
Unmarked(p) == (beats \union UNION {request[w].beat : w \in Workers}) \ nonces[p]

BeatLoad(w, s, n, ends) ==
    /\ BeatAllowed(w, s, n, ends)
    /\ request' = [request EXCEPT ![w] =
          [op |-> "beat", open |-> OpenSessions \intersect {s}, beat |-> {<<s, n>>}, ends |-> ends,
           found |-> progress.found, watched |-> progress.watched,
           level |-> Level(progress.watched)]]
    /\ slips' = slips \union (IF <<s, n>> \in Unmarked(process[w]) THEN {"again"} ELSE {})
    /\ UNCHANGED <<process, market, sessions, progress, warned, beats>>

\* A heartbeat from another address or browser than the one on file, which the
\* first heartbeat leaves, ends the session.
BeatMismatch(w, s, n, ends) ==
    /\ AutoRevoke /\ \E m \in 1..MaxBeats : <<s, m>> \in beats
    /\ BeatAllowed(w, s, n, ends)
    /\ sessions' = Revoked(sessions, {s})
    /\ UNCHANGED <<process, market, progress, request, warned, beats, slips>>

\* Mutant of SessionAfter: the row is written as it was loaded.
SessionOverwritten(row, loaded, ends) ==
    IF loaded /\ ~ends THEN "open" ELSE "ended"

\* An UPDATE names the changed columns: ended_at with the last heartbeat only.
SessionAfter(row, loaded, ends) ==
    IF ends THEN "ended" ELSE row

\* The first commit.  A progress row inserted meanwhile refuses the insert.
BeatStore(w) ==
    LET r == request[w] IN
    /\ r.op = "beat"
    /\ IF ~r.found /\ progress.found
       THEN /\ request' = [request EXCEPT ![w] = NoRequest]
            /\ UNCHANGED <<sessions, progress, beats, slips>>
       ELSE /\ \E b \in r.beat :
                 sessions' = [sessions EXCEPT ![b[1]] = SessionAfter(@, b[1] \in r.open, r.ends)]
            /\ progress' = [found |-> TRUE, watched |-> r.watched + 1]
            /\ beats' = beats \union r.beat
            /\ slips' = slips \union (IF progress.watched = r.watched THEN {} ELSE {"overlap"})
                             \union (IF progress.watched > r.watched + 1 THEN {"back"} ELSE {})
            /\ request' = [request EXCEPT ![w].op = "settle"]
    /\ UNCHANGED <<process, market, nonces, warned>>

\* log_fair_usage_transition
Crossed(old, new) == new > old

\* The second commit: a level the heartbeat has crossed is logged.
BeatSettle(w) ==
    LET new == Level(progress.watched) IN
    /\ request[w].op = "settle"
    /\ warned' = IF Crossed(request[w].level, new) /\ new > warned THEN new ELSE warned
    /\ request' = [request EXCEPT ![w] = NoRequest]
    /\ UNCHANGED <<process, market, sessions, progress, nonces, beats, slips>>

\* admin_revoke_watch_session, admin_revoke_user_sessions
RevokeSessions(gone) ==
    /\ gone # {} /\ \A s \in gone : sessions[s] # "none"
    /\ sessions' = Revoked(sessions, gone)
    /\ UNCHANGED <<process, market, progress, nonces, request, warned, beats, slips>>

Cut(lost) ==
    /\ request' = [w \in Workers |-> IF w \in lost THEN NoRequest ELSE request[w]]
    /\ slips' = slips \union (IF \E w \in lost : request[w].op = "settle" THEN {"cut"} ELSE {})
    /\ UNCHANGED <<process, market, sessions, progress, warned, beats>>

\* A request fails before its next commit.
WatchFails(w) == request[w].op # "idle" /\ Cut({w}) /\ UNCHANGED nonces

\* A process ends: its cache is lost; or the marks of a session are dropped
\* after stream_drm_nonce_ttl_seconds.
WatchProcessEnds(p) ==
    /\ nonces[p] # {}
    /\ Cut({w \in Workers : process[w] = p})
    /\ nonces' = [nonces EXCEPT ![p] = {}]

WatchNext ==
    \/ \E ready \in BOOLEAN : Encoded(ready)
    \/ PurchaseCourse
    \/ \E gone \in SUBSET Sessions : RevokeSessions(gone)
    \/ \E p \in Processes : WatchProcessEnds(p)
    \/ \E w \in Workers :
         \/ TokenLoad(w) \/ TokenStore(w) \/ BeatStore(w) \/ BeatSettle(w) \/ WatchFails(w)
         \/ \E b \in Beats, ends \in BOOLEAN :
              BeatLoad(w, b[1], b[2], ends) \/ BeatMismatch(w, b[1], b[2], ends)

WatchSpec == WatchInit /\ [][WatchNext]_watchVars

-----------------------------------------------------------------------------
(* Properties. *)

WatchTypeOK ==
    /\ market \in [ready : BOOLEAN, paid : BOOLEAN]
    /\ sessions \in [Sessions -> {"none", "open", "ended"}]
    /\ progress.found \in BOOLEAN /\ progress.watched \in 0..MaxWatched
    /\ nonces \in [Processes -> SUBSET Beats]
    /\ request \in [Workers -> Request]
    /\ warned \in Levels
    /\ beats \subseteq Beats
    /\ slips \subseteq {"starts", "overlap", "back", "again", "cut"}

\* The time watched is the number of heartbeats acknowledged, whatever retries
\* and failures there were: unless two heartbeats overlapped, or one was sent
\* again to a process that had not seen it.
UsageCounted ==
    slips \intersect {"overlap", "again"} = {} => progress.watched = Cardinality(beats)

\* A level of use that was reached is in the audit log once the heartbeats are
\* through: unless one was cut between its commits, or one that had loaded the
\* progress long before set it back.
UseIsLogged ==
    slips \intersect {"cut", "back"} # {} \/ (\E w \in Workers : request[w].op = "settle")
    \/ Level(progress.watched) <= warned

\* No more than MaxOpen sessions of a course are open, unless two were opened
\* at a time.
SessionsBounded == "starts" \in slips \/ Cardinality(OpenSessions) <= MaxOpen

\* A session that has ended is not opened again by a heartbeat on its way.
EndedForGood ==
    [][\A s \in Sessions : sessions[s] = "ended" => sessions'[s] = "ended"]_watchVars
=============================================================================
