----------------------------- MODULE Connections ------------------------------
(***************************************************************************)
(* What an organization connects to: a calendar, by OAuth, and the mail    *)
(* server of one purpose (hiring.py).  A handler loads the row, calls the  *)
(* provider and commits the columns that differ from what it has loaded.   *)
(***************************************************************************)
EXTENDS Naturals, FiniteSets, RowChanges

CONSTANTS
    Handlers,     \* requests that may run at a time
    MaxGrants,    \* bound: credentials the provider gives out
    Settings,     \* settings a mail server may be given
    MaxEvents     \* bound: calendar events made at the provider

ASSUME ConnectionsAssumption == {MaxGrants, MaxEvents} \subseteq Nat

VARIABLES
    calendar,   \* hiring_integrations: status, credentials and the scope chosen
    channel,    \* hiring_email_channels: settings, status, whether last_tested_at is set
    grants,     \* credentials the provider has given out
    events,     \* events in the calendar of the provider
    interviews, \* the events that hiring_interviews name
    proven,     \* history: settings a test mail went out with
    handler,    \* what each request is doing
    upsets      \* history: requests that ran across each other or failed

connectionsVars == <<calendar, channel, grants, events, interviews, proven, handler, upsets>>

-----------------------------------------------------------------------------
NoGrant == 0
Status == {"none", "not_connected", "ready_to_connect", "connected", "paused"}
Calendar == [status : Status, grant : 0..MaxGrants, scope : BOOLEAN]

\* set: the columns the request will write; made: the event it has made.
Resting == [op |-> "none", set |-> NoChanges, made |-> {}]

ConnectionsInit ==
    /\ calendar = [status |-> "none", grant |-> NoGrant, scope |-> FALSE]
    /\ channel \in [settings : Settings, connected : {FALSE}, tested : {FALSE}]
    /\ proven = {}
    /\ grants = 0
    /\ events = 0
    /\ interviews = {}
    /\ handler = [h \in Handlers |-> Resting]
    /\ upsets = {}

Takes(h, job) == handler' = [handler EXCEPT ![h] = job]
Running(ops) == {h \in Handlers : handler[h].op \in ops}

Crossed(ops, mark) == {m \in {mark} : Running(ops) # {}}

-----------------------------------------------------------------------------
(* The calendar. *)

CalendarJobs == {"configure", "connect", "callback"}

\* Status and configuration are two columns: config_json has the scope and the
\* credentials.
Config == {"grant", "scope"}
CalendarColumns(new) ==
    LET dirty == {c \in DOMAIN calendar : new[c] # calendar[c]} IN
    [col \in dirty \union {c \in Config : dirty \intersect Config # {}} |-> new[col]]

Loads(h, op, new) ==
    /\ handler[h] = Resting
    /\ Takes(h, [Resting EXCEPT !.op = op, !.set = CalendarColumns(new)])
    /\ upsets' = upsets \union Crossed(CalendarJobs, "calendar")
    /\ UNCHANGED <<calendar, channel, grants, events, interviews, proven>>

\* Mutant of Kept: a new configuration has no credentials.
KeptNone == NoGrant

\* configure_integration carries the credentials over.
Kept == calendar.grant

\* A connector becomes connected by its callback only.
Configure(h, status, scope) ==
    /\ status \in Status \ {"none"}
    /\ status = "connected" => calendar.status = "connected"
    /\ Loads(h, "configure", [status |-> status, grant |-> Kept, scope |-> scope])

\* begin_integration_connection
BeginConnection(h) ==
    Loads(h, "connect", [calendar EXCEPT !.status = "ready_to_connect"])

\* The provider redirects the browser with a code, within ten minutes of some
\* beginning, and exchanges it for new credentials.
Callback(h) ==
    /\ calendar.status # "none"
    /\ grants < MaxGrants
    /\ grants' = grants + 1
    /\ handler[h] = Resting
    /\ Takes(h, [Resting EXCEPT !.op = "callback", !.set =
           CalendarColumns([calendar EXCEPT !.status = "connected", !.grant = grants'])])
    /\ upsets' = upsets \union Crossed(CalendarJobs, "calendar")
    /\ UNCHANGED <<calendar, channel, events, interviews, proven>>

CalendarCommits(h) ==
    /\ handler[h].op \in CalendarJobs
    /\ calendar' = Update(calendar, handler[h].set)
    /\ Takes(h, Resting)
    /\ UNCHANGED <<channel, grants, events, interviews, proven, upsets>>

\* create_interview: the event is made before the interview is stored, and what
\* keeps it from being made is stored as "failed".
Schedule(h, made) ==
    /\ handler[h] = Resting
    /\ calendar.status = "connected"
    /\ made => calendar.grant # NoGrant /\ events < MaxEvents
    /\ events' = IF made THEN events + 1 ELSE events
    /\ Takes(h, [Resting EXCEPT !.op = "schedule",
                                !.made = IF made THEN {events'} ELSE {}])
    /\ UNCHANGED <<calendar, channel, grants, interviews, proven, upsets>>

ScheduleCommits(h) ==
    /\ handler[h].op = "schedule"
    /\ interviews' = interviews \union handler[h].made
    /\ Takes(h, Resting)
    /\ UNCHANGED <<calendar, channel, grants, events, proven, upsets>>

-----------------------------------------------------------------------------
(* The mail server. *)

Untested == FALSE

\* A request writes the columns that differ from the row it has loaded.
SetsChannel(h, op, new) ==
    /\ handler[h] = Resting
    /\ Takes(h, [Resting EXCEPT !.op = op, !.set = Changes(channel, new)])
    /\ UNCHANGED <<calendar, channel, grants, events, interviews>>

\* configure_email_channel: new settings need a new delivery test.
ConfigureMail(h, settings, complete) ==
    /\ SetsChannel(h, "mail", [settings |-> settings, connected |-> complete,
                               tested |-> Untested])
    /\ upsets' = upsets \union Crossed({"test"}, "mail")
    /\ UNCHANGED proven

\* send_email_test mails with the settings it has read and stamps the row.
TestMail(h) ==
    /\ channel.connected
    /\ SetsChannel(h, "test", [channel EXCEPT !.tested = TRUE])
    /\ proven' = proven \union {channel.settings}
    /\ upsets' = upsets \union Crossed({"mail"}, "mail")

MailCommits(h) ==
    /\ handler[h].op \in {"mail", "test"}
    /\ channel' = Update(channel, handler[h].set)
    /\ Takes(h, Resting)
    /\ UNCHANGED <<calendar, grants, events, interviews, proven, upsets>>

-----------------------------------------------------------------------------
RequestEnds(h) ==
    /\ handler[h] # Resting
    /\ Takes(h, Resting)
    /\ upsets' = upsets \union {u \in {"event"} : handler[h].made # {}}
    /\ UNCHANGED <<calendar, channel, grants, events, interviews, proven>>

\* The two rows are written by different requests.
CalendarNext ==
    \E h \in Handlers :
        \/ \E status \in Status, scope \in BOOLEAN : Configure(h, status, scope)
        \/ BeginConnection(h) \/ Callback(h) \/ CalendarCommits(h)
        \/ \E made \in BOOLEAN : Schedule(h, made)
        \/ ScheduleCommits(h) \/ RequestEnds(h)

MailNext ==
    \E h \in Handlers :
        \/ \E settings \in Settings, complete \in BOOLEAN :
             ConfigureMail(h, settings, complete)
        \/ TestMail(h) \/ MailCommits(h) \/ RequestEnds(h)

ConnectionsNext == CalendarNext \/ MailNext

ConnectionsSpec == ConnectionsInit /\ [][ConnectionsNext]_connectionsVars

-----------------------------------------------------------------------------
(* Properties. *)

ConnectionsTypeOK ==
    /\ calendar \in Calendar
    /\ channel \in [settings : Settings, connected : BOOLEAN, tested : BOOLEAN]
    /\ grants \in 0..MaxGrants /\ events \in 0..MaxEvents
    /\ interviews \subseteq 1..events /\ proven \subseteq Settings
    /\ \A h \in Handlers : handler[h].made \subseteq 1..events
    /\ upsets \subseteq {"calendar", "mail", "event"}

\* What is shown as connected works: a connected calendar has credentials, a
\* channel that counts as tested was tested with the settings it has, and an
\* event in the calendar has its interview; unless two requests for the same
\* row ran across each other or an interview could not be stored.
ConnectionsHold ==
    /\ calendar.status = "connected" /\ calendar.grant = NoGrant => "calendar" \in upsets
    /\ channel.tested /\ channel.settings \notin proven => "mail" \in upsets
    /\ \A e \in (1..events) \ interviews :
         (\E h \in Handlers : e \in handler[h].made) \/ "event" \in upsets
=============================================================================
