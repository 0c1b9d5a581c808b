------------------------------ MODULE LiveClass ------------------------------
(***************************************************************************)
(* One live class: the waiting room, which each process keeps in its own   *)
(* memory (app/live_ws.py), and the rows the processes share: the class,   *)
(* its participants, poll, votes and messages (student.py, provider.py).   *)
(* The host acts over requests or the socket, pupils over requests; each   *)
(* page polls for messages after the last one it has.                      *)
(***************************************************************************)
EXTENDS Integers, FiniteSets, Deployment

CONSTANTS
    Pupils,        \* enrolled students
    MaxPolls,      \* bound: polls the host starts
    MaxMessages    \* bound: live_class_messages rows

ASSUME LiveAssumption == MaxPolls \in Nat /\ MaxMessages \in Nat

VARIABLES
    room,       \* per process: signal_manager's state of the class
    lesson,     \* the live_class_sessions row, with the tallies it announced
    votes,      \* live_class_poll_votes rows
    seat,       \* live_class_participants rows of the pupils: is_present
    board,      \* live_class_messages: ids given, ids committed, and those a page has
    visit,      \* what each thread is doing for a pupil, with what it has read
    out,        \* history: pupils the host has removed, with the process that knows
    lateVotes   \* history: polls closed while a vote was on its way

lessonRows == <<lesson, votes, seat>>
liveVars == <<process, room, lessonRows, board, visit, out, lateVotes>>

-----------------------------------------------------------------------------
Places == {"new", "waiting", "admitted", "removed"}
NewRoom == [gate |-> TRUE, place |-> [s \in Pupils |-> "new"]]

Polls == 1..MaxPolls
Lesson == [ended : BOOLEAN, poll : 0..MaxPolls, open : BOOLEAN,
           announced : [Polls -> SUBSET SUBSET Pupils]]

Seats == {"none", "away", "here"}

\* A request is over when its message, `id`, is committed; poll: the poll voted
\* on; insert, seat: it adds the participant's row, and what it sets there.
Visit == [pupil : SUBSET Pupils, admitted : BOOLEAN, poll : 0..MaxPolls, id : 0..MaxMessages,
          insert : BOOLEAN, seat : {"same", "away", "here"}]
NoVisit == [pupil |-> {}, admitted |-> FALSE, poll |-> 0, id |-> 0,
            insert |-> FALSE, seat |-> "same"]

LiveInit ==
    /\ DeploymentInit
    /\ room = [p \in Processes |-> NewRoom]
    /\ lesson = [ended |-> FALSE, poll |-> 0, open |-> FALSE,
                 announced |-> [k \in Polls |-> {}]]
    /\ votes = [k \in Polls |-> {}]
    /\ seat = [s \in Pupils |-> "none"]
    /\ board = [given |-> 0, posted |-> {}, seen |-> {}]
    /\ visit = [w \in Workers |-> NoVisit]
    /\ out = {}
    /\ lateVotes = {}

-----------------------------------------------------------------------------
(* The waiting room of one process. *)

\* register_join_intent: where pupil s is after asking for access.
Registered(r, s) ==
    IF r.place[s] \in {"removed", "admitted"} THEN r.place[s]
    ELSE IF r.gate THEN "waiting" ELSE "admitted"

Seated(r, s) == [r EXCEPT !.place[s] = Registered(r, s)]

\* The host's acts reach one process.
HostActs(p, r) ==
    /\ room' = [room EXCEPT ![p] = r]
    /\ UNCHANGED <<process, lessonRows, board, visit>>

\* admit_user
Admit(p, s) ==
    /\ room[p].place[s] # "admitted"
    /\ HostActs(p, [room[p] EXCEPT !.place[s] = "admitted"])
    /\ out' = {o \in out : o[2] # s}
    /\ UNCHANGED lateVotes

\* reject_user
Rejected(r, s) == [r EXCEPT !.place[s] = "removed"]

\* remove_user
Remove(p, s) ==
    /\ HostActs(p, Rejected(room[p], s))
    /\ out' = out \union {<<p, s>>}
    /\ UNCHANGED lateVotes

\* set_waiting_room_enabled: without the waiting room, who waits is admitted.
SetGate(p, gate) ==
    /\ room[p].gate # gate
    /\ HostActs(p, [gate |-> gate, place |-> [s \in Pupils |->
          IF ~gate /\ room[p].place[s] = "waiting" THEN "admitted" ELSE room[p].place[s]]])
    /\ UNCHANGED <<out, lateVotes>>

\* A process ends: its rooms are forgotten and its requests rolled back.
ProcessEnds(p) ==
    /\ room' = [room EXCEPT ![p] = NewRoom]
    /\ visit' = [w \in Workers |-> IF process[w] = p THEN NoVisit ELSE visit[w]]
    /\ out' = {o \in out : o[1] # p}
    /\ UNCHANGED <<process, lessonRows, board, lateVotes>>

-----------------------------------------------------------------------------
(* Messages: the INSERT takes an id, the COMMIT makes the row visible. *)

\* A message of the host: its id is taken and its row committed at once.
Announce(row) ==
    /\ board.given < MaxMessages
    /\ lesson' = row
    /\ board' = [board EXCEPT !.given = @ + 1, !.posted = @ \union {board.given + 1}]
    /\ UNCHANGED <<process, room, votes, seat, visit, out>>

\* start_live_class: a class that has ended may start again.
StartClass == Announce([lesson EXCEPT !.ended = FALSE]) /\ UNCHANGED lateVotes

\* end_live_class
EndClass == Announce([lesson EXCEPT !.ended = TRUE]) /\ UNCHANGED lateVotes

\* provider_start_live_poll
StartPoll ==
    /\ lesson.poll < MaxPolls
    /\ Announce([lesson EXCEPT !.poll = @ + 1, !.open = TRUE])
    /\ UNCHANGED lateVotes

\* provider_send_live_message, provider_update_live_board
HostMessage == Announce(lesson) /\ UNCHANGED lateVotes

Voting(k) == {w \in Workers : visit[w].poll = k}

\* provider_close_live_poll announces the tally.
ClosePoll ==
    /\ lesson.poll # 0
    /\ Announce([lesson EXCEPT !.open = FALSE, !.announced[lesson.poll] = {votes[lesson.poll]}])
    /\ lateVotes' = lateVotes \union {k \in {lesson.poll} : Voting(k) # {}}

\* The last message a page has.
After(b, m) == \A n \in b.seen : n < m

\* Mutant of ReadOn: the page is sent the last message.
ReadLast(b) == {m \in b.posted : After(b, m) /\ \A n \in b.posted : n <= m}

\* The rows after the last one the page has, in the order of their ids.
ReadOn(b) == {m \in b.posted : After(b, m)}

\* provider_live_messages, student_live_messages
ReadMessages ==
    /\ ReadOn(board) # {}
    /\ board' = [board EXCEPT !.seen = @ \union ReadOn(board)]
    /\ UNCHANGED <<process, room, lessonRows, visit, out, lateVotes>>

-----------------------------------------------------------------------------
(* A pupil's requests. *)

\* What is set in the row of a pupil who asks for `op`: join_live_class_session
\* sets whether he is present, student_raise_hand only in a row it adds.
SeatFor(s, op, admitted) ==
    LET new == IF admitted THEN "here" ELSE "away" IN
    IF op = "join" \/ (op = "hand" /\ seat[s] = "none")
    THEN [insert |-> seat[s] = "none", seat |-> IF seat[s] = new THEN "same" ELSE new]
    ELSE [insert |-> FALSE, seat |-> "same"]

\* _ensure_student_live_access, and what the request reads.  A pupil the host
\* has removed in another process is served here as any other.
Ask(w, s, op) ==
    LET r == Seated(room[process[w]], s)
        admitted == r.place[s] = "admitted"
        set == SeatFor(s, op, admitted)
    IN
    /\ room' = [room EXCEPT ![process[w]] = r]
    /\ visit' = [visit EXCEPT ![w] =
          [pupil |-> {s}, admitted |-> admitted, poll |-> IF op = "vote" THEN lesson.poll ELSE 0,
           id |-> 0, insert |-> set.insert, seat |-> set.seat]]
    /\ UNCHANGED <<process, lessonRows, board, out, lateVotes>>

\* The request is answered at once; it is a step when a pupil who asks begins to
\* wait.
Refuse(w, s) ==
    /\ Registered(room[process[w]], s) # room[process[w]].place[s]
    /\ room' = [room EXCEPT ![process[w]] = Seated(@, s)]
    /\ UNCHANGED <<process, lessonRows, board, visit, out, lateVotes>>

Resting(w) == visit[w] = NoVisit
Status(w, s) == Registered(room[process[w]], s)

\* student_poll_vote asks for an open poll.
PollOpen == lesson.open

\* What a request asks for before it writes.
Permitted(w, s, op) ==
    CASE op = "join" -> ~lesson.ended /\ Status(w, s) # "removed"
      [] op = "message" -> ~lesson.ended /\ Status(w, s) = "admitted"
      [] op = "hand" -> Status(w, s) = "admitted"
      [] op = "vote" -> Status(w, s) = "admitted" /\ PollOpen

AskAccess(w, s, op) == Resting(w) /\ Permitted(w, s, op) /\ Ask(w, s, op)

\* join asks for the status of the class first.
AskInVain(w, s, op) ==
    /\ Resting(w) /\ ~Permitted(w, s, op)
    /\ op = "join" => ~lesson.ended
    /\ Refuse(w, s)

\* leave_live_class_session does not ask for access.
Leave(w, s) ==
    /\ Resting(w)
    /\ visit' = [visit EXCEPT ![w] = [NoVisit EXCEPT !.pupil = {s},
                    !.seat = IF seat[s] = "here" THEN "away" ELSE "same"]]
    /\ UNCHANGED <<process, room, lessonRows, board, out, lateVotes>>

\* student_live_classes asks for the status in every class of the pupil's courses.
ListClasses(w, s) == Resting(w) /\ Refuse(w, s)

\* Mutant of SeenSeat: whoever has a row is present when he looks.
SeenSeatAlways(r, s) == IF seat[s] = "none" THEN "none" ELSE "here"

\* _student_live_room_state brings the row up to date with the room of its process.
SeenSeat(r, s) ==
    IF seat[s] = "none" THEN "none" ELSE IF r.place[s] = "admitted" THEN "here" ELSE "away"

\* To look at the class is to be in it, or to be away.
SeeRoom(w, s) ==
    LET r == Seated(room[process[w]], s) IN
    /\ Resting(w)
    /\ r # room[process[w]] \/ SeenSeat(r, s) # seat[s]
    /\ room' = [room EXCEPT ![process[w]] = r]
    /\ seat' = [seat EXCEPT ![s] = SeenSeat(r, s)]
    /\ UNCHANGED <<process, lesson, votes, board, visit, out, lateVotes>>

\* _provider_live_room_state: the pupils the host is shown.
Roster == {s \in Pupils : seat[s] = "here"}

\* The flush inserts the message; another may be flushed and not committed.
Flush(w) ==
    /\ ~Resting(w) /\ visit[w].id = 0
    /\ board.given < MaxMessages
    /\ board' = [board EXCEPT !.given = @ + 1]
    /\ visit' = [visit EXCEPT ![w].id = board.given + 1]
    /\ UNCHANGED <<process, room, lessonRows, out, lateVotes>>

\* The commit.
Post(w) ==
    /\ visit[w].id # 0
    /\ visit[w].insert => \A s \in visit[w].pupil : seat[s] = "none"
    /\ seat' = [s \in Pupils |-> IF s \in visit[w].pupil /\ visit[w].seat # "same"
                                THEN visit[w].seat ELSE seat[s]]
    /\ votes' = IF visit[w].poll = 0 THEN votes
                ELSE [votes EXCEPT ![visit[w].poll] = @ \union visit[w].pupil]
    /\ board' = [board EXCEPT !.posted = @ \union {visit[w].id}]
    /\ visit' = [visit EXCEPT ![w] = NoVisit]
    /\ UNCHANGED <<process, room, lesson, out, lateVotes>>

\* It is rolled back: a participant or a vote inserted meanwhile refuses this
\* one, or the request fails.  Its id is not given again.
RollBack(w) ==
    /\ ~Resting(w)
    /\ visit' = [visit EXCEPT ![w] = NoVisit]
    /\ UNCHANGED <<process, room, lessonRows, board, out, lateVotes>>

LiveNext ==
    \/ StartClass \/ EndClass \/ StartPoll \/ ClosePoll \/ HostMessage
    \/ ReadMessages
    \/ \E p \in Staffed :
         \/ \E s \in Pupils : Admit(p, s) \/ Remove(p, s)
         \/ \E gate \in BOOLEAN : SetGate(p, gate)
         \/ ProcessEnds(p)
    \/ \E w \in Workers :
         \/ \E s \in Pupils :
              \/ \E op \in {"join", "message", "hand", "vote"} : AskAccess(w, s, op) \/ AskInVain(w, s, op)
              \/ Leave(w, s) \/ ListClasses(w, s) \/ SeeRoom(w, s)
         \/ Flush(w) \/ Post(w) \/ RollBack(w)

LiveSpec == LiveInit /\ [][LiveNext]_liveVars

-----------------------------------------------------------------------------
(* Properties. *)

LiveTypeOK ==
    /\ room \in [Processes -> [gate : BOOLEAN, place : [Pupils -> Places]]]
    /\ lesson \in Lesson
    /\ votes \in [Polls -> SUBSET Pupils]
    /\ seat \in [Pupils -> Seats]
    /\ board.posted \subseteq 1..board.given /\ board.seen \subseteq board.posted
    /\ board.given <= MaxMessages
    /\ visit \in [Workers -> Visit]
    /\ out \subseteq Processes \X Pupils
    /\ lateVotes \subseteq Polls

\* Messages a page will not ask for any more and does not have.
Missed(b) == {m \in b.posted \ b.seen : ~After(b, m)}

\* A page that asks for the messages after the last one it has misses none of
\* those that are there: only one that is committed after a message with a
\* greater id was read.
MessagesSeen == [][Missed(board') \intersect board.posted \subseteq Missed(board)]_liveVars

\* The tally announced when a poll is closed is the tally of its votes, unless
\* a vote that found the poll open is committed after it.
TallyStands ==
    \A k \in Polls \ lateVotes : lesson.announced[k] \subseteq {votes[k]}

\* A process in which the host has removed a pupil serves him no more until
\* the host admits him: asking again, opening the waiting room, and a class
\* that starts anew do not help.  And the host is shown as present only who is,
\* or was when he asked, admitted in the process that served him.
RemovedStayOut ==
    [][/\ \A w \in Workers : (visit'[w].admitted /\ ~visit[w].admitted) =>
            \A s \in visit'[w].pupil : <<process[w], s>> \notin out
       /\ \A s \in Roster' \ Roster :
            \/ \E p \in Processes : room'[p].place[s] = "admitted" /\ <<p, s>> \notin out
            \/ \E w \in Workers : visit[w].admitted /\ s \in visit[w].pupil]_liveVars
=============================================================================
