---------------------------- MODULE EnglishRunner ----------------------------
(***************************************************************************)
(* The language assessment a candidate works through in the page           *)
(* (EnglishAssessmentRunner.tsx): timed sections one after the other, audio *)
(* that is heard once, spoken answers that are recorded and uploaded, and  *)
(* the checkpoint a reload goes back to.  Time passes in ticks.            *)
(***************************************************************************)
EXTENDS Integers, Sequences

CONSTANTS
    SectionTicks,    \* bound: ticks a section lasts
    RecordTicks,     \* bound: ticks the longest recording lasts
    MaxVisits        \* bound: times the page is loaded

ASSUME RunnerAssumption ==
    SectionTicks \in Nat \ {0} /\ RecordTicks \in Nat /\ MaxVisits \in Nat

VARIABLES
    open,       \* where the candidate is: "away", "work", "submitted"
    run,        \* the runner's own progress
    resp,       \* the responses the page holds
    audio,      \* the item whose audio plays
    voice,      \* the item whose answer is prepared, recorded or uploaded
    heldUp,     \* whether a dialog of the page pauses the section's timer
    shown,      \* the progress the panel was last told of
    checkpoint, \* progress and responses at the server
    visits,
    spent,      \* history: ticks each section's timer ran
    ranOut      \* history: whether a section was ended by its timer

runnerVars ==
    <<open, run, resp, audio, voice, heldUp, shown, checkpoint, visits, spent, ranOut>>

-----------------------------------------------------------------------------
\* Two sections with an item of each kind that acts differently; the second
\* asks for a microphone check.
Kinds == << <<"audio">>, <<"choice", "speaking">> >>
Parts == 1..Len(Kinds)
Items == UNION {{<<s, i>> : i \in 1..Len(Kinds[s])} : s \in Parts}
KindOf(item) == Kinds[item[1]][item[2]]
NoItem == <<0, 0>>

\* A response is missing, shorter than it has to be, or there.
Response == {"none", "short", "ready"}
NoResponse == [item \in Items |-> "none"]

Progress == [sec : Parts, item : 1..2, phase : {"intro", "task", "complete"},
             left : 0..SectionTicks, done : SUBSET Parts]
Start == [sec |-> 1, item |-> 1, phase |-> "intro", left |-> SectionTicks, done |-> {}]

\* The spoken answer: its preparation, its recorder, its upload, one at a time.
Voice == [item : Items \union {NoItem}, at : {"none", "prepare", "prepared", "record", "upload"},
          ticks : 0..RecordTicks]
Silent == [item |-> NoItem, at |-> "none", ticks |-> 0]

RunnerInit ==
    /\ open = "away"
    /\ run = Start /\ shown = Start
    /\ resp = NoResponse
    /\ audio = NoItem /\ voice = Silent
    /\ heldUp = FALSE
    /\ checkpoint = [run |-> Start, resp |-> NoResponse]
    /\ visits = 0
    /\ spent = [s \in Parts |-> 0]
    /\ ranOut = FALSE

Current == <<run.sec, run.item>>
OnTask(kind) == open = "work" /\ run.phase = "task" /\ KindOf(Current) = kind

\* The panel is told of every move at once, and of the time left now and then.
Move(next) == run' = next /\ shown' = next

-----------------------------------------------------------------------------
(* Loading. *)

\* A time of nothing left is taken for no time saved.
Resumed(saved) == [saved EXCEPT !.left = IF saved.left = 0 THEN SectionTicks ELSE saved.left]

Load ==
    /\ open = "away" /\ visits < MaxVisits
    /\ open' = "work"
    /\ Move(Resumed(checkpoint.run))
    /\ resp' = checkpoint.resp
    /\ visits' = visits + 1
    /\ UNCHANGED <<audio, voice, heldUp, checkpoint, spent, ranOut>>

\* The page goes: what plays, is recorded or is on its way is lost to it.
Quit ==
    /\ open = "work"
    /\ open' = "away"
    /\ audio' = NoItem /\ voice' = Silent /\ heldUp' = FALSE
    /\ UNCHANGED <<run, resp, shown, checkpoint, visits, spent, ranOut>>

\* The runner's ten-second report, and the panel's checkpoint of what it knows.
Report ==
    /\ open = "work" /\ run.phase = "task"
    /\ shown' = run
    /\ UNCHANGED <<open, run, resp, audio, voice, heldUp, checkpoint, visits, spent, ranOut>>

Checkpoint ==
    /\ open = "work"
    /\ checkpoint' = [run |-> shown, resp |-> resp]
    /\ UNCHANGED <<open, run, resp, audio, voice, heldUp, shown, visits, spent, ranOut>>

-----------------------------------------------------------------------------
(* Sections. *)

\* startSection: after the microphone check where one is asked for.
StartSection ==
    /\ open = "work" /\ run.phase = "intro"
    /\ Move([run EXCEPT !.item = 1, !.left = SectionTicks, !.phase = "task"])
    /\ UNCHANGED <<open, resp, audio, voice, heldUp, checkpoint, visits, spent, ranOut>>

\* What follows a section: the introduction of the next, or the end.
AfterSection ==
    IF run.sec < Len(Kinds)
    THEN [run EXCEPT !.done = @ \union {run.sec}, !.sec = @ + 1, !.item = 1,
                     !.left = SectionTicks, !.phase = "intro"]
    ELSE [run EXCEPT !.done = @ \union {run.sec}, !.phase = "complete"]

Answered(item) == resp[item] = "ready"

\* nextTask: what plays is stopped, and what is prepared forgotten.
NextTask ==
    /\ open = "work" /\ run.phase = "task"
    /\ Answered(Current)
    /\ voice.at \notin {"record", "upload"}
    /\ Move(IF run.item < Len(Kinds[run.sec]) THEN [run EXCEPT !.item = @ + 1] ELSE AfterSection)
    /\ audio' = NoItem /\ voice' = Silent
    /\ UNCHANGED <<open, resp, heldUp, checkpoint, visits, spent, ranOut>>

\* A recorder that is stopped hands its recording to the upload.
Stopped(v) == IF v.at = "record" THEN [v EXCEPT !.at = "upload"] ELSE v

\* A recorder that has run for the longest time is stopped.
Passed(v) ==
    CASE v.at = "prepare" -> [v EXCEPT !.at = "prepared"]
      [] v.at = "record"  -> IF v.ticks + 1 >= RecordTicks
                             THEN [v EXCEPT !.ticks = RecordTicks, !.at = "upload"]
                             ELSE [v EXCEPT !.ticks = @ + 1]
      [] OTHER            -> v

\* Mutant of SectionTimer: the timer goes round.
SectionTimerAgain ==
    /\ open = "work" /\ run.phase = "task" /\ ~heldUp
    /\ spent' = [spent EXCEPT ![run.sec] = @ + 1]
    /\ run' = [run EXCEPT !.left = IF @ > 1 THEN @ - 1 ELSE SectionTicks]
    /\ voice' = Passed(voice)
    /\ UNCHANGED <<open, resp, audio, heldUp, shown, checkpoint, visits, ranOut>>

\* A second of the section: at the last its recorder is stopped and the section
\* is over, with the audio that plays left to play.
SectionTimer ==
    /\ open = "work" /\ run.phase = "task" /\ ~heldUp
    /\ spent' = [spent EXCEPT ![run.sec] = @ + 1]
    /\ IF run.left > 1
       THEN /\ run' = [run EXCEPT !.left = @ - 1]
            /\ voice' = Passed(voice)
            /\ UNCHANGED <<shown, ranOut>>
       ELSE /\ Move([AfterSection EXCEPT !.left = IF run.sec < Len(Kinds) THEN @ ELSE 0])
            /\ voice' = Stopped(Passed(voice))
            /\ ranOut' = TRUE
    /\ UNCHANGED <<open, resp, audio, heldUp, checkpoint, visits>>

\* Preparation and recorder have timers of their own that no dialog pauses.
VoiceTimer ==
    /\ open = "work" /\ heldUp /\ voice.at \in {"prepare", "record"}
    /\ voice' = Passed(voice)
    /\ UNCHANGED <<open, run, resp, audio, heldUp, shown, checkpoint, visits, spent, ranOut>>

HoldUp ==
    /\ open = "work"
    /\ heldUp' = ~heldUp
    /\ UNCHANGED <<open, run, resp, audio, voice, shown, checkpoint, visits, spent, ranOut>>

-----------------------------------------------------------------------------
(* Responses. *)

Answer ==
    /\ OnTask("choice")
    /\ resp' = [resp EXCEPT ![Current] = "ready"]
    /\ UNCHANGED <<open, run, audio, voice, heldUp, shown, checkpoint, visits, spent, ranOut>>

\* playAudio: one at a time, until it has been heard to its end.
PlayAudio ==
    /\ OnTask("audio")
    /\ audio = NoItem /\ ~Answered(Current)
    /\ audio' = Current
    /\ UNCHANGED <<open, run, resp, voice, heldUp, shown, checkpoint, visits, spent, ranOut>>

AudioEnds ==
    /\ open = "work" /\ audio # NoItem
    /\ audio' = NoItem
    /\ \/ resp' = [resp EXCEPT ![audio] = "ready"]
       \/ UNCHANGED resp
    /\ UNCHANGED <<open, run, voice, heldUp, shown, checkpoint, visits, spent, ranOut>>

\* prepareOrRecord: first the preparation, then the recorder; a response that
\* is there is locked.
PrepareOrRecord ==
    /\ OnTask("speaking")
    /\ resp[Current] = "none"
    /\ voice.at \in {"none", "prepare", "prepared"}
    /\ \/ voice.item # Current /\ voice' = [item |-> Current, at |-> "prepare", ticks |-> 0]
       \/ voice.item = Current /\ voice.at = "prepared" /\ voice' = [voice EXCEPT !.at = "record"]
    /\ UNCHANGED <<open, run, resp, audio, heldUp, shown, checkpoint, visits, spent, ranOut>>

StopRecording ==
    /\ open = "work" /\ voice.at = "record"
    /\ voice' = Stopped(voice)
    /\ UNCHANGED <<open, run, resp, audio, heldUp, shown, checkpoint, visits, spent, ranOut>>

\* The upload ends: with an answer, whatever the section by then, or without one.
Uploaded ==
    /\ open = "work" /\ voice.at = "upload"
    /\ resp' = [resp EXCEPT ![voice.item] = IF voice.ticks > 0 THEN "ready" ELSE "short"]
    /\ voice' = Silent
    /\ UNCHANGED <<open, run, audio, heldUp, shown, checkpoint, visits, spent, ranOut>>

UploadFails ==
    /\ open = "work" /\ voice.at = "upload"
    /\ voice' = [voice EXCEPT !.at = "prepared", !.ticks = 0]
    /\ UNCHANGED <<open, run, resp, audio, heldUp, shown, checkpoint, visits, spent, ranOut>>

\* The button of the last page, whether or not a recording is still on its way.
SubmitWork ==
    /\ open = "work" /\ run.phase = "complete"
    /\ open' = "submitted"
    /\ audio' = NoItem /\ voice' = Silent
    /\ UNCHANGED <<run, resp, heldUp, shown, checkpoint, visits, spent, ranOut>>

RunnerNext ==
    \/ Load \/ Quit \/ Report \/ Checkpoint
    \/ StartSection \/ NextTask \/ SectionTimer \/ VoiceTimer \/ HoldUp
    \/ Answer \/ PlayAudio \/ AudioEnds
    \/ PrepareOrRecord \/ StopRecording \/ Uploaded \/ UploadFails
    \/ SubmitWork

-----------------------------------------------------------------------------
(* Properties. *)

RunnerTypeOK ==
    /\ open \in {"away", "work", "submitted"}
    /\ {run, shown, checkpoint.run} \subseteq Progress
    /\ {resp, checkpoint.resp} \subseteq [Items -> Response]
    /\ audio \in Items \union {NoItem} /\ voice \in Voice
    /\ {heldUp, ranOut} \subseteq BOOLEAN
    /\ visits \in 0..MaxVisits
    /\ spent \in [Parts -> 0..(SectionTicks * MaxVisits)]

\* A section that is done has all its responses, however often the page was
\* loaded anew, unless a section's time ran out.
DoneIsAnswered ==
    ~ranOut => \A s \in run.done : \A item \in Items : item[1] = s => Answered(item)

\* Between two loads of the page no section lasts longer than its time.
SectionTimeHolds == \A s \in Parts : spent[s] <= SectionTicks * visits

\* A section that is begun ends, even with a response that is too short and
\* locked, unless a dialog holds its timer or the page is left.
SectionEnds ==
    (open = "work" /\ run.phase = "task") ~> (open # "work" \/ run.phase # "task" \/ heldUp)
=============================================================================
