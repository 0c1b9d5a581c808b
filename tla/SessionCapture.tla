---------------------------- MODULE SessionCapture ----------------------------
(***************************************************************************)
(* What watches a candidate in the page: the camera and its gaze model     *)
(* (useCandidateGazeProctor.ts) and the recorder of flagged moments        *)
(* (useFlaggedSessionRecorder.ts), begun by acceptConsent and ended with   *)
(* the session (IssuedCandidatePanel.tsx).  Each try at consent asks for   *)
(* streams of its own, which the user may end; a tick is one frame, and    *)
(* the times a sign has to last are a few ticks each.                      *)
(***************************************************************************)
EXTENDS Integers

CONSTANTS
    MaxTries,     \* bound: times consent is given
    AwayTicks,    \* AWAY_WARNING_MS
    CoolTicks,    \* AWAY_WARNING_COOLDOWN_MS
    GraceTicks,   \* the time after a use of the page's own navigation
    FacesTicks    \* MULTI_FACE_CONFIRM_MS

ASSUME CaptureAssumption ==
    {MaxTries, AwayTicks, GraceTicks, FacesTicks} \subseteq Nat /\ CoolTicks \in Nat \ {0}

VARIABLES
    consent,    \* where the panel is in giving consent
    tries,
    cameras,    \* camera streams that run
    camera,     \* the one the hook holds (streamRef)
    watching,   \* whether its frames are looked at (frameTimerRef)
    screens,    \* screen streams that run
    screen,     \* the one the recorder holds (screenStreamRef)
    recording,  \* activeRef
    unshared,   \* history: whether the user ended a shared screen
    sign,       \* for how long each sign has been seen, -1 when it is not
    rest,       \* ticks since the last signal of its kind
    grace,      \* ticks for which looking away is not counted
    sure        \* history: ticks since what spoke against each sign, and the signals of this frame

captureVars ==
    <<consent, tries, cameras, camera, watching, screens, screen, recording, unshared,
      sign, rest, grace, sure>>

streamVars == <<cameras, camera, watching, screens, screen, recording>>
signVars == <<sign, rest, grace, sure>>

-----------------------------------------------------------------------------
Steps == {"asked", "consent", "camera", "calibrate", "on", "over"}
Tries == 1..MaxTries
Signs == {"away", "faces"}
Confirm == [s \in Signs |-> IF s = "away" THEN AwayTicks ELSE FacesTicks]
Longest == CoolTicks + GraceTicks + AwayTicks + FacesTicks
Later(n, most) == IF n < most THEN n + 1 ELSE n

Unseen == [s \in Signs |-> -1]
Quiet == [against |-> [s \in Signs |-> 0], moved |-> Longest, signals |-> {}]

CaptureInit ==
    /\ consent = "idle" /\ tries = 0
    /\ cameras = {} /\ camera = 0 /\ watching = FALSE
    /\ screens = {} /\ screen = 0 /\ recording = FALSE
    /\ unshared = FALSE
    /\ sign = Unseen /\ rest = [s \in Signs |-> CoolTicks] /\ grace = 0
    /\ sure = Quiet

-----------------------------------------------------------------------------
(* Consent. *)

\* requestScreen
AcceptConsent ==
    /\ consent = "idle" /\ tries < MaxTries
    /\ consent' = "asked"
    /\ tries' = tries + 1
    /\ UNCHANGED <<streamVars, unshared, signVars>>

\* A screen shared before is kept running, and its end still stops the recorder.
ScreenShared ==
    /\ consent = "asked"
    /\ screens' = screens \union {tries} /\ screen' = tries
    /\ consent' = "consent"
    /\ UNCHANGED <<tries, cameras, camera, watching, recording, unshared, signVars>>

\* The screen is not shared, or the service does not take the consent.
ConsentFails ==
    /\ consent \in {"asked", "consent"}
    /\ consent' = "idle"
    /\ UNCHANGED <<tries, streamVars, unshared, signVars>>

\* The consent is stored, or a failure of the service is passed over.
Consented ==
    /\ consent = "consent"
    /\ consent' = "camera"
    /\ UNCHANGED <<tries, streamVars, unshared, signVars>>

CameraGranted ==
    /\ consent = "camera"
    /\ cameras' = cameras \union {tries} /\ camera' = tries
    /\ consent' = "calibrate"
    /\ UNCHANGED <<tries, watching, screens, screen, recording, unshared, signVars>>

\* stop of the hook
StopCamera ==
    /\ cameras' = cameras \ {camera} /\ camera' = 0
    /\ watching' = FALSE
    /\ sign' = Unseen
    /\ rest' = [rest EXCEPT !["faces"] = CoolTicks]
    /\ sure' = [Quiet EXCEPT !.moved = sure.moved]
    /\ UNCHANGED grace

\* stop of the recorder
StopRecorder ==
    /\ screens' = screens \ {screen} /\ screen' = 0
    /\ recording' = FALSE

\* No camera, no model, no clear face, or a screen that is not shared again.
CameraFails ==
    /\ consent \in {"camera", "calibrate"}
    /\ StopCamera /\ StopRecorder
    /\ consent' = "idle"
    /\ UNCHANGED <<tries, unshared>>

\* The hook is active, and the recorder asks again for a screen that is gone.
Calibrated ==
    /\ consent = "calibrate"
    /\ watching' = TRUE
    /\ screen' = (IF screen = 0 THEN tries ELSE screen)
    /\ screens' = screens \union {screen'}
    /\ recording' = TRUE
    /\ consent' = "on"
    /\ UNCHANGED <<tries, cameras, camera, unshared, signVars>>

\* The user ends a screen he shares: what any of them calls is the same stop.
EndShare ==
    /\ \E s \in screens :
         /\ screens' = screens \ {s, screen}
         /\ screen' = 0 /\ recording' = FALSE
    /\ unshared' = TRUE
    /\ UNCHANGED <<consent, tries, cameras, camera, watching, signVars>>

\* finishCandidateSession
Finish ==
    /\ consent = "on"
    /\ StopCamera /\ StopRecorder
    /\ consent' = "over"
    /\ UNCHANGED <<tries, unshared>>

-----------------------------------------------------------------------------
(* Frames. *)

\* What a frame shows: how many faces, and whether the one face looks away; or
\* the detector fails.
Seen == [faces : 0..2, away : BOOLEAN, fails : BOOLEAN]
Looks(seen) == seen.faces = 1 /\ seen.away

\* Mutant of Lasting: a look away is not forgotten while no face is seen.
LastingUnseen(seen) ==
    [s \in Signs |->
        CASE seen.faces = 1 /\ (s = "faces" \/ ~seen.away) -> -1
          [] seen.faces = 0 -> IF sign[s] = -1 THEN -1 ELSE Later(sign[s], Confirm[s])
          [] s = "away" /\ (seen.faces = 2 \/ grace > 0) -> -1
          [] OTHER -> Later(sign[s], Confirm[s])]

\* Since when each sign is seen: two faces are forgotten when there is one, and
\* a look away when there is none; neither while the page's own navigation is used.
Lasting(seen) ==
    [s \in Signs |->
        CASE s = "faces" /\ seen.faces = 1          -> -1
          [] s = "faces" /\ seen.faces = 0          -> IF sign[s] = -1 THEN -1 ELSE Later(sign[s], Confirm[s])
          [] s = "away" /\ (~Looks(seen) \/ grace > 0) -> -1
          [] OTHER                                  -> Later(sign[s], Confirm[s])]

\* The signs that have lasted, unless one of their kind was signalled lately.
Sure(lasting, seen) ==
    {s \in Signs : lasting[s] >= Confirm[s] /\ rest[s] >= CoolTicks
                   /\ (s = "faces" => seen.faces = 2)}

\* What speaks against a sign.
Denied(seen) == [away |-> ~Looks(seen), faces |-> seen.faces = 1]

Frame(seen) ==
    /\ watching
    /\ grace' = IF grace > 0 THEN grace - 1 ELSE 0
    /\ LET signals == IF seen.fails THEN {} ELSE Sure(Lasting(seen), seen)
       IN /\ sign' = IF seen.fails THEN [s \in Signs |-> IF sign[s] = -1 THEN -1 ELSE Later(sign[s], Confirm[s])]
                     ELSE Lasting(seen)
          /\ rest' = [s \in Signs |-> IF s \in signals THEN 0 ELSE Later(rest[s], CoolTicks)]
          /\ sure' = [against |-> [s \in Signs |-> IF ~seen.fails /\ Denied(seen)[s] THEN 0
                                                   ELSE Later(sure.against[s], Longest)],
                      moved |-> Later(sure.moved, Longest), signals |-> signals]
    /\ UNCHANGED <<consent, tries, streamVars, unshared>>

\* The pointer is over the page's own navigation.
Navigate ==
    /\ consent = "on"
    /\ grace' = GraceTicks
    /\ sign' = [sign EXCEPT !["away"] = -1]
    /\ sure' = [sure EXCEPT !.moved = 0, !.signals = {}]
    /\ UNCHANGED <<consent, tries, streamVars, unshared, rest>>

CaptureNext ==
    \/ AcceptConsent \/ ScreenShared \/ ConsentFails \/ Consented
    \/ CameraGranted \/ CameraFails \/ Calibrated
    \/ EndShare \/ Finish
    \/ \E seen \in Seen : Frame(seen)
    \/ Navigate

-----------------------------------------------------------------------------
(* Properties. *)

CaptureTypeOK ==
    /\ consent \in Steps \union {"idle"}
    /\ tries \in 0..MaxTries
    /\ {cameras, screens} \subseteq SUBSET Tries
    /\ {camera, screen} \subseteq 0..MaxTries
    /\ {watching, recording, unshared} \subseteq BOOLEAN
    /\ sign \in [Signs -> -1..Longest]
    /\ rest \in [Signs -> 0..CoolTicks]
    /\ grace \in 0..GraceTicks
    /\ sure \in [against : [Signs -> 0..Longest], moved : 0..Longest, signals : SUBSET Signs]

\* A session is recorded from its camera and its screen for as long as it is on,
\* unless the user ended a screen; and when it is over no camera runs, nor the
\* screen it recorded: only screens of tries whose consent was not taken may.
CaptureHolds ==
    /\ consent = "on" => camera \in cameras /\ watching
    /\ consent = "on" /\ ~unshared => recording /\ screen \in screens
    /\ consent = "over" => cameras = {} /\ ~watching /\ ~recording /\ tries \notin screens
    /\ cameras \subseteq {camera}

\* A signal is of a sign nothing spoke against for as long as it has to last; a
\* look away is not signalled soon after the page's own navigation was used.
SignalsAreSustained ==
    \A s \in sure.signals :
      /\ sure.against[s] > Confirm[s]
      /\ s = "away" => sure.moved > GraceTicks + AwayTicks
=============================================================================
