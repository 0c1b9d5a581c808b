--------------------------- MODULE MCCandidatePage ---------------------------
(* The page of a candidate: its drafts and its submission, the runner of a *)
(* language assessment, and what watches the candidate.                    *)
EXTENDS CandidateBrowser, EnglishRunner, SessionCapture

VARIABLE part

pageVars == <<browserVars, runnerVars, captureVars, part>>

PageInit ==
    /\ BrowserInit /\ RunnerInit /\ CaptureInit
    /\ part \in {"drafts", "runner", "capture"}

OfDrafts == part = "drafts" /\ UNCHANGED <<runnerVars, captureVars, part>>
OfRunner == part = "runner" /\ UNCHANGED <<browserVars, captureVars, part>>

PageNext ==
    \/ BrowserNext /\ OfDrafts
    \/ RunnerNext /\ OfRunner
    \/ part = "capture" /\ CaptureNext /\ UNCHANGED <<browserVars, runnerVars, part>>

\* The page's timers tick while they may, and a submit that is not lost is handled.
PageSpec ==
    /\ PageInit /\ [][PageNext]_pageVars
    /\ WF_pageVars(TimeUp /\ OfDrafts)
    /\ WF_pageVars(Handle("submit") /\ OfDrafts)
    /\ WF_pageVars(SectionTimer /\ OfRunner)

\* What each part keeps.
PageTypeOK == BrowserTypeOK /\ RunnerTypeOK /\ CaptureTypeOK

\* A page never shows more than there is: as saved, or by its thanks.
ShownIsStored == SavedIsRestored /\ ThankedIsStored

\* The runner of a language assessment keeps its order and its time.
SectionsHold == DoneIsAnswered /\ SectionTimeHolds

\* A session is watched while it is on, and only then, and fairly.
WatchHolds == CaptureHolds /\ SignalsAreSustained

\* A sitting: its sections and its supervision.
SittingHolds == SectionsHold /\ WatchHolds

\* Whoever's time runs out is not kept waiting.
TimeEnds == TimeUpEnds /\ SectionEnds
=============================================================================
