---------------------------- MODULE ReviewEvidence ----------------------------
(***************************************************************************)
(* The spoken answer to one item of an issued assessment, the clips of its *)
(* integrity signals, and the labels reviewers give the signals (exams.py):*)
(* files are stored before their rows, and an upload takes its time while  *)
(* the candidate submits.                                                  *)
(***************************************************************************)
EXTENDS Naturals

CONSTANTS
    Uploads,    \* requests that may run at a time
    MaxFiles    \* bound: recordings ever stored

ASSUME EvidenceAssumption == MaxFiles \in Nat

VARIABLES
    attempt,    \* status of the issue
    files,      \* recordings in the storage
    stored,     \* recordings ever stored, over which file names run
    rows,       \* assessment_review_clips of the item: the file each names
    answer,     \* the file the browser has been told of
    named,  \* the file named in submitted_data_json
    clip,       \* whether the signal's clip has a row
    label,      \* the reviewer's label of the signal
    upload,     \* what each request is doing
    slips       \* history: what happened beside one upload after the other

evidenceVars == <<attempt, files, stored, rows, answer, named, clip, label, upload, slips>>

-----------------------------------------------------------------------------
NoFile == 0
File == 0..MaxFiles

Waiting == [op |-> "none", file |-> NoFile, over |-> {}]

EvidenceInit ==
    /\ attempt = "started"
    /\ files = {} /\ stored = 0
    /\ rows = {}
    /\ answer = NoFile /\ named = NoFile
    /\ clip = FALSE
    /\ label = "none"
    /\ upload = [u \in Uploads |-> Waiting]
    /\ slips = {}

Active == attempt = "started"

UploadIs(u, job) == upload' = [upload EXCEPT ![u] = job]
UploadsOf(op) == {u \in Uploads : upload[u].op \in op}
Answering == {"speak", "keep", "replace"}

-----------------------------------------------------------------------------
(* upload_issued_language_response_audio *)

\* The status is checked, and then the body is awaited.
Speak(u) ==
    /\ Active
    /\ upload[u] = Waiting
    /\ UploadIs(u, [Waiting EXCEPT !.op = "speak"])
    /\ slips' = slips \union {s \in {"two"} : UploadsOf(Answering) # {}}
    /\ UNCHANGED <<attempt, files, stored, rows, answer, named, clip, label>>

\* The recording is stored under a name of its own, and the row looked up.
Keep(u) ==
    /\ upload[u].op = "speak"
    /\ stored < MaxFiles
    /\ stored' = stored + 1
    /\ files' = files \union {stored'}
    /\ \E over \in IF rows = {} THEN {{}} ELSE {{r} : r \in rows} :
         UploadIs(u, [op |-> "keep", file |-> stored', over |-> over])
    /\ UNCHANGED <<attempt, rows, answer, named, clip, label, slips>>

KeepCommits(u) ==
    /\ upload[u].op = "keep"
    /\ rows' = (rows \ upload[u].over) \union {upload[u].file}
    /\ UploadIs(u, [upload[u] EXCEPT !.op = "replace"])
    /\ UNCHANGED <<attempt, files, stored, answer, named, clip, label, slips>>

\* Mutant of Replaced: the new file is taken for the one before.
ReplacedNew(u) == IF upload[u].over = {} THEN {} ELSE {upload[u].file}

\* The recording the row named before; what storage refuses is ignored.
Replaced(u) == upload[u].over \ {upload[u].file}

\* The browser hears of the file unless the answer is lost.
Replace(u, heard) ==
    /\ upload[u].op = "replace"
    /\ \E gone \in {{}, Replaced(u)} : files' = files \ gone
    /\ answer' = IF heard THEN upload[u].file ELSE answer
    /\ slips' = slips \union {s \in {"unheard"} : ~heard}
    /\ UploadIs(u, Waiting)
    /\ UNCHANGED <<attempt, stored, rows, named, clip, label>>

-----------------------------------------------------------------------------
(* upload_issued_review_clip and save_issued_proctor_review_label *)

\* A clip may arrive just after the submit.
Flag(u) ==
    /\ attempt \in {"started", "review_pending"}
    /\ upload[u] = Waiting
    /\ ~clip
    /\ UploadIs(u, [Waiting EXCEPT !.op = "flag"])
    /\ UNCHANGED <<attempt, files, stored, rows, answer, named, clip, label, slips>>

FlagCommits(u) ==
    /\ upload[u].op = "flag"
    /\ clip' = TRUE
    /\ UploadIs(u, Waiting)
    /\ UNCHANGED <<attempt, files, stored, rows, answer, named, label, slips>>

\* A signal of the submission is labelled with the clip there is by then; to
\* label it again looks for the clip again.
Label ==
    /\ attempt \in {"review_pending", "reviewed"}
    /\ label' = IF clip THEN "with clip" ELSE "bare"
    /\ UNCHANGED <<attempt, files, stored, rows, answer, named, clip, upload, slips>>

-----------------------------------------------------------------------------
\* issued_candidate_submit stores the files the browser names.
SubmitAnswer ==
    /\ Active
    /\ named' = answer
    /\ attempt' = "review_pending"
    /\ slips' = slips \union {s \in {"late"} : UploadsOf(Answering) # {}}
    /\ UNCHANGED <<files, stored, rows, answer, clip, label, upload>>

ReviewEnds ==
    /\ attempt = "review_pending"
    /\ attempt' = "reviewed"
    /\ UNCHANGED <<files, stored, rows, answer, named, clip, label, upload, slips>>

\* review_issued_assessment_attempt: the recording the submission names, the
\* signal's clip and its label, as they are when the review is opened.
ReviewShows == [recording |-> named, clip |-> clip, label |-> label]

UploadFails(u) ==
    /\ upload[u] # Waiting
    /\ UploadIs(u, Waiting)
    /\ slips' = slips \union {s \in {"unheard"} : upload[u].op = "replace"}
    /\ UNCHANGED <<attempt, files, stored, rows, answer, named, clip, label>>

EvidenceNext ==
    \/ \E u \in Uploads :
         \/ Speak(u) \/ Keep(u) \/ KeepCommits(u)
         \/ \E heard \in BOOLEAN : Replace(u, heard)
         \/ Flag(u) \/ FlagCommits(u) \/ UploadFails(u)
    \/ Label \/ SubmitAnswer \/ ReviewEnds

EvidenceSpec == EvidenceInit /\ [][EvidenceNext]_evidenceVars

-----------------------------------------------------------------------------
(* Properties. *)

EvidenceTypeOK ==
    /\ attempt \in {"started", "review_pending", "reviewed"}
    /\ stored \in File /\ files \subseteq 1..stored /\ rows \subseteq 1..stored
    /\ {answer, named} \subseteq File
    /\ clip \in BOOLEAN /\ label \in {"none", "bare", "with clip"}
    /\ \A u \in Uploads : upload[u].file \in File /\ upload[u].over \subseteq File
    /\ slips \subseteq {"two", "late", "unheard"}

\* The recording a submission names is there for the reviewer, though the item
\* was recorded again: unless a recording was on its way when the work was
\* submitted, two were at a time, or the answer to one was lost.  A label that
\* was given with a clip is shown with it.
AnswerIsThere ==
    /\ \/ ReviewShows.recording \in files \union {NoFile}
       \/ slips \intersect {"two", "late", "unheard"} # {}
    /\ ReviewShows.label = "with clip" => ReviewShows.clip
=============================================================================
