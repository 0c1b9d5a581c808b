----------------------------- MODULE VideoUpload ------------------------------
(***************************************************************************)
(* A video sent in chunks (provider.py): each chunk is a file of the       *)
(* upload's directory; complete_video_upload merges them into one file,    *)
(* deletes them and publishes the file, from the local disk or from cloud  *)
(* storage.  Any request may be repeated, and two may run at a time.       *)
(*                                                                         *)
(* The recording of a live class: the host's browser sends it in pieces,   *)
(* and a completion puts the pieces that are there into one file,          *)
(* announces the file with a message, and deletes the pieces.  It does not *)
(* know how many pieces there should be.                                   *)
(***************************************************************************)
EXTENDS Naturals

CONSTANTS
    Uploaders,  \* requests of the video that may run at a time
    Chunks,
    Recorders,  \* requests of the recording that may run at a time
    Pieces,     \* chunks of the recording
    MaxNews     \* bound: messages that announce the recording

ASSUME RecordingAssumption == MaxNews \in Nat

VARIABLES
    upload,     \* the row's status
    directory,  \* whether the directory of the chunks exists
    parts,      \* the chunk files
    merged,     \* what the merged file on the disk has of each chunk
    stored,     \* what the cloud object has of each chunk
    uploader,   \* what each request is doing
    remote,     \* whether videos are kept in cloud storage
    promised,   \* history: a completion was acknowledged
    mishaps     \* history: what has gone wrong beside the requests themselves

uploadVars == <<upload, directory, parts, merged, stored, uploader, remote, promised, mishaps>>

-----------------------------------------------------------------------------
Content == {"none", "torn", "whole"}
Nothing == [i \in Chunks |-> "none"]

Resting == [op |-> "none", chunk |-> {}, seen |-> "none"]

UploadInit ==
    /\ upload = "initiated"
    /\ directory = TRUE
    /\ parts = Nothing
    /\ merged = Nothing
    /\ stored = Nothing
    /\ uploader = [u \in Uploaders |-> Resting]
    /\ remote \in BOOLEAN
    /\ promised = FALSE
    /\ mishaps = {}

Does(u, op) == uploader' = [uploader EXCEPT ![u] = [Resting EXCEPT !.op = op]]
Rests(u) == uploader' = [uploader EXCEPT ![u] = Resting]

OthersIn(u, ops) == \E v \in Uploaders \ {u} : uploader[v].op \in ops

\* Only a status that differs from the one loaded is written.
Sets(loaded, status) == IF loaded = status THEN upload ELSE status

-----------------------------------------------------------------------------
\* upload_video_chunk, up to where it waits for the body: the directory is made
\* again if it is not there.
ChunkArrives(u, i) ==
    /\ uploader[u] = Resting
    /\ upload # "completed"
    /\ uploader' = [uploader EXCEPT ![u] = [op |-> "chunk", chunk |-> {i}, seen |-> upload]]
    /\ directory' = TRUE
    /\ mishaps' = mishaps \union {m \in {"late"} : ~directory}
    /\ UNCHANGED <<upload, parts, merged, stored, remote, promised>>

ChunkFile(u, content) ==
    parts' = [i \in Chunks |-> IF i \in uploader[u].chunk THEN content ELSE parts[i]]

\* A chunk whose file is there is not written again; without the directory
\* the write fails.
ChunkKnown(u) ==
    /\ uploader[u].op = "chunk"
    /\ ~directory \/ \E i \in uploader[u].chunk : parts[i] # "none"
    /\ Rests(u)
    /\ UNCHANGED <<upload, directory, parts, merged, stored, remote, promised, mishaps>>

CanWrite(u) ==
    /\ uploader[u].op = "chunk"
    /\ directory /\ \A i \in uploader[u].chunk : parts[i] = "none"

\* The row is committed after the file is written, or the commit fails.
ChunkStored(u) ==
    /\ CanWrite(u)
    /\ ChunkFile(u, "whole")
    /\ upload' \in {upload, Sets(uploader[u].seen, "uploading")}
    /\ Rests(u)
    /\ UNCHANGED <<directory, merged, stored, remote, promised, mishaps>>

\* The process ends while it writes.
ChunkTorn(u) ==
    /\ CanWrite(u)
    /\ ChunkFile(u, "torn")
    /\ mishaps' = mishaps \union {"torn"}
    /\ Rests(u)
    /\ UNCHANGED <<upload, directory, merged, stored, remote, promised>>

-----------------------------------------------------------------------------
\* complete_video_upload: the merged file is opened, and so emptied.
Merge(u) ==
    /\ uploader[u] = Resting
    /\ directory
    /\ merged' = Nothing
    /\ mishaps' = mishaps \union {m \in {"two"} : OthersIn(u, {"merge", "publish"})}
    /\ Does(u, "merge")
    /\ UNCHANGED <<upload, directory, parts, stored, remote, promised>>

\* A completion that is repeated finds no directory.
MergeLate(u) ==
    /\ uploader[u] = Resting
    /\ ~directory
    /\ upload' = "failed"
    /\ UNCHANGED <<directory, parts, merged, stored, uploader, remote, promised, mishaps>>

\* Mutant of Missing: a chunk that is not there is skipped.
MissingSkipped == {i \in Chunks : \A j \in Chunks : parts[j] = "none"}

Missing == {i \in Chunks : parts[i] = "none"}

MergeEnds(u) ==
    /\ uploader[u].op = "merge"
    /\ merged' = parts
    /\ IF Missing # {}
       THEN /\ upload' = "failed"
            /\ Rests(u)
            /\ UNCHANGED <<directory, parts>>
       ELSE /\ parts' = Nothing
            /\ directory' = FALSE
            /\ Does(u, "publish")
            /\ UNCHANGED upload
    /\ UNCHANGED <<stored, remote, promised, mishaps>>

\* The file is sent to the cloud and deleted here, or stays where it is.
Publish(u) ==
    /\ uploader[u].op = "publish"
    /\ stored' = IF remote THEN merged ELSE stored
    /\ merged' = IF remote THEN Nothing ELSE merged
    /\ upload' = "completed"
    /\ promised' = TRUE
    /\ Rests(u)
    /\ UNCHANGED <<directory, parts, remote, mishaps>>

PublishFails(u) ==
    /\ uploader[u].op = "publish" /\ remote
    /\ upload' = "failed"
    /\ Rests(u)
    /\ UNCHANGED <<directory, parts, merged, stored, remote, promised, mishaps>>

\* The process ends, or a client gives up.
UploaderEnds(u) ==
    /\ uploader[u] # Resting
    /\ Rests(u)
    /\ UNCHANGED <<upload, directory, parts, merged, stored, remote, promised, mishaps>>

UploadNext ==
    \E u \in Uploaders :
      \/ \E i \in Chunks : ChunkArrives(u, i)
      \/ ChunkKnown(u) \/ ChunkStored(u) \/ ChunkTorn(u)
      \/ Merge(u) \/ MergeLate(u) \/ MergeEnds(u)
      \/ Publish(u) \/ PublishFails(u) \/ UploaderEnds(u)

UploadSpec == UploadInit /\ [][UploadNext]_uploadVars

-----------------------------------------------------------------------------
(* Properties. *)

UploadTypeOK ==
    /\ upload \in {"initiated", "uploading", "completed", "failed"}
    /\ {directory, remote, promised} \subseteq BOOLEAN
    /\ {parts, merged, stored} \subseteq [Chunks -> Content]
    /\ uploader \in [Uploaders -> [op : {"none", "chunk", "merge", "publish"},
                                   chunk : SUBSET Chunks, seen : {"none", "initiated", "uploading", "failed"}]]
    /\ mishaps \subseteq {"torn", "late", "two"}

Published == IF remote THEN stored ELSE merged

\* A video whose completion was acknowledged is whole, and stays so when the
\* completion is repeated: unless a process ended while it wrote a chunk, two
\* completions ran at a time, or a chunk came after the merge.
UploadWhole == promised => mishaps # {} \/ \A i \in Chunks : Published[i] = "whole"

-----------------------------------------------------------------------------
(* The recording of a live class. *)

VARIABLES
    shelf,      \* the files of the chunks directory, made anew when a chunk comes
    film,       \* the merged file on the disk
    cloud,      \* the object in cloud storage
    offsite,    \* whether recordings are kept there
    news,       \* live_class_messages that announce the recording
    recorder,   \* what each request is doing
    received,   \* history: pieces acknowledged and not sent again since
    slips       \* history: what the code does not guard against

recordingVars == <<shelf, film, cloud, offsite, news, recorder, received, slips>>

-----------------------------------------------------------------------------
NoFilm == [p \in Pieces |-> "none"]
Film == [Pieces -> {"none", "torn", "whole"}]

Asleep == [op |-> "none", pieces |-> {}]

\* provider_init_live_recording_upload
RecordingInit ==
    /\ shelf = NoFilm
    /\ film = NoFilm /\ cloud = NoFilm
    /\ offsite \in BOOLEAN
    /\ news = 0
    /\ recorder = [r \in Recorders |-> Asleep]
    /\ received = {} /\ slips = {}

Works(r, op, pieces) == recorder' = [recorder EXCEPT ![r] = [op |-> op, pieces |-> pieces]]
Stops(r) == recorder' = [recorder EXCEPT ![r] = Asleep]

Alongside(r, ops) == \E q \in Recorders \ {r} : recorder[q].op \in ops
Completing == {"merge", "announce", "tidy"}

Slips(what, happens) == slips' = slips \union {s \in {what} : happens}

-----------------------------------------------------------------------------
\* provider_upload_live_recording_chunk: the directory is made when it is not
\* there, and the file is emptied before it is written.
PieceArrives(r, p) ==
    /\ recorder[r] = Asleep
    /\ Works(r, "piece", {p})
    /\ shelf' = [shelf EXCEPT ![p] = "torn"]
    /\ received' = received \ {p}
    /\ Slips("late", news > 0 \/ Alongside(r, Completing))
    /\ UNCHANGED <<film, cloud, offsite, news>>

PieceStored(r) ==
    /\ recorder[r].op = "piece"
    /\ shelf' = [p \in Pieces |->
          IF p \in recorder[r].pieces /\ shelf[p] # "none" THEN "whole" ELSE shelf[p]]
    /\ received' = received \union recorder[r].pieces
    /\ Stops(r)
    /\ UNCHANGED <<film, cloud, offsite, news, slips>>

-----------------------------------------------------------------------------
(* provider_complete_live_recording_upload *)

\* The pieces that are there are listed, and the file is opened and so emptied.
There == {p \in Pieces : shelf[p] # "none"}

CompletionBegins(r) ==
    /\ recorder[r] = Asleep
    /\ There # {}
    /\ Works(r, "merge", There)
    /\ film' = NoFilm
    /\ slips' = slips \union {s \in {"late"} : Alongside(r, {"piece"})}
                      \union {s \in {"two"} : Alongside(r, Completing)}
    /\ UNCHANGED <<shelf, cloud, offsite, news, received>>

\* A piece that another completion has deleted meanwhile ends this one.
Assemble(r) ==
    /\ recorder[r].op = "merge"
    /\ IF recorder[r].pieces \subseteq There
       THEN /\ film' = [p \in Pieces |->
                  IF p \in recorder[r].pieces THEN shelf[p] ELSE film[p]]
            /\ Works(r, "announce", recorder[r].pieces)
       ELSE UNCHANGED film /\ Stops(r)
    /\ UNCHANGED <<shelf, cloud, offsite, news, received, slips>>

\* The file is sent to the cloud, or stays; the message is committed.
Announce(r) ==
    /\ recorder[r].op = "announce" /\ news < MaxNews
    /\ cloud' = IF offsite THEN film ELSE cloud
    /\ news' = news + 1
    /\ Works(r, "tidy", recorder[r].pieces)
    /\ UNCHANGED <<shelf, film, offsite, received, slips>>

\* ... or the message is not committed, the file sent or not.
AnnounceFails(r) ==
    /\ recorder[r].op = "announce"
    /\ cloud' \in {cloud, IF offsite THEN film ELSE cloud}
    /\ Stops(r)
    /\ UNCHANGED <<shelf, film, offsite, news, received, slips>>

\* The pieces that were merged are deleted one by one.
Tidy(r, p) ==
    /\ recorder[r].op = "tidy" /\ p \in recorder[r].pieces
    /\ shelf' = [shelf EXCEPT ![p] = "none"]
    /\ Works(r, "tidy", recorder[r].pieces \ {p})
    /\ UNCHANGED <<film, cloud, offsite, news, received, slips>>

TidyEnds(r) ==
    /\ recorder[r] = [op |-> "tidy", pieces |-> {}]
    /\ Stops(r)
    /\ UNCHANGED <<shelf, film, cloud, offsite, news, received, slips>>

\* The process ends: a piece stays half written, pieces that were merged stay.
RecorderEnds(r) ==
    /\ recorder[r] # Asleep
    /\ Slips("cut", recorder[r].op = "tidy")
    /\ Stops(r)
    /\ UNCHANGED <<shelf, film, cloud, offsite, news, received>>

RecordingNext ==
    \E r \in Recorders :
      \/ \E p \in Pieces : PieceArrives(r, p) \/ Tidy(r, p)
      \/ PieceStored(r)
      \/ CompletionBegins(r) \/ Assemble(r) \/ Announce(r) \/ AnnounceFails(r)
      \/ TidyEnds(r) \/ RecorderEnds(r)

RecordingSpec == RecordingInit /\ [][RecordingNext]_recordingVars

-----------------------------------------------------------------------------
(* Properties of the recording. *)

RecordingTypeOK ==
    /\ {shelf, film, cloud} \subseteq Film
    /\ offsite \in BOOLEAN
    /\ news \in 0..MaxNews
    /\ recorder \in [Recorders -> [op : {"none", "piece"} \union Completing, pieces : SUBSET Pieces]]
    /\ received \subseteq Pieces
    /\ slips \subseteq {"late", "two", "cut"}

Shown == IF offsite THEN cloud ELSE film

\* A recording is announced once and has every piece that was acknowledged,
\* after any number of completions that failed: unless a piece and a completion
\* crossed, two completions ran at a time, or one ended while it deleted.
RecordingKept ==
    slips = {} => /\ news <= 1
                  /\ news = 1 => \A p \in received : Shown[p] = "whole"
=============================================================================
