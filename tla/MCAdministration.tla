--------------------------- MODULE MCAdministration ---------------------------
(* Administration and course authoring: parts that share no row, so a      *)
(* behaviour is about one of them.                                         *)
EXTENDS DataRequests, Accounts, VideoUpload, CourseCatalog, TLC

VARIABLE part

Parts == {"settings", "data", "accounts", "upload", "recording", "catalog", "remarks"}

AdministrationInit ==
    /\ DataInit /\ AccountsInit /\ UploadInit /\ RecordingInit /\ CatalogInit /\ RemarksInit
    /\ part \in Parts
    /\ part # "accounts" => ~identity
    /\ part # "upload" => ~remote
    /\ part # "recording" => ~offsite

courseParts == <<uploadVars, recordingVars, catalogVars, remarkVars>>
otherThanData == <<accountVars, courseParts, part>>

AdministrationNext ==
    \/ /\ part = "settings" /\ SettingsNext
       /\ UNCHANGED <<dataRows, job, due, overlaps, otherThanData>>
    \/ part = "data" /\ DataNext /\ UNCHANGED otherThanData
    \/ part = "accounts" /\ AccountsNext /\ UNCHANGED <<dataVars, courseParts, part>>
    \/ /\ part = "upload" /\ UploadNext
       /\ UNCHANGED <<dataVars, accountVars, recordingVars, catalogVars, remarkVars, part>>
    \/ /\ part = "recording" /\ RecordingNext
       /\ UNCHANGED <<dataVars, accountVars, uploadVars, catalogVars, remarkVars, part>>
    \/ /\ part = "catalog" /\ CatalogNext
       /\ UNCHANGED <<dataVars, accountVars, uploadVars, recordingVars, remarkVars, part>>
    \/ /\ part = "remarks" /\ RemarksNext
       /\ UNCHANGED <<dataVars, accountVars, uploadVars, recordingVars, catalogVars, part>>

administrationVars == <<dataVars, otherThanData>>
AdministrationSpec == AdministrationInit /\ [][AdministrationNext]_administrationVars

\* Requests are alike, in every part: the cfg names the same for each.
Symmetric == Permutations(Threads \union Clients \union Uploaders \union Recorders \union Desks \union Hands)
             \union Permutations(Pieces)

\* What each part keeps in its rows.
AdministrationTypeOK ==
    /\ DataTypeOK /\ AccountsTypeOK /\ UploadTypeOK /\ RecordingTypeOK
    /\ CatalogTypeOK /\ RemarksTypeOK

\* An account: one row has the address, a ban outlives the row, and a deleted
\* row is nameless.
AccountsHold == OneAccount /\ BannedStaysOut /\ DeletedIsNameless

\* What the organization's settings hold is not lost to a writer of another key:
\* an enforced connection is a proven one, and a legal hold stands.
SettingsHold == EnforcedIsProven /\ HoldStands

\* What an administrator relies on: settings, erasures and bans.
RecordsHold == SettingsHold /\ ErasedForGood /\ AccountsHold

\* What was acknowledged of a video or a recording is in the file that is shown.
UploadsHold == UploadWhole /\ RecordingKept

\* A course: a row has its file, what students see can be played, a deleted
\* course leaves nothing, and the list of comments shows what is new.
CatalogHolds == RowsHaveFiles /\ PublishedIsPlayable /\ DeletedWhole /\ CommentsListed

\* What an author relies on: the videos and the courses.
CoursesHold == UploadsHold /\ CatalogHolds

\* A legal hold protects what it was placed for, and a request is taken
\* through its steps in turn.
ErasureInTurn == HoldProtects /\ RequestsInTurn
=============================================================================
