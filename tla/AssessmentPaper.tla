--------------------------- MODULE AssessmentPaper ----------------------------
(***************************************************************************)
(* The paper of one multiple-choice assessment: recruiters edit, review,   *)
(* publish and issue it (exams.py), a new version of the platform library  *)
(* replaces it (default_assessments.py), and candidates are shown and      *)
(* scored on a selection of its questions.                                 *)
(***************************************************************************)
EXTENDS Naturals, FiniteSets, RowChanges

CONSTANTS
    Editors,        \* requests of recruiters that may run at a time
    Candidates,     \* invitations to the assessment
    Limits,         \* questions per attempt a recruiter may set
    MaxQuestions    \* bound: questions ever added

ASSUME PaperAssumption == Limits \subseteq Nat \ {0} /\ MaxQuestions \in Nat \ {0}

VARIABLES
    exam,       \* the row: status, questions per attempt, total marks
    library,    \* whether the assessment was installed from the library
    paper,      \* its questions
    added,      \* questions ever added, over which ids run
    editor,     \* what each request is doing, with what it has read
    invited,    \* assessment_issues: status, questions shown and scored
    crossings   \* history: requests that ran across each other, and edits by
                \* hand of an assessment somebody was invited to

paperVars == <<exam, library, paper, added, editor, invited, crossings>>

-----------------------------------------------------------------------------
Status == {"draft", "in_review", "published", "rejected", "deleted"}
Exam == [status : Status, limit : Nat, total : Nat]

\* set: the columns the request will write, those that differ from the row it
\* has loaded; gone: questions it deletes; fresh: it adds those of a template.
EditorOps == {"rest", "total", "edit", "delete", "review", "publish", "drop", "upgrade", "issue"}
AtRest == [op |-> "rest", set |-> NoChanges, gone |-> {}, fresh |-> FALSE, for |-> {}]

Columns(after) == Changes(exam, after)

Invitation == [status : {"none", "issued", "done"},
               shown : SUBSET (1..MaxQuestions), scored : SUBSET (1..MaxQuestions)]

\* create_exam; _create_exam_from_template makes one that has its questions
\* and is published.
PaperInit ==
    /\ library \in BOOLEAN
    /\ \E limit \in Limits :
         exam = IF library THEN [status |-> "published", limit |-> 1, total |-> 1]
                ELSE [status |-> "draft", limit |-> limit, total |-> 0]
    /\ paper = IF library THEN {1} ELSE {}
    /\ added = IF library THEN 1 ELSE 0
    /\ editor = [t \in Editors |-> AtRest]
    /\ invited = [c \in Candidates |-> [status |-> "none", shown |-> {}, scored |-> {}]]
    /\ crossings = {}

Editing(ops) == {t \in Editors : editor[t].op \in ops}

\* _provider_exam_or_403: the row is loaded.
Loads(t, op, job) ==
    /\ editor[t] = AtRest
    /\ exam.status # "deleted"
    /\ editor' = [editor EXCEPT ![t] = [job EXCEPT !.op = op]]
    /\ UNCHANGED <<exam, library, paper, added, invited, crossings>>

Unpublished == exam.status # "published"

EditedRow(job) == Update(exam, job.set)

Uninvited == \A c \in Candidates : invited[c].status = "none"

Edits == {"total", "edit", "delete", "publish", "upgrade"}

EditorRests(t) ==
    /\ editor' = [editor EXCEPT ![t] = AtRest]
    /\ crossings' = crossings
         \union {x \in {"edits"} : editor[t].op \in Edits /\ Editing(Edits) # {t}}
         \union {x \in {"upgrade"} : editor[t].op = "issue" /\ Editing({"upgrade"}) # {}}
         \union {x \in {"reworked"} : editor[t].op \in {"edit", "delete"} /\ ~Uninvited}
    /\ UNCHANGED library

-----------------------------------------------------------------------------
(* Questions. *)

\* add_question commits the question, whatever the status, and then reads the
\* row and the sum of the marks for a second commit.
AddQuestion(t) ==
    /\ editor[t] = AtRest
    /\ exam.status # "deleted"
    /\ added < MaxQuestions
    /\ added' = added + 1
    /\ paper' = paper \union {added'}
    /\ editor' = [editor EXCEPT ![t] = [AtRest EXCEPT !.op = "total",
                     !.set = [total |-> Cardinality(paper')]]]
    /\ crossings' = crossings
         \union {x \in {"edits"} : Editing(Edits) # {}}
         \union {x \in {"reworked"} : ~Uninvited}
    /\ UNCHANGED <<exam, library, invited>>

\* delete_question sums the marks of the others after its own delete.
DeleteQuestion(t, q) ==
    /\ Unpublished
    /\ q \in paper
    /\ Loads(t, "delete", [AtRest EXCEPT !.gone = {q},
                             !.set = Columns([exam EXCEPT !.total = Cardinality(paper \ {q})])])

\* update_exam
Edit(t, limit) ==
    /\ Unpublished
    /\ Loads(t, "edit", [AtRest EXCEPT !.set = Columns([exam EXCEPT !.limit = limit])])

EditCommits(t) ==
    LET job == editor[t] IN
    /\ job.op \in {"total", "edit", "delete"}
    /\ exam.status # "deleted"
    /\ exam' = EditedRow(job)
    /\ paper' = paper \ job.gone
    /\ EditorRests(t)
    /\ UNCHANGED <<added, invited>>

\* delete_exam: an invitation or another question keeps the row.
Drop(t) ==
    /\ Unpublished
    /\ Loads(t, "drop", [AtRest EXCEPT !.gone = paper])

DropCommits(t) ==
    /\ editor[t].op = "drop"
    /\ paper \subseteq editor[t].gone
    /\ Uninvited
    /\ exam' = [exam EXCEPT !.status = "deleted"]
    /\ paper' = {}
    /\ EditorRests(t)
    /\ UNCHANGED <<added, invited>>

-----------------------------------------------------------------------------
(* Review, publication and issue. *)

\* request_ai_review takes a published assessment back too.
RequestReview(t) ==
    Loads(t, "review", [AtRest EXCEPT !.set = Columns([exam EXCEPT !.status = "in_review"])])

Complete == paper # {} /\ exam.limit <= Cardinality(paper)

\* publish_exam with evaluate_exam_rules, whose limits recruiters may change
\* (update_exam_rule): an assessment that fails them is rejected, though it was
\* published before.
Publish(t, approved) ==
    /\ Complete
    /\ Loads(t, "publish", [AtRest EXCEPT
         !.set = Columns([exam EXCEPT !.status = IF approved THEN "published" ELSE "rejected"])])

StatusCommits(t) ==
    /\ editor[t].op \in {"review", "publish"}
    /\ exam.status # "deleted"
    /\ exam' = EditedRow(editor[t])
    /\ EditorRests(t)
    /\ UNCHANGED <<paper, added, invited>>

\* issue_assessment_to_candidate
Invite(t, c) ==
    /\ exam.status = "published"
    /\ invited[c].status = "none"
    /\ Loads(t, "issue", [AtRest EXCEPT !.for = {c}])

InviteCommits(t) ==
    /\ editor[t].op = "issue"
    /\ exam.status # "deleted"
    /\ invited' = [c \in Candidates |-> IF c \in editor[t].for
                     THEN [invited[c] EXCEPT !.status = "issued"] ELSE invited[c]]
    /\ EditorRests(t)
    /\ UNCHANGED <<exam, paper, added>>

RequestFails(t) ==
    /\ editor[t] # AtRest
    /\ editor' = [editor EXCEPT ![t] = AtRest]
    /\ crossings' = crossings \union {x \in {"edits"} : editor[t].op = "total"}
    /\ UNCHANGED <<exam, library, paper, added, invited>>

-----------------------------------------------------------------------------
(* A new version of the template. *)

InPlace == Uninvited

\* _create_exam_from_template with an existing row: the questions read now are
\* deleted and all of the template's are added.  An assessment somebody was
\* invited to is superseded by a new one instead.
Upgrade(t) ==
    /\ library
    /\ Loads(t, "upgrade", IF InPlace
         THEN [AtRest EXCEPT !.gone = paper, !.fresh = TRUE,
                             !.set = Columns([status |-> "published", limit |-> 1, total |-> 1])]
         ELSE [AtRest EXCEPT !.set = Columns([exam EXCEPT !.status = "rejected"])])

UpgradeCommits(t) ==
    LET job == editor[t] IN
    /\ job.op = "upgrade"
    /\ job.fresh => added < MaxQuestions
    /\ added' = IF job.fresh THEN added + 1 ELSE added
    /\ paper' = (paper \ job.gone) \union {q \in {added'} : job.fresh}
    /\ exam' = EditedRow(job)
    /\ EditorRests(t)
    /\ UNCHANGED invited

-----------------------------------------------------------------------------
(* Candidates. *)

\* _questions_for_issued_attempt: the same selection whenever the questions and
\* the limit are the same.
Selection(questions, limit) ==
    IF limit = 0 \/ limit >= Cardinality(questions) THEN questions
    ELSE CHOOSE s \in SUBSET questions : Cardinality(s) = limit

Selected == Selection(paper, exam.limit)

Open(c) == invited[c].status = "issued"

Show(c) ==
    /\ Open(c)
    /\ invited' = [invited EXCEPT ![c].shown = Selected]
    /\ UNCHANGED <<exam, library, paper, added, editor, crossings>>

\* issued_candidate_submit scores the answers by the questions of this moment,
\* whatever the status of the assessment.
SubmitPaper(c) ==
    /\ Open(c)
    /\ invited[c].shown # {} /\ Selected # {}
    /\ invited' = [invited EXCEPT ![c].status = "done", ![c].scored = Selected]
    /\ UNCHANGED <<exam, library, paper, added, editor, crossings>>

\* review_issued_assessment_attempt selects the questions again, and marks the
\* answers by the options of this moment.
ReviewedQuestions == Selected

PaperNext ==
    \/ \E t \in Editors :
         \/ AddQuestion(t) \/ EditCommits(t)
         \/ \E q \in paper : DeleteQuestion(t, q)
         \/ \E limit \in Limits : Edit(t, limit)
         \/ Drop(t) \/ DropCommits(t)
         \/ RequestReview(t) \/ StatusCommits(t)
         \/ \E approved \in BOOLEAN : Publish(t, approved)
         \/ \E c \in Candidates : Invite(t, c)
         \/ InviteCommits(t) \/ RequestFails(t)
         \/ Upgrade(t) \/ UpgradeCommits(t)
    \/ \E c \in Candidates : Show(c) \/ SubmitPaper(c)

PaperSpec == PaperInit /\ [][PaperNext]_paperVars

-----------------------------------------------------------------------------
(* Properties. *)

PaperTypeOK ==
    /\ exam \in Exam /\ library \in BOOLEAN
    /\ added \in 0..MaxQuestions /\ paper \subseteq 1..added
    /\ \A t \in Editors :
         /\ editor[t].op \in EditorOps
         /\ EditedRow(editor[t]) \in Exam
         /\ editor[t].gone \subseteq 1..added
         /\ editor[t].fresh \in BOOLEAN /\ editor[t].for \subseteq Candidates
    /\ invited \in [Candidates -> Invitation]
    /\ crossings \subseteq {"edits", "upgrade", "reworked"}

\* A published assessment has the questions an attempt draws from it, whatever
\* the order in which it was edited, reviewed and upgraded: unless two edits
\* ran across each other.
PublishedIsComplete ==
    exam.status = "published" =>
        \/ paper # {} /\ exam.limit <= Cardinality(paper)
        \/ "edits" \in crossings

\* The total is the sum of the marks whenever nobody is editing: unless two
\* edits ran across each other or one ended between its two commits.
TotalIsSum ==
    Editing(Edits) = {} /\ exam.status # "deleted" /\ "edits" \notin crossings =>
        exam.total = Cardinality(paper)

\* A candidate is scored on the questions he was last shown, though a new
\* version of the library arrives: unless recruiters rework an assessment
\* somebody is invited to, or the invitation is made while the new version is
\* being installed.
ScoredAsShown ==
    \A c \in Candidates :
        invited[c].status = "done" =>
            \/ invited[c].scored = invited[c].shown
            \/ crossings \intersect {"upgrade", "reworked"} # {}

\* The review lists the questions that were scored, whatever becomes of the
\* assessment after that, with the same exceptions.
ReviewedAsScored ==
    \A c \in Candidates :
        invited[c].status = "done" =>
            \/ ReviewedQuestions = invited[c].scored
            \/ crossings \intersect {"upgrade", "reworked"} # {}
=============================================================================
