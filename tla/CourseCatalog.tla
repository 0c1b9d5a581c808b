---------------------------- MODULE CourseCatalog -----------------------------
(***************************************************************************)
(* A course and what belongs to it (courses.py, provider.py): its columns, *)
(* publication, the rows that refer to it, the files those rows name, and  *)
(* its deletion, which lists rows and files first, deletes the rows in one *)
(* transaction and the files after it.  Then what a student says of it and *)
(* what its provider does with that (student.py add_course_comment,        *)
(* add_course_feedback; provider.py provider_reply_comment and the         *)
(* handlers after it): a comment, its notification, the student's rating.  *)
(***************************************************************************)
EXTENDS Naturals, RowChanges

CONSTANTS
    Desks,      \* requests of the provider that may run at a time
    Spellings,  \* how often add_lesson tries to insert a lesson
    Hands       \* requests about comments and ratings that may run at a time

ASSUME CatalogAssumption == Spellings \in Nat \ {0}

VARIABLES
    course,     \* the row: what its columns hold
    below,      \* rows that refer to the course, by kind and number
    media,      \* files in storage
    draft,      \* the picture a draft of the provider names, or "none"
    desk        \* what each request has loaded

catalogVars == <<course, below, media, draft, desk>>

-----------------------------------------------------------------------------
\* A lesson has a video or the address of a live class; it is a video here.
Lessons == {"recorded"} \X (1..Spellings)
Children == Lessons \union ({"member", "attempt", "evidence", "task"} \X {1})

\* Files are named by the row that needs them; the draft may name the picture
\* of the course.
Files == {"picture", "newer picture", "own picture", "recorded", "evidence"}

AtEase == [op |-> "none", set |-> NoChanges, try |-> 0, listed |-> {}, files |-> {}]

CatalogInit ==
    /\ course = [exists |-> TRUE, published |-> FALSE, intro |-> TRUE,
                 picture |-> "picture"]
    /\ below = {}
    /\ media = {"picture"}
    /\ draft = "none"
    /\ desk = [d \in Desks |-> AtEase]

Takes(d, job) ==
    /\ desk[d] = AtEase /\ course.exists
    /\ desk' = [desk EXCEPT ![d] = job]

Leaves(d) == desk' = [desk EXCEPT ![d] = AtEase]
Turns(d, job) == desk' = [desk EXCEPT ![d] = job]

\* While a deletion holds its locks, rows that refer to what it deletes wait.
Removing == \E d \in Desks : desk[d].op = "remove"

\* Only the columns that differ from what was loaded are written.
Differing(set) == Changes(course, Update(course, set))

-----------------------------------------------------------------------------
\* update_course: a new picture is stored before the row is written.
UpdateCourse(d) ==
    /\ \E set \in {[intro |-> TRUE], [intro |-> FALSE],
                   [picture |-> "newer picture"]} :
         /\ Takes(d, [AtEase EXCEPT !.op = "update", !.set = Differing(set)])
         /\ media' = media \union {set[col] : col \in DOMAIN set \intersect {"picture"}}
    /\ UNCHANGED <<course, below, draft>>

Playable == below \intersect Lessons # {}

PublishCourse(d) ==
    /\ Playable /\ course.intro
    /\ Takes(d, [AtEase EXCEPT !.op = "publish", !.set = Differing([published |-> TRUE])])
    /\ UNCHANGED <<course, below, media, draft>>

UnpublishCourse(d) ==
    /\ Takes(d, [AtEase EXCEPT !.op = "unpublish", !.set = Differing([published |-> FALSE])])
    /\ UNCHANGED <<course, below, media, draft>>

\* A row that was deleted meanwhile cannot be written.
CourseCommits(d) ==
    /\ desk[d].op \in {"update", "publish", "unpublish"}
    /\ ~Removing
    /\ course' = IF course.exists THEN Update(course, desk[d].set) ELSE course
    /\ Leaves(d)
    /\ UNCHANGED <<below, media, draft>>

-----------------------------------------------------------------------------
\* A video is sent to storage before a lesson names it.
StoreVideo ==
    /\ "recorded" \notin media
    /\ media' = media \union {"recorded"}
    /\ UNCHANGED <<course, below, draft, desk>>

AddLesson(d) ==
    /\ "recorded" \in media
    /\ <<"recorded", 1>> \notin below
    /\ Takes(d, [AtEase EXCEPT !.op = "lesson", !.try = 1])
    /\ UNCHANGED <<course, below, media, draft>>

\* The insertion fails, or it is committed and reading the row again fails: the
\* lesson is inserted once more, under another spelling of its type.
LessonTry(d) ==
    LET job == desk[d]
        next == IF job.try < Spellings THEN [job EXCEPT !.try = @ + 1] ELSE AtEase
    IN
    /\ job.op = "lesson"
    /\ \/ /\ course.exists /\ ~Removing
          /\ below' = below \union {<<"recorded", job.try>>}
          /\ Turns(d, AtEase) \/ Turns(d, next)
       \/ /\ Turns(d, next)
          /\ UNCHANGED below
    /\ UNCHANGED <<course, media, draft>>

\* Students and recruiters add rows of their own: an enrolment with comments
\* and purchases, an attempt with its proctor session, evidence with a file, and
\* a task of an employer for the course's exam.
Joins(kind) ==
    /\ course.exists /\ <<kind, 1>> \notin below
    /\ kind = "member" => course.published
    /\ kind = "attempt" => <<"member", 1>> \in below
    /\ kind = "evidence" => <<"attempt", 1>> \in below
    /\ kind # "member" => ~Removing
    /\ below' = below \union {<<kind, 1>>}
    /\ media' = media \union {f \in {"evidence"} : f = kind}
    /\ UNCHANGED <<course, draft, desk>>

\* A draft has a picture of its own, or the one the course was made with.
SaveDraft ==
    /\ draft' \in {"picture", "own picture"}
    /\ media' = media \union ({draft'} \ {"picture"})
    /\ UNCHANGED <<course, below, desk>>

DeleteDraft ==
    /\ draft # "none"
    /\ draft' = "none"
    /\ UNCHANGED <<course, below, media, desk>>

-----------------------------------------------------------------------------
(* delete_course *)

\* The files the rows name, as far as the deletion looks for them.
NamedBy(rows) == {f \in {"recorded", "evidence"} : \E r \in rows : r[1] = f}

ListCourse(d) ==
    /\ Takes(d, [AtEase EXCEPT !.op = "list", !.listed = below,
                 !.files = {course.picture} \union NamedBy(below)])
    /\ UNCHANGED <<course, below, media, draft>>

\* Rows are deleted by the ids that were listed, evidence by its session, and
\* what belongs to the course itself by the course; anything else that refers
\* to them stops the deletion.
Listed(d) == {r \in below : r \in desk[d].listed /\ r[1] # "task"} \union
             {r \in below : r[1] \in {"evidence", "member"}}

RemoveRows(d) ==
    /\ desk[d].op = "list" /\ ~Removing
    /\ IF below \subseteq Listed(d)
       THEN Turns(d, [desk[d] EXCEPT !.op = "remove", !.listed = below])
       ELSE Leaves(d)
    /\ UNCHANGED <<course, below, media, draft>>

\* A student who enrolled during the deletion makes its commit fail.
CleansUp(d) == below \subseteq desk[d].listed

RemovalCommits(d) ==
    /\ desk[d].op = "remove"
    /\ IF below \subseteq desk[d].listed
       THEN course' = [course EXCEPT !.exists = FALSE] /\ below' = {}
       ELSE UNCHANGED <<course, below>>
    /\ IF CleansUp(d) THEN Turns(d, [desk[d] EXCEPT !.op = "clean"]) ELSE Leaves(d)
    /\ UNCHANGED <<media, draft>>

\* Each file is deleted, or stays when storage fails.
CleanUp(d) ==
    /\ desk[d].op = "clean"
    /\ \E deleted \in SUBSET desk[d].files : media' = media \ deleted
    /\ Leaves(d)
    /\ UNCHANGED <<course, below, draft>>

\* A commit fails, or the process ends.
DeskEnds(d) ==
    /\ desk[d] # AtEase
    /\ Leaves(d)
    /\ UNCHANGED <<course, below, media, draft>>

CatalogNext ==
    \/ StoreVideo \/ SaveDraft \/ DeleteDraft
    \/ \E kind \in {"member", "attempt", "evidence", "task"} : Joins(kind)
    \/ \E d \in Desks :
         \/ UpdateCourse(d) \/ PublishCourse(d) \/ UnpublishCourse(d) \/ CourseCommits(d)
         \/ AddLesson(d) \/ LessonTry(d)
         \/ ListCourse(d) \/ RemoveRows(d) \/ RemovalCommits(d) \/ CleanUp(d)
         \/ DeskEnds(d)

CatalogSpec == CatalogInit /\ [][CatalogNext]_catalogVars

-----------------------------------------------------------------------------
(* Comments and ratings. *)

VARIABLES
    remark,     \* the comment, as the provider's list shows it
    rating,     \* the rating: given, seen, replied to
    note,       \* the notification of the comment
    hand,       \* what each request has loaded
    crossed     \* history: two requests changed the same row at a time

remarkVars == <<remark, rating, note, hand, crossed>>

NoRemark == [status |-> "none", seen |-> FALSE, replied |-> FALSE]
NoRating == [given |-> FALSE, seen |-> FALSE, replied |-> FALSE]

Empty == [row |-> "none", set |-> NoChanges, late |-> FALSE]

RemarksInit ==
    /\ remark = NoRemark
    /\ rating = NoRating
    /\ note = "none"
    /\ hand = [h \in Hands |-> Empty]
    /\ crossed = {}

Holds(h, name, row, set) ==
    /\ hand[h] = Empty
    /\ hand' = [hand EXCEPT ![h] = [row |-> name, set |-> Changes(row, Update(row, set)), late |-> FALSE]]

\* A request that commits makes those that have loaded the row late.
Done(h, name) ==
    hand' = [g \in Hands |-> IF g = h THEN Empty
                             ELSE [hand[g] EXCEPT !.late = @ \/ hand[g].row = name]]

-----------------------------------------------------------------------------
\* The comment and its notification are committed together.
AddComment ==
    /\ remark = NoRemark
    /\ remark' = [NoRemark EXCEPT !.status = "new"]
    /\ note' = "unread"
    /\ UNCHANGED <<rating, hand, crossed>>

MarkNotificationRead ==
    /\ note = "unread"
    /\ note' = "read"
    /\ UNCHANGED <<remark, rating, hand, crossed>>

Unseen == [seen |-> FALSE, status |-> "new"]

\* provider_reply_comment, provider_update_comment_status, provider_mark_comment_seen
Answered(row) ==
    [seen |-> TRUE, replied |-> TRUE,
     status |-> IF row.status = "new" THEN "pending" ELSE row.status]

HandleComment(h) ==
    /\ remark # NoRemark
    /\ \/ Holds(h, "remark", remark, Answered(remark))
       \/ \E status \in {"new", "pending", "closed"} :
            Holds(h, "remark", remark, [seen |-> TRUE, status |-> status])
       \/ Holds(h, "remark", remark, [seen |-> TRUE])
       \/ Holds(h, "remark", remark, Unseen)
    /\ UNCHANGED <<remark, rating, note, crossed>>

CommentCommits(h) ==
    /\ hand[h].row = "remark"
    /\ remark' = Update(remark, hand[h].set)
    /\ crossed' = crossed \union {n \in {"remark"} : hand[h].late}
    /\ Done(h, "remark")
    /\ UNCHANGED <<rating, note>>

-----------------------------------------------------------------------------
\* add_course_feedback: a rating that is there is rewritten; the reply and the
\* mark that it was seen stay as they are.
Rate(h) ==
    /\ Holds(h, "rating", rating, IF rating.given THEN NoChanges ELSE [given |-> TRUE])
    /\ UNCHANGED <<remark, rating, note, crossed>>

\* A student has one rating of a course: the second of two first ones fails.
RatingCommits(h) ==
    /\ hand[h].row = "rating"
    /\ rating' = Update(rating, hand[h].set)
    /\ Done(h, "rating")
    /\ UNCHANGED <<remark, note, crossed>>

\* provider_reply_feedback, provider_mark_feedback_seen
HandleRating(h) ==
    /\ rating.given
    /\ \/ Holds(h, "answer", rating, [seen |-> TRUE, replied |-> TRUE])
       \/ \E seen \in BOOLEAN : Holds(h, "answer", rating, [seen |-> seen])
    /\ UNCHANGED <<remark, rating, note, crossed>>

AnswerCommits(h) ==
    /\ hand[h].row = "answer"
    /\ rating' = Update(rating, hand[h].set)
    /\ crossed' = crossed \union {n \in {"answer"} : hand[h].late}
    /\ Done(h, "answer")
    /\ UNCHANGED <<remark, note>>

HandFails(h) ==
    /\ hand[h] # Empty
    /\ hand' = [hand EXCEPT ![h] = Empty]
    /\ UNCHANGED <<remark, rating, note, crossed>>

RemarksNext ==
    \/ AddComment \/ MarkNotificationRead
    \/ \E h \in Hands :
         \/ HandleComment(h) \/ CommentCommits(h)
         \/ Rate(h) \/ RatingCommits(h) \/ HandleRating(h) \/ AnswerCommits(h)
         \/ HandFails(h)

RemarksSpec == RemarksInit /\ [][RemarksNext]_remarkVars

-----------------------------------------------------------------------------
(* Properties. *)

CatalogTypeOK ==
    /\ DOMAIN course = {"exists", "published", "intro", "picture"}
    /\ {course.exists, course.published, course.intro} \subseteq BOOLEAN
    /\ course.picture \in {"picture", "newer picture"}
    /\ below \subseteq Children
    /\ media \subseteq Files
    /\ draft \in {"none", "picture", "own picture"}
    /\ \A d \in Desks : desk[d].listed \subseteq Children /\ desk[d].files \subseteq Files

\* A file that a row still names is in storage, whatever deletions were begun,
\* refused or interrupted; only a draft that names the course's own picture can
\* lose it.
RowsHaveFiles ==
    /\ course.exists => course.picture \in media
    /\ NamedBy(below) \subseteq media
    /\ draft = "own picture" => draft \in media

\* A published course has a lesson to play.
PublishedIsPlayable == course.exists /\ course.published => below \intersect Lessons # {}

\* A deleted course leaves no row behind, and no row is added to it.
DeletedWhole == ~course.exists => below = {}

RemarksTypeOK ==
    /\ remark \in [status : {"none", "new", "pending", "closed"}, seen : BOOLEAN,
                   replied : BOOLEAN]
    /\ rating \in [given : BOOLEAN, seen : BOOLEAN, replied : BOOLEAN]
    /\ note \in {"none", "unread", "read"}
    /\ crossed \subseteq {"remark", "answer"}

\* A comment the provider put aside as unseen is among his new ones, unless two
\* of his requests changed the row at a time; each comment has its notification,
\* and a reply belongs to a rating that was given.
CommentsListed ==
    /\ "remark" \in crossed \/ (remark.status \in {"pending", "closed"} => remark.seen)
    /\ rating.replied => rating.given
    /\ remark # NoRemark <=> note # "none"
=============================================================================
