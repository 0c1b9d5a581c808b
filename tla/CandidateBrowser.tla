--------------------------- MODULE CandidateBrowser ---------------------------
(***************************************************************************)
(* The page a candidate works in (IssuedCandidatePanel.tsx with its session *)
(* and timer hooks) and the drafts it keeps in the browser and at the      *)
(* server (issued_candidate_autosave and issued_candidate_submit), over a  *)
(* network where calls are lost and with a page that is reloaded at any    *)
(* time.  Content is the number of edits it holds.                         *)
(***************************************************************************)
EXTENDS Integers

CONSTANTS
    MaxContent,     \* bound: edits of one page
    MaxRevision,    \* bound: revisions
    MaxLoads,       \* bound: times the page is loaded
    MaxFailures,    \* bound: submits that are lost on their way there or back
    WarningLimit    \* warnings after which the dialog has no way on

ASSUME BrowserAssumption ==
    {MaxContent, MaxRevision, MaxLoads, MaxFailures, WarningLimit} \subseteq Nat

VARIABLES
    page,       \* what the page shows and holds
    signed,     \* whether the tab keeps a session token
    kept,       \* the draft in localStorage
    newer,      \* which of the two drafts was saved last
    draft,      \* the submission at the server
    status,     \* status of that submission
    call,       \* the page's save and the page's submit
    orphan,     \* a call of a page that is gone
    loads, lost,
    told,       \* history: the most content ever shown as saved
    crossed     \* history: whether a call was late or unheard, or crossed another

browserVars ==
    <<page, signed, kept, newer, draft, status, call, orphan, loads, lost, told, crossed>>

-----------------------------------------------------------------------------
Content == 0..MaxContent
Larger(a, b) == IF a > b THEN a ELSE b

\* What is saved or submitted: submission ids are numbered by the load of the
\* page that made them.
Saved == [sid : 0..MaxLoads, rev : 0..MaxRevision, content : Content]
Nothing == [sid |-> 0, rev |-> 0, content |-> 0]

PageOps == {"save", "submit"}
Call == [at : {"none", "sent", "stored", "known", "refused"}, op : PageOps, what : Saved,
         ends : BOOLEAN]
NoCall(op) == [at |-> "none", op |-> op, what |-> Nothing, ends |-> FALSE]

Page == [phase : {"away", "work", "thanked", "ended", "closed"}, what : Saved,
         time : {"left", "up"}, warned : 0..WarningLimit, paused : BOOLEAN]
Away == [phase |-> "away", what |-> Nothing, time |-> "left", warned |-> 0, paused |-> FALSE]

BrowserInit ==
    /\ page = Away
    /\ signed = FALSE
    /\ kept = Nothing /\ newer = "server"
    /\ draft = Nothing /\ status = "none"
    /\ call = [op \in PageOps |-> NoCall(op)]
    /\ orphan = NoCall("save")
    /\ loads = 0 /\ lost = 0
    /\ told = 0
    /\ crossed = FALSE

Working == page.phase = "work"
Submitting == call["submit"].at # "none"
CallIs(op, c) == call' = [call EXCEPT ![op] = c]
Cross(now) == crossed' = (crossed \/ now)
Tell(content) == told' = Larger(told, content)

-----------------------------------------------------------------------------
(* Loading: login, and the reload that finds its token (loadMe). *)

\* Mutant of Latest: a draft in the browser is taken before the server's.
LatestKept == IF kept.sid = 0 THEN draft ELSE kept

\* The draft that was saved later.
Latest ==
    IF kept.sid # 0 /\ (draft.sid = 0 \/ newer = "browser") THEN kept ELSE draft

\* The times the drafts carry are of two clocks, which may differ.
Chosen == {Latest} \union {d \in {kept, draft} : kept.sid # 0 /\ draft.sid # 0}

\* A page without a draft keeps the submission id it made.
Restored(found, id) == [found EXCEPT !.sid = IF found.sid = 0 THEN id ELSE found.sid]

LoadMe ==
    /\ loads < MaxLoads
    /\ loads' = loads + 1
    /\ IF status = "submitted"
       THEN /\ page' = [Away EXCEPT !.phase = "closed"]
            /\ kept' = Nothing
            /\ signed' = FALSE
            /\ UNCHANGED crossed
       ELSE /\ \E found \in Chosen :
                 /\ page' = [Away EXCEPT !.phase = "work", !.what = Restored(found, loads')]
                 /\ Cross(found # Latest)
            /\ signed' = TRUE
            /\ UNCHANGED kept
    /\ UNCHANGED <<newer, draft, status, lost, told>>

\* A login makes a new token: calls that carry the old one are refused.
Login ==
    /\ ~Working /\ ~signed
    /\ LoadMe
    /\ call' = [op \in PageOps |-> NoCall(op)]
    /\ orphan' = NoCall("save")

\* The page goes while its calls may still be on their way.
Abandon ==
    /\ orphan' \in {orphan, NoCall("save")}
                   \union {[call[op] EXCEPT !.ends = FALSE] : op \in {o \in PageOps : call[o].at = "sent"}}
    /\ call' = [op \in PageOps |-> NoCall(op)]

Leave ==
    /\ Working
    /\ page' = Away
    /\ Abandon
    /\ Cross(\E op \in PageOps : call[op].at = "stored")
    /\ UNCHANGED <<signed, kept, newer, draft, status, loads, lost, told>>

Reload ==
    /\ page.phase = "away" /\ signed
    /\ LoadMe
    /\ UNCHANGED <<call, orphan>>

-----------------------------------------------------------------------------
(* Work and its drafts. *)

Edit ==
    /\ Working /\ ~Submitting /\ ~page.paused
    /\ page.what.content < MaxContent
    /\ page' = [page EXCEPT !.what.content = @ + 1]
    /\ UNCHANGED <<signed, kept, newer, draft, status, call, orphan, loads, lost, told, crossed>>

\* saveBrowserDraft, of papers only.
SaveBrowserDraft ==
    /\ Working /\ ~Submitting
    /\ kept' = page.what
    /\ newer' = "browser"
    /\ Tell(page.what.content)
    /\ Cross(call["save"].at = "sent")
    /\ UNCHANGED <<page, signed, draft, status, call, orphan, loads, lost>>

\* saveServerCheckpoint: one at a time, with the revision after the last heard of.
SaveServerCheckpoint ==
    /\ Working /\ ~Submitting
    /\ call["save"].at = "none"
    /\ page.what.rev < MaxRevision
    /\ CallIs("save", [NoCall("save") EXCEPT !.at = "sent", !.what = [page.what EXCEPT !.rev = @ + 1]])
    /\ UNCHANGED <<page, signed, kept, newer, draft, status, orphan, loads, lost, told, crossed>>

\* submit, by the button or when the time is up, or to end the session.
Submit(ends) ==
    /\ Working /\ ~Submitting
    /\ CallIs("submit", [NoCall("submit") EXCEPT !.at = "sent", !.what = page.what, !.ends = ends])
    /\ UNCHANGED <<page, signed, kept, newer, draft, status, orphan, loads, lost, told, crossed>>

TimeRunsOut ==
    /\ Working /\ ~page.paused /\ page.time = "left"
    /\ page' = [page EXCEPT !.time = "up"]
    /\ UNCHANGED <<signed, kept, newer, draft, status, call, orphan, loads, lost, told, crossed>>

\* Mutant of TimeUp: the timer fires once.
TimeUpOnce == page.time = "up" /\ ~page.paused /\ lost = 0 /\ Submit(FALSE)

\* The timer submits in every second in which no time is left.
TimeUp == page.time = "up" /\ ~page.paused /\ Submit(FALSE)

\* recordViolation: a dialog that pauses the timer, and at the limit stays.
Warn ==
    /\ Working /\ ~Submitting
    /\ page' = [page EXCEPT !.warned = IF @ < WarningLimit THEN @ + 1 ELSE @, !.paused = TRUE]
    /\ UNCHANGED <<signed, kept, newer, draft, status, call, orphan, loads, lost, told, crossed>>

Continue ==
    /\ Working /\ page.paused /\ page.warned < WarningLimit
    /\ page' = [page EXCEPT !.paused = FALSE]
    /\ UNCHANGED <<signed, kept, newer, draft, status, call, orphan, loads, lost, told, crossed>>

-----------------------------------------------------------------------------
(* The server. *)

\* A revision of the same submission that the row has already.
Known(what) == draft.sid = what.sid /\ what.rev <= draft.rev

\* issued_candidate_autosave
Autosave(c) ==
    IF status = "submitted" THEN [at |-> "refused", draft |-> draft, status |-> status]
    ELSE IF Known(c.what) THEN [at |-> "known", draft |-> draft, status |-> status]
    ELSE [at |-> "stored", draft |-> c.what, status |-> "draft"]

\* issued_candidate_submit
SubmitOnce(c) ==
    IF status # "submitted" THEN [at |-> "stored", draft |-> c.what, status |-> "submitted"]
    ELSE [at |-> IF draft.sid = c.what.sid THEN "known" ELSE "refused", draft |-> draft, status |-> status]

Handled(c) == IF c.op = "save" THEN Autosave(c) ELSE SubmitOnce(c)

Handle(op) ==
    /\ call[op].at = "sent"
    /\ LET reply == Handled(call[op])
       IN /\ draft' = reply.draft /\ status' = reply.status
          /\ newer' = IF op = "save" /\ reply.at = "stored" THEN "server" ELSE newer
          /\ CallIs(op, [call[op] EXCEPT !.at = reply.at])
    /\ UNCHANGED <<page, signed, kept, orphan, loads, lost, told, crossed>>

\* A call of a page that is gone comes in while its token is good.
HandleOrphan ==
    /\ orphan.at = "sent"
    /\ LET reply == Handled(orphan)
       IN /\ draft' = reply.draft /\ status' = reply.status
          /\ newer' = IF orphan.op = "save" /\ reply.at = "stored" THEN "server" ELSE newer
          /\ Cross(reply.at = "stored")
    /\ orphan' = NoCall("save")
    /\ UNCHANGED <<page, signed, kept, call, loads, lost, told>>

-----------------------------------------------------------------------------
(* Answers. *)

\* finishCandidateSession: the browser's draft and token go.
EndPage(phase) ==
    /\ page' = [Away EXCEPT !.phase = phase, !.what.content = page.what.content]
    /\ kept' = Nothing
    /\ signed' = FALSE
    /\ Abandon

\* A save of a revision the server has already is shown as saved like any other.
HearSaved ==
    /\ call["save"].at \in {"stored", "known"} /\ Working
    /\ page' = [page EXCEPT !.what.rev = Larger(@, IF call["save"].at = "known" THEN draft.rev
                                                   ELSE call["save"].what.rev)]
    /\ Tell(call["save"].what.content)
    /\ CallIs("save", NoCall("save"))
    /\ Cross(call["save"].at = "known")
    /\ UNCHANGED <<signed, kept, newer, draft, status, orphan, loads, lost>>

\* A save is refused, or lost on its way there or back.
SaveFails ==
    /\ call["save"].at # "none"
    /\ CallIs("save", NoCall("save"))
    /\ Cross(call["save"].at = "stored")
    /\ UNCHANGED <<page, signed, kept, newer, draft, status, orphan, loads, lost, told>>

\* Accepted: what the page takes for the end of its work.
HearSubmitted ==
    /\ call["submit"].at \in {"stored", "known"} /\ Working
    /\ EndPage("thanked")
    /\ UNCHANGED <<newer, draft, status, loads, lost, told, crossed>>

\* A session that is ended is closed all the same; other submits may be repeated.
SubmitFails ==
    /\ call["submit"].at # "none"
    /\ \/ call["submit"].at = "refused" /\ UNCHANGED lost
       \/ call["submit"].at # "refused" /\ lost < MaxFailures /\ lost' = lost + 1
    /\ IF call["submit"].ends THEN EndPage("ended")
       ELSE CallIs("submit", NoCall("submit")) /\ UNCHANGED <<page, kept, signed, orphan>>
    /\ Cross(call["submit"].at = "stored" \/ call["submit"].ends)
    /\ UNCHANGED <<newer, draft, status, loads, told>>

BrowserNext ==
    \/ Login \/ Leave \/ Reload
    \/ Edit \/ SaveBrowserDraft \/ SaveServerCheckpoint
    \/ \E ends \in BOOLEAN : Submit(ends)
    \/ TimeRunsOut \/ TimeUp \/ Warn \/ Continue
    \/ \E op \in PageOps : Handle(op)
    \/ HandleOrphan
    \/ HearSaved \/ SaveFails \/ HearSubmitted \/ SubmitFails

BrowserSpec == BrowserInit /\ [][BrowserNext]_browserVars

-----------------------------------------------------------------------------
(* Properties. *)

BrowserTypeOK ==
    /\ page \in Page /\ signed \in BOOLEAN
    /\ {kept, draft} \subseteq Saved
    /\ newer \in {"browser", "server"} /\ status \in {"none", "draft", "submitted"}
    /\ call \in [PageOps -> Call]
    /\ orphan \in Call
    /\ loads \in 0..MaxLoads /\ lost \in 0..MaxFailures
    /\ told \in Content /\ crossed \in BOOLEAN

\* What a page has shown as saved is there when the page is loaded again, unless
\* the answer to a save was lost, a call of an earlier page came late, a session
\* was ended by a submission that failed, a draft was kept in the browser while
\* an older one was on its way, or the two clocks disagree; or the page resumed a
\* draft of the browser with an older revision than the server's, and its next
\* save was one the server had already.
SavedIsRestored ==
    Working /\ page.what.content < told => crossed

\* A candidate who is thanked has all he did on record, unless an answer was
\* lost or a call came late before.
ThankedIsStored ==
    page.phase = "thanked" =>
      /\ status = "submitted"
      /\ draft.content = page.what.content \/ crossed

\* Time that runs out ends in a submission, though calls fail: unless the
\* page is left, a warning pauses it, or the submission is refused because
\* another page's was taken.
TimeUpEnds ==
    (Working /\ page.time = "up") ~> (~Working \/ page.paused \/ status = "submitted")
=============================================================================
