-------------------------- MODULE CandidatePageProofs --------------------------
(***************************************************************************)
(* For any number of edits, revisions, loads of the page and lost calls,   *)
(* sections' and signs' times of any length: what a page has shown as      *)
(* saved is what is restored, but for the exceptions its history names; a  *)
(* section that is done is answered and lasted no longer than its time; a  *)
(* session that is on is watched, and a signal has lasted.                 *)
(***************************************************************************)
EXTENDS MCCandidatePage, TLAPS

(* The page's drafts and its submission. *)

\* Calls are of a page at work, and carry no more than the page holds; what is
\* submitted is what the page holds until it hears of it.
CallsInv ==
    /\ Working => page.what.sid # 0
    /\ \A op \in PageOps : call[op].at # "none" =>
          /\ Working
          /\ call[op].what.sid # 0
          /\ call[op].what.content <= page.what.content
    /\ Submitting => call["submit"].what.content = page.what.content

\* Until the exceptions: what was shown as saved is in the draft that would be
\* restored, and a save under way does not take it back.
DraftsInv ==
    ~crossed =>
      /\ status # "submitted" => told <= Latest.content
      /\ Working => told <= page.what.content
      /\ call["save"].at = "sent" => told <= call["save"].what.content
      /\ status # "submitted" /\ call["save"].at = "stored" =>
            call["save"].what.content <= Latest.content

\* Only the page's own submission makes its work submitted.
SubmitInv ==
    /\ call["submit"].at \in {"stored", "known"} => status = "submitted"
    /\ ~crossed =>
         /\ call["submit"].at # "known"
         /\ Working /\ status = "submitted" => call["submit"].at = "stored"
         /\ call["submit"].at = "stored" => draft.content = page.what.content

BrowserInv == BrowserTypeOK /\ CallsInv /\ DraftsInv /\ SubmitInv /\ ThankedIsStored

-----------------------------------------------------------------------------
\* The parts of the type invariant the steps below need.
LEMMA BrowserTypes ==
  ASSUME BrowserTypeOK
  PROVE  /\ page \in Page /\ page.what \in Saved
         /\ {kept, draft} \subseteq Saved
         /\ call \in [PageOps -> Call] /\ orphan \in Call
         /\ \A op \in PageOps : call[op].what \in Saved /\ call[op].op \in PageOps
         /\ orphan.what \in Saved
         /\ told \in Nat /\ page.what.content \in Nat
<1>1. /\ page \in Page /\ page.what \in Saved
      /\ {kept, draft} \subseteq Saved
      /\ call \in [PageOps -> Call] /\ orphan \in Call
      /\ told \in Content
  BY DEF BrowserTypeOK, Page
<1>2. \A c \in Call : c.what \in Saved /\ c.op \in PageOps
  BY DEF Call
<1>3. \A s \in Saved : s.content \in Content
  BY DEF Saved
<1>4. Content \subseteq Nat
  BY BrowserAssumption DEF Content
<1> QED BY <1>1, <1>2, <1>3, <1>4

LEMMA NothingTypes ==
  /\ Nothing \in Saved /\ Away \in Page
  /\ NoCall("save") \in Call /\ NoCall("submit") \in Call
  BY BrowserAssumption DEF Nothing, Saved, Away, Page, NoCall, Call, PageOps, Content

LEMMA BrowserStart == BrowserInit => BrowserInv
<1> SUFFICES ASSUME BrowserInit PROVE BrowserInv
  OBVIOUS
<1> USE DEF BrowserInit
<1>1. BrowserTypeOK
  <2>1. call \in [PageOps -> Call]
    BY NothingTypes DEF PageOps
  <2>2. /\ loads \in 0..MaxLoads /\ lost \in 0..MaxFailures
        /\ told \in Content
    BY BrowserAssumption DEF Content
  <2> QED BY <2>1, <2>2, NothingTypes DEF BrowserTypeOK
<1>2. \A op \in PageOps : call[op].at = "none"
  BY DEF NoCall, PageOps
<1>3. ~Working /\ Latest.content = told /\ page.phase = "away" /\ told \in Nat
  BY DEF Working, Away, Latest, Nothing
<1>4. "save" \in PageOps /\ "submit" \in PageOps
  BY DEF PageOps
<1>5. CallsInv /\ DraftsInv /\ SubmitInv /\ ThankedIsStored
  BY <1>2, <1>3, <1>4 DEF CallsInv, DraftsInv, SubmitInv, ThankedIsStored, Submitting
<1> QED BY <1>1, <1>5 DEF BrowserInv

\* Which draft is the latest depends on the two drafts only.
LEMMA LatestStays ==
  ASSUME UNCHANGED <<kept, draft, newer>>
  PROVE  Latest' = Latest
  BY DEF Latest

\* A page at work that is edited, warned or timed keeps the rest.
LEMMA PageMoves ==
  ASSUME BrowserInv, page' \in Page, page'.phase = page.phase,
         page'.what.sid = page.what.sid,
         page'.what.content \in Nat, page.what.content <= page'.what.content,
         Submitting \/ ~Working => page'.what.content = page.what.content,
         UNCHANGED <<signed, kept, newer, draft, status, call, orphan, loads, lost, told, crossed>>
  PROVE  BrowserInv'
<1>0. /\ BrowserTypeOK /\ CallsInv /\ DraftsInv /\ SubmitInv /\ ThankedIsStored
      /\ told \in Nat /\ page.what.content \in Nat
      /\ \A op \in PageOps : call[op].what.content \in Nat
  BY BrowserTypes DEF BrowserInv, Saved, Content
<1>1. BrowserTypeOK'
  BY <1>0 DEF BrowserTypeOK
<1>2. Working' = Working /\ Submitting' = Submitting /\ Latest' = Latest
  BY LatestStays DEF Working, Submitting
<1>3. CallsInv'
  <2>1. ASSUME NEW op \in PageOps, call'[op].at # "none"
        PROVE  /\ Working' /\ call'[op].what.sid # 0
               /\ call'[op].what.content <= page'.what.content
    BY <1>0, <1>2, <2>1 DEF CallsInv
  <2>2. /\ Working' => page'.what.sid # 0
        /\ Submitting' => call'["submit"].what.content = page'.what.content
    BY <1>0, <1>2 DEF CallsInv
  <2> QED BY <2>1, <2>2 DEF CallsInv
<1>4. DraftsInv'
  BY <1>0, <1>2 DEF DraftsInv
<1>5. SubmitInv' /\ ThankedIsStored'
  <2>1. call["submit"].at = "stored" => Submitting
    BY DEF Submitting
  <2>2. page.phase = "thanked" => ~Working
    BY DEF Working
  <2> QED BY <1>0, <1>2, <2>1, <2>2 DEF SubmitInv, ThankedIsStored
<1> QED BY <1>1, <1>3, <1>4, <1>5 DEF BrowserInv

\* A page that is gone has no calls of its own.
LEMMA PageIsGone ==
  ASSUME page'.phase # "work", \A op \in PageOps : call'[op].at = "none",
         ~crossed' /\ status' # "submitted" => told' <= Latest'.content
  PROVE  CallsInv' /\ DraftsInv' /\ SubmitInv'
<1>1. ~Working' /\ "save" \in PageOps /\ "submit" \in PageOps
  BY DEF Working, PageOps
<1> QED BY <1>1 DEF CallsInv, DraftsInv, SubmitInv, Submitting

LEMMA WorkKeeps ==
  ASSUME BrowserInv, Edit \/ TimeRunsOut \/ Warn \/ Continue
  PROVE  BrowserInv'
<1>0. /\ page \in Page /\ page.what \in Saved /\ page.what.content \in Content
      /\ page.phase = "work"
  BY BrowserTypes DEF BrowserInv, Edit, TimeRunsOut, Warn, Continue, Working, Saved
<1>1. Content \subseteq Nat
  BY BrowserAssumption DEF Content
<1>2. CASE Edit
  <2>1. page.what.content + 1 \in Content
    BY <1>0, <1>2, BrowserAssumption DEF Edit, Content
  <2>2. page' = [page EXCEPT !.what = [page.what EXCEPT !.content = page.what.content + 1]]
    BY <1>0, <1>2 DEF Edit, Page, Saved
  <2>3. [page.what EXCEPT !.content = page.what.content + 1] \in Saved
    BY <1>0, <2>1 DEF Saved
  <2>4. /\ page' \in Page /\ page'.phase = page.phase
        /\ page'.what = [page.what EXCEPT !.content = page.what.content + 1]
    BY <1>0, <2>2, <2>3 DEF Page
  <2>5. page'.what.sid = page.what.sid /\ page'.what.content = page.what.content + 1
    BY <1>0, <2>4 DEF Saved
  <2>6. page.what.content \in Nat
    BY <1>0, <1>1
  <2>7. Working /\ ~Submitting
    BY <1>2 DEF Edit
  <2> QED BY <1>2, <2>4, <2>5, <2>6, <2>7, PageMoves DEF Edit
<1>3. CASE TimeRunsOut \/ Warn \/ Continue
  <2>1. page' \in Page /\ page'.phase = page.phase /\ page'.what = page.what
    <3>1. CASE TimeRunsOut
      BY <1>0, <3>1 DEF TimeRunsOut, Page
    <3>2. CASE Warn
      <4> DEFINE n == IF page.warned < WarningLimit THEN page.warned + 1 ELSE page.warned
      <4>1. n \in 0..WarningLimit
        BY <1>0, BrowserAssumption DEF Page
      <4>2. page' = [page EXCEPT !.warned = n, !.paused = TRUE]
        BY <3>2 DEF Warn
      <4> HIDE DEF n
      <4> QED BY <1>0, <4>1, <4>2 DEF Page
    <3>3. CASE Continue
      BY <1>0, <3>3 DEF Continue, Page
    <3> QED BY <1>3, <3>1, <3>2, <3>3
  <2>2. page.what.content \in Nat
    BY <1>0, <1>1
  <2> QED BY <1>3, <2>1, <2>2, PageMoves DEF TimeRunsOut, Warn, Continue
<1> QED BY <1>2, <1>3

LEMMA SaveBrowserDraftKeeps ==
  ASSUME BrowserInv, SaveBrowserDraft
  PROVE  BrowserInv'
<1>0. /\ BrowserTypeOK /\ CallsInv /\ DraftsInv /\ SubmitInv /\ ThankedIsStored
      /\ told \in Nat /\ page.what.content \in Nat /\ page.what \in Saved
      /\ call["save"].what.content \in Nat
      /\ page.what.content \in Content /\ told \in Content
  BY BrowserTypes DEF BrowserInv, BrowserTypeOK, Saved, Content, PageOps
<1>1. /\ kept' = page.what /\ newer' = "browser"
      /\ told' = Larger(told, page.what.content)
      /\ crossed' = (crossed \/ call["save"].at = "sent")
      /\ Working /\ ~Submitting
      /\ UNCHANGED <<page, signed, draft, status, call, orphan, loads, lost>>
  BY DEF SaveBrowserDraft, Tell, Cross
<1>2. told' \in Content /\ crossed' \in BOOLEAN
  BY <1>0, <1>1 DEF Larger, BrowserTypeOK
<1>3. BrowserTypeOK'
  BY <1>0, <1>1, <1>2 DEF BrowserTypeOK
<1>4. Working' = Working /\ Submitting' = Submitting
  BY <1>1 DEF Working, Submitting
<1>5. CallsInv'
  BY <1>0, <1>1, <1>4 DEF CallsInv
<1>6. Latest' = page.what
  BY <1>0, <1>1 DEF CallsInv, Latest
<1>7. DraftsInv'
  <2> SUFFICES ASSUME ~crossed'
               PROVE  /\ told' <= page.what.content
                      /\ call["save"].at # "sent"
                      /\ call["save"].at = "stored" => call["save"].what.content <= page.what.content
    BY <1>1, <1>4, <1>6 DEF DraftsInv
  <2>1. ~crossed /\ call["save"].at # "sent"
    BY <1>1
  <2>2. told' = page.what.content
    BY <1>0, <1>1, <2>1 DEF DraftsInv, Larger
  <2>3. call["save"].at = "stored" => call["save"].what.content <= page.what.content
    BY <1>0 DEF CallsInv, PageOps
  <2> QED BY <1>0, <2>1, <2>2, <2>3
<1>8. SubmitInv' /\ ThankedIsStored'
  BY <1>0, <1>1, <1>4 DEF SubmitInv, ThankedIsStored
<1> QED BY <1>3, <1>5, <1>7, <1>8 DEF BrowserInv

\* A call that is made carries what the page holds.
LEMMA CallIsMade ==
  ASSUME BrowserInv, NEW op \in PageOps, NEW c \in Call, Working, ~Submitting,
         c.at = "sent", c.what.content = page.what.content, c.what.sid = page.what.sid,
         call' = [call EXCEPT ![op] = c],
         UNCHANGED <<page, signed, kept, newer, draft, status, orphan, loads, lost, told, crossed>>
  PROVE  BrowserInv'
<1>0. /\ BrowserTypeOK /\ CallsInv /\ DraftsInv /\ SubmitInv /\ ThankedIsStored
      /\ told \in Nat /\ page.what.content \in Nat
      /\ call \in [PageOps -> Call] /\ PageOps = {"save", "submit"}
  BY BrowserTypes DEF BrowserInv, PageOps
<1>1. /\ call'[op] = c /\ \A o \in PageOps : o # op => call'[o] = call[o]
      /\ call' \in [PageOps -> Call]
  BY <1>0
<1>2. BrowserTypeOK'
  BY <1>0, <1>1 DEF BrowserTypeOK
<1>3. Working' = Working /\ Latest' = Latest
  BY LatestStays DEF Working
<1>4. CallsInv'
  <2>1. ASSUME NEW o \in PageOps, call'[o].at # "none"
        PROVE  /\ Working' /\ call'[o].what.sid # 0
               /\ call'[o].what.content <= page'.what.content
    <3>1. CASE o = op
      BY <3>1, <1>0, <1>1, <1>3 DEF CallsInv
    <3>2. CASE o # op
      BY <3>2, <2>1, <1>0, <1>1, <1>3 DEF CallsInv
    <3> QED BY <3>1, <3>2
  <2>2. Submitting' => call'["submit"].what.content = page'.what.content
    BY <1>0, <1>1 DEF Submitting
  <2> QED BY <1>0, <1>3, <2>1, <2>2 DEF CallsInv
<1>5. DraftsInv'
  BY <1>0, <1>1, <1>3 DEF DraftsInv
<1>6. call["submit"].at = "none" /\ call'["submit"].at \in {"none", "sent"}
  BY <1>0, <1>1 DEF Submitting
<1>7. SubmitInv' /\ ThankedIsStored'
  BY <1>0, <1>3, <1>6 DEF SubmitInv, ThankedIsStored
<1> QED BY <1>2, <1>4, <1>5, <1>7 DEF BrowserInv

LEMMA CallKeeps ==
  ASSUME BrowserInv, SaveServerCheckpoint \/ \E ends \in BOOLEAN : Submit(ends)
  PROVE  BrowserInv'
<1>0. page.what \in Saved /\ "save" \in PageOps /\ "submit" \in PageOps
  BY BrowserTypes DEF BrowserInv, PageOps
<1>1. CASE SaveServerCheckpoint
  <2> DEFINE what == [page.what EXCEPT !.rev = page.what.rev + 1]
             c == [NoCall("save") EXCEPT !.at = "sent", !.what = what]
  <2>1. page.what.rev + 1 \in 0..MaxRevision
    BY <1>0, <1>1, BrowserAssumption DEF SaveServerCheckpoint, Saved
  <2>2. what \in Saved /\ what.content = page.what.content /\ what.sid = page.what.sid
    BY <1>0, <2>1 DEF Saved
  <2>3. call' = [call EXCEPT !["save"] = c]
    BY <1>1 DEF SaveServerCheckpoint, CallIs
  <2> HIDE DEF what
  <2>4. c \in Call /\ c.at = "sent" /\ c.what = what
    BY <2>2, NothingTypes DEF Call, NoCall
  <2> HIDE DEF c
  <2> QED BY <1>0, <1>1, <2>2, <2>3, <2>4, CallIsMade DEF SaveServerCheckpoint
<1>2. ASSUME NEW ends \in BOOLEAN, Submit(ends) PROVE BrowserInv'
  <2> DEFINE c == [NoCall("submit") EXCEPT !.at = "sent", !.what = page.what, !.ends = ends]
  <2>1. c \in Call /\ c.at = "sent" /\ c.what = page.what
    BY <1>0, NothingTypes DEF Call, NoCall
  <2>2. call' = [call EXCEPT !["submit"] = c]
    BY <1>2 DEF Submit, CallIs
  <2> HIDE DEF c
  <2> QED BY <1>0, <1>2, <2>1, <2>2, CallIsMade DEF Submit
<1> QED BY <1>1, <1>2

-----------------------------------------------------------------------------
(* The server's handlers and their answers. *)

\* What a call does to the submission.
LEMMA HandledIs ==
  ASSUME BrowserInv, NEW c \in Call, c.at = "sent"
  PROVE  /\ Handled(c).at \in {"stored", "known", "refused"}
         /\ Handled(c).draft \in Saved
         /\ Handled(c).status \in {"none", "draft", "submitted"}
         /\ Handled(c).at # "stored" => Handled(c).draft = draft /\ Handled(c).status = status
         /\ Handled(c).at = "stored" =>
               /\ status # "submitted" /\ Handled(c).draft = c.what
               /\ Handled(c).status = IF c.op = "save" THEN "draft" ELSE "submitted"
         /\ status = "submitted" => Handled(c).status = "submitted"
         /\ c.op = "submit" =>
               /\ Handled(c).at = "known" => status = "submitted"
               /\ status # "submitted" => Handled(c).at = "stored"
<1>1. c.what \in Saved /\ c.op \in PageOps /\ draft \in Saved
      /\ status \in {"none", "draft", "submitted"}
  BY BrowserTypes DEF Call, BrowserInv, BrowserTypeOK
<1>2. CASE c.op = "save"
  <2>1. Handled(c) = Autosave(c)
    BY <1>2 DEF Handled
  <2>2. \/ status = "submitted" /\ Autosave(c) = [at |-> "refused", draft |-> draft, status |-> status]
        \/ status # "submitted" /\ Autosave(c) = [at |-> "known", draft |-> draft, status |-> status]
        \/ status # "submitted" /\ Autosave(c) = [at |-> "stored", draft |-> c.what, status |-> "draft"]
    BY DEF Autosave
  <2> QED BY <1>1, <1>2, <2>1, <2>2
<1>3. CASE c.op = "submit"
  <2>1. Handled(c) = SubmitOnce(c)
    BY <1>3 DEF Handled
  <2>2. \/ status # "submitted"
           /\ SubmitOnce(c) = [at |-> "stored", draft |-> c.what, status |-> "submitted"]
        \/ status = "submitted"
           /\ SubmitOnce(c) = [at |-> "known", draft |-> draft, status |-> status]
        \/ status = "submitted"
           /\ SubmitOnce(c) = [at |-> "refused", draft |-> draft, status |-> status]
    BY DEF SubmitOnce
  <2> QED BY <1>1, <1>3, <2>1, <2>2
<1> QED BY <1>1, <1>2, <1>3 DEF PageOps

\* What is true of the calls does not depend on the server.
LEMMA CallsStay ==
  ASSUME CallsInv, page' = page,
         \A op \in PageOps : call'[op].at # "none" =>
            call[op].at # "none" /\ call'[op].what = call[op].what
  PROVE  CallsInv'
<1>1. Working' = Working /\ "submit" \in PageOps
  BY DEF Working, PageOps
<1>2. Submitting' => Submitting /\ call'["submit"].what = call["submit"].what
  BY <1>1 DEF Submitting
<1> QED BY <1>1, <1>2 DEF CallsInv

\* A call's own steps are typed.
LEMMA CallTypes ==
  ASSUME BrowserTypeOK, NEW op \in PageOps, NEW at \in {"none", "sent", "stored", "known", "refused"},
         call' = [call EXCEPT ![op] = [call[op] EXCEPT !.at = at]]
  PROVE  /\ call' \in [PageOps -> Call]
         /\ call'[op].at = at /\ call'[op].what = call[op].what
         /\ \A o \in PageOps : o # op => call'[o] = call[o]
         /\ \A o \in PageOps : call'[o].what = call[o].what
<1>1. call \in [PageOps -> Call] /\ call[op] \in Call
  BY BrowserTypes
<1>2. [call[op] EXCEPT !.at = at] \in Call
  BY <1>1 DEF Call
<1> QED BY <1>1, <1>2 DEF Call

LEMMA NoCallTypes ==
  ASSUME BrowserTypeOK, NEW op \in PageOps, call' = [call EXCEPT ![op] = NoCall(op)]
  PROVE  /\ call' \in [PageOps -> Call] /\ call'[op].at = "none"
         /\ \A o \in PageOps : o # op => call'[o] = call[o]
  BY BrowserTypes, NothingTypes DEF NoCall, PageOps

LEMMA HandleKeeps ==
  ASSUME BrowserInv, NEW op \in PageOps, call[op].op = op, Handle(op)
  PROVE  BrowserInv'
<1> DEFINE reply == Handled(call[op])
<1>0. /\ BrowserTypeOK /\ CallsInv /\ DraftsInv /\ SubmitInv /\ ThankedIsStored
      /\ told \in Nat /\ page.what.content \in Nat
      /\ call \in [PageOps -> Call] /\ call[op] \in Call /\ call[op].at = "sent"
      /\ call["save"].what.content \in Nat
      /\ PageOps = {"save", "submit"}
  BY BrowserTypes DEF BrowserInv, PageOps, Handle, Saved, Content
<1>1. /\ draft' = reply.draft /\ status' = reply.status
      /\ newer' = IF op = "save" /\ reply.at = "stored" THEN "server" ELSE newer
      /\ call' = [call EXCEPT ![op] = [call[op] EXCEPT !.at = reply.at]]
      /\ UNCHANGED <<page, signed, kept, orphan, loads, lost, told, crossed>>
  BY DEF Handle, CallIs
<1>2. /\ reply.at \in {"stored", "known", "refused"} /\ reply.draft \in Saved
      /\ reply.status \in {"none", "draft", "submitted"}
      /\ reply.at # "stored" => reply.draft = draft /\ reply.status = status
      /\ reply.at = "stored" =>
            /\ status # "submitted" /\ reply.draft = call[op].what
            /\ reply.status = IF op = "save" THEN "draft" ELSE "submitted"
      /\ status = "submitted" => reply.status = "submitted"
      /\ op = "submit" =>
            /\ reply.at = "known" => status = "submitted"
            /\ status # "submitted" => reply.at = "stored"
  BY <1>0, HandledIs
<1> HIDE DEF reply
<1>3. /\ call' \in [PageOps -> Call]
      /\ call'[op].at = reply.at
      /\ \A o \in PageOps : o # op => call'[o] = call[o]
      /\ \A o \in PageOps : call'[o].what = call[o].what
  BY <1>0, <1>1, <1>2, CallTypes
<1>4. BrowserTypeOK'
  BY <1>0, <1>1, <1>2, <1>3 DEF BrowserTypeOK
<1>5. CallsInv'
  <2>1. \A o \in PageOps : call'[o].at # "none" => call[o].at # "none"
    BY <1>0, <1>3
  <2> QED BY <1>0, <1>1, <1>3, <2>1, CallsStay
<1>6. Working' = Working
  BY <1>1 DEF Working
<1>7. Working /\ call[op].what.sid # 0 /\ call["submit"].what.content \in Nat
  BY <1>0, BrowserTypes DEF CallsInv, Saved, Content
<1>8. CASE reply.at # "stored"
  <2>1. draft' = draft /\ status' = status /\ newer' = newer /\ Latest' = Latest
    BY <1>1, <1>2, <1>8, LatestStays
  <2>2. DraftsInv'
    BY <1>0, <1>1, <1>2, <1>3, <1>6, <1>8, <2>1 DEF DraftsInv
  <2>3. SubmitInv' /\ ThankedIsStored'
    BY <1>0, <1>1, <1>2, <1>3, <1>6, <1>7, <1>8, <2>1 DEF SubmitInv, ThankedIsStored
  <2> QED BY <1>4, <1>5, <2>2, <2>3 DEF BrowserInv
<1>9. CASE reply.at = "stored" /\ op = "save"
  <2>1. /\ draft' = call["save"].what /\ newer' = "server" /\ status' = "draft"
        /\ status # "submitted" /\ call'["save"].at = "stored" /\ call["save"].at = "sent"
        /\ call'["submit"] = call["submit"]
    BY <1>0, <1>1, <1>2, <1>3, <1>9
  <2>2. Latest' = draft'
    BY <1>7, <1>9, <2>1 DEF Latest
  <2>3. DraftsInv'
    BY <1>0, <1>1, <1>3, <1>6, <2>1, <2>2 DEF DraftsInv
  <2>4. SubmitInv' /\ ThankedIsStored'
    BY <1>0, <1>1, <1>6, <1>7, <2>1 DEF SubmitInv, ThankedIsStored, Working
  <2> QED BY <1>4, <1>5, <2>3, <2>4 DEF BrowserInv
<1>10. CASE reply.at = "stored" /\ op = "submit"
  <2>1. /\ draft' = call["submit"].what /\ status' = "submitted"
        /\ call'["submit"].at = "stored" /\ call["submit"].at = "sent"
        /\ call'["save"] = call["save"]
    BY <1>0, <1>1, <1>2, <1>3, <1>10
  <2>2. DraftsInv'
    BY <1>0, <1>1, <1>6, <2>1 DEF DraftsInv
  <2>3. call["submit"].what.content = page.what.content
    BY <1>0, <2>1 DEF CallsInv, Submitting
  <2>4. SubmitInv' /\ ThankedIsStored'
    BY <1>0, <1>1, <1>6, <1>7, <2>1, <2>3 DEF SubmitInv, ThankedIsStored, Working
  <2> QED BY <1>4, <1>5, <2>2, <2>4 DEF BrowserInv
<1> QED BY <1>0, <1>2, <1>8, <1>9, <1>10

LEMMA HandleOrphanKeeps ==
  ASSUME BrowserInv, HandleOrphan
  PROVE  BrowserInv'
<1> DEFINE reply == Handled(orphan)
<1>0. /\ BrowserTypeOK /\ CallsInv /\ DraftsInv /\ SubmitInv /\ ThankedIsStored
      /\ orphan \in Call /\ orphan.at = "sent"
  BY BrowserTypes DEF BrowserInv, HandleOrphan
<1>1. /\ draft' = reply.draft /\ status' = reply.status
      /\ newer' = IF orphan.op = "save" /\ reply.at = "stored" THEN "server" ELSE newer
      /\ crossed' = (crossed \/ reply.at = "stored")
      /\ orphan' = NoCall("save")
      /\ UNCHANGED <<page, signed, kept, call, loads, lost, told>>
  BY DEF HandleOrphan, Cross
<1>2. /\ reply.at \in {"stored", "known", "refused"} /\ reply.draft \in Saved
      /\ reply.status \in {"none", "draft", "submitted"}
      /\ reply.at # "stored" => reply.draft = draft /\ reply.status = status
      /\ reply.at = "stored" => status # "submitted"
      /\ status = "submitted" => reply.status = "submitted"
  BY <1>0, HandledIs
<1> HIDE DEF reply
<1>3. BrowserTypeOK'
  BY <1>0, <1>1, <1>2, NothingTypes DEF BrowserTypeOK
<1>4. CallsInv'
  BY <1>0, <1>1, CallsStay
<1>5. Working' = Working
  BY <1>1 DEF Working
<1>6. CASE reply.at = "stored"
  <2>1. crossed' /\ status # "submitted"
    BY <1>1, <1>2, <1>6
  <2> QED BY <1>0, <1>1, <1>3, <1>4, <2>1 DEF BrowserInv, DraftsInv, SubmitInv, ThankedIsStored
<1>7. CASE reply.at # "stored"
  <2>1. /\ draft' = draft /\ status' = status /\ newer' = newer /\ Latest' = Latest
        /\ crossed' = crossed
    BY <1>0, <1>1, <1>2, <1>7, LatestStays DEF BrowserTypeOK
  <2>2. DraftsInv' /\ SubmitInv' /\ ThankedIsStored'
    BY <1>0, <1>1, <1>5, <2>1 DEF DraftsInv, SubmitInv, ThankedIsStored
  <2> QED BY <1>3, <1>4, <2>2 DEF BrowserInv
<1> QED BY <1>6, <1>7

-----------------------------------------------------------------------------
(* Answers, and the page's own end. *)

LEMMA HearSavedKeeps ==
  ASSUME BrowserInv, HearSaved
  PROVE  BrowserInv'
<1> DEFINE rev == Larger(page.what.rev, IF call["save"].at = "known" THEN draft.rev
                                        ELSE call["save"].what.rev)
           c == call["save"].what.content
<1>0. /\ BrowserTypeOK /\ CallsInv /\ DraftsInv /\ SubmitInv /\ ThankedIsStored
      /\ told \in Nat /\ page.what.content \in Nat /\ page \in Page
      /\ call \in [PageOps -> Call] /\ PageOps = {"save", "submit"}
      /\ page.what \in Saved /\ draft \in Saved /\ call["save"].what \in Saved
  BY BrowserTypes DEF BrowserInv, PageOps
<1>1. /\ call["save"].at \in {"stored", "known"} /\ Working
      /\ page' = [page EXCEPT !.what = [page.what EXCEPT !.rev = rev]]
      /\ told' = Larger(told, c)
      /\ call' = [call EXCEPT !["save"] = NoCall("save")]
      /\ crossed' = (crossed \/ call["save"].at = "known")
      /\ UNCHANGED <<signed, kept, newer, draft, status, orphan, loads, lost>>
  BY <1>0 DEF HearSaved, Tell, CallIs, Cross, Page, Saved
<1>2. rev \in 0..MaxRevision /\ c \in Content /\ Content \subseteq Nat
  BY <1>0, BrowserAssumption DEF Saved, Larger, Content
<1> HIDE DEF rev
<1>3. /\ page' \in Page /\ page'.phase = page.phase
      /\ page'.what.sid = page.what.sid /\ page'.what.content = page.what.content
  BY <1>0, <1>1, <1>2 DEF Page, Saved
<1>4. /\ call' \in [PageOps -> Call] /\ call'["save"].at = "none"
      /\ call'["submit"] = call["submit"]
  BY <1>0, <1>1, NoCallTypes
<1>5. told' \in Content /\ crossed' \in BOOLEAN
  BY <1>0, <1>1, <1>2 DEF Larger, BrowserTypeOK
<1>6. BrowserTypeOK'
  BY <1>0, <1>1, <1>3, <1>4, <1>5 DEF BrowserTypeOK
<1>7. Working' /\ Latest' = Latest /\ Submitting' = Submitting
  BY <1>1, <1>3, <1>4, LatestStays DEF Working, Submitting
<1>8. CallsInv'
  BY <1>0, <1>1, <1>3, <1>4, <1>7 DEF CallsInv
<1>9. c <= page.what.content
  BY <1>0, <1>1 DEF CallsInv
<1>10. DraftsInv'
  <2> SUFFICES ASSUME ~crossed'
               PROVE  /\ status # "submitted" => told' <= Latest.content
                      /\ told' <= page.what.content
    BY <1>1, <1>3, <1>4, <1>7 DEF DraftsInv
  <2>1. ~crossed /\ call["save"].at = "stored"
    BY <1>1
  <2>2. status # "submitted" => c <= Latest.content /\ told <= Latest.content
    BY <1>0, <2>1 DEF DraftsInv
  <2>3. told <= page.what.content
    BY <1>0, <1>1, <2>1 DEF DraftsInv
  <2>4. told' = c \/ told' = told
    BY <1>1 DEF Larger
  <2> QED BY <1>9, <2>2, <2>3, <2>4
<1>11. SubmitInv' /\ ThankedIsStored'
  BY <1>0, <1>1, <1>3, <1>4, <1>7 DEF SubmitInv, ThankedIsStored, Working
<1> QED BY <1>6, <1>8, <1>10, <1>11 DEF BrowserInv

LEMMA SaveFailsKeeps ==
  ASSUME BrowserInv, SaveFails
  PROVE  BrowserInv'
<1>0. /\ BrowserTypeOK /\ CallsInv /\ DraftsInv /\ SubmitInv /\ ThankedIsStored
      /\ PageOps = {"save", "submit"}
  BY DEF BrowserInv, PageOps
<1>1. /\ call' = [call EXCEPT !["save"] = NoCall("save")]
      /\ crossed' = (crossed \/ call["save"].at = "stored")
      /\ UNCHANGED <<page, signed, kept, newer, draft, status, orphan, loads, lost, told>>
  BY DEF SaveFails, CallIs, Cross
<1>2. /\ call' \in [PageOps -> Call] /\ call'["save"].at = "none"
      /\ call'["submit"] = call["submit"]
  BY <1>0, <1>1, NoCallTypes
<1>3. BrowserTypeOK'
  BY <1>0, <1>1, <1>2 DEF BrowserTypeOK
<1>4. Working' = Working /\ Latest' = Latest
  BY <1>1, LatestStays DEF Working
<1>5. CallsInv'
  BY <1>0, <1>1, <1>2, CallsStay
<1>6. DraftsInv' /\ SubmitInv' /\ ThankedIsStored'
  BY <1>0, <1>1, <1>2, <1>4 DEF DraftsInv, SubmitInv, ThankedIsStored
<1> QED BY <1>3, <1>5, <1>6 DEF BrowserInv

\* The submit that is over without the page: its save goes on.
LEMMA SubmitIsRepeatedKeeps ==
  ASSUME BrowserInv, SubmitFails, ~call["submit"].ends
  PROVE  BrowserInv'
<1>0. /\ BrowserTypeOK /\ CallsInv /\ DraftsInv /\ SubmitInv /\ ThankedIsStored
      /\ PageOps = {"save", "submit"}
  BY DEF BrowserInv, PageOps
<1>1. /\ call' = [call EXCEPT !["submit"] = NoCall("submit")]
      /\ crossed' = (crossed \/ call["submit"].at = "stored" \/ call["submit"].ends)
      /\ call["submit"].at # "none"
      /\ UNCHANGED <<page, signed, kept, newer, draft, status, orphan, loads, told>>
  BY DEF SubmitFails, CallIs, Cross
<1>2. /\ call' \in [PageOps -> Call] /\ call'["submit"].at = "none"
      /\ call'["save"] = call["save"]
  BY <1>0, <1>1, NoCallTypes
<1>3. lost' \in 0..MaxFailures
  BY <1>0, BrowserAssumption DEF SubmitFails, BrowserTypeOK
<1>4. BrowserTypeOK'
  BY <1>0, <1>1, <1>2, <1>3 DEF BrowserTypeOK
<1>5. Working' = Working /\ Latest' = Latest
  BY <1>1, LatestStays DEF Working
<1>6. CallsInv'
  BY <1>0, <1>1, <1>2, CallsStay
<1>7. DraftsInv' /\ ThankedIsStored'
  BY <1>0, <1>1, <1>2, <1>5 DEF DraftsInv, ThankedIsStored
<1>8. SubmitInv'
  BY <1>0, <1>1, <1>2, <1>5 DEF SubmitInv
<1> QED BY <1>4, <1>6, <1>7, <1>8 DEF BrowserInv

\* What a page leaves behind is one of its calls, or the one of a page before.
LEMMA AbandonTypes ==
  ASSUME BrowserTypeOK, Abandon
  PROVE  /\ orphan' \in Call /\ call' \in [PageOps -> Call]
         /\ \A op \in PageOps : call'[op].at = "none"
<1>1. call \in [PageOps -> Call] /\ orphan \in Call /\ PageOps = {"save", "submit"}
  BY DEF BrowserTypeOK, PageOps
<1>2. \A op \in PageOps : [call[op] EXCEPT !.ends = FALSE] \in Call
  BY <1>1 DEF Call
<1>3. orphan' \in Call
  BY <1>1, <1>2, NothingTypes DEF Abandon
<1>4. \A op \in PageOps : NoCall(op) \in Call /\ NoCall(op).at = "none"
  BY <1>1, NothingTypes DEF NoCall
<1>5. call' = [op \in PageOps |-> NoCall(op)]
  BY DEF Abandon
<1> QED BY <1>3, <1>4, <1>5

LEMMA LeaveKeeps ==
  ASSUME BrowserInv, Leave
  PROVE  BrowserInv'
<1>0. /\ BrowserTypeOK /\ DraftsInv /\ SubmitInv
      /\ "save" \in PageOps /\ "submit" \in PageOps
  BY DEF BrowserInv, PageOps
<1>1. /\ page' = Away /\ Abandon
      /\ crossed' = (crossed \/ \E op \in PageOps : call[op].at = "stored")
      /\ UNCHANGED <<signed, kept, newer, draft, status, loads, lost, told>>
  BY DEF Leave, Cross
<1>2. /\ orphan' \in Call /\ call' \in [PageOps -> Call]
      /\ \A op \in PageOps : call'[op].at = "none"
  BY <1>0, <1>1, AbandonTypes
<1>3. BrowserTypeOK'
  BY <1>0, <1>1, <1>2, NothingTypes DEF BrowserTypeOK
<1>4. Latest' = Latest /\ page'.phase = "away"
  BY <1>1, LatestStays DEF Away
<1>5. ~crossed' /\ status' # "submitted" => told' <= Latest'.content
  <2> SUFFICES ASSUME ~crossed', status # "submitted" PROVE told <= Latest.content
    BY <1>1, <1>4
  <2>1. ~crossed
    BY <1>1
  <2> QED BY <1>0, <2>1 DEF DraftsInv
<1>6. CallsInv' /\ DraftsInv' /\ SubmitInv'
  BY <1>2, <1>4, <1>5, PageIsGone
<1>7. ThankedIsStored'
  BY <1>4 DEF ThankedIsStored
<1> QED BY <1>3, <1>6, <1>7 DEF BrowserInv

\* What the end of a page leaves.
LEMMA EndPageTypes ==
  ASSUME BrowserTypeOK, NEW phase \in {"thanked", "ended"}, EndPage(phase)
  PROVE  /\ page' \in Page /\ page'.phase = phase /\ page'.what.content = page.what.content
         /\ kept' \in Saved /\ signed' = FALSE
         /\ orphan' \in Call /\ call' \in [PageOps -> Call]
         /\ \A op \in PageOps : call'[op].at = "none"
<1>1. page.what \in Saved /\ Nothing \in Saved /\ Away \in Page
  BY BrowserTypes, NothingTypes
<1>2. page' = [[Away EXCEPT !.phase = phase] EXCEPT
                  !.what = [Away.what EXCEPT !.content = page.what.content]]
  BY DEF EndPage, Away, Nothing
<1>3. /\ [Away.what EXCEPT !.content = page.what.content] \in Saved
      /\ [Away.what EXCEPT !.content = page.what.content].content = page.what.content
  BY <1>1 DEF Saved, Away, Nothing
<1>4. page' \in Page /\ page'.phase = phase /\ page'.what.content = page.what.content
  BY <1>1, <1>2, <1>3 DEF Page
<1>5. kept' = Nothing /\ signed' = FALSE /\ Abandon
  BY DEF EndPage
<1> QED BY <1>1, <1>4, <1>5, AbandonTypes

LEMMA HearSubmittedKeeps ==
  ASSUME BrowserInv, HearSubmitted
  PROVE  BrowserInv'
<1>0. BrowserTypeOK /\ SubmitInv
  BY DEF BrowserInv
<1>1. /\ call["submit"].at \in {"stored", "known"} /\ EndPage("thanked")
      /\ UNCHANGED <<newer, draft, status, loads, lost, told, crossed>>
  BY DEF HearSubmitted
<1>2. /\ page' \in Page /\ page'.phase = "thanked" /\ page'.what.content = page.what.content
      /\ kept' \in Saved /\ signed' = FALSE
      /\ orphan' \in Call /\ call' \in [PageOps -> Call]
      /\ \A op \in PageOps : call'[op].at = "none"
  BY <1>0, <1>1, EndPageTypes
<1>3. BrowserTypeOK'
  BY <1>0, <1>1, <1>2 DEF BrowserTypeOK
<1>4. status' = "submitted"
  BY <1>0, <1>1 DEF SubmitInv
<1>5. CallsInv' /\ DraftsInv' /\ SubmitInv'
  BY <1>2, <1>4, PageIsGone
<1>6. ThankedIsStored'
  BY <1>0, <1>1, <1>2, <1>4 DEF ThankedIsStored, SubmitInv
<1> QED BY <1>3, <1>5, <1>6 DEF BrowserInv

LEMMA SessionIsEndedKeeps ==
  ASSUME BrowserInv, SubmitFails, call["submit"].ends
  PROVE  BrowserInv'
<1>0. BrowserTypeOK
  BY DEF BrowserInv
<1>1. /\ EndPage("ended") /\ crossed' = TRUE
      /\ UNCHANGED <<newer, draft, status, loads, told>>
  BY DEF SubmitFails, Cross
<1>2. lost' \in 0..MaxFailures
  BY <1>0, BrowserAssumption DEF SubmitFails, BrowserTypeOK
<1>3. /\ page' \in Page /\ page'.phase = "ended"
      /\ kept' \in Saved /\ signed' = FALSE
      /\ orphan' \in Call /\ call' \in [PageOps -> Call]
      /\ \A op \in PageOps : call'[op].at = "none"
  BY <1>0, <1>1, EndPageTypes
<1>4. BrowserTypeOK'
  BY <1>0, <1>1, <1>2, <1>3 DEF BrowserTypeOK
<1>5. CallsInv' /\ DraftsInv' /\ SubmitInv'
  BY <1>1, <1>3, PageIsGone
<1>6. ThankedIsStored'
  BY <1>3 DEF ThankedIsStored
<1> QED BY <1>4, <1>5, <1>6 DEF BrowserInv

-----------------------------------------------------------------------------
(* Loading. *)

LEMMA LoadMeKeeps ==
  ASSUME BrowserInv, LoadMe, \A op \in PageOps : call'[op].at = "none",
         call' \in [PageOps -> Call], orphan' \in Call
  PROVE  BrowserInv'
<1>0. /\ BrowserTypeOK /\ DraftsInv
      /\ kept \in Saved /\ draft \in Saved /\ Nothing \in Saved /\ Away \in Page
      /\ told \in Nat /\ loads \in 0..MaxLoads /\ MaxLoads \in Nat
      /\ "save" \in PageOps /\ "submit" \in PageOps
  BY NothingTypes, BrowserTypes, BrowserAssumption DEF BrowserInv, BrowserTypeOK, PageOps
<1>1. /\ loads' = loads + 1 /\ loads' \in 0..MaxLoads /\ loads' # 0
      /\ UNCHANGED <<newer, draft, status, lost, told>>
  <2>1. /\ loads < MaxLoads /\ loads' = loads + 1
        /\ UNCHANGED <<newer, draft, status, lost, told>>
    BY DEF LoadMe
  <2>2. loads + 1 \in 0..MaxLoads /\ loads + 1 # 0
    BY <1>0, <2>1
  <2> QED BY <2>1, <2>2
<1>2. CASE status = "submitted"
  <2>1. /\ page' = [Away EXCEPT !.phase = "closed"] /\ kept' = Nothing /\ signed' = FALSE
        /\ crossed' = crossed
    BY <1>2 DEF LoadMe
  <2>2. page' \in Page /\ page'.phase = "closed"
    BY <1>0, <2>1 DEF Page, Away
  <2>3. BrowserTypeOK'
    BY <1>0, <1>1, <2>1, <2>2 DEF BrowserTypeOK
  <2>4. CallsInv' /\ DraftsInv' /\ SubmitInv'
    BY <1>1, <1>2, <2>2, PageIsGone
  <2>5. ThankedIsStored'
    BY <2>2 DEF ThankedIsStored
  <2> QED BY <2>3, <2>4, <2>5 DEF BrowserInv
<1>3. CASE status # "submitted"
  <2>1. PICK found \in Chosen :
          /\ page' = [Away EXCEPT !.phase = "work", !.what = Restored(found, loads')]
          /\ crossed' = (crossed \/ found # Latest)
    BY <1>3 DEF LoadMe, Cross
  <2>2. signed' = TRUE /\ kept' = kept
    BY <1>3 DEF LoadMe
  <2>3. found \in Saved
    BY <1>0, <2>1 DEF Chosen, Latest
  <2>4. /\ Restored(found, loads') \in Saved /\ Restored(found, loads').sid # 0
        /\ Restored(found, loads').content = found.content
    BY <1>0, <1>1, <2>3 DEF Restored, Saved
  <2>5. page' \in Page /\ page'.phase = "work" /\ page'.what = Restored(found, loads')
    BY <1>0, <2>1, <2>4 DEF Page, Away
  <2>6. BrowserTypeOK'
    BY <1>0, <1>1, <2>1, <2>2, <2>5 DEF BrowserTypeOK
  <2>7. Latest' = Latest
    BY <1>1, <2>2, LatestStays
  <2>8. CallsInv' /\ SubmitInv' /\ ThankedIsStored'
    BY <1>0, <1>1, <1>3, <2>4, <2>5
    DEF CallsInv, SubmitInv, ThankedIsStored, Working, Submitting
  <2>9. DraftsInv'
    <3> SUFFICES ASSUME ~crossed'
                 PROVE  told <= Latest.content /\ told <= page'.what.content
      BY <1>0, <1>1, <1>3, <2>7 DEF DraftsInv
    <3>1. ~crossed /\ found = Latest
      BY <2>1
    <3>2. told <= Latest.content
      BY <1>0, <1>3, <3>1 DEF DraftsInv
    <3> QED BY <2>4, <2>5, <3>1, <3>2
  <2> QED BY <2>6, <2>8, <2>9 DEF BrowserInv
<1> QED BY <1>2, <1>3

LEMMA LoadKeeps ==
  ASSUME BrowserInv, Login \/ Reload
  PROVE  BrowserInv'
<1>0. BrowserTypeOK /\ CallsInv /\ call \in [PageOps -> Call] /\ orphan \in Call
  BY DEF BrowserInv, BrowserTypeOK
<1>1. CASE Login
  <2>1. /\ LoadMe /\ call' = [op \in PageOps |-> NoCall(op)] /\ orphan' = NoCall("save")
    BY <1>1 DEF Login
  <2>2. \A op \in PageOps : NoCall(op) \in Call /\ NoCall(op).at = "none"
    BY NothingTypes DEF NoCall, PageOps
  <2> QED BY <2>1, <2>2, NothingTypes, LoadMeKeeps
<1>2. CASE Reload
  <2>1. LoadMe /\ UNCHANGED <<call, orphan>> /\ ~Working
    BY <1>2 DEF Reload, Working
  <2>2. \A op \in PageOps : call[op].at = "none"
    BY <1>0, <2>1 DEF CallsInv
  <2> QED BY <1>0, <2>1, <2>2, LoadMeKeeps
<1> QED BY <1>1, <1>2

-----------------------------------------------------------------------------
\* A call keeps the kind of its slot.
OpsInv == \A op \in PageOps : call[op].op = op

LEMMA OpsStart == BrowserInit => OpsInv
  BY DEF BrowserInit, OpsInv, NoCall

LEMMA OpsStay ==
  ASSUME BrowserTypeOK, OpsInv, BrowserNext \/ UNCHANGED browserVars
  PROVE  OpsInv'
<1>0. call \in [PageOps -> Call] /\ PageOps = {"save", "submit"}
  BY DEF BrowserTypeOK, PageOps
<1>1. ASSUME UNCHANGED call PROVE OpsInv'
  BY <1>1 DEF OpsInv
<1>2. ASSUME call' = [op \in PageOps |-> NoCall(op)] PROVE OpsInv'
  BY <1>2 DEF OpsInv, NoCall
<1>3. ASSUME NEW op \in PageOps, NEW c, CallIs(op, c), c.op = op PROVE OpsInv'
  BY <1>0, <1>3 DEF OpsInv, CallIs
<1>4. CASE UNCHANGED browserVars
  BY <1>1, <1>4 DEF browserVars
<1>5. CASE Login \/ Leave \/ HearSubmitted
  BY <1>2, <1>5 DEF Login, Leave, HearSubmitted, EndPage, Abandon
<1>6. CASE Reload \/ Edit \/ SaveBrowserDraft \/ TimeRunsOut \/ Warn \/ Continue \/ HandleOrphan
  BY <1>1, <1>6 DEF Reload, Edit, SaveBrowserDraft, TimeRunsOut, Warn, Continue, HandleOrphan
<1>7. CASE SaveServerCheckpoint \/ HearSaved \/ SaveFails
  <2>1. NoCall("save").op = "save"
        /\ [NoCall("save") EXCEPT !.at = "sent", !.what = [page.what EXCEPT !.rev = @ + 1]].op = "save"
    BY DEF NoCall
  <2> QED BY <1>0, <1>3, <1>7, <2>1 DEF SaveServerCheckpoint, HearSaved, SaveFails
<1>8. ASSUME NEW ends \in BOOLEAN, Submit(ends) PROVE OpsInv'
  <2>1. [NoCall("submit") EXCEPT !.at = "sent", !.what = page.what, !.ends = ends].op = "submit"
    BY DEF NoCall
  <2> QED BY <1>0, <1>3, <1>8, <2>1 DEF Submit
<1>9. ASSUME NEW op \in PageOps, Handle(op) PROVE OpsInv'
  <2>1. [call[op] EXCEPT !.at = Handled(call[op]).at].op = op
    BY <1>0 DEF OpsInv, Call
  <2> QED BY <1>3, <1>9, <2>1 DEF Handle
<1>10. CASE SubmitFails
  <2>1. NoCall("submit").op = "submit"
    BY DEF NoCall
  <2> QED BY <1>0, <1>2, <1>3, <1>10, <2>1 DEF SubmitFails, EndPage, Abandon
<1> QED BY <1>4, <1>5, <1>6, <1>7, <1>8, <1>9, <1>10 DEF BrowserNext, TimeUp

LEMMA BrowserStep ==
  ASSUME BrowserInv, OpsInv, BrowserNext \/ UNCHANGED browserVars
  PROVE  BrowserInv' /\ OpsInv'
<1>1. OpsInv'
  BY OpsStay DEF BrowserInv
<1>2. CASE UNCHANGED browserVars
  <2>1. BrowserTypeOK' = BrowserTypeOK /\ ThankedIsStored' = ThankedIsStored
    BY <1>2 DEF browserVars, BrowserTypeOK, ThankedIsStored
  <2>2. Latest' = Latest /\ Working' = Working /\ Submitting' = Submitting
    BY <1>2 DEF browserVars, Latest, Working, Submitting
  <2>3. CallsInv' = CallsInv
    BY <1>2, <2>2 DEF browserVars, CallsInv
  <2>4. DraftsInv' = DraftsInv /\ SubmitInv' = SubmitInv
    BY <1>2, <2>2 DEF browserVars, DraftsInv, SubmitInv
  <2> QED BY <1>1, <2>1, <2>3, <2>4 DEF BrowserInv
<1>3. CASE Edit \/ TimeRunsOut \/ Warn \/ Continue
  BY <1>1, <1>3, WorkKeeps
<1>4. CASE Login \/ Reload
  BY <1>1, <1>4, LoadKeeps
<1>5. CASE Leave \/ SaveBrowserDraft \/ HandleOrphan \/ HearSaved \/ SaveFails \/ HearSubmitted
  BY <1>1, <1>5, LeaveKeeps, SaveBrowserDraftKeeps, HandleOrphanKeeps, HearSavedKeeps,
     SaveFailsKeeps, HearSubmittedKeeps
<1>6. CASE SaveServerCheckpoint \/ (\E ends \in BOOLEAN : Submit(ends)) \/ TimeUp
  BY <1>1, <1>6, CallKeeps DEF TimeUp
<1>7. ASSUME NEW op \in PageOps, Handle(op) PROVE BrowserInv'
  BY <1>7, HandleKeeps DEF OpsInv
<1>8. CASE SubmitFails
  BY <1>1, <1>8, SubmitIsRepeatedKeeps, SessionIsEndedKeeps
<1> QED BY <1>1, <1>2, <1>3, <1>4, <1>5, <1>6, <1>7, <1>8 DEF BrowserNext

\* What the drafts' part promises follows.
LEMMA DraftsAreShown == BrowserInv => SavedIsRestored /\ ThankedIsStored
<1> SUFFICES ASSUME BrowserInv, Working, page.what.content < told, ~crossed PROVE FALSE
  BY DEF SavedIsRestored, BrowserInv
<1>1. told <= page.what.content /\ told \in Nat /\ page.what.content \in Nat
  BY BrowserTypes DEF BrowserInv, DraftsInv
<1> QED BY <1>1

-----------------------------------------------------------------------------
(* The runner of a language assessment. *)

\* A run stands at an item of its section, with time left while it works on it.
Fits(r) == r.item <= Len(Kinds[r.sec]) /\ (r.phase = "task" => r.left >= 1)

\* What a run has behind it is answered.
Behind(r, answers) ==
    /\ \A s \in r.done : \A item \in Items : item[1] = s => answers[item] = "ready"
    /\ \A item \in Items : item[1] = r.sec /\ item[2] < r.item => answers[item] = "ready"

\* The run, what the panel knows of it, and what a reload goes back to.
RunsInv ==
    /\ Fits(run) /\ Fits(shown) /\ Fits(checkpoint.run)
    /\ ~ranOut => /\ Behind(run, resp) /\ Behind(shown, resp)
                  /\ Behind(checkpoint.run, checkpoint.resp)

\* Only an audio item plays; what is recorded has no answer yet; both go with the page.
VoiceInv ==
    /\ audio # NoItem => audio \in Items /\ KindOf(audio) = "audio"
    /\ voice.at # "none" =>
         voice.item \in Items /\ KindOf(voice.item) = "speaking" /\ resp[voice.item] = "none"
    /\ open # "work" => audio = NoItem /\ voice.at = "none"

\* The time a section may still last.
Remaining(s) ==
    IF s = run.sec /\ run.phase = "task" THEN run.left
    ELSE IF s > run.sec \/ (s = run.sec /\ run.phase = "intro") THEN SectionTicks
    ELSE 0

TimeInv ==
    \A s \in Parts :
      /\ spent[s] <= SectionTicks * visits
      /\ open = "work" => spent[s] + Remaining(s) <= SectionTicks * visits

RunnerInv == RunnerTypeOK /\ RunsInv /\ VoiceInv /\ TimeInv

-----------------------------------------------------------------------------
\* The sections and their items.
LEMMA KindsAre ==
  /\ Len(Kinds) = 2 /\ Parts = {1, 2}
  /\ Len(Kinds[1]) = 1 /\ Len(Kinds[2]) = 2
  /\ Items = {<<1, 1>>, <<2, 1>>, <<2, 2>>}
  /\ KindOf(<<1, 1>>) = "audio" /\ KindOf(<<2, 1>>) = "choice" /\ KindOf(<<2, 2>>) = "speaking"
<1>1. Len(Kinds) = 2 /\ Len(Kinds[1]) = 1 /\ Len(Kinds[2]) = 2
  BY DEF Kinds
<1>2. Parts = {1, 2}
  BY <1>1 DEF Parts
<1>3. /\ {<<1, i>> : i \in 1..Len(Kinds[1])} = {<<1, 1>>}
      /\ {<<2, i>> : i \in 1..Len(Kinds[2])} = {<<2, 1>>, <<2, 2>>}
  <2>1. 1..1 = {1} /\ 1..2 = {1, 2}
    OBVIOUS
  <2>2. {<<1, i>> : i \in {1}} = {<<1, 1>>} /\ {<<2, i>> : i \in {1, 2}} = {<<2, 1>>, <<2, 2>>}
    OBVIOUS
  <2>3. 1..Len(Kinds[1]) = {1} /\ 1..Len(Kinds[2]) = {1, 2}
    BY <1>1, <2>1
  <2> QED BY <2>2, <2>3
<1>4. Items = UNION {{<<s, i>> : i \in 1..Len(Kinds[s])} : s \in {1, 2}}
  BY <1>2 DEF Items
<1>5. Items = {<<1, 1>>} \union {<<2, 1>>, <<2, 2>>}
  <2>1. {{<<s, i>> : i \in 1..Len(Kinds[s])} : s \in {1, 2}} =
        {{<<1, i>> : i \in 1..Len(Kinds[1])}, {<<2, i>> : i \in 1..Len(Kinds[2])}}
    OBVIOUS
  <2>2. Items = UNION {{<<1, 1>>}, {<<2, 1>>, <<2, 2>>}}
    BY <1>3, <1>4, <2>1
  <2> QED BY <2>2
<1>6. /\ Kinds[1][1] = "audio" /\ Kinds[2][1] = "choice" /\ Kinds[2][2] = "speaking"
  BY DEF Kinds
<1>7. /\ KindOf(<<1, 1>>) = "audio" /\ KindOf(<<2, 1>>) = "choice"
      /\ KindOf(<<2, 2>>) = "speaking"
  BY <1>6 DEF KindOf
<1> QED BY <1>1, <1>2, <1>5, <1>7

LEMMA NoItemIs == NoItem \notin Items /\ Silent \in Voice /\ Silent.at = "none"
  BY KindsAre, RunnerAssumption DEF NoItem, Silent, Voice

\* An item a run stands at.
LEMMA CurrentIs ==
  ASSUME RunnerInv
  PROVE  Current \in Items /\ run \in Progress
<1>1. run \in Progress /\ Fits(run)
  BY DEF RunnerInv, RunnerTypeOK, RunsInv
<1>2. run.sec \in {1, 2} /\ run.item \in {1, 2}
  BY <1>1, KindsAre DEF Progress
<1>3. run.sec = 1 => run.item = 1
  <2>1. run.item <= Len(Kinds[run.sec])
    BY <1>1 DEF Fits
  <2>2. run.sec = 1 => run.item <= 1
    BY <2>1, KindsAre
  <2> QED BY <1>2, <2>2
<1> QED BY <1>1, <1>2, <1>3, KindsAre DEF Current

LEMMA TicksAdd ==
  /\ SectionTicks * visits \in Int \/ visits \notin Nat
  /\ visits \in Nat => SectionTicks * (visits + 1) = SectionTicks * visits + SectionTicks
  /\ visits \in 0..MaxVisits => SectionTicks * visits <= SectionTicks * MaxVisits
<1>1. SectionTicks \in Nat /\ MaxVisits \in Nat
  BY RunnerAssumption
<1>2. \A a, b \in Nat : a * b \in Nat /\ a * (b + 1) = a * b + a
  OBVIOUS
<1>3. \A a, b, c \in Nat : b <= c => a * b <= a * c
  OBVIOUS
<1>4. visits \in 0..MaxVisits => visits \in Nat /\ visits <= MaxVisits
  BY <1>1
<1> QED BY <1>1, <1>2, <1>3, <1>4

LEMMA RunnerStart == RunnerInit => RunnerInv
<1> SUFFICES ASSUME RunnerInit PROVE RunnerInv
  OBVIOUS
<1> USE DEF RunnerInit
<1>0. SectionTicks \in Nat /\ MaxVisits \in Nat
  BY RunnerAssumption
<1>1. Start \in Progress /\ NoResponse \in [Items -> Response]
  BY <1>0, KindsAre DEF Start, Progress, NoResponse, Response
<1>2. 0 \in 0..MaxVisits /\ 0 \in 0..(SectionTicks * MaxVisits)
  <2>1. \A a, b \in Nat : 0 <= a * b /\ a * b \in Nat
    OBVIOUS
  <2>2. SectionTicks * MaxVisits \in Nat
    BY <1>0, <2>1
  <2> QED BY <1>0, <2>2
<1>3. RunnerTypeOK
  <2>1. spent \in [Parts -> 0..(SectionTicks * MaxVisits)]
    BY <1>2
  <2>2. /\ {run, shown, checkpoint.run} \subseteq Progress
        /\ {resp, checkpoint.resp} \subseteq [Items -> Response]
    BY <1>1
  <2> QED BY <1>2, <2>1, <2>2, NoItemIs DEF RunnerTypeOK
<1>4. Fits(Start) /\ Behind(Start, NoResponse)
  BY KindsAre DEF Fits, Behind, Start
<1>5. RunsInv /\ VoiceInv
  BY <1>4, NoItemIs DEF RunsInv, VoiceInv
<1>6. TimeInv
  BY <1>0 DEF TimeInv
<1> QED BY <1>3, <1>5, <1>6 DEF RunnerInv

-----------------------------------------------------------------------------
(* Steps that leave the run and its answers. *)

LEMMA RunStays ==
  ASSUME RunnerInv, UNCHANGED <<run, resp, visits, spent, ranOut>>,
         open' \in {"away", "work", "submitted"}, open' = "work" => open = "work",
         heldUp' \in BOOLEAN,
         \/ UNCHANGED <<shown, checkpoint>>
         \/ shown' = run /\ UNCHANGED checkpoint
         \/ checkpoint' = [run |-> shown, resp |-> resp] /\ UNCHANGED shown,
         audio' # NoItem => audio' \in Items /\ KindOf(audio') = "audio",
         voice' \in Voice,
         voice'.at # "none" =>
           voice'.item \in Items /\ KindOf(voice'.item) = "speaking" /\ resp[voice'.item] = "none",
         open' # "work" => audio' = NoItem /\ voice'.at = "none"
  PROVE  RunnerInv'
<1>0. RunnerTypeOK /\ RunsInv /\ TimeInv
  BY DEF RunnerInv
<1>1. RunnerTypeOK'
  BY <1>0 DEF RunnerTypeOK
<1>2. RunsInv'
  BY <1>0 DEF RunsInv
<1>3. VoiceInv'
  BY DEF VoiceInv
<1>4. \A s \in Parts : Remaining(s)' = Remaining(s)
  BY DEF Remaining
<1>5. TimeInv'
  BY <1>0, <1>4 DEF TimeInv
<1> QED BY <1>1, <1>2, <1>3, <1>5 DEF RunnerInv

\* A timer leaves what it times.
LEMMA PassedIs ==
  ASSUME NEW v \in Voice
  PROVE  /\ Passed(v) \in Voice /\ Passed(v).item = v.item
         /\ Stopped(v) \in Voice /\ Stopped(v).item = v.item
         /\ v.at = "none" => Passed(v).at = "none" /\ Stopped(v).at = "none"
<1>1. v.ticks \in 0..RecordTicks /\ RecordTicks \in Nat
  BY RunnerAssumption DEF Voice
<1>2. CASE v.at = "prepare"
  BY <1>2 DEF Passed, Stopped, Voice
<1>3. CASE v.at = "record"
  <2>1. Passed(v) = IF v.ticks + 1 >= RecordTicks
                    THEN [v EXCEPT !.ticks = RecordTicks, !.at = "upload"]
                    ELSE [v EXCEPT !.ticks = v.ticks + 1]
    BY <1>3 DEF Passed
  <2>2. CASE v.ticks + 1 >= RecordTicks
    <3>1. RecordTicks \in 0..RecordTicks
      BY <1>1
    <3> QED BY <1>3, <2>1, <2>2, <3>1 DEF Stopped, Voice
  <2>3. CASE ~(v.ticks + 1 >= RecordTicks)
    <3>1. v.ticks + 1 \in 0..RecordTicks
      BY <1>1, <2>3
    <3> QED BY <1>3, <2>1, <2>3, <3>1 DEF Stopped, Voice
  <2> QED BY <2>2, <2>3
<1>4. CASE v.at # "prepare" /\ v.at # "record"
  BY <1>4 DEF Passed, Stopped
<1> QED BY <1>2, <1>3, <1>4

LEMMA PanelKeeps ==
  ASSUME RunnerInv,
         Report \/ Checkpoint \/ HoldUp \/ PlayAudio \/ Quit \/ SubmitWork
  PROVE  RunnerInv'
<1>0. /\ RunnerTypeOK /\ VoiceInv /\ Current \in Items /\ NoItem \notin Items
      /\ Silent \in Voice /\ Silent.at = "none"
  BY CurrentIs, NoItemIs DEF RunnerInv
<1>1. CASE Report
  BY <1>0, <1>1, RunStays DEF Report, RunnerTypeOK, VoiceInv
<1>2. CASE Checkpoint
  BY <1>0, <1>2, RunStays DEF Checkpoint, RunnerTypeOK, VoiceInv
<1>3. CASE HoldUp
  BY <1>0, <1>3, RunStays DEF HoldUp, RunnerTypeOK, VoiceInv
<1>4. CASE PlayAudio
  BY <1>0, <1>4, RunStays DEF PlayAudio, OnTask, RunnerTypeOK, VoiceInv
<1>5. CASE Quit
  BY <1>0, <1>5, RunStays DEF Quit, RunnerTypeOK, VoiceInv
<1>6. CASE SubmitWork
  BY <1>0, <1>6, RunStays DEF SubmitWork, RunnerTypeOK, VoiceInv
<1> QED BY <1>1, <1>2, <1>3, <1>4, <1>5, <1>6

LEMMA VoiceKeeps ==
  ASSUME RunnerInv, VoiceTimer \/ PrepareOrRecord \/ StopRecording \/ UploadFails
  PROVE  RunnerInv'
<1>0. /\ RunnerTypeOK /\ VoiceInv /\ Current \in Items /\ voice \in Voice
      /\ RecordTicks \in Nat
  BY CurrentIs, RunnerAssumption DEF RunnerInv, RunnerTypeOK
<1>1. ASSUME voice' \in Voice, open = "work", UNCHANGED <<open, run, resp, audio, shown, checkpoint, visits, spent, ranOut>>,
             heldUp' = heldUp,
             voice'.at # "none" =>
               \/ voice'.item = voice.item /\ voice.at # "none"
               \/ voice'.item = Current /\ KindOf(Current) = "speaking" /\ resp[Current] = "none"
      PROVE  RunnerInv'
  BY <1>0, <1>1, RunStays DEF RunnerTypeOK, VoiceInv
<1>2. CASE VoiceTimer
  BY <1>0, <1>1, <1>2, PassedIs DEF VoiceTimer
<1>3. CASE StopRecording
  BY <1>0, <1>1, <1>3, PassedIs DEF StopRecording
<1>4. CASE UploadFails
  <2>1. 0 \in 0..RecordTicks
    BY <1>0
  <2>2. /\ [voice EXCEPT !.at = "prepared", !.ticks = 0] \in Voice
        /\ [voice EXCEPT !.at = "prepared", !.ticks = 0].item = voice.item
    BY <1>0, <2>1 DEF Voice
  <2> QED BY <1>1, <1>4, <2>2 DEF UploadFails
<1>5. CASE PrepareOrRecord
  <2>1. 0 \in 0..RecordTicks
    BY <1>0
  <2>2. [item |-> Current, at |-> "prepare", ticks |-> 0] \in Voice
    BY <1>0, <2>1 DEF Voice
  <2>3. /\ [voice EXCEPT !.at = "record"] \in Voice
        /\ [voice EXCEPT !.at = "record"].item = voice.item
    BY <1>0 DEF Voice
  <2>4. CASE voice' = [item |-> Current, at |-> "prepare", ticks |-> 0]
    BY <1>1, <1>5, <2>2, <2>4 DEF PrepareOrRecord, OnTask
  <2>5. CASE voice' = [voice EXCEPT !.at = "record"] /\ voice.at = "prepared"
    BY <1>1, <1>5, <2>3, <2>5 DEF PrepareOrRecord, OnTask
  <2> QED BY <1>5, <2>4, <2>5 DEF PrepareOrRecord
<1> QED BY <1>2, <1>3, <1>4, <1>5

-----------------------------------------------------------------------------
(* Steps that answer. *)

\* An answer that comes takes none back.
LEMMA AnswerKeeps ==
  ASSUME RunnerInv, NEW item \in Items, NEW r \in Response, open = "work",
         resp' = [resp EXCEPT ![item] = r], r = "ready" \/ resp[item] = "none",
         audio' \in {audio, NoItem}, voice' \in {voice, Silent},
         voice'.at # "none" => voice.item # item,
         UNCHANGED <<open, run, heldUp, shown, checkpoint, visits, spent, ranOut>>
  PROVE  RunnerInv'
<1>0. RunnerTypeOK /\ RunsInv /\ VoiceInv /\ TimeInv /\ resp \in [Items -> Response]
  BY DEF RunnerInv, RunnerTypeOK
<1>1. /\ resp' \in [Items -> Response]
      /\ \A i \in Items : i # item => resp'[i] = resp[i]
      /\ resp[item] = "ready" => resp'[item] = "ready"
  BY <1>0
<1>2. \A i \in Items : resp[i] = "ready" => resp'[i] = "ready"
  BY <1>1
<1>3. RunnerTypeOK'
  BY <1>0, <1>1, NoItemIs DEF RunnerTypeOK
<1>4. RunsInv'
  BY <1>0, <1>2 DEF RunsInv, Behind
<1>5. VoiceInv'
  BY <1>0, <1>1, NoItemIs DEF VoiceInv
<1>6. \A s \in Parts : Remaining(s)' = Remaining(s)
  BY DEF Remaining
<1>7. TimeInv'
  BY <1>0, <1>6 DEF TimeInv
<1> QED BY <1>3, <1>4, <1>5, <1>7 DEF RunnerInv

LEMMA RespondKeeps ==
  ASSUME RunnerInv, Answer \/ AudioEnds \/ Uploaded
  PROVE  RunnerInv'
<1>0. /\ RunnerTypeOK /\ VoiceInv /\ Current \in Items /\ "ready" \in Response
      /\ "short" \in Response /\ voice \in Voice
  BY CurrentIs DEF RunnerInv, RunnerTypeOK, Response
<1>1. CASE Answer
  <2>1. voice.at # "none" => voice.item # Current
    BY <1>0, <1>1 DEF Answer, OnTask, VoiceInv
  <2> QED BY <1>0, <1>1, <2>1, AnswerKeeps DEF Answer, OnTask
<1>2. CASE AudioEnds
  <2>1. audio \in Items /\ KindOf(audio) = "audio" /\ open = "work" /\ audio' = NoItem
        /\ UNCHANGED <<open, run, voice, heldUp, shown, checkpoint, visits, spent, ranOut>>
    BY <1>0, <1>2 DEF AudioEnds, VoiceInv
  <2>2. voice.at # "none" => voice.item # audio
    BY <1>0, <2>1 DEF VoiceInv
  <2>3. CASE resp' = [resp EXCEPT ![audio] = "ready"]
    BY <1>0, <2>1, <2>2, <2>3, AnswerKeeps
  <2>4. CASE UNCHANGED resp
    BY <1>0, <2>1, <2>4, RunStays DEF RunnerTypeOK, VoiceInv
  <2> QED BY <1>2, <2>3, <2>4 DEF AudioEnds
<1>3. CASE Uploaded
  <2>1. /\ voice.item \in Items /\ resp[voice.item] = "none" /\ voice' = Silent
        /\ open = "work"
        /\ resp' = [resp EXCEPT ![voice.item] = IF voice.ticks > 0 THEN "ready" ELSE "short"]
        /\ UNCHANGED <<open, run, audio, heldUp, shown, checkpoint, visits, spent, ranOut>>
    BY <1>0, <1>3 DEF Uploaded, VoiceInv
  <2> QED BY <1>0, <2>1, NoItemIs, AnswerKeeps
<1> QED BY <1>1, <1>2, <1>3

-----------------------------------------------------------------------------
(* Steps that move the run. *)

LEMMA RemainingIs ==
  ASSUME NEW s \in Parts
  PROVE  /\ run \in Progress => Remaining(s) \in 0..SectionTicks
         /\ run' \in Progress => Remaining(s)' \in 0..SectionTicks
<1>1. 0 \in 0..SectionTicks /\ SectionTicks \in 0..SectionTicks
  BY RunnerAssumption
<1>2. \A r \in Progress : r.left \in 0..SectionTicks
  BY DEF Progress
<1> QED BY <1>1, <1>2 DEF Remaining

\* A run that moves on, with no more time than it had.
LEMMA RunKeeps ==
  ASSUME RunnerInv, open = "work", run' \in Progress, Fits(run'),
         ranOut' \in BOOLEAN, ~ranOut' => ~ranOut /\ Behind(run', resp),
         shown' = run' \/ UNCHANGED shown,
         audio' \in {audio, NoItem}, voice' \in Voice,
         voice'.at # "none" => voice.at # "none" /\ voice'.item = voice.item,
         UNCHANGED <<open, resp, heldUp, checkpoint, visits>>,
         spent' \in [Parts -> Nat],
         \A s \in Parts : spent'[s] + Remaining(s)' <= spent[s] + Remaining(s)
  PROVE  RunnerInv'
<1> DEFINE budget == SectionTicks * visits
           most == SectionTicks * MaxVisits
<1>0. /\ RunnerTypeOK /\ RunsInv /\ VoiceInv /\ TimeInv
      /\ run \in Progress /\ visits \in 0..MaxVisits /\ visits \in Nat
      /\ spent \in [Parts -> 0..most]
      /\ SectionTicks \in Nat
  BY RunnerAssumption DEF RunnerInv, RunnerTypeOK
<1>1. budget \in Int /\ most \in Int /\ budget <= most
  <2>1. \A a, b \in Nat : a * b \in Int
    OBVIOUS
  <2> QED BY <1>0, <2>1, TicksAdd, RunnerAssumption
<1>2. \A s \in Parts : spent[s] + Remaining(s) <= budget
  BY <1>0 DEF TimeInv
<1> HIDE DEF budget, most
<1>3. \A s \in Parts : spent'[s] + Remaining(s)' <= budget /\ spent'[s] <= budget
  <2> TAKE s \in Parts
  <2>1. Remaining(s) \in 0..SectionTicks /\ Remaining(s)' \in 0..SectionTicks
    BY <1>0, RemainingIs
  <2>2. spent'[s] \in Nat /\ spent[s] \in 0..most
    BY <1>0
  <2>3. spent'[s] + Remaining(s)' <= spent[s] + Remaining(s)
    OBVIOUS
  <2>4. spent[s] + Remaining(s) <= budget
    BY <1>2
  <2> HIDE DEF Remaining
  <2> QED BY <1>0, <1>1, <2>1, <2>2, <2>3, <2>4
<1>4. spent' \in [Parts -> 0..most]
  BY <1>1, <1>3
<1>5. RunnerTypeOK'
  BY <1>0, <1>4, NoItemIs DEF RunnerTypeOK, most
<1>6. RunsInv'
  BY <1>0 DEF RunsInv
<1>7. VoiceInv'
  BY <1>0 DEF VoiceInv
<1>8. TimeInv'
  BY <1>3 DEF TimeInv, budget
<1> QED BY <1>5, <1>6, <1>7, <1>8 DEF RunnerInv

\* What follows a section, field by field.
LEMMA AfterSectionIs ==
  ASSUME run \in Progress
  PROVE  /\ run.sec \in {1, 2}
         /\ run.sec = 1 => AfterSection = [sec |-> 2, item |-> 1, phase |-> "intro",
                                           left |-> SectionTicks, done |-> run.done \union {1}]
         /\ run.sec = 2 => AfterSection = [sec |-> 2, item |-> run.item, phase |-> "complete",
                                           left |-> run.left, done |-> run.done \union {2}]
         /\ AfterSection \in Progress
         /\ AfterSection.phase # "task"
<1>1. run.sec \in {1, 2} /\ run.done \subseteq {1, 2} /\ SectionTicks \in 0..SectionTicks
  BY KindsAre, RunnerAssumption DEF Progress
<1>2. ASSUME run.sec = 1
      PROVE  AfterSection = [sec |-> 2, item |-> 1, phase |-> "intro",
                             left |-> SectionTicks, done |-> run.done \union {1}]
  <2>1. run.sec + 1 = 2 /\ run.sec < Len(Kinds)
    BY <1>2, KindsAre
  <2>2. AfterSection = [run EXCEPT !.done = run.done \union {1}, !.sec = 2, !.item = 1,
                                   !.left = SectionTicks, !.phase = "intro"]
    BY <1>2, <2>1 DEF AfterSection
  <2> QED BY <2>2 DEF Progress
<1>3. ASSUME run.sec = 2
      PROVE  AfterSection = [sec |-> 2, item |-> run.item, phase |-> "complete",
                             left |-> run.left, done |-> run.done \union {2}]
  <2>1. ~(run.sec < Len(Kinds))
    BY <1>3, KindsAre
  <2>2. AfterSection = [run EXCEPT !.done = run.done \union {2}, !.phase = "complete"]
    BY <1>3, <2>1 DEF AfterSection
  <2> QED BY <1>3, <2>2 DEF Progress
<1>4. AfterSection \in Progress
  <2>1. /\ 1 \in 1..2 /\ 2 \in Parts /\ run.done \union {1} \subseteq Parts
        /\ run.done \union {2} \subseteq Parts /\ run.item \in 1..2 /\ run.left \in 0..SectionTicks
    BY <1>1, KindsAre DEF Progress
  <2> QED BY <1>1, <1>2, <1>3, <2>1 DEF Progress
<1>5. AfterSection.phase # "task"
  BY <1>1, <1>2, <1>3
<1> QED BY <1>1, <1>2, <1>3, <1>4, <1>5

\* The time of a section that is over is not given to another.
LEMMA AfterSectionTime ==
  ASSUME run \in Progress, run.phase = "task", Move(AfterSection), NEW s \in Parts
  PROVE  Remaining(s)' = IF s = run.sec THEN 0 ELSE Remaining(s)
<1>1. run' = AfterSection /\ s \in {1, 2}
  BY KindsAre DEF Move
<1>2. CASE run.sec = 1
  BY <1>1, <1>2, AfterSectionIs DEF Remaining
<1>3. CASE run.sec = 2
  BY <1>1, <1>3, AfterSectionIs DEF Remaining
<1> QED BY <1>2, <1>3, AfterSectionIs

LEMMA StartSectionKeeps ==
  ASSUME RunnerInv, StartSection
  PROVE  RunnerInv'
<1>0. /\ RunnerTypeOK /\ RunsInv /\ run \in Progress /\ voice \in Voice
      /\ SectionTicks \in 0..SectionTicks /\ SectionTicks >= 1
      /\ spent \in [Parts -> 0..(SectionTicks * MaxVisits)]
  BY RunnerAssumption DEF RunnerInv, RunnerTypeOK
<1>1. /\ run' = [run EXCEPT !.item = 1, !.left = SectionTicks, !.phase = "task"]
      /\ shown' = run' /\ open = "work" /\ run.phase = "intro"
      /\ UNCHANGED <<open, resp, audio, voice, heldUp, checkpoint, visits, spent, ranOut>>
  BY DEF StartSection, Move
<1>2. /\ run' \in Progress /\ run'.item = 1 /\ run'.left = SectionTicks /\ run'.phase = "task"
      /\ run'.sec = run.sec /\ run'.done = run.done
  <2>1. 1 \in 1..2
    OBVIOUS
  <2> QED BY <1>0, <1>1, <2>1 DEF Progress
<1>3. Fits(run')
  <2>1. run'.sec = 1 \/ run'.sec = 2
    BY <1>0, <1>2, KindsAre DEF Progress
  <2>2. 1 <= Len(Kinds[run'.sec])
    <3>1. 1 <= Len(Kinds[1]) /\ 1 <= Len(Kinds[2])
      BY KindsAre
    <3> QED BY <2>1, <3>1
  <2> QED BY <1>0, <1>2, <2>2 DEF Fits
<1>4. ~ranOut => Behind(run', resp)
  <2>1. \A item \in Items : item[2] \in {1, 2}
    BY KindsAre
  <2> QED BY <1>0, <1>2, <2>1 DEF RunsInv, Behind
<1>5. \A s \in Parts : Remaining(s)' = Remaining(s)
  BY <1>0, <1>1, <1>2, KindsAre DEF Remaining, Progress
<1>6. \A s \in Parts : Remaining(s) \in 0..SectionTicks /\ spent[s] \in Nat
  BY <1>0, RemainingIs
<1>7. \A s \in Parts : spent'[s] + Remaining(s)' <= spent[s] + Remaining(s)
  BY <1>1, <1>5, <1>6
<1>8. spent' \in [Parts -> Nat]
  BY <1>0, <1>1
<1> QED BY <1>0, <1>1, <1>2, <1>3, <1>4, <1>7, <1>8, RunKeeps DEF RunnerTypeOK

LEMMA NextTaskKeeps ==
  ASSUME RunnerInv, NextTask
  PROVE  RunnerInv'
<1>0. /\ RunnerTypeOK /\ RunsInv /\ run \in Progress /\ resp \in [Items -> Response]
      /\ spent \in [Parts -> 0..(SectionTicks * MaxVisits)]
      /\ run.sec \in {1, 2} /\ run.item \in {1, 2} /\ run.left \in Int
  BY KindsAre DEF RunnerInv, RunnerTypeOK, Progress
<1>1. /\ open = "work" /\ run.phase = "task" /\ resp[<<run.sec, run.item>>] = "ready"
      /\ audio' = NoItem /\ voice' = Silent
      /\ UNCHANGED <<open, resp, heldUp, checkpoint, visits, spent, ranOut>>
  BY DEF NextTask, Answered, Current
<1>2. Fits(run) /\ (~ranOut => Behind(run, resp))
  BY <1>0 DEF RunsInv
<1>3. \A s \in Parts : Remaining(s) \in 0..SectionTicks /\ spent[s] \in Nat
  BY <1>0, RemainingIs
<1>4. ASSUME run' \in Progress, shown' = run', Fits(run'), ~ranOut => Behind(run', resp),
             \A s \in Parts : Remaining(s)' = Remaining(s) \/ Remaining(s)' = 0
      PROVE  RunnerInv'
  <2>1. \A s \in Parts : spent'[s] + Remaining(s)' <= spent[s] + Remaining(s)
    BY <1>1, <1>3, <1>4
  <2>2. spent' \in [Parts -> Nat]
    BY <1>0, <1>1
  <2>3. ranOut' \in BOOLEAN
    BY <1>0, <1>1 DEF RunnerTypeOK
  <2> QED BY <1>1, <1>4, <2>1, <2>2, <2>3, RunKeeps, NoItemIs
<1>5. CASE run.item < Len(Kinds[run.sec])
  <2>1. run.sec = 2 /\ run.item = 1
    <3>1. (run.sec = 1 => run.item < 1) /\ (run.sec = 2 => run.item < 2)
      BY <1>5, KindsAre
    <3> QED BY <1>0, <3>1
  <2>2. run' = [run EXCEPT !.item = 2] /\ shown' = run'
    BY <1>5, <2>1 DEF NextTask, Move
  <2>3. /\ run' \in Progress /\ run'.item = 2 /\ run'.sec = 2 /\ run'.phase = run.phase
        /\ run'.left = run.left /\ run'.done = run.done
    BY <1>0, <2>1, <2>2 DEF Progress
  <2>4. Fits(run')
    BY <1>2, <2>3, KindsAre DEF Fits
  <2>5. ~ranOut => Behind(run', resp)
    <3>1. \A item \in Items : item[1] = 2 /\ item[2] < 2 => item = <<2, 1>>
      BY KindsAre
    <3> QED BY <1>1, <1>2, <2>1, <2>3, <3>1 DEF Behind
  <2>6. \A s \in Parts : Remaining(s)' = Remaining(s)
    BY <2>1, <2>3 DEF Remaining
  <2> QED BY <1>4, <2>2, <2>3, <2>4, <2>5, <2>6
<1>6. CASE ~(run.item < Len(Kinds[run.sec]))
  <2>1. Move(AfterSection) /\ run' = AfterSection /\ shown' = run'
    BY <1>6 DEF NextTask, Move
  <2>2. run' \in Progress /\ run'.phase # "task"
    BY <1>0, <2>1, AfterSectionIs
  <2>3. Fits(run')
    <3>1. run'.sec = 2
      BY <1>0, <2>1, AfterSectionIs
    <3> QED BY <2>2, <3>1, KindsAre DEF Fits, Progress
  <2>4. ASSUME ~ranOut PROVE Behind(run', resp)
    <3>1. Behind(run, resp)
      BY <1>2, <2>4
    <3>2. CASE run.sec = 1
      <4>1. run'.done = run.done \union {1} /\ run'.item = 1 /\ run'.sec = 2 /\ run.item = 1
        BY <1>0, <1>2, <3>2, <2>1, AfterSectionIs, KindsAre DEF Fits
      <4>2. \A item \in Items : item[1] = 1 => item = <<1, 1>>
        BY KindsAre
      <4>3. \A item \in Items : ~(item[2] < 1)
        BY KindsAre
      <4> QED BY <1>1, <3>1, <3>2, <4>1, <4>2, <4>3 DEF Behind
    <3>3. CASE run.sec = 2
      <4>1. run'.done = run.done \union {2} /\ run'.item = run.item /\ run'.sec = 2
        BY <1>0, <3>3, <2>1, AfterSectionIs
      <4>2. run.item = 2
        BY <1>0, <1>6, <3>3, KindsAre
      <4>3. \A item \in Items : item[1] = 2 => item = <<2, 2>> \/ item[2] < 2
        BY KindsAre
      <4> QED BY <1>1, <3>1, <3>3, <4>1, <4>2, <4>3 DEF Behind
    <3> QED BY <1>0, <3>2, <3>3
  <2>5. \A s \in Parts : Remaining(s)' = Remaining(s) \/ Remaining(s)' = 0
    BY <1>0, <1>1, <2>1, AfterSectionTime
  <2> QED BY <1>4, <2>1, <2>2, <2>3, <2>4, <2>5
<1> QED BY <1>5, <1>6

LEMMA SectionTimerKeeps ==
  ASSUME RunnerInv, SectionTimer
  PROVE  RunnerInv'
<1>0. /\ RunnerTypeOK /\ RunsInv /\ run \in Progress /\ voice \in Voice
      /\ spent \in [Parts -> 0..(SectionTicks * MaxVisits)]
      /\ run.sec \in {1, 2} /\ run.sec \in Parts /\ run.left \in 0..SectionTicks /\ SectionTicks \in Nat
      /\ ranOut \in BOOLEAN
  BY KindsAre, RunnerAssumption DEF RunnerInv, RunnerTypeOK, Progress
<1>1. /\ open = "work" /\ run.phase = "task"
      /\ spent' = [spent EXCEPT ![run.sec] = spent[run.sec] + 1]
      /\ UNCHANGED <<open, resp, audio, heldUp, checkpoint, visits>>
  BY DEF SectionTimer
<1>2. Fits(run) /\ run.left >= 1 /\ (~ranOut => Behind(run, resp))
  BY <1>0, <1>1 DEF RunsInv, Fits
<1>3. \A s \in Parts : Remaining(s) \in 0..SectionTicks /\ spent[s] \in Nat
  BY <1>0, RemainingIs
<1>4. /\ spent' \in [Parts -> Nat]
      /\ \A s \in Parts : spent'[s] = IF s = run.sec THEN spent[s] + 1 ELSE spent[s]
  BY <1>0, <1>1, <1>3
<1>5. Remaining(run.sec) = run.left
  BY <1>1 DEF Remaining
<1>6. CASE run.left > 1
  <2>1. /\ run' = [run EXCEPT !.left = run.left - 1] /\ voice' = Passed(voice)
        /\ UNCHANGED <<shown, ranOut>>
    BY <1>6 DEF SectionTimer
  <2>2. run.left - 1 \in 0..SectionTicks /\ run.left - 1 >= 1
    BY <1>0, <1>6
  <2>3. /\ run' \in Progress /\ run'.left = run.left - 1 /\ run'.sec = run.sec
        /\ run'.item = run.item /\ run'.phase = run.phase /\ run'.done = run.done
    BY <1>0, <2>1, <2>2 DEF Progress
  <2>4. Fits(run') /\ (~ranOut => Behind(run', resp))
    BY <1>2, <2>2, <2>3 DEF Fits, Behind
  <2>5. \A s \in Parts : Remaining(s)' = IF s = run.sec THEN run.left - 1 ELSE Remaining(s)
    BY <1>1, <2>3 DEF Remaining
  <2>6. \A s \in Parts : spent'[s] + Remaining(s)' <= spent[s] + Remaining(s)
    BY <1>0, <1>3, <1>4, <1>5, <2>5
  <2> QED BY <1>0, <1>1, <1>4, <2>1, <2>3, <2>4, <2>6, RunKeeps, PassedIs
<1>7. CASE ~(run.left > 1)
  <2>1. /\ Move([AfterSection EXCEPT !.left = IF run.sec < Len(Kinds) THEN AfterSection.left ELSE 0])
        /\ voice' = Stopped(Passed(voice)) /\ ranOut' = TRUE
    BY <1>7 DEF SectionTimer
  <2>2. run' \in Progress /\ shown' = run'
    <3>1. AfterSection \in Progress /\ 0 \in 0..SectionTicks
      BY <1>0, AfterSectionIs
    <3> QED BY <2>1, <3>1 DEF Move, Progress
  <2>3. /\ run'.sec = AfterSection.sec /\ run'.phase = AfterSection.phase
        /\ run'.item = AfterSection.item
    <3>1. AfterSection \in Progress
      BY <1>0, AfterSectionIs
    <3> QED BY <2>1, <3>1 DEF Move, Progress
  <2>4. run'.sec = 2 /\ run'.phase # "task"
        /\ (run.sec = 1 => run'.phase = "intro") /\ (run.sec = 2 => run'.phase = "complete")
    BY <1>0, <2>3, AfterSectionIs
  <2>5. Fits(run')
    BY <2>2, <2>4, KindsAre DEF Fits, Progress
  <2>6. \A s \in Parts : Remaining(s)' = IF s = run.sec THEN 0 ELSE Remaining(s)
    <3>1. Parts = {1, 2}
      BY KindsAre
    <3>2. CASE run.sec = 1
      BY <1>1, <2>4, <3>1, <3>2 DEF Remaining
    <3>3. CASE run.sec = 2
      BY <1>1, <2>4, <3>1, <3>3 DEF Remaining
    <3> QED BY <1>0, <3>2, <3>3
  <2>7. \A s \in Parts : spent'[s] + Remaining(s)' <= spent[s] + Remaining(s)
    BY <1>0, <1>2, <1>3, <1>4, <1>5, <2>6
  <2>8. /\ voice' \in Voice
        /\ voice'.at # "none" => voice.at # "none" /\ voice'.item = voice.item
    BY <1>0, <2>1, PassedIs
  <2> QED BY <1>1, <1>4, <2>1, <2>2, <2>5, <2>7, <2>8, RunKeeps
<1> QED BY <1>6, <1>7

LEMMA ResumeKeeps ==
  ASSUME RunnerInv, Load
  PROVE  RunnerInv'
<1> DEFINE saved == checkpoint.run
           budget == SectionTicks * visits
           most == SectionTicks * MaxVisits
<1>0. /\ RunnerTypeOK /\ RunsInv /\ VoiceInv /\ TimeInv
      /\ saved \in Progress /\ checkpoint.resp \in [Items -> Response]
      /\ visits \in 0..MaxVisits /\ visits \in Nat /\ MaxVisits \in Nat
      /\ spent \in [Parts -> 0..most]
      /\ SectionTicks \in Nat /\ SectionTicks >= 1
  BY RunnerAssumption DEF RunnerInv, RunnerTypeOK
<1>1. /\ open = "away" /\ visits < MaxVisits /\ open' = "work"
      /\ run' = [saved EXCEPT !.left = IF saved.left = 0 THEN SectionTicks ELSE saved.left]
      /\ shown' = run' /\ resp' = checkpoint.resp /\ visits' = visits + 1
      /\ UNCHANGED <<audio, voice, heldUp, checkpoint, spent, ranOut>>
  BY DEF Load, Move, Resumed
<1>2. /\ run' \in Progress /\ run'.sec = saved.sec /\ run'.item = saved.item
      /\ run'.done = saved.done /\ run'.left >= 1
  <2> DEFINE left == IF saved.left = 0 THEN SectionTicks ELSE saved.left
  <2>1. left \in 0..SectionTicks /\ left >= 1
    BY <1>0 DEF Progress
  <2>2. run' = [saved EXCEPT !.left = left]
    BY <1>1
  <2> HIDE DEF left, saved
  <2> QED BY <1>0, <2>1, <2>2 DEF Progress
<1>3. Fits(run') /\ (~ranOut => Behind(run', resp'))
  BY <1>0, <1>1, <1>2 DEF RunsInv, Fits, Behind
<1>4. visits' \in 0..MaxVisits
  BY <1>0, <1>1
<1>5. RunnerTypeOK'
  BY <1>0, <1>1, <1>2, <1>4 DEF RunnerTypeOK
<1>6. RunsInv'
  BY <1>0, <1>1, <1>3 DEF RunsInv
<1>7. VoiceInv'
  BY <1>0, <1>1 DEF VoiceInv
<1>8. SectionTicks * visits' = budget + SectionTicks /\ budget \in Int
  <2>1. \A a, b \in Nat : a * b \in Int
    OBVIOUS
  <2> QED BY <1>0, <1>1, <2>1, TicksAdd
<1>9. \A s \in Parts : spent[s] <= budget
  BY <1>0 DEF TimeInv
<1> HIDE DEF budget, saved
<1>10. TimeInv'
  <2> SUFFICES ASSUME NEW s \in Parts
               PROVE  /\ spent[s] <= budget + SectionTicks
                      /\ spent[s] + Remaining(s)' <= budget + SectionTicks
    BY <1>1, <1>8 DEF TimeInv
  <2>1. Remaining(s)' \in 0..SectionTicks /\ spent[s] \in Int /\ spent[s] <= budget
    <3>1. \A a, b \in Nat : a * b \in Int
      OBVIOUS
    <3> QED BY <1>0, <1>2, <1>9, <3>1, RemainingIs
  <2> QED BY <1>0, <1>8, <2>1
<1> QED BY <1>5, <1>6, <1>7, <1>10 DEF RunnerInv

LEMMA RunnerStep ==
  ASSUME RunnerInv, RunnerNext \/ UNCHANGED runnerVars
  PROVE  RunnerInv'
<1>1. CASE UNCHANGED runnerVars
  <2>1. \A s \in Parts : Remaining(s)' = Remaining(s)
    BY <1>1 DEF runnerVars, Remaining
  <2>2. RunnerTypeOK' = RunnerTypeOK /\ RunsInv' = RunsInv
    BY <1>1 DEF runnerVars, RunnerTypeOK, RunsInv
  <2>3. VoiceInv' = VoiceInv
    BY <1>1 DEF runnerVars, VoiceInv
  <2>4. TimeInv => TimeInv'
    BY <1>1, <2>1 DEF runnerVars, TimeInv
  <2> QED BY <2>2, <2>3, <2>4 DEF RunnerInv
<1>2. CASE RunnerNext
  BY <1>2, ResumeKeeps, PanelKeeps, VoiceKeeps, RespondKeeps, StartSectionKeeps, NextTaskKeeps,
     SectionTimerKeeps DEF RunnerNext
<1> QED BY <1>1, <1>2

\* What the runner promises follows.
LEMMA SectionsStand == RunnerInv => SectionsHold
<1> SUFFICES ASSUME RunnerInv PROVE DoneIsAnswered /\ SectionTimeHolds
  BY DEF SectionsHold
<1>1. DoneIsAnswered
  BY DEF RunnerInv, RunsInv, Behind, DoneIsAnswered, Answered
<1>2. SectionTimeHolds
  BY DEF RunnerInv, TimeInv, SectionTimeHolds
<1> QED BY <1>1, <1>2

-----------------------------------------------------------------------------
(* What watches the candidate. *)

\* The streams at each stage of the consent: what is recorded is the screen of
\* this try, and no camera runs before it is asked for.
StagesInv ==
    /\ consent # "idle" => tries >= 1
    /\ screens \subseteq 1..tries
    /\ consent \in {"idle", "asked", "consent", "camera"} => cameras = {}
    /\ consent = "calibrate" => camera \in cameras
    /\ consent \in {"consent", "camera", "calibrate", "on"} =>
         screen = tries \/ (screen = 0 /\ tries \notin screens)

\* A sign lasts no longer than nothing spoke against it, and a look away begins
\* only when the time after the page's own navigation is over.
SignsInv ==
    /\ \A s \in Signs : sign[s] <= Confirm[s] /\ sign[s] + 1 <= sure.against[s]
    /\ \A s \in sure.signals : sign[s] >= Confirm[s]
    /\ grace > 0 => sign["away"] = -1
    /\ grace + sure.moved >= GraceTicks
    /\ sign["away"] >= 0 => sure.moved >= GraceTicks + sign["away"] + 1

CaptureInv == CaptureTypeOK /\ StagesInv /\ CaptureHolds /\ SignsInv

-----------------------------------------------------------------------------
LEMMA TimesAre ==
  /\ AwayTicks \in Nat /\ FacesTicks \in Nat /\ GraceTicks \in Nat /\ CoolTicks \in Nat
  /\ CoolTicks >= 1 /\ MaxTries \in Nat /\ Longest \in Nat
  /\ Longest >= GraceTicks + AwayTicks + 1 /\ Longest >= FacesTicks + 1
  /\ Signs = {"away", "faces"}
  /\ Confirm["away"] = AwayTicks /\ Confirm["faces"] = FacesTicks
  /\ \A s \in Signs : Confirm[s] \in Nat /\ Longest >= Confirm[s] + 1
<1>1. /\ AwayTicks \in Nat /\ FacesTicks \in Nat /\ GraceTicks \in Nat /\ CoolTicks \in Nat
      /\ CoolTicks >= 1 /\ MaxTries \in Nat
  BY CaptureAssumption
<1>2. /\ Longest \in Nat
      /\ Longest >= GraceTicks + AwayTicks + 1 /\ Longest >= FacesTicks + 1
      /\ Longest >= AwayTicks + 1
  BY <1>1 DEF Longest
<1>3. /\ Signs = {"away", "faces"}
      /\ Confirm["away"] = AwayTicks /\ Confirm["faces"] = FacesTicks
  BY DEF Signs, Confirm
<1> QED BY <1>1, <1>2, <1>3

LEMMA UnseenIs ==
  /\ Unseen \in [Signs -> -1..Longest] /\ \A s \in Signs : Unseen[s] = -1
  /\ Quiet \in [against : [Signs -> 0..Longest], moved : 0..Longest, signals : SUBSET Signs]
  /\ Quiet.moved = Longest /\ Quiet.signals = {} /\ \A s \in Signs : Quiet.against[s] = 0
<1>1. -1 \in -1..Longest /\ 0 \in 0..Longest /\ Longest \in 0..Longest
  BY TimesAre
<1> QED BY <1>1 DEF Unseen, Quiet

LEMMA CaptureStart == CaptureInit => CaptureInv
<1> SUFFICES ASSUME CaptureInit PROVE CaptureInv
  OBVIOUS
<1> USE DEF CaptureInit
<1>1. /\ 0 \in 0..MaxTries /\ 0 \in 0..GraceTicks /\ CoolTicks \in 0..CoolTicks
      /\ Longest \in Nat /\ Longest >= GraceTicks /\ GraceTicks \in Nat
  BY TimesAre
<1>2. CaptureTypeOK
  <2>1. rest \in [Signs -> 0..CoolTicks]
    BY <1>1
  <2> QED BY <1>1, <2>1, UnseenIs DEF CaptureTypeOK
<1>3. StagesInv /\ CaptureHolds
  BY DEF StagesInv, CaptureHolds
<1>4. SignsInv
  <2>1. "away" \in Signs
    BY TimesAre
  <2> QED BY <1>1, <2>1, UnseenIs, TimesAre DEF SignsInv
<1> QED BY <1>2, <1>3, <1>4 DEF CaptureInv

-----------------------------------------------------------------------------
(* Consent and its streams. *)

\* Steps that look at no frame leave the signs, or forget them.
LEMMA SignsStay ==
  ASSUME SignsInv, UNCHANGED signVars
  PROVE  SignsInv'
  BY DEF SignsInv, signVars

LEMMA StopForgets ==
  ASSUME CaptureTypeOK, SignsInv, StopCamera
  PROVE  /\ SignsInv'
         /\ sign' \in [Signs -> -1..Longest] /\ rest' \in [Signs -> 0..CoolTicks]
         /\ grace' \in 0..GraceTicks
         /\ sure' \in [against : [Signs -> 0..Longest], moved : 0..Longest, signals : SUBSET Signs]
<1>1. /\ sign' = Unseen /\ rest' = [rest EXCEPT !["faces"] = CoolTicks]
      /\ sure' = [Quiet EXCEPT !.moved = sure.moved] /\ grace' = grace
  BY DEF StopCamera
<1>2. /\ sure.moved \in 0..Longest /\ grace \in 0..GraceTicks /\ rest \in [Signs -> 0..CoolTicks]
  BY DEF CaptureTypeOK
<1>3. /\ sure' \in [against : [Signs -> 0..Longest], moved : 0..Longest, signals : SUBSET Signs]
      /\ sure'.moved = sure.moved /\ sure'.signals = {} /\ sure'.against = Quiet.against
  BY <1>1, <1>2, UnseenIs
<1>4. rest' \in [Signs -> 0..CoolTicks]
  <2>1. CoolTicks \in 0..CoolTicks
    BY TimesAre
  <2> QED BY <1>1, <1>2, <2>1
<1>5. SignsInv'
  <2>1. \A s \in Signs : sign'[s] = -1 /\ sure'.against[s] = 0 /\ Confirm[s] \in Nat
    BY <1>1, <1>3, UnseenIs, TimesAre
  <2>2. "away" \in Signs
    BY TimesAre
  <2> QED BY <1>1, <1>3, <2>1, <2>2 DEF SignsInv
<1> QED BY <1>1, <1>2, <1>3, <1>4, <1>5, UnseenIs

\* What the signs' part of the types is.
LEMMA StreamTypes ==
  ASSUME CaptureInv
  PROVE  /\ tries \in 0..MaxTries /\ MaxTries \in Nat /\ screens \subseteq 1..tries
         /\ cameras \subseteq {camera} /\ cameras \subseteq Tries /\ screens \subseteq Tries
         /\ camera \in 0..MaxTries /\ screen \in 0..MaxTries
         /\ 0 \in 0..MaxTries
         /\ consent # "idle" => tries \in Tries
<1>1. tries \in 0..MaxTries /\ MaxTries \in Nat
  BY TimesAre DEF CaptureInv, CaptureTypeOK
<1>2. consent # "idle" => tries \in Tries
  BY <1>1 DEF CaptureInv, StagesInv, Tries
<1> QED BY <1>1, <1>2 DEF CaptureInv, CaptureTypeOK, StagesInv, CaptureHolds

LEMMA ConsentKeeps ==
  ASSUME CaptureInv,
         AcceptConsent \/ ScreenShared \/ ConsentFails \/ Consented \/ CameraGranted
  PROVE  CaptureInv'
<1>0. /\ CaptureTypeOK /\ StagesInv /\ CaptureHolds /\ SignsInv
      /\ tries \in 0..MaxTries /\ MaxTries \in Nat /\ screens \subseteq 1..tries
      /\ cameras \subseteq {camera} /\ cameras \subseteq Tries /\ screens \subseteq Tries
      /\ consent # "idle" => tries \in Tries
  BY StreamTypes DEF CaptureInv
<1>1. UNCHANGED signVars /\ SignsInv'
  BY <1>0, SignsStay
     DEF AcceptConsent, ScreenShared, ConsentFails, Consented, CameraGranted
<1>2. CASE AcceptConsent
  <2>1. /\ consent = "idle" /\ consent' = "asked" /\ tries' = tries + 1
        /\ tries < MaxTries
        /\ UNCHANGED <<cameras, camera, watching, screens, screen, recording, unshared>>
    BY <1>2 DEF AcceptConsent, streamVars
  <2>2. tries' \in 0..MaxTries /\ tries' >= 1 /\ 1..tries \subseteq 1..tries'
    BY <1>0, <2>1
  <2>3. CaptureTypeOK'
    BY <1>0, <1>1, <2>1, <2>2 DEF CaptureTypeOK, signVars, Steps
  <2>4. StagesInv'
    BY <1>0, <2>1, <2>2 DEF StagesInv
  <2>5. CaptureHolds'
    BY <1>0, <2>1 DEF CaptureHolds
  <2> QED BY <1>1, <2>3, <2>4, <2>5 DEF CaptureInv
<1>3. CASE ScreenShared
  <2>1. /\ consent = "asked" /\ consent' = "consent"
        /\ screens' = screens \union {tries} /\ screen' = tries
        /\ UNCHANGED <<tries, cameras, camera, watching, recording, unshared>>
    BY <1>3 DEF ScreenShared
  <2>2. tries \in Tries /\ tries \in 1..tries
    BY <1>0, <2>1 DEF Tries
  <2>3. CaptureTypeOK'
    BY <1>0, <1>1, <2>1, <2>2 DEF CaptureTypeOK, signVars, Steps
  <2>4. StagesInv' /\ CaptureHolds'
    BY <1>0, <2>1, <2>2 DEF StagesInv, CaptureHolds
  <2> QED BY <1>1, <2>3, <2>4 DEF CaptureInv
<1>4. CASE ConsentFails
  <2>1. /\ consent \in {"asked", "consent"} /\ consent' = "idle"
        /\ UNCHANGED <<tries, cameras, camera, watching, screens, screen, recording, unshared>>
    BY <1>4 DEF ConsentFails, streamVars
  <2>2. CaptureTypeOK'
    BY <1>0, <1>1, <2>1 DEF CaptureTypeOK, signVars, Steps
  <2>3. StagesInv' /\ CaptureHolds'
    BY <1>0, <2>1 DEF StagesInv, CaptureHolds
  <2> QED BY <1>1, <2>2, <2>3 DEF CaptureInv
<1>5. CASE Consented
  <2>1. /\ consent = "consent" /\ consent' = "camera"
        /\ UNCHANGED <<tries, cameras, camera, watching, screens, screen, recording, unshared>>
    BY <1>5 DEF Consented, streamVars
  <2>2. CaptureTypeOK'
    BY <1>0, <1>1, <2>1 DEF CaptureTypeOK, signVars, Steps
  <2>3. StagesInv' /\ CaptureHolds'
    BY <1>0, <2>1 DEF StagesInv, CaptureHolds
  <2> QED BY <1>1, <2>2, <2>3 DEF CaptureInv
<1>6. CASE CameraGranted
  <2>1. /\ consent = "camera" /\ consent' = "calibrate"
        /\ cameras' = cameras \union {tries} /\ camera' = tries
        /\ UNCHANGED <<tries, watching, screens, screen, recording, unshared>>
    BY <1>6 DEF CameraGranted
  <2>2. cameras' = {tries}
    BY <1>0, <2>1 DEF StagesInv
  <2>3. CaptureTypeOK'
    BY <1>0, <1>1, <2>1, <2>2 DEF CaptureTypeOK, signVars, Steps
  <2>4. StagesInv' /\ CaptureHolds'
    BY <1>0, <2>1, <2>2 DEF StagesInv, CaptureHolds
  <2> QED BY <1>1, <2>3, <2>4 DEF CaptureInv
<1> QED BY <1>2, <1>3, <1>4, <1>5, <1>6

\* The camera and the recorder stop together.
LEMMA StopKeeps ==
  ASSUME CaptureInv, CameraFails \/ Finish
  PROVE  CaptureInv'
<1>0. /\ CaptureTypeOK /\ StagesInv /\ CaptureHolds /\ SignsInv
      /\ tries \in 0..MaxTries /\ MaxTries \in Nat /\ screens \subseteq 1..tries
      /\ cameras \subseteq {camera} /\ cameras \subseteq Tries /\ screens \subseteq Tries
      /\ 0 \in 0..MaxTries
  BY StreamTypes DEF CaptureInv
<1>1. /\ StopCamera /\ StopRecorder /\ UNCHANGED <<tries, unshared>>
      /\ \/ consent' = "idle"
         \/ consent = "on" /\ consent' = "over"
      /\ consent # "idle"
  BY DEF CameraFails, Finish
<1>2. /\ cameras' = cameras \ {camera} /\ camera' = 0 /\ watching' = FALSE
      /\ screens' = screens \ {screen} /\ screen' = 0 /\ recording' = FALSE
  BY <1>1 DEF StopCamera, StopRecorder
<1>3. cameras' = {}
  BY <1>0, <1>2
<1>4. /\ SignsInv'
      /\ sign' \in [Signs -> -1..Longest] /\ rest' \in [Signs -> 0..CoolTicks]
      /\ grace' \in 0..GraceTicks
      /\ sure' \in [against : [Signs -> 0..Longest], moved : 0..Longest, signals : SUBSET Signs]
  BY <1>0, <1>1, StopForgets
<1>5. CaptureTypeOK'
  <2>1. consent' \in Steps \union {"idle"} /\ tries' \in 0..MaxTries
    BY <1>0, <1>1 DEF Steps
  <2>2. {cameras', screens'} \subseteq SUBSET Tries /\ {camera', screen'} \subseteq 0..MaxTries
    BY <1>0, <1>2, <1>3
  <2>3. {watching', recording', unshared'} \subseteq BOOLEAN
    BY <1>0, <1>1, <1>2 DEF CaptureTypeOK
  <2> QED BY <1>4, <2>1, <2>2, <2>3 DEF CaptureTypeOK
<1>6. StagesInv'
  BY <1>0, <1>1, <1>2, <1>3 DEF StagesInv
<1>7. CaptureHolds'
  <2>1. consent = "on" => tries \notin screens'
    BY <1>0, <1>2 DEF StagesInv
  <2> QED BY <1>1, <1>2, <1>3, <2>1 DEF CaptureHolds
<1> QED BY <1>4, <1>5, <1>6, <1>7 DEF CaptureInv

LEMMA CalibratedKeeps ==
  ASSUME CaptureInv, Calibrated
  PROVE  CaptureInv'
<1>0. /\ CaptureTypeOK /\ StagesInv /\ CaptureHolds /\ SignsInv
      /\ tries \in 0..MaxTries /\ screens \subseteq 1..tries /\ screens \subseteq Tries
      /\ consent # "idle" => tries \in Tries
  BY StreamTypes DEF CaptureInv
<1>1. /\ consent = "calibrate" /\ consent' = "on" /\ watching' = TRUE /\ recording' = TRUE
      /\ screen' = (IF screen = 0 THEN tries ELSE screen)
      /\ screens' = screens \union {screen'}
      /\ UNCHANGED <<tries, cameras, camera, unshared>> /\ UNCHANGED signVars
  BY DEF Calibrated
<1>2. screen' = tries /\ tries \in Tries /\ tries \in 1..tries
  BY <1>0, <1>1 DEF StagesInv, Tries
<1>3. CaptureTypeOK'
  BY <1>0, <1>1, <1>2 DEF CaptureTypeOK, signVars, Steps
<1>4. StagesInv' /\ CaptureHolds'
  BY <1>0, <1>1, <1>2 DEF StagesInv, CaptureHolds
<1> QED BY <1>0, <1>1, <1>3, <1>4, SignsStay DEF CaptureInv

LEMMA EndShareKeeps ==
  ASSUME CaptureInv, EndShare
  PROVE  CaptureInv'
<1>0. /\ CaptureTypeOK /\ StagesInv /\ CaptureHolds /\ SignsInv
      /\ screens \subseteq 1..tries /\ screens \subseteq Tries /\ 0 \in 0..MaxTries
  BY StreamTypes DEF CaptureInv
<1>1. PICK s \in screens : screens' = screens \ {s, screen}
  BY DEF EndShare
<1>2. /\ screen' = 0 /\ recording' = FALSE /\ unshared' = TRUE
      /\ UNCHANGED <<consent, tries, cameras, camera, watching>> /\ UNCHANGED signVars
  BY DEF EndShare
<1>3. CaptureTypeOK'
  BY <1>0, <1>1, <1>2 DEF CaptureTypeOK, signVars
<1>4. StagesInv' /\ CaptureHolds'
  BY <1>0, <1>1, <1>2 DEF StagesInv, CaptureHolds
<1> QED BY <1>0, <1>2, <1>3, <1>4, SignsStay DEF CaptureInv

-----------------------------------------------------------------------------
(* Frames. *)

\* How a counter that stops goes on.
LEMMA LaterIs ==
  ASSUME NEW n \in Int, NEW most \in Nat, n <= most
  PROVE  /\ Later(n, most) \in Int /\ Later(n, most) <= most
         /\ n <= Later(n, most) /\ Later(n, most) <= n + 1
         /\ Later(n, most) = n + 1 \/ Later(n, most) = most
  BY DEF Later

\* For how long a sign has been seen, one sign at a time.
LEMMA LastingIs ==
  ASSUME NEW seen \in Seen, NEW s \in Signs, Confirm[s] \in Nat
  PROVE  \/ Lasting(seen)[s] = -1
         \/ /\ Lasting(seen)[s] = Later(sign[s], Confirm[s])
            /\ ~Denied(seen)[s]
            /\ s = "away" => ~(grace > 0)
<1>0. s \in {"away", "faces"} /\ seen.faces \in {0, 1, 2}
  BY DEF Seen, Signs
<1>1. Lasting(seen)[s] =
        CASE s = "faces" /\ seen.faces = 1             -> -1
          [] s = "faces" /\ seen.faces = 0             -> IF sign[s] = -1 THEN -1 ELSE Later(sign[s], Confirm[s])
          [] s = "away" /\ (~Looks(seen) \/ grace > 0) -> -1
          [] OTHER                                     -> Later(sign[s], Confirm[s])
  BY DEF Lasting
<1>2. CASE s = "faces"
  <2>1. CASE seen.faces = 1
    BY <1>1, <1>2, <2>1
  <2>2. CASE seen.faces = 0
    <3>1. Lasting(seen)[s] = IF sign[s] = -1 THEN -1 ELSE Later(sign[s], Confirm[s])
      BY <1>1, <1>2, <2>2
    <3>2. ~Denied(seen)[s]
      <4>1. Denied(seen).faces = (seen.faces = 1)
        BY DEF Denied
      <4>2. ~(seen.faces = 1)
        BY <2>2
      <4> QED BY <1>2, <4>1, <4>2
    <3> QED BY <1>2, <3>1, <3>2
  <2>3. CASE seen.faces = 2
    <3>1. Lasting(seen)[s] = Later(sign[s], Confirm[s])
      BY <1>1, <1>2, <2>3
    <3>2. ~Denied(seen)[s]
      <4>1. Denied(seen)["faces"] = (seen.faces = 1)
        BY DEF Denied
      <4>2. ~(seen.faces = 1)
        BY <2>3
      <4> QED BY <1>2, <4>1, <4>2
    <3> QED BY <1>2, <3>1, <3>2
  <2> QED BY <1>0, <2>1, <2>2, <2>3
<1>3. CASE s = "away"
  <2>1. CASE ~Looks(seen) \/ grace > 0
    BY <1>1, <1>3, <2>1
  <2>2. CASE Looks(seen) /\ ~(grace > 0)
    BY <1>1, <1>3, <2>2 DEF Denied
  <2> QED BY <2>1, <2>2
<1> QED BY <1>0, <1>2, <1>3

\* A frame: each sign is forgotten or lasts on while nothing speaks against it,
\* and what is signalled has lasted.
LEMMA FrameIs ==
  ASSUME CaptureTypeOK, NEW seen \in Seen, Frame(seen)
  PROVE  /\ sign' \in [Signs -> Int]
         /\ \A s \in Signs :
              \/ sign'[s] = -1 /\ sure'.against[s] \in {0, Later(sure.against[s], Longest)}
              \/ /\ sign'[s] = Later(sign[s], Confirm[s])
                 /\ sure'.against[s] = Later(sure.against[s], Longest)
                 /\ s = "away" => ~(grace > 0) \/ sign[s] # -1
         /\ sure'.moved = Later(sure.moved, Longest)
         /\ sure'.signals \subseteq Signs
         /\ \A s \in sure'.signals : sign'[s] >= Confirm[s]
         /\ rest' \in [Signs -> 0..CoolTicks]
         /\ sure' = [against |-> sure'.against, moved |-> sure'.moved, signals |-> sure'.signals]
         /\ sure'.against \in [Signs -> {sure'.against[s] : s \in Signs}]
<1> DEFINE signals == IF seen.fails THEN {} ELSE Sure(Lasting(seen), seen)
           against == [s \in Signs |-> IF ~seen.fails /\ Denied(seen)[s] THEN 0
                                       ELSE Later(sure.against[s], Longest)]
           lasts == IF seen.fails THEN [s \in Signs |-> IF sign[s] = -1 THEN -1 ELSE Later(sign[s], Confirm[s])]
                    ELSE Lasting(seen)
<1>0. /\ sign' = lasts
      /\ rest' = [s \in Signs |-> IF s \in signals THEN 0 ELSE Later(rest[s], CoolTicks)]
      /\ sure' = [against |-> against, moved |-> Later(sure.moved, Longest), signals |-> signals]
  BY DEF Frame
<1>1. /\ \A s \in Signs : Confirm[s] \in Nat /\ CoolTicks \in Nat
      /\ sign \in [Signs -> -1..Longest] /\ rest \in [Signs -> 0..CoolTicks]
      /\ \A s \in Signs : sign[s] \in Int
      /\ seen.fails \in BOOLEAN
  <2>1. sign \in [Signs -> -1..Longest] /\ rest \in [Signs -> 0..CoolTicks]
    BY DEF CaptureTypeOK
  <2>2. \A s \in Signs : sign[s] \in Int
    BY <2>1, TimesAre
  <2> QED BY <2>1, <2>2, TimesAre DEF Seen
<1>2. \A s \in Signs : Later(sign[s], Confirm[s]) \in Int
  BY <1>1 DEF Later
<1>3. ASSUME NEW s \in Signs
      PROVE  /\ lasts[s] \in Int
             /\ \/ lasts[s] = -1 /\ against[s] \in {0, Later(sure.against[s], Longest)}
                \/ /\ lasts[s] = Later(sign[s], Confirm[s])
                   /\ against[s] = Later(sure.against[s], Longest)
                   /\ s = "away" => ~(grace > 0) \/ sign[s] # -1
  <2>1. CASE seen.fails
    <3>1. lasts[s] = IF sign[s] = -1 THEN -1 ELSE Later(sign[s], Confirm[s])
      BY <2>1
    <3>2. against[s] = Later(sure.against[s], Longest)
      BY <2>1
    <3> HIDE DEF lasts, against
    <3> QED BY <1>2, <3>1, <3>2
  <2>2. CASE ~seen.fails
    <3>1. lasts[s] = Lasting(seen)[s]
      BY <2>2
    <3>2. against[s] = IF Denied(seen)[s] THEN 0 ELSE Later(sure.against[s], Longest)
      BY <2>2
    <3> HIDE DEF lasts, against
    <3> QED BY <1>1, <1>2, <3>1, <3>2, LastingIs
  <2> QED BY <2>1, <2>2
<1>4. DOMAIN lasts = Signs /\ lasts = [s \in Signs |-> lasts[s]]
  BY DEF Lasting
<1>5. ASSUME NEW s \in signals PROVE s \in Signs /\ lasts[s] >= Confirm[s]
  BY <1>5 DEF Sure
<1>6. rest' \in [Signs -> 0..CoolTicks]
  <2>1. \A s \in Signs : Later(rest[s], CoolTicks) \in 0..CoolTicks /\ 0 \in 0..CoolTicks
    BY <1>1, TimesAre DEF Later
  <2> QED BY <1>0, <2>1
<1>7. against = [s \in Signs |-> against[s]]
  OBVIOUS
<1> HIDE DEF lasts, against, signals
<1>8. lasts \in [Signs -> Int]
  BY <1>3, <1>4
<1>9. /\ sure'.against = against /\ sure'.moved = Later(sure.moved, Longest)
      /\ sure'.signals = signals
      /\ sure' = [against |-> sure'.against, moved |-> sure'.moved, signals |-> sure'.signals]
  BY <1>0
<1> QED BY <1>0, <1>3, <1>5, <1>6, <1>7, <1>8, <1>9

LEMMA FrameKeeps ==
  ASSUME CaptureInv, NEW seen \in Seen, Frame(seen)
  PROVE  CaptureInv'
<1>0. CaptureTypeOK /\ StagesInv /\ CaptureHolds /\ SignsInv
  BY DEF CaptureInv
<1>1. /\ grace' = IF grace > 0 THEN grace - 1 ELSE 0
      /\ UNCHANGED <<consent, tries, cameras, camera, watching, screens, screen, recording, unshared>>
  BY DEF Frame, streamVars
<1>2. /\ sign' \in [Signs -> Int]
      /\ \A s \in Signs :
           \/ sign'[s] = -1 /\ sure'.against[s] \in {0, Later(sure.against[s], Longest)}
           \/ /\ sign'[s] = Later(sign[s], Confirm[s])
              /\ sure'.against[s] = Later(sure.against[s], Longest)
              /\ s = "away" => ~(grace > 0) \/ sign[s] # -1
      /\ sure'.moved = Later(sure.moved, Longest)
      /\ sure'.signals \subseteq Signs
      /\ \A s \in sure'.signals : sign'[s] >= Confirm[s]
      /\ rest' \in [Signs -> 0..CoolTicks]
      /\ sure' = [against |-> sure'.against, moved |-> sure'.moved, signals |-> sure'.signals]
      /\ sure'.against \in [Signs -> {sure'.against[s] : s \in Signs}]
  BY <1>0, FrameIs
<1>3. /\ Longest \in Nat /\ GraceTicks \in Nat /\ AwayTicks \in Nat
      /\ Longest >= GraceTicks + AwayTicks + 1 /\ Confirm["away"] = AwayTicks
      /\ "away" \in Signs
      /\ \A s \in Signs : Confirm[s] \in Nat /\ Longest >= Confirm[s] + 1
  BY TimesAre
<1>4. /\ grace \in 0..GraceTicks /\ sure.moved \in 0..Longest
      /\ \A s \in Signs : sign[s] \in -1..Longest /\ sure.against[s] \in 0..Longest
  BY <1>0 DEF CaptureTypeOK
<1>5. /\ \A s \in Signs : sign[s] <= Confirm[s] /\ sign[s] + 1 <= sure.against[s]
      /\ grace > 0 => sign["away"] = -1
      /\ grace + sure.moved >= GraceTicks
      /\ sign["away"] >= 0 => sure.moved >= GraceTicks + sign["away"] + 1
  BY <1>0 DEF SignsInv
<1>6. ASSUME NEW s \in Signs
      PROVE  /\ sign'[s] \in -1..Longest /\ sure'.against[s] \in 0..Longest
             /\ sign'[s] <= Confirm[s] /\ sign'[s] + 1 <= sure'.against[s]
  <2>1. /\ sign[s] \in Int /\ sign[s] >= -1 /\ sign[s] <= Confirm[s]
        /\ sure.against[s] \in Int /\ sure.against[s] >= 0 /\ sure.against[s] <= Longest
        /\ sign[s] + 1 <= sure.against[s]
        /\ Confirm[s] \in Nat /\ Longest >= Confirm[s] + 1
    BY <1>3, <1>4, <1>5
  <2> DEFINE x == Later(sign[s], Confirm[s])
             y == Later(sure.against[s], Longest)
  <2>2. /\ x \in Int /\ x <= Confirm[s] /\ sign[s] <= x /\ x <= sign[s] + 1
        /\ y \in Int /\ y <= Longest /\ sure.against[s] <= y
        /\ y = sure.against[s] + 1 \/ y = Longest
    BY <1>3, <2>1, LaterIs
  <2>3. \/ sign'[s] = -1 /\ sure'.against[s] \in {0, y}
        \/ sign'[s] = x /\ sure'.against[s] = y
    BY <1>2
  <2> HIDE DEF x, y
  <2> QED BY <1>3, <2>1, <2>2, <2>3
<1>7. sure'.moved \in 0..Longest /\ (sure'.moved = sure.moved + 1 \/ sure'.moved = Longest)
  BY <1>2, <1>3, <1>4, LaterIs
<1>8. grace' \in 0..GraceTicks
  BY <1>1, <1>3, <1>4
<1>9. CaptureTypeOK'
  <2>1. sign' \in [Signs -> -1..Longest]
    BY <1>2, <1>6
  <2>2. sure'.against \in [Signs -> 0..Longest]
    BY <1>2, <1>6
  <2>3. sure' \in [against : [Signs -> 0..Longest], moved : 0..Longest, signals : SUBSET Signs]
    <3> DEFINE a == sure'.against
               m == sure'.moved
               g == sure'.signals
    <3>1. a \in [Signs -> 0..Longest] /\ m \in 0..Longest /\ g \in SUBSET Signs
      BY <1>2, <1>7, <2>2
    <3>2. sure' = [against |-> a, moved |-> m, signals |-> g]
      BY <1>2
    <3> HIDE DEF a, m, g
    <3> QED BY <3>1, <3>2
  <2> QED BY <1>0, <1>1, <1>2, <1>8, <2>1, <2>3 DEF CaptureTypeOK
<1>10. grace' > 0 => sign'["away"] = -1
  <2> SUFFICES ASSUME grace' > 0 PROVE sign'["away"] = -1
    OBVIOUS
  <2>1. grace > 0
    BY <1>1, <1>4, <1>3
  <2>2. sign["away"] = -1
    BY <1>5, <2>1
  <2> QED BY <1>2, <1>3, <2>1, <2>2
<1>11. grace' + sure'.moved >= GraceTicks
  BY <1>1, <1>3, <1>4, <1>5, <1>7
<1>12. sign'["away"] >= 0 => sure'.moved >= GraceTicks + sign'["away"] + 1
  <2> SUFFICES ASSUME sign'["away"] >= 0
               PROVE  sure'.moved >= GraceTicks + sign'["away"] + 1
    OBVIOUS
  <2>1. /\ sign["away"] \in Int /\ sign["away"] >= -1 /\ sign["away"] <= AwayTicks
        /\ sign'["away"] \in Int /\ sign'["away"] <= AwayTicks
    BY <1>3, <1>4, <1>5, <1>6
  <2>2. sign'["away"] # -1
    BY <2>1
  <2>3. /\ sign'["away"] = Later(sign["away"], AwayTicks)
        /\ ~(grace > 0) \/ sign["away"] # -1
    BY <1>2, <1>3, <2>2
  <2>4. sign'["away"] <= sign["away"] + 1
    BY <1>3, <2>1, <2>3, LaterIs
  <2>5. sure.moved \in Int /\ grace \in Int /\ grace >= 0 /\ Longest >= GraceTicks + AwayTicks + 1
    BY <1>3, <1>4
  <2>6. CASE sign["away"] = -1
    <3>1. sure.moved >= GraceTicks
      BY <1>3, <1>5, <2>3, <2>5, <2>6
    <3> QED BY <1>3, <1>7, <2>1, <2>4, <2>5, <2>6, <3>1
  <2>7. CASE sign["away"] # -1
    <3>1. sure.moved >= GraceTicks + sign["away"] + 1
      BY <1>5, <2>1, <2>7
    <3> QED BY <1>3, <1>7, <2>1, <2>4, <2>5, <3>1
  <2> QED BY <2>6, <2>7
<1>13. SignsInv'
  BY <1>2, <1>6, <1>10, <1>11, <1>12 DEF SignsInv
<1>14. StagesInv' /\ CaptureHolds'
  BY <1>0, <1>1 DEF StagesInv, CaptureHolds
<1> QED BY <1>9, <1>13, <1>14 DEF CaptureInv

LEMMA NavigateKeeps ==
  ASSUME CaptureInv, Navigate
  PROVE  CaptureInv'
<1>0. /\ CaptureTypeOK /\ StagesInv /\ CaptureHolds /\ SignsInv
      /\ sign \in [Signs -> -1..Longest] /\ sure.against \in [Signs -> 0..Longest]
      /\ sure \in [against : [Signs -> 0..Longest], moved : 0..Longest, signals : SUBSET Signs]
  BY DEF CaptureInv, CaptureTypeOK
<1>1. /\ grace' = GraceTicks /\ sign' = [sign EXCEPT !["away"] = -1]
      /\ sure' = [sure EXCEPT !.moved = 0, !.signals = {}]
      /\ UNCHANGED <<consent, tries, cameras, camera, watching, screens, screen, recording,
                     unshared, rest>>
  BY DEF Navigate, streamVars
<1>2. /\ GraceTicks \in Nat /\ GraceTicks \in 0..GraceTicks /\ 0 \in 0..Longest
      /\ -1 \in -1..Longest /\ "away" \in Signs /\ Longest \in Nat
      /\ \A s \in Signs : Confirm[s] \in Nat
  BY TimesAre
<1>3. /\ sure'.against = sure.against /\ sure'.moved = 0 /\ sure'.signals = {}
      /\ sure' \in [against : [Signs -> 0..Longest], moved : 0..Longest, signals : SUBSET Signs]
  BY <1>0, <1>1, <1>2
<1>4. /\ sign' \in [Signs -> -1..Longest] /\ sign'["away"] = -1
      /\ \A s \in Signs : sign'[s] = sign[s] \/ sign'[s] = -1
  BY <1>0, <1>1, <1>2
<1>5. CaptureTypeOK'
  BY <1>0, <1>1, <1>2, <1>3, <1>4 DEF CaptureTypeOK
<1>6. StagesInv' /\ CaptureHolds'
  BY <1>0, <1>1 DEF StagesInv, CaptureHolds
<1>7. \A s \in Signs : sign'[s] <= Confirm[s] /\ sign'[s] + 1 <= sure'.against[s]
  <2> TAKE s \in Signs
  <2>1. sign[s] <= Confirm[s] /\ sign[s] + 1 <= sure.against[s]
    BY <1>0 DEF SignsInv
  <2>2. sure.against[s] \in 0..Longest /\ Confirm[s] \in Nat
    BY <1>0, <1>2
  <2> QED BY <1>3, <1>4, <2>1, <2>2
<1>8. SignsInv'
  BY <1>1, <1>2, <1>3, <1>4, <1>7 DEF SignsInv
<1> QED BY <1>5, <1>6, <1>8 DEF CaptureInv

LEMMA CaptureStep ==
  ASSUME CaptureInv, CaptureNext \/ UNCHANGED captureVars
  PROVE  CaptureInv'
<1>1. CASE UNCHANGED captureVars
  <2>1. CaptureTypeOK' = CaptureTypeOK /\ StagesInv' = StagesInv
    BY <1>1 DEF captureVars, CaptureTypeOK, StagesInv
  <2>2. CaptureHolds' = CaptureHolds /\ SignsInv' = SignsInv
    BY <1>1 DEF captureVars, CaptureHolds, SignsInv
  <2> QED BY <2>1, <2>2 DEF CaptureInv
<1>2. CASE CaptureNext
  BY <1>2, ConsentKeeps, StopKeeps, CalibratedKeeps, EndShareKeeps, FrameKeeps, NavigateKeeps
     DEF CaptureNext
<1> QED BY <1>1, <1>2

\* What the watch promises follows.
LEMMA WatchStands == CaptureInv => WatchHolds
<1> SUFFICES ASSUME CaptureInv, NEW s \in sure.signals
             PROVE  /\ sure.against[s] > Confirm[s]
                    /\ s = "away" => sure.moved > GraceTicks + AwayTicks
  BY DEF WatchHolds, SignalsAreSustained, CaptureInv
<1>1. /\ s \in Signs /\ sign[s] \in -1..Longest /\ sure.against[s] \in 0..Longest
      /\ sure.moved \in 0..Longest
  BY DEF CaptureInv, CaptureTypeOK
<1>2. /\ Confirm[s] \in Nat /\ Confirm["away"] = AwayTicks /\ AwayTicks \in Nat /\ GraceTicks \in Nat
  BY <1>1, TimesAre
<1>3. /\ sign[s] >= Confirm[s] /\ sign[s] + 1 <= sure.against[s]
      /\ sign["away"] >= 0 => sure.moved >= GraceTicks + sign["away"] + 1
  BY <1>1 DEF CaptureInv, SignsInv
<1> QED BY <1>1, <1>2, <1>3

-----------------------------------------------------------------------------
(* The page. *)

PageInv == BrowserInv /\ OpsInv /\ RunnerInv /\ CaptureInv

LEMMA PageStep == PageInv /\ [PageNext]_pageVars => PageInv'
<1> SUFFICES ASSUME PageInv, [PageNext]_pageVars PROVE PageInv'
  OBVIOUS
<1>1. /\ BrowserNext \/ UNCHANGED browserVars
      /\ RunnerNext \/ UNCHANGED runnerVars
      /\ CaptureNext \/ UNCHANGED captureVars
  BY DEF PageNext, pageVars, OfDrafts, OfRunner
<1> HIDE DEF BrowserNext, RunnerNext, CaptureNext
<1> QED BY <1>1, BrowserStep, RunnerStep, CaptureStep DEF PageInv

LEMMA PageInvariant == PageSpec => []PageInv
<1>1. PageInit => PageInv
  BY BrowserStart, OpsStart, RunnerStart, CaptureStart DEF PageInit, PageInv
<1> QED BY <1>1, PageStep, PTL DEF PageSpec

\* The page, its runner and its watch stay within their types: a section is
\* timed for no longer than its time in each of the page's loads.
THEOREM PageTypeCorrect == PageSpec => []PageTypeOK
<1>1. PageInv => PageTypeOK
  BY DEF PageInv, BrowserInv, RunnerInv, CaptureInv, PageTypeOK
<1> QED BY <1>1, PageInvariant, PTL

\* What a page has shown as saved is what is restored when it is loaded again,
\* and who is thanked has all his work on record, but for the exceptions the
\* history names: however often the page is loaded and whatever calls are lost,
\* late or repeated.
THEOREM ShownIsStoredCorrect == PageSpec => []ShownIsStored
<1>1. PageInv => ShownIsStored
  BY DraftsAreShown DEF PageInv, ShownIsStored
<1> QED BY <1>1, PageInvariant, PTL

\* A section that is done is answered unless its time ran out, none is timed for
\* longer than its time in each load; a session that is on is watched, no camera
\* outlives it, and what is signalled has lasted as long as it has to.
THEOREM SittingCorrect == PageSpec => []SittingHolds
<1>1. PageInv => SittingHolds
  BY SectionsStand, WatchStands DEF PageInv, SittingHolds
<1> QED BY <1>1, PageInvariant, PTL
=============================================================================
