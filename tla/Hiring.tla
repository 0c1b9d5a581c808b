------------------------------- MODULE Hiring -------------------------------
(***************************************************************************)
(* The hiring pipeline of one job: app/api/routes/hiring.py, with the two  *)
(* handlers of app/api/routes/exams.py that move an application.  A        *)
(* request loads rows, decides, and stores at its commit the attributes    *)
(* that differ from what it loaded (SQLAlchemy); no handler locks a row    *)
(* before it decides, so the commits of two requests interleave.  Emails   *)
(* and PDFs are rendered between the two.                                  *)
(***************************************************************************)
EXTENDS Integers, FiniteSets, RowChanges

CONSTANTS
    Workers,       \* threads that serve requests about this job
    Applications,  \* ids of applications, one per candidate
    Headcount,     \* JobRequisition.headcount
    Pay,           \* the compensations an offer may state
    Targets,       \* bound: the stages that recruiters and imports choose
    MaxLinks       \* bound: access tokens made for offers

Stages == {"applied", "screening", "assessment", "interview", "offer", "hired",
           "rejected", "withdrawn"}

ASSUME HiringAssumption ==
    /\ Headcount \in Nat \ {0}
    /\ Pay \subseteq Nat \ {0}
    /\ Targets \subseteq Stages
    /\ MaxLinks \in Nat

VARIABLES
    job,         \* status of the job_requisitions row
    app,         \* hiring_applications rows, with their candidate and scorecards
    offer,       \* hiring_offers rows
    links,       \* how many access tokens were made
    imported,    \* history: applications the ATS import created as "hired"
    req,         \* what each worker is doing
    overlapped   \* history: two requests were in progress at once

vars == <<job, app, offer, links, imported, req, overlapped>>
rows == <<job, app, offer>>

-----------------------------------------------------------------------------
\* "paused" stands for the job statuses "draft", "paused" and "closed".
JobStatus == {"open", "paused", "deleted"}

Application == [stage : Stages \union {"none"}, status : {"none", "active", "closed"},
                interview : BOOLEAN, scorecard : BOOLEAN,
                consent : {"pending", "granted", "consented"}]

\* pay: what the offer states now, 0 while it is incomplete; released and
\* signed: what the two documents state, {} while there is none.
Offer == [status : {"none", "draft", "ready", "released", "accepted", "declined"},
          pay : Pay \union {0}, reviewed : BOOLEAN,
          link : 0..MaxLinks, released : SUBSET Pay, signed : SUBSET (Pay \union {0})]

NoOffer == [status |-> "none", pay |-> 0, reviewed |-> FALSE,
            link |-> 0, released |-> {}, signed |-> {}]

Nothing == [a \in Applications |-> NoChanges]

\* hires: the application a hire still counts.
Idle == [op |-> "idle", hires |-> {}, insert |-> {}, job |-> "same", app |-> Nothing, offer |-> Nothing]

Init ==
    /\ job = "open"
    /\ app \in [Applications ->
                  {[stage |-> "none", status |-> "none", interview |-> FALSE,
                    scorecard |-> FALSE, consent |-> c] : c \in {"pending", "granted"}}]
    /\ offer = [a \in Applications |-> NoOffer]
    /\ links = 0
    /\ imported = {}
    /\ req = [w \in Workers |-> Idle]
    /\ overlapped = FALSE

Busy(w) == req[w].op # "idle"

\* The request has loaded its rows and will set them to newJob, newApp and
\* newOffer; insert: the tables it adds a row to.  One that sets nothing is no
\* step.
Start(w, op, hires, insert, newJob, newApp, newOffer) ==
    /\ ~Busy(w)
    /\ hires # {} \/ newJob # job \/ newApp # app \/ newOffer # offer
    /\ req' = [req EXCEPT ![w] =
         [op |-> op, hires |-> hires, insert |-> insert,
          job |-> IF newJob = job THEN "same" ELSE newJob,
          app |-> [a \in Applications |-> Changes(app[a], newApp[a])],
          offer |-> [a \in Applications |-> Changes(offer[a], newOffer[a])]]]
    /\ overlapped' = (overlapped \/ \E v \in Workers : Busy(v))
    /\ UNCHANGED <<rows, imported>>

Begin(w, insert, newJob, newApp, newOffer) ==
    Start(w, "work", {}, insert, newJob, newApp, newOffer)

Moved(a, stage, status) == [app EXCEPT ![a].stage = stage, ![a].status = status]

\* A request that changes one application and nothing else.
Move(w, a, stage, status) ==
    /\ Begin(w, {}, job, Moved(a, stage, status), offer)
    /\ UNCHANGED links

Exists(a) == app[a].stage # "none"
Active(a) == app[a].status = "active"

-----------------------------------------------------------------------------
(* Applications. *)

Insert(w, op, a, stage, consent) ==
    /\ Start(w, op, {}, {<<"app", a>>}, job,
             [app EXCEPT ![a].stage = stage, ![a].status = "active", ![a].consent = consent],
             offer)
    /\ UNCHANGED links

PublicApplication(w, a) ==
    /\ job = "open"
    /\ ~Exists(a)
    /\ Insert(w, "work", a, "applied", "consented")

\* A closed application is opened again.
CreateApplication(w, a) ==
    /\ job = "open"
    /\ ~Active(a)
    /\ IF Exists(a) THEN Move(w, a, "screening", "active")
       ELSE Insert(w, "work", a, "screening", app[a].consent)

ImportApplication(w, a, stage) ==
    /\ job = "open"
    /\ ~Exists(a)
    /\ Insert(w, "import", a, stage, app[a].consent)

IssueAssessment(w, a) ==
    /\ Active(a)
    /\ app[a].stage \in {"screening", "assessment"}
    /\ Move(w, a, "assessment", "active")

\* The review of a passed assessment.
FinalizeReview(w, a) ==
    /\ Active(a)
    /\ app[a].stage = "assessment"
    /\ Move(w, a, "interview", "active")

CreateInterview(w, a) ==
    /\ Active(a)
    /\ app[a].stage = "interview"
    /\ Begin(w, {}, job, [app EXCEPT ![a].interview = TRUE], offer)
    /\ UNCHANGED links

SubmitScorecard(w, a) ==
    /\ app[a].interview
    /\ Begin(w, {}, job, [app EXCEPT ![a].scorecard = TRUE], offer)
    /\ UNCHANGED links

\* Mutant of StageAllowed: no scorecard is asked for.
StageAllowedUnscored(a, stage) ==
    /\ Exists(a) /\ stage # "rejected"
    /\ app[a].status = "closed" => stage = app[a].stage
    /\ stage = "hired" => app[a].consent = "granted"

StageAllowed(a, stage) ==
    /\ Exists(a) /\ stage # "rejected"
    /\ app[a].status = "closed" => stage = app[a].stage
    /\ stage \in {"offer", "hired"} => app[a].scorecard
    /\ stage = "hired" => app[a].consent = "granted"

UpdateStage(w, a, stage) ==
    /\ StageAllowed(a, stage)
    /\ Start(w, "work", IF stage = "hired" THEN {a} ELSE {}, {}, job,
             Moved(a, stage, IF stage \in {"withdrawn", "hired"} THEN "closed" ELSE app[a].status),
             offer)
    /\ UNCHANGED links

\* The new stage is flushed, then hired applications are counted: the own one
\* and those that are committed.
CountHired(w, a) ==
    LET others == {b \in Applications \ {a} : app[b].stage = "hired"} IN
    /\ a \in req[w].hires
    /\ req' = [req EXCEPT ![w].op = "counted", ![w].hires = {},
                 ![w].job = IF Cardinality(others) + 1 >= Headcount /\ job # "paused"
                            THEN "paused" ELSE "same"]
    /\ UNCHANGED <<rows, links, imported, overlapped>>

RejectApplication(w, a) ==
    /\ Active(a)
    /\ Move(w, a, "rejected", "closed")

-----------------------------------------------------------------------------
(* The job. *)

UpdateJob(w, status) ==
    /\ Begin(w, {}, status, app, offer)
    /\ UNCHANGED links

DeleteJob(w) ==
    /\ \A a \in Applications : ~Active(a)
    /\ Begin(w, {}, "deleted", app, offer)
    /\ UNCHANGED links

\* Every active application that is not hired is rejected.
CloseVacancies(w) ==
    /\ Begin(w, {}, "paused",
             [a \in Applications |->
                IF Active(a) /\ app[a].stage # "hired"
                THEN [app[a] EXCEPT !.stage = "rejected", !.status = "closed"] ELSE app[a]],
             offer)
    /\ UNCHANGED links

-----------------------------------------------------------------------------
(* Offers. *)

\* The author may lack the permission for compensation, then nobody has
\* reviewed it.
CreateOffer(w, a, pay, permitted) ==
    /\ app[a].stage \in {"interview", "offer", "hired"}
    /\ app[a].stage # "hired" => Active(a) /\ app[a].scorecard
    /\ offer[a].status = "none"
    /\ Begin(w, {<<"offer", a>>}, job, app,
             [offer EXCEPT ![a].status = IF pay = 0 THEN "draft" ELSE "ready",
                           ![a].pay = pay, ![a].reviewed = (pay # 0 /\ permitted)])
    /\ UNCHANGED links

Editable(a) == offer[a].status \in {"draft", "ready"}

\* An offer is ready when it states a compensation and has a letter and terms.
Readiness(pay) == IF pay = 0 THEN {"draft"} ELSE {"draft", "ready"}

\* Compensation is edited by somebody who may review it.
UpdateCompensation(w, a, pay) ==
    /\ Editable(a)
    /\ \E status \in Readiness(pay) :
         Begin(w, {}, job, app,
               [offer EXCEPT ![a].status = status, ![a].pay = pay, ![a].reviewed = TRUE])
    /\ UNCHANGED links

UpdateContent(w, a) ==
    /\ Editable(a)
    /\ \E status \in Readiness(offer[a].pay) :
         Begin(w, {}, job, app, [offer EXCEPT ![a].status = status])
    /\ UNCHANGED links

\* Mutant of Releasable: a released offer is released again.
ReleasableAgain(a) ==
    /\ offer[a].status \in {"ready", "released", "accepted"}
    /\ offer[a].pay # 0 /\ offer[a].reviewed

Releasable(a) ==
    /\ offer[a].status = "ready"
    /\ offer[a].pay # 0 /\ offer[a].reviewed

\* The document is rendered and the link is mailed before the commit.
ReleaseOffer(w, a) ==
    /\ Releasable(a)
    /\ links < MaxLinks
    /\ links' = links + 1
    /\ Begin(w, {}, job,
             [app EXCEPT ![a].stage = IF @ = "hired" THEN @ ELSE "offer"],
             [offer EXCEPT ![a].status = "released", ![a].link = links + 1,
                           ![a].released = {offer[a].pay}])

\* The candidate holds a link that is still stored.  That expires_at has passed
\* only keeps a release or an answer from happening.
Answerable(a) == offer[a].link # 0 /\ offer[a].status = "released"

\* The signed document is rendered from the row.
AcceptOffer(w, a) ==
    /\ Answerable(a)
    /\ Begin(w, {}, job, app,
             [offer EXCEPT ![a].status = "accepted", ![a].signed = {offer[a].pay},
                           ![a].link = 0])
    /\ UNCHANGED links

\* Mutant of DeclineOffer: the stage is also stored as the status.
DeclineOfferStatus(w, a) ==
    /\ Answerable(a)
    /\ Begin(w, {}, job, Moved(a, "withdrawn", "withdrawn"),
             [offer EXCEPT ![a].status = "declined", ![a].link = 0])
    /\ UNCHANGED links

DeclineOffer(w, a) ==
    /\ Answerable(a)
    /\ Begin(w, {}, job, Moved(a, "withdrawn", "closed"),
             [offer EXCEPT ![a].status = "declined", ![a].link = 0])
    /\ UNCHANGED links

-----------------------------------------------------------------------------
\* A hire that was flushed holds the row of its application.
Held(a, w) == \E v \in Workers \ {w} :
    req[v].op = "counted" /\ DOMAIN req[v].app[a] # {}

\* The unique constraints of the two tables.
Unique(w) == \A a \in Applications :
    /\ <<"app", a>> \in req[w].insert => ~Exists(a)
    /\ <<"offer", a>> \in req[w].insert => offer[a].status = "none"

Commit(w) ==
    LET r == req[w] IN
    /\ Busy(w)
    /\ r.hires = {}
    /\ \A a \in Applications : DOMAIN r.app[a] # {} => ~Held(a, w)
    /\ Unique(w)
    /\ job' = IF r.job = "same" THEN job ELSE r.job
    /\ app' = [a \in Applications |-> Update(app[a], r.app[a])]
    /\ offer' = [a \in Applications |-> Update(offer[a], r.offer[a])]
    /\ imported' = imported \union
         {a \in Applications : r.op = "import" /\ <<"app", a>> \in r.insert /\ app'[a].stage = "hired"}
    /\ req' = [req EXCEPT ![w] = Idle]
    /\ UNCHANGED <<links, overlapped>>

\* A handler that fails, or whose insert meets the row of another request.
Rollback(w) ==
    /\ Busy(w)
    /\ req' = [req EXCEPT ![w] = Idle]
    /\ UNCHANGED <<rows, links, imported, overlapped>>

Pipeline(w, a) ==
    \/ PublicApplication(w, a) \/ CreateApplication(w, a)
    \/ \E stage \in Targets : ImportApplication(w, a, stage) \/ UpdateStage(w, a, stage)
    \/ IssueAssessment(w, a) \/ FinalizeReview(w, a)
    \/ CreateInterview(w, a) \/ SubmitScorecard(w, a)
    \/ CountHired(w, a) \/ RejectApplication(w, a)

Offers(w, a) ==
    \/ \E pay \in Pay \union {0} :
         \/ UpdateCompensation(w, a, pay)
         \/ \E permitted \in BOOLEAN : CreateOffer(w, a, pay, permitted)
    \/ UpdateContent(w, a) \/ ReleaseOffer(w, a)
    \/ AcceptOffer(w, a) \/ DeclineOffer(w, a)

Next ==
    \/ \E w \in Workers, a \in Applications : Pipeline(w, a) \/ Offers(w, a)
    \/ \E w \in Workers :
         \/ \E status \in {"open", "paused"} : UpdateJob(w, status)
         \/ DeleteJob(w) \/ CloseVacancies(w)
         \/ Commit(w) \/ Rollback(w)

Spec == Init /\ [][Next]_vars

-----------------------------------------------------------------------------
(* Properties. *)

TypeOK ==
    /\ job \in JobStatus
    /\ app \in [Applications -> Application]
    /\ offer \in [Applications -> Offer]
    /\ links \in 0..MaxLinks
    /\ imported \subseteq Applications
    /\ overlapped \in BOOLEAN

\* "At least one structured interview scorecard is required before offer or
\* hire", "consent must be recorded before hire" (hiring.py:2342, 2346): who
\* is hired, or has an offer, was interviewed and consented, however requests
\* interleave; only an ATS import brings in hired candidates without that.
DecisionsHaveEvidence ==
    \A a \in Applications \ imported :
        /\ app[a].stage = "hired" => app[a].scorecard /\ app[a].consent = "granted"
        /\ offer[a].status # "none" => app[a].scorecard

\* The candidate's link works while the offer waits for an answer, and only
\* then: two releases, edits and answers that interleave do not leave a
\* released offer without its link, or an answered one with it.
LinkMatches ==
    \A a \in Applications :
        /\ offer[a].status = "released" => offer[a].link # 0 /\ offer[a].released # {}
        /\ offer[a].status \in {"accepted", "declined"} => offer[a].link = 0

\* As long as requests do not overlap, the document that is signed states
\* what was released.
SignedIsReleased ==
    ~overlapped =>
        \A a \in Applications : offer[a].signed \subseteq offer[a].released

\* What a candidate can follow, sign and be bound by is one offer.
OffersHold == LinkMatches /\ SignedIsReleased

\* As long as requests do not overlap, an answer is final.
AnswerIsFinal ==
    [][~overlapped' =>
         \A a \in Applications : offer[a].status \in {"accepted", "declined"} =>
             offer'[a] = offer[a]]_vars

\* As long as requests do not overlap, a deleted job has no active
\* application, and none comes back to life.
DeletedHasNoActive ==
    ~overlapped /\ job = "deleted" => \A a \in Applications : ~Active(a)
=============================================================================
