---------------------------- MODULE HiringProofs ----------------------------
(***************************************************************************)
(* The hiring desk: what the properties of MCHiring say holds for every    *)
(* number of workers, applications, headcount, pay, members and reminders. *)
(* Each part has an inductive invariant that says of every request in      *)
(* progress what it still justifies of the rows it will write.             *)
(***************************************************************************)
EXTENDS MCHiring, FiniteSetTheorems, TLAPS

-----------------------------------------------------------------------------
(* Rows and their changes. *)

LEMMA ChangesOf ==
  ASSUME NEW old, NEW new, DOMAIN new = DOMAIN old
  PROVE  /\ DOMAIN Changes(old, new) \subseteq DOMAIN old
         /\ \A f \in DOMAIN Changes(old, new) : Changes(old, new)[f] = new[f] /\ new[f] # old[f]
         /\ \A f \in DOMAIN old \ DOMAIN Changes(old, new) : new[f] = old[f]
         /\ Changes(old, new) = [f \in DOMAIN Changes(old, new) |-> new[f]]
  BY DEF Changes

LEMMA UpdateOf ==
  ASSUME NEW row, NEW c
  PROVE  /\ DOMAIN Update(row, c) = DOMAIN row
         /\ Update(row, c) = [f \in DOMAIN row |-> IF f \in DOMAIN c THEN c[f] ELSE row[f]]
         /\ \A f \in DOMAIN row : Update(row, c)[f] = IF f \in DOMAIN c THEN c[f] ELSE row[f]
  BY DEF Update

LEMMA ChangesApplied ==
  ASSUME NEW old, NEW new, DOMAIN new = DOMAIN old
  PROVE  \A f \in DOMAIN old : Update(old, Changes(old, new))[f] = new[f]
  BY ChangesOf, UpdateOf

-----------------------------------------------------------------------------
(* The pipeline. *)

AppFields == {"stage", "status", "interview", "scorecard", "consent"}
Consents == {"pending", "granted", "consented"}

AppChanges ==
    {c \in UNION {[K -> Stages \union {"none", "active", "closed"} \union BOOLEAN \union Consents] :
                    K \in SUBSET AppFields} :
        /\ "stage" \in DOMAIN c => c["stage"] \in Stages
        /\ "status" \in DOMAIN c => c["status"] \in {"none", "active", "closed"}
        /\ "interview" \in DOMAIN c => c["interview"] \in BOOLEAN
        /\ "scorecard" \in DOMAIN c => c["scorecard"] \in BOOLEAN
        /\ "consent" \in DOMAIN c => c["consent"] \in Consents}

OfferFields == {"status", "pay", "reviewed", "link", "released", "signed"}
OfferStatus == {"none", "draft", "ready", "released", "accepted", "declined"}
Answered == {"accepted", "declined"}

OfferChanges ==
    {c \in UNION {[K -> OfferStatus \union Nat \union BOOLEAN \union SUBSET Nat] :
                    K \in SUBSET OfferFields} :
        /\ "status" \in DOMAIN c => c["status"] \in OfferStatus
        /\ "pay" \in DOMAIN c => c["pay"] \in Pay \union {0}
        /\ "reviewed" \in DOMAIN c => c["reviewed"] \in BOOLEAN
        /\ "link" \in DOMAIN c => c["link"] \in 0..MaxLinks
        /\ "released" \in DOMAIN c => c["released"] \in SUBSET Pay
        /\ "signed" \in DOMAIN c => c["signed"] \in SUBSET (Pay \union {0})}

Inserts == {"app", "offer"} \X Applications

Request == [op : {"idle", "work", "import", "counted"}, hires : SUBSET Applications,
            insert : SUBSET Inserts, job : JobStatus \union {"same"},
            app : [Applications -> AppChanges], offer : [Applications -> OfferChanges]]

RequestsInv ==
    /\ req \in [Workers -> Request]
    /\ \A w \in Workers :
         /\ ~Busy(w) => req[w] = Idle
         /\ req[w].hires # {} => req[w].op = "work" /\ req[w].job = "same"

\* What a request will write to an application is still justified by the row:
\* scorecards are not taken back, an application does not cease to exist, and
\* its consent changes with its insert only.
AppPending(w, a) ==
    LET c == req[w].app[a] IN
    /\ "consent" \in DOMAIN c => <<"app", a>> \in req[w].insert
    /\ "scorecard" \in DOMAIN c => c["scorecard"] = TRUE
    /\ "stage" \in DOMAIN c /\ c["stage"] = "hired" =>
         IF req[w].op = "import" THEN <<"app", a>> \in req[w].insert
         ELSE Exists(a) /\ app[a].scorecard /\ app[a].consent = "granted"
    /\ DOMAIN req[w].offer[a] # {} => app[a].scorecard \/ a \in imported

\* A request writes the link of an offer together with the status it belongs to.
OfferPending(w, a) ==
    LET c == req[w].offer[a] IN
    /\ "status" \in DOMAIN c /\ c["status"] = "released" =>
         /\ "link" \in DOMAIN c /\ c["link"] # 0
         /\ "released" \in DOMAIN c \/ offer[a].released # {}
    /\ "status" \in DOMAIN c /\ c["status"] \in Answered => "link" \in DOMAIN c /\ c["link"] = 0
    /\ "link" \in DOMAIN c =>
         /\ "status" \in DOMAIN c /\ c["link"] <= links
         /\ \/ c["status"] = "released" /\ c["link"] # 0
            \/ c["status"] \in Answered /\ c["link"] = 0
    /\ "released" \in DOMAIN c => c["released"] # {}

PendingInv ==
    /\ \A w \in Workers, a \in Applications : AppPending(w, a) /\ OfferPending(w, a)
    /\ \A a \in Applications : offer[a].link <= links

OfferFine(o) ==
    /\ o["status"] \in {"none", "draft", "ready"} => o["signed"] = {}
    /\ o["status"] = "released" => o["released"] = {o["pay"]}
    /\ o["signed"] \subseteq o["released"]

NextJob(w) == IF req[w].job = "same" THEN job ELSE req[w].job

\* As long as requests did not overlap, there is one, and it writes what it
\* decided onto the rows it decided from.
SequentialInv ==
    ~overlapped =>
      /\ \A v, w \in Workers : Busy(v) /\ Busy(w) => v = w
      /\ \A a \in Applications : OfferFine(offer[a])
      /\ \A w \in Workers, a \in Applications : OfferFine(Update(offer[a], req[w].offer[a]))
      /\ \A w \in Workers, a \in Applications :
           offer[a].status \in Answered => DOMAIN req[w].offer[a] = {}
      /\ job = "deleted" => \A a \in Applications : ~Active(a)
      /\ \A w \in Workers : NextJob(w) = "deleted" =>
           \A a \in Applications : Update(app[a], req[w].app[a])["status"] # "active"

PipelineInv ==
    /\ TypeOK /\ RequestsInv /\ PendingInv /\ SequentialInv
    /\ DecisionsHaveEvidence /\ LinkMatches

LEMMA AppRow ==
  ASSUME NEW row \in Application
  PROVE  /\ DOMAIN row = AppFields
         /\ row["stage"] \in Stages \union {"none"} /\ row["status"] \in {"none", "active", "closed"}
         /\ row["interview"] \in BOOLEAN /\ row["scorecard"] \in BOOLEAN /\ row["consent"] \in Consents
  BY DEF Application, AppFields, Consents

LEMMA OfferRow ==
  ASSUME NEW row \in Offer
  PROVE  /\ DOMAIN row = OfferFields
         /\ row["status"] \in OfferStatus /\ row["pay"] \in Pay \union {0}
         /\ row["reviewed"] \in BOOLEAN /\ row["link"] \in 0..MaxLinks
         /\ row["released"] \in SUBSET Pay /\ row["signed"] \in SUBSET (Pay \union {0})
  BY DEF Offer, OfferFields, OfferStatus

LEMMA AppChanged ==
  ASSUME NEW row \in Application, NEW new \in Application,
         new["stage"] # row["stage"] => new["stage"] \in Stages
  PROVE  Changes(row, new) \in AppChanges
<1> DEFINE c == Changes(row, new)
<1>1. /\ DOMAIN row = AppFields /\ DOMAIN new = AppFields
      /\ new["stage"] \in Stages \union {"none"} /\ new["status"] \in {"none", "active", "closed"}
      /\ new["interview"] \in BOOLEAN /\ new["scorecard"] \in BOOLEAN /\ new["consent"] \in Consents
  BY AppRow
<1>2. /\ DOMAIN c \subseteq AppFields
      /\ \A f \in DOMAIN c : c[f] = new[f] /\ new[f] # row[f]
      /\ c = [f \in DOMAIN c |-> new[f]]
  BY <1>1, ChangesOf
<1> HIDE DEF c
<1>3. \A f \in DOMAIN c : new[f] \in Stages \union {"none", "active", "closed"} \union BOOLEAN \union Consents
  BY <1>1, <1>2 DEF AppFields
<1>4. c \in [DOMAIN c -> Stages \union {"none", "active", "closed"} \union BOOLEAN \union Consents]
  BY <1>2, <1>3
<1>5. c \in AppChanges
  BY <1>1, <1>2, <1>4 DEF AppChanges
<1> QED BY <1>5 DEF c

LEMMA AppUpdated ==
  ASSUME NEW row \in Application, NEW c \in AppChanges
  PROVE  Update(row, c) \in Application
<1>1. Update(row, c) = [f \in AppFields |-> IF f \in DOMAIN c THEN c[f] ELSE row[f]]
  BY AppRow, UpdateOf
<1>2. /\ "stage" \in DOMAIN c => c["stage"] \in Stages
      /\ "status" \in DOMAIN c => c["status"] \in {"none", "active", "closed"}
      /\ "interview" \in DOMAIN c => c["interview"] \in BOOLEAN
      /\ "scorecard" \in DOMAIN c => c["scorecard"] \in BOOLEAN
      /\ "consent" \in DOMAIN c => c["consent"] \in Consents
  BY DEF AppChanges
<1> QED BY <1>1, <1>2, AppRow DEF Application, AppFields, Consents

LEMMA OfferChanged ==
  ASSUME NEW row \in Offer, NEW new \in Offer
  PROVE  Changes(row, new) \in OfferChanges
<1> DEFINE c == Changes(row, new)
<1>0. Pay \subseteq Nat /\ MaxLinks \in Nat
  BY HiringAssumption
<1>1. /\ DOMAIN row = OfferFields /\ DOMAIN new = OfferFields
      /\ new["status"] \in OfferStatus /\ new["pay"] \in Pay \union {0}
      /\ new["reviewed"] \in BOOLEAN /\ new["link"] \in 0..MaxLinks
      /\ new["released"] \in SUBSET Pay /\ new["signed"] \in SUBSET (Pay \union {0})
  BY OfferRow
<1>2. /\ DOMAIN c \subseteq OfferFields
      /\ \A f \in DOMAIN c : c[f] = new[f] /\ new[f] # row[f]
      /\ c = [f \in DOMAIN c |-> new[f]]
  BY <1>1, ChangesOf
<1> HIDE DEF c
<1>3. \A f \in DOMAIN c : new[f] \in OfferStatus \union Nat \union BOOLEAN \union SUBSET Nat
  <2>1. new["pay"] \in Nat /\ new["link"] \in Nat
    <3>1. new["pay"] \in Pay \union {0} /\ new["link"] \in 0..MaxLinks
      BY <1>1
    <3>2. new["pay"] \in Nat
      <4>1. Pay \union {0} \subseteq Nat
        BY <1>0
      <4> QED BY <3>1, <4>1
    <3> QED BY <1>0, <3>1, <3>2
  <2>2. new["released"] \in SUBSET Nat /\ new["signed"] \in SUBSET Nat
    <3>1. Pay \subseteq Nat /\ Pay \union {0} \subseteq Nat
      BY <1>0
    <3>2. new["released"] \subseteq Pay /\ new["signed"] \subseteq Pay \union {0}
      BY <1>1
    <3> QED BY <3>1, <3>2
  <2> QED BY <1>1, <1>2, <2>1, <2>2 DEF OfferFields
<1>4. c \in [DOMAIN c -> OfferStatus \union Nat \union BOOLEAN \union SUBSET Nat]
  BY <1>2, <1>3
<1>5. c \in OfferChanges
  BY <1>1, <1>2, <1>4 DEF OfferChanges
<1> QED BY <1>5 DEF c

LEMMA OfferUpdated ==
  ASSUME NEW row \in Offer, NEW c \in OfferChanges
  PROVE  Update(row, c) \in Offer
<1>1. Update(row, c) = [f \in OfferFields |-> IF f \in DOMAIN c THEN c[f] ELSE row[f]]
  BY OfferRow, UpdateOf
<1>2. /\ "status" \in DOMAIN c => c["status"] \in OfferStatus
      /\ "pay" \in DOMAIN c => c["pay"] \in Pay \union {0}
      /\ "reviewed" \in DOMAIN c => c["reviewed"] \in BOOLEAN
      /\ "link" \in DOMAIN c => c["link"] \in 0..MaxLinks
      /\ "released" \in DOMAIN c => c["released"] \in SUBSET Pay
      /\ "signed" \in DOMAIN c => c["signed"] \in SUBSET (Pay \union {0})
  BY DEF OfferChanges
<1> QED BY <1>1, <1>2, OfferRow DEF Offer, OfferFields, OfferStatus

LEMMA NothingChanges ==
    /\ NoChanges \in AppChanges /\ NoChanges \in OfferChanges /\ DOMAIN NoChanges = {}
    /\ \A a \in Applications : Nothing[a] = NoChanges
    /\ Nothing \in [Applications -> AppChanges] /\ Nothing \in [Applications -> OfferChanges]
<1>1. NoChanges \in AppChanges /\ NoChanges \in OfferChanges /\ DOMAIN NoChanges = {}
  BY DEF NoChanges, AppChanges, OfferChanges
<1> QED BY <1>1 DEF Nothing

LEMMA IdleOK ==
    /\ Idle \in Request /\ Idle.op = "idle" /\ Idle.hires = {} /\ Idle.insert = {}
    /\ Idle.job = "same"
    /\ \A a \in Applications : Idle.app[a] = NoChanges /\ Idle.offer[a] = NoChanges
  BY NothingChanges DEF Idle, Request

\* A request that rests, or rolls back.
LEMMA IdlePending ==
  ASSUME NEW w \in Workers, req[w] = Idle
  PROVE  \A a \in Applications : AppPending(w, a) /\ OfferPending(w, a)
  BY IdleOK, NothingChanges DEF AppPending, OfferPending

LEMMA UpdateNothing ==
  ASSUME NEW row, row = [f \in DOMAIN row |-> row[f]], NEW c, DOMAIN c = {}
  PROVE  Update(row, c) = row
  BY DEF Update

LEMMA PipelineStart == Init => PipelineInv
<1> SUFFICES ASSUME Init PROVE PipelineInv
  OBVIOUS
<1> USE DEF Init
<1>0. MaxLinks \in Nat
  BY HiringAssumption
<1>1. TypeOK
  <2>1. app \in [Applications -> Application]
    <3>1. ASSUME NEW c \in {"pending", "granted"}
          PROVE  [stage |-> "none", status |-> "none", interview |-> FALSE,
                  scorecard |-> FALSE, consent |-> c] \in Application
      BY <3>1 DEF Application
    <3> QED BY <3>1
  <2>2. NoOffer \in Offer
    BY <1>0 DEF NoOffer, Offer
  <2>3. offer \in [Applications -> Offer]
    BY <2>2
  <2>4. links \in 0..MaxLinks /\ job \in JobStatus
    BY <1>0 DEF JobStatus
  <2>5. overlapped \in BOOLEAN /\ imported \subseteq Applications
    OBVIOUS
  <2> QED BY <2>1, <2>3, <2>4, <2>5 DEF TypeOK
<1>2. \A w \in Workers : req[w] = Idle
  OBVIOUS
<1>3. RequestsInv
  BY <1>2, IdleOK DEF RequestsInv, Busy
<1>4. \A a \in Applications :
        /\ offer[a].status = "none" /\ offer[a].link = 0 /\ offer[a].signed = {}
        /\ offer[a].released = {} /\ offer[a] \in Offer
        /\ app[a].stage = "none" /\ app[a].status = "none" /\ app[a] \in Application
  BY <1>1 DEF NoOffer, TypeOK
<1>5. PendingInv
  BY <1>0, <1>2, <1>4, IdlePending DEF PendingInv
<1>6. SequentialInv
  <2>1. \A w \in Workers, a \in Applications :
          Update(offer[a], req[w].offer[a]) = offer[a] /\ Update(app[a], req[w].app[a]) = app[a]
    BY <1>2, <1>4, IdleOK, NothingChanges, UpdateNothing DEF Offer, Application
  <2>2. \A a \in Applications : OfferFine(offer[a])
    BY <1>4 DEF OfferFine
  <2> QED BY <1>2, <1>4, <2>1, <2>2, IdleOK, NothingChanges DEF SequentialInv, Busy, Active, Answered, NextJob
<1>7. DecisionsHaveEvidence /\ LinkMatches
  BY <1>4 DEF DecisionsHaveEvidence, LinkMatches
<1> QED BY <1>1, <1>3, <1>5, <1>6, <1>7 DEF PipelineInv

\* What a request may decide about an application, from the row it has loaded.
AppSound(op, insert, a, new) ==
    /\ new \in Application
    /\ new["consent"] # app[a].consent => <<"app", a>> \in insert
    /\ app[a].scorecard => new["scorecard"]
    /\ new["stage"] # app[a].stage => new["stage"] \in Stages
    /\ new["stage"] = "hired" /\ app[a].stage # "hired" =>
         IF op = "import" THEN <<"app", a>> \in insert
         ELSE Exists(a) /\ app[a].scorecard /\ app[a].consent = "granted"

\* ... and about an offer, with a new link that is no larger than made.
OfferSound(a, new, made) ==
    /\ new \in Offer /\ new["link"] <= made
    /\ new # offer[a] => app[a].scorecard \/ a \in imported
    /\ new["status"] # offer[a].status =>
         /\ new["status"] = "released" =>
              new["link"] # offer[a].link /\ new["link"] # 0 /\ new["released"] # {}
         /\ new["status"] \in Answered => new["link"] = 0 /\ offer[a].link # 0
    /\ new["link"] # offer[a].link =>
         /\ new["status"] # offer[a].status
         /\ \/ new["status"] = "released" /\ new["link"] # 0
            \/ new["status"] \in Answered /\ new["link"] = 0
    /\ new["released"] # offer[a].released => new["released"] # {}
    /\ ~overlapped => OfferFine(new) /\ (offer[a].status \in Answered => new = offer[a])

\* ... and about the job.
JobSound(newJob, newApp) ==
    /\ newJob \in JobStatus
    /\ ~overlapped /\ newJob = "deleted" => \A a \in Applications : newApp[a].status # "active"

LEMMA SameApp ==
  ASSUME PipelineInv, NEW op, NEW insert, NEW a \in Applications
  PROVE  AppSound(op, insert, a, app[a])
  BY DEF PipelineInv, TypeOK, AppSound

LEMMA SameOffer ==
  ASSUME PipelineInv, NEW a \in Applications, NEW made \in Nat, links <= made
  PROVE  OfferSound(a, offer[a], made)
<1>1. offer[a] \in Offer /\ offer[a].link <= links
  BY DEF PipelineInv, TypeOK, PendingInv
<1>2. offer[a].link <= made
  BY <1>1, OfferRow, HiringAssumption DEF PipelineInv, TypeOK
<1> QED BY <1>1, <1>2 DEF PipelineInv, SequentialInv, OfferSound

\* No application becomes active in a job that is not open.
LEMMA SameJob ==
  ASSUME PipelineInv, NEW newApp,
         \A a \in Applications : newApp[a].status = "active" => Active(a) \/ job = "open"
  PROVE  JobSound(job, newApp)
  BY DEF PipelineInv, TypeOK, SequentialInv, JobSound

LEMMA StartKeeps ==
  ASSUME PipelineInv, NEW w \in Workers, NEW op \in {"work", "import"},
         NEW hires \in SUBSET Applications, NEW insert \in SUBSET Inserts,
         NEW newJob, NEW newApp, NEW newOffer,
         Start(w, op, hires, insert, newJob, newApp, newOffer),
         links' \in 0..MaxLinks, links <= links',
         hires # {} => op = "work" /\ newJob = job,
         \A a \in Applications : AppSound(op, insert, a, newApp[a]),
         \A a \in Applications : OfferSound(a, newOffer[a], links'),
         JobSound(newJob, newApp)
  PROVE  PipelineInv'
<1> DEFINE r == [op |-> op, hires |-> hires, insert |-> insert,
                 job |-> IF newJob = job THEN "same" ELSE newJob,
                 app |-> [a \in Applications |-> Changes(app[a], newApp[a])],
                 offer |-> [a \in Applications |-> Changes(offer[a], newOffer[a])]]
<1>1. /\ ~Busy(w) /\ req' = [req EXCEPT ![w] = r]
      /\ overlapped' = (overlapped \/ \E v \in Workers : Busy(v))
      /\ job' = job /\ app' = app /\ offer' = offer /\ imported' = imported
  BY DEF Start, rows
<1>2. /\ \A a \in Applications : app[a] \in Application /\ newApp[a] \in Application
      /\ \A a \in Applications : offer[a] \in Offer /\ newOffer[a] \in Offer
      /\ links \in Nat /\ links' \in Nat /\ newJob \in JobStatus
      /\ req \in [Workers -> Request]
  <2>1. links \in 0..MaxLinks
    BY DEF PipelineInv, TypeOK
  <2>2. links \in Nat /\ links' \in Nat
    BY <2>1, HiringAssumption
  <2> QED BY <2>2 DEF PipelineInv, TypeOK, AppSound, OfferSound, JobSound, RequestsInv
<1>3. \A a \in Applications : /\ Changes(app[a], newApp[a]) \in AppChanges
                              /\ Changes(offer[a], newOffer[a]) \in OfferChanges
  BY <1>2, AppChanged, OfferChanged DEF AppSound
<1>4. r \in Request /\ r.op = op /\ r.hires = hires /\ r.insert = insert
      /\ \A a \in Applications : r.app[a] = Changes(app[a], newApp[a])
                                 /\ r.offer[a] = Changes(offer[a], newOffer[a])
      /\ r.job = IF newJob = job THEN "same" ELSE newJob
  BY <1>2, <1>3 DEF Request
<1> HIDE DEF r
<1>5. req' \in [Workers -> Request] /\ req'[w] = r
      /\ \A v \in Workers \ {w} : req'[v] = req[v]
  BY <1>1, <1>2, <1>4
<1>6. TypeOK'
  <2>1. overlapped' \in BOOLEAN
    BY <1>1
  <2> QED BY <1>1, <2>1 DEF PipelineInv, TypeOK
<1>7. RequestsInv'
  <2>1. r.op # "idle" /\ (hires # {} => r.op = "work" /\ r.job = "same")
    BY <1>4
  <2> QED BY <1>4, <1>5, <2>1 DEF PipelineInv, RequestsInv, Busy
<1>8. ASSUME NEW a \in Applications PROVE AppPending(w, a)'
  <2> DEFINE c == Changes(app[a], newApp[a])
  <2>1. DOMAIN app[a] = AppFields /\ DOMAIN newApp[a] = AppFields
        /\ DOMAIN offer[a] = OfferFields /\ DOMAIN newOffer[a] = OfferFields
    BY <1>2, AppRow, OfferRow
  <2>2. \A f \in DOMAIN c : c[f] = newApp[a][f] /\ newApp[a][f] # app[a][f]
    BY <2>1, ChangesOf
  <2>3. req'[w].app[a] = c /\ req'[w].insert = insert /\ req'[w].op = op
    BY <1>4, <1>5
  <2> HIDE DEF c
  <2>4. newApp[a]["scorecard"] \in BOOLEAN /\ app[a]["scorecard"] \in BOOLEAN
    BY <1>2, AppRow
  <2>5. AppSound(op, insert, a, newApp[a])
    OBVIOUS
  <2>6. "consent" \in DOMAIN c => <<"app", a>> \in insert
    BY <2>2, <2>5 DEF AppSound
  <2>7. "scorecard" \in DOMAIN c => c["scorecard"] = TRUE
    BY <2>2, <2>4, <2>5 DEF AppSound
  <2>8. "stage" \in DOMAIN c /\ c["stage"] = "hired" =>
          IF op = "import" THEN <<"app", a>> \in insert
          ELSE Exists(a) /\ app[a].scorecard /\ app[a].consent = "granted"
    BY <2>2, <2>5 DEF AppSound
  <2>9. DOMAIN Changes(offer[a], newOffer[a]) # {} => app[a].scorecard \/ a \in imported
    <3>1. DOMAIN Changes(offer[a], newOffer[a]) # {} => newOffer[a] # offer[a]
      BY DEF Changes
    <3>2. OfferSound(a, newOffer[a], links')
      OBVIOUS
    <3> QED BY <3>1, <3>2 DEF OfferSound
  <2>10. req'[w].offer[a] = Changes(offer[a], newOffer[a])
    BY <1>4, <1>5
  <2> QED BY <1>1, <2>3, <2>6, <2>7, <2>8, <2>9, <2>10 DEF AppPending, Exists
<1>9. ASSUME NEW a \in Applications PROVE OfferPending(w, a)'
  <2> DEFINE c == Changes(offer[a], newOffer[a])
             new == newOffer[a]
  <2>1. DOMAIN offer[a] = OfferFields /\ DOMAIN new = OfferFields
    BY <1>2, OfferRow
  <2>2. /\ \A f \in DOMAIN c : c[f] = new[f] /\ new[f] # offer[a][f]
        /\ \A f \in OfferFields \ DOMAIN c : new[f] = offer[a][f]
    BY <2>1, ChangesOf
  <2>3. req'[w].offer[a] = c
    BY <1>4, <1>5
  <2>4. OfferSound(a, new, links')
    OBVIOUS
  <2> HIDE DEF c, new
  <2>5. /\ "status" \in DOMAIN c => new["status"] # offer[a].status
        /\ "link" \notin DOMAIN c => new["link"] = offer[a].link
        /\ "released" \notin DOMAIN c => new["released"] = offer[a].released
        /\ "status" \notin DOMAIN c => new["status"] = offer[a].status
    BY <2>2 DEF OfferFields
  <2>6. "status" \in DOMAIN c /\ c["status"] = "released" =>
          /\ "link" \in DOMAIN c /\ c["link"] # 0
          /\ "released" \in DOMAIN c \/ offer[a].released # {}
    BY <2>2, <2>4, <2>5 DEF OfferSound
  <2>7. "status" \in DOMAIN c /\ c["status"] \in Answered => "link" \in DOMAIN c /\ c["link"] = 0
    BY <2>2, <2>4, <2>5 DEF OfferSound
  <2>8. "link" \in DOMAIN c =>
          /\ "status" \in DOMAIN c /\ c["link"] <= links'
          /\ \/ c["status"] = "released" /\ c["link"] # 0
             \/ c["status"] \in Answered /\ c["link"] = 0
    BY <2>2, <2>4, <2>5 DEF OfferSound
  <2>9. "released" \in DOMAIN c => c["released"] # {}
    BY <2>2, <2>4 DEF OfferSound
  <2> QED BY <1>1, <2>3, <2>6, <2>7, <2>8, <2>9 DEF OfferPending
<1>10. PendingInv'
  <2>1. \A a \in Applications : offer'[a].link <= links'
    BY <1>1, <1>2, OfferRow, HiringAssumption DEF PipelineInv, PendingInv
  <2>2. ASSUME NEW v \in Workers \ {w}, NEW a \in Applications
        PROVE  (AppPending(v, a) /\ OfferPending(v, a))'
    <3>1. AppPending(v, a) /\ OfferPending(v, a) /\ req'[v] = req[v]
      BY <1>5 DEF PipelineInv, PendingInv
    <3>2. AppPending(v, a)'
      BY <3>1, <1>1 DEF AppPending, Exists
    <3>3. "link" \in DOMAIN req[v].offer[a] => req[v].offer[a]["link"] \in 0..MaxLinks
      BY <1>2 DEF Request, OfferChanges
    <3>4. "link" \in DOMAIN req[v].offer[a] => req[v].offer[a]["link"] <= links'
      BY <3>1, <3>3, <1>2, HiringAssumption DEF OfferPending
    <3>5. OfferPending(v, a)'
      BY <3>1, <3>4, <1>1 DEF OfferPending
    <3> QED BY <3>2, <3>5
  <2> QED BY <1>8, <1>9, <2>1, <2>2 DEF PendingInv
<1>11. SequentialInv'
  <2> SUFFICES ASSUME ~overlapped' PROVE SequentialInv'
    BY DEF SequentialInv
  <2>1. ~overlapped /\ \A v \in Workers : ~Busy(v)
    BY <1>1
  <2>2. \A v \in Workers \ {w} : req'[v] = Idle
    BY <2>1, <1>5 DEF PipelineInv, RequestsInv
  <2>3. \A a \in Applications :
          /\ OfferFine(offer[a]) /\ OfferFine(newOffer[a])
          /\ offer[a].status \in Answered => newOffer[a] = offer[a]
    BY <2>1 DEF PipelineInv, SequentialInv, OfferSound
  <2>4. ASSUME NEW a \in Applications
        PROVE  /\ OfferFine(Update(offer[a], req'[w].offer[a]))
               /\ offer[a].status \in Answered => DOMAIN req'[w].offer[a] = {}
               /\ Update(app[a], req'[w].app[a])["status"] = newApp[a]["status"]
    <3>1. /\ \A f \in OfferFields :
               Update(offer[a], Changes(offer[a], newOffer[a]))[f] = newOffer[a][f]
          /\ \A f \in AppFields : Update(app[a], Changes(app[a], newApp[a]))[f] = newApp[a][f]
      BY <1>2, AppRow, OfferRow, ChangesApplied
    <3>2. req'[w].app[a] = Changes(app[a], newApp[a]) /\ req'[w].offer[a] = Changes(offer[a], newOffer[a])
      BY <1>4, <1>5
    <3>3. OfferFine(Update(offer[a], req'[w].offer[a]))
      BY <2>3, <3>1, <3>2 DEF OfferFine, OfferFields
    <3>4. offer[a].status \in Answered => DOMAIN req'[w].offer[a] = {}
      BY <2>3, <3>2 DEF Changes
    <3> QED BY <3>1, <3>2, <3>3, <3>4 DEF AppFields
  <2>5. ASSUME NEW v \in Workers, v # w, NEW a \in Applications
        PROVE  /\ Update(offer[a], req'[v].offer[a]) = offer[a] /\ DOMAIN req'[v].offer[a] = {}
               /\ Update(app[a], req'[v].app[a]) = app[a] /\ req'[v].job = "same"
    <3>1. /\ offer[a] = [f \in DOMAIN offer[a] |-> offer[a][f]]
          /\ app[a] = [f \in DOMAIN app[a] |-> app[a][f]]
      BY <1>2 DEF Offer, Application
    <3> QED BY <2>2, <2>5, <3>1, IdleOK, NothingChanges, UpdateNothing
  <2>6. \A v \in Workers : Busy(v)' => v = w
    BY <2>2, IdleOK DEF Busy
  <2>7. job = "deleted" => \A a \in Applications : ~Active(a)
    BY <2>1 DEF PipelineInv, SequentialInv
  <2>8. \A a \in Applications : newJob = "deleted" => newApp[a]["status"] # "active"
    BY <2>1 DEF JobSound
  <2>9. ASSUME NEW v \in Workers, NextJob(v)' = "deleted", NEW a \in Applications
        PROVE  Update(app'[a], req'[v].app[a])["status"] # "active"
    <3>1. CASE v = w
      <4>1. NextJob(w)' = newJob
        BY <1>1, <1>2, <1>4, <1>5 DEF NextJob, JobStatus
      <4> QED BY <3>1, <4>1, <2>4, <2>8, <2>9, <1>1
    <3>2. CASE v # w
      <4>1. req'[v].job = "same" /\ Update(app[a], req'[v].app[a]) = app[a]
        BY <2>5, <3>2
      <4> QED BY <4>1, <2>7, <2>9, <1>1 DEF NextJob, Active
    <3> QED BY <3>1, <3>2
  <2>10. ASSUME NEW v \in Workers, NEW a \in Applications
         PROVE  /\ OfferFine(Update(offer'[a], req'[v].offer[a]))
                /\ offer'[a].status \in Answered => DOMAIN req'[v].offer[a] = {}
    BY <2>3, <2>4, <2>5, <1>1
  <2> QED BY <1>1, <2>3, <2>6, <2>7, <2>9, <2>10 DEF SequentialInv, OfferFine, Active
<1>12. DecisionsHaveEvidence' /\ LinkMatches'
  BY <1>1 DEF PipelineInv, DecisionsHaveEvidence, LinkMatches
<1> QED BY <1>6, <1>7, <1>10, <1>11, <1>12 DEF PipelineInv

\* A request that ends without writing anything.
LEMMA RollbackKeeps ==
  ASSUME PipelineInv, NEW w \in Workers, req' = [req EXCEPT ![w] = Idle],
         UNCHANGED <<job, app, offer, links, imported, overlapped>>
  PROVE  PipelineInv'
<1>1. req \in [Workers -> Request]
  BY DEF PipelineInv, RequestsInv
<1>2. req'[w] = Idle /\ \A v \in Workers \ {w} : req'[v] = req[v]
  BY <1>1
<1>3. RequestsInv'
  BY <1>1, <1>2, IdleOK DEF PipelineInv, RequestsInv, Busy
<1>4. PendingInv'
  <2>1. \A a \in Applications : (AppPending(w, a) /\ OfferPending(w, a))'
    BY <1>2, IdleOK, NothingChanges DEF AppPending, OfferPending
  <2>2. ASSUME NEW v \in Workers \ {w}, NEW a \in Applications
        PROVE  (AppPending(v, a) /\ OfferPending(v, a))'
    BY <1>2 DEF PipelineInv, PendingInv, AppPending, OfferPending, Exists
  <2> QED BY <2>1, <2>2 DEF PipelineInv, PendingInv
<1>5. SequentialInv'
  <2> SUFFICES ASSUME ~overlapped PROVE SequentialInv'
    BY DEF SequentialInv
  <2>1. ASSUME NEW a \in Applications
        PROVE  /\ Update(offer[a], Idle.offer[a]) = offer[a] /\ DOMAIN Idle.offer[a] = {}
               /\ Update(app[a], Idle.app[a]) = app[a]
    <3>1. /\ offer[a] = [f \in DOMAIN offer[a] |-> offer[a][f]]
          /\ app[a] = [f \in DOMAIN app[a] |-> app[a][f]]
      BY DEF PipelineInv, TypeOK, Offer, Application
    <3> QED BY <3>1, IdleOK, NothingChanges, UpdateNothing
  <2>2. \A v \in Workers : Busy(v)' => Busy(v) /\ v # w
    BY <1>2, IdleOK DEF Busy
  <2>3. \A v \in Workers \ {w} : NextJob(v)' = NextJob(v)
    BY <1>2 DEF NextJob
  <2>4. NextJob(w)' = job
    BY <1>2, IdleOK DEF NextJob
  <2>5. ASSUME NEW v \in Workers, NEW a \in Applications
        PROVE  /\ OfferFine(Update(offer[a], req'[v].offer[a]))
               /\ offer[a].status \in Answered => DOMAIN req'[v].offer[a] = {}
               /\ NextJob(v)' = "deleted" => Update(app[a], req'[v].app[a])["status"] # "active"
    <3>1. CASE v = w
      BY <3>1, <1>2, <2>1, <2>4 DEF PipelineInv, SequentialInv, Active
    <3>2. CASE v # w
      BY <3>2, <1>2, <2>3 DEF PipelineInv, SequentialInv
    <3> QED BY <3>1, <3>2
  <2> QED BY <2>2, <2>5 DEF PipelineInv, SequentialInv, OfferFine, Active
<1> QED BY <1>3, <1>4, <1>5 DEF PipelineInv, TypeOK, DecisionsHaveEvidence, LinkMatches

LEMMA CommitKeeps ==
  ASSUME PipelineInv, NEW w \in Workers, Commit(w)
  PROVE  /\ PipelineInv'
         /\ ~overlapped' => \A a \in Applications : offer[a].status \in Answered => offer'[a] = offer[a]
<1> DEFINE r == req[w]
<1>1. /\ Busy(w) /\ Unique(w)
      /\ job' = IF r.job = "same" THEN job ELSE r.job
      /\ app' = [a \in Applications |-> Update(app[a], r.app[a])]
      /\ offer' = [a \in Applications |-> Update(offer[a], r.offer[a])]
      /\ imported' = imported \union
           {a \in Applications : r.op = "import" /\ <<"app", a>> \in r.insert /\ app'[a].stage = "hired"}
      /\ req' = [req EXCEPT ![w] = Idle]
      /\ links' = links /\ overlapped' = overlapped
  BY DEF Commit
<1>2. /\ r \in Request /\ req \in [Workers -> Request]
      /\ \A a \in Applications : app[a] \in Application /\ offer[a] \in Offer
      /\ \A a \in Applications : r.app[a] \in AppChanges /\ r.offer[a] \in OfferChanges
      /\ job \in JobStatus /\ links \in 0..MaxLinks
  BY DEF PipelineInv, TypeOK, RequestsInv, Request
<1>3. req'[w] = Idle /\ \A v \in Workers \ {w} : req'[v] = req[v]
  BY <1>1, <1>2
<1>4. \A a \in Applications : app'[a] = Update(app[a], r.app[a]) /\ app'[a] \in Application
                              /\ offer'[a] = Update(offer[a], r.offer[a]) /\ offer'[a] \in Offer
  BY <1>1, <1>2, AppUpdated, OfferUpdated
<1>5. \A a \in Applications :
        /\ \A f \in AppFields : app'[a][f] = IF f \in DOMAIN r.app[a] THEN r.app[a][f] ELSE app[a][f]
        /\ \A f \in OfferFields :
             offer'[a][f] = IF f \in DOMAIN r.offer[a] THEN r.offer[a][f] ELSE offer[a][f]
  BY <1>2, <1>4, AppRow, OfferRow, UpdateOf
<1>6. \A a \in Applications : AppPending(w, a) /\ OfferPending(w, a)
  BY DEF PipelineInv, PendingInv
<1> HIDE DEF r
<1>7. TypeOK'
  <2>1. job' \in JobStatus
    BY <1>1, <1>2 DEF Request
  <2>2. imported' \subseteq Applications
    BY <1>1 DEF PipelineInv, TypeOK
  <2>3. app' \in [Applications -> Application] /\ offer' \in [Applications -> Offer]
    BY <1>1, <1>4
  <2> QED BY <1>1, <2>1, <2>2, <2>3 DEF PipelineInv, TypeOK
<1>8. RequestsInv'
  BY <1>1, <1>2, <1>3, IdleOK DEF PipelineInv, RequestsInv, Busy
<1>9. \A a \in Applications : <<"app", a>> \in r.insert => ~Exists(a)
  BY <1>1 DEF Unique, r
<1>10. ASSUME NEW a \in Applications
       PROVE  /\ app[a].scorecard => app'[a].scorecard
              /\ Exists(a) => app'[a].stage # "none" /\ app'[a].consent = app[a].consent
              /\ offer[a].released # {} => offer'[a].released # {}
              /\ a \in imported => a \in imported'
  <2>1. app[a].scorecard => app'[a].scorecard
    BY <1>5, <1>6 DEF AppPending, AppFields, r
  <2>2. Exists(a) => app'[a].stage # "none"
    BY <1>2, <1>5 DEF AppChanges, AppFields, Exists, Stages
  <2>3. Exists(a) => app'[a].consent = app[a].consent
    BY <1>5, <1>6, <1>9 DEF AppPending, AppFields, r
  <2>4. offer[a].released # {} => offer'[a].released # {}
    BY <1>5, <1>6 DEF OfferPending, OfferFields, r
  <2> QED BY <2>1, <2>2, <2>3, <2>4, <1>1
<1>11. PendingInv'
  <2>1. \A a \in Applications : offer'[a].link <= links'
    BY <1>1, <1>5, <1>6 DEF PipelineInv, PendingInv, OfferPending, OfferFields, r
  <2>2. \A a \in Applications : (AppPending(w, a) /\ OfferPending(w, a))'
    BY <1>3, IdleOK, NothingChanges DEF AppPending, OfferPending
  <2>3. ASSUME NEW v \in Workers \ {w}, NEW a \in Applications
        PROVE  (AppPending(v, a) /\ OfferPending(v, a))'
    <3>1. AppPending(v, a) /\ OfferPending(v, a) /\ req'[v] = req[v]
      BY <1>3 DEF PipelineInv, PendingInv
    <3>2. AppPending(v, a)'
      BY <3>1, <1>10 DEF AppPending, Exists
    <3>3. OfferPending(v, a)'
      BY <3>1, <1>1, <1>10 DEF OfferPending
    <3> QED BY <3>2, <3>3
  <2> QED BY <2>1, <2>2, <2>3 DEF PendingInv
<1>12. DecisionsHaveEvidence'
  <2> SUFFICES ASSUME NEW a \in Applications, a \notin imported'
               PROVE  /\ app'[a].stage = "hired" => app'[a].scorecard /\ app'[a].consent = "granted"
                      /\ offer'[a].status # "none" => app'[a].scorecard
    BY DEF DecisionsHaveEvidence
  <2>1. a \notin imported
    BY <1>10
  <2>2. app'[a].stage = "hired" => Exists(a) /\ app[a].scorecard /\ app[a].consent = "granted"
    <3>1. CASE "stage" \in DOMAIN r.app[a]
      <4>1. app'[a].stage = r.app[a]["stage"]
        BY <1>5, <3>1 DEF AppFields
      <4>2. app'[a].stage = "hired" => ~(r.op = "import" /\ <<"app", a>> \in r.insert)
        BY <1>1
      <4> QED BY <3>1, <4>1, <4>2, <1>6 DEF AppPending, r
    <3>2. CASE "stage" \notin DOMAIN r.app[a]
      <4>1. app'[a].stage = app[a].stage
        BY <1>5, <3>2 DEF AppFields
      <4> QED BY <4>1, <2>1 DEF PipelineInv, DecisionsHaveEvidence, Exists
    <3> QED BY <3>1, <3>2
  <2>3. offer'[a].status # "none" => app[a].scorecard
    <3>1. CASE DOMAIN r.offer[a] = {}
      <4>1. offer'[a].status = offer[a].status
        BY <1>5, <3>1 DEF OfferFields
      <4> QED BY <4>1, <2>1 DEF PipelineInv, DecisionsHaveEvidence
    <3>2. CASE DOMAIN r.offer[a] # {}
      BY <3>2, <1>6, <2>1 DEF AppPending, r
    <3> QED BY <3>1, <3>2
  <2> QED BY <2>2, <2>3, <1>10
<1>13. LinkMatches'
  <2> SUFFICES ASSUME NEW a \in Applications
               PROVE  /\ offer'[a].status = "released" => offer'[a].link # 0 /\ offer'[a].released # {}
                      /\ offer'[a].status \in {"accepted", "declined"} => offer'[a].link = 0
    BY DEF LinkMatches
  <2> DEFINE c == r.offer[a]
  <2>1. OfferPending(w, a) /\ c = req[w].offer[a]
    BY <1>6 DEF r
  <2>2. /\ offer'[a].status = IF "status" \in DOMAIN c THEN c["status"] ELSE offer[a].status
        /\ offer'[a].link = IF "link" \in DOMAIN c THEN c["link"] ELSE offer[a].link
        /\ offer'[a].released = IF "released" \in DOMAIN c THEN c["released"] ELSE offer[a].released
    BY <1>5 DEF OfferFields
  <2> HIDE DEF c
  <2>3. CASE "status" \in DOMAIN c
    BY <2>1, <2>2, <2>3 DEF OfferPending, Answered
  <2>4. CASE "status" \notin DOMAIN c
    <3>1. offer'[a].status = offer[a].status /\ offer'[a].link = offer[a].link
      BY <2>1, <2>2, <2>4 DEF OfferPending
    <3> QED BY <3>1, <1>10 DEF PipelineInv, LinkMatches
  <2> QED BY <2>3, <2>4
<1>14. SequentialInv'
  <2> SUFFICES ASSUME ~overlapped PROVE SequentialInv'
    BY <1>1 DEF SequentialInv
  <2>1. \A v \in Workers : req'[v] = Idle
    <3>1. \A v \in Workers \ {w} : ~Busy(v)
      BY <1>1 DEF PipelineInv, SequentialInv
    <3> QED BY <3>1, <1>3 DEF PipelineInv, RequestsInv
  <2>2. \A a \in Applications : OfferFine(offer[a])' /\ OfferFine(offer'[a])
    BY <1>4 DEF PipelineInv, SequentialInv, OfferFine, r
  <2>3. job' = "deleted" => \A a \in Applications : app'[a]["status"] # "active"
    <3>1. job' = NextJob(w)
      BY <1>1 DEF NextJob, r
    <3> QED BY <3>1, <1>4 DEF PipelineInv, SequentialInv, r
  <2>4. ASSUME NEW v \in Workers, NEW a \in Applications
        PROVE  /\ Update(offer'[a], req'[v].offer[a]) = offer'[a] /\ DOMAIN req'[v].offer[a] = {}
               /\ Update(app'[a], req'[v].app[a]) = app'[a] /\ NextJob(v)' = job'
    <3>1. /\ offer'[a] = [f \in DOMAIN offer'[a] |-> offer'[a][f]]
          /\ app'[a] = [f \in DOMAIN app'[a] |-> app'[a][f]]
      BY <1>4 DEF Offer, Application
    <3>2. DOMAIN req'[v].offer[a] = {} /\ DOMAIN req'[v].app[a] = {} /\ req'[v].job = "same"
      BY <2>1, IdleOK, NothingChanges
    <3> QED BY <3>1, <3>2, UpdateNothing DEF NextJob
  <2>5. \A v \in Workers : ~Busy(v)'
    BY <2>1, IdleOK DEF Busy
  <2> QED BY <2>2, <2>3, <2>4, <2>5 DEF SequentialInv, Active
<1>15. ASSUME ~overlapped', NEW a \in Applications, offer[a].status \in Answered
       PROVE  offer'[a] = offer[a]
  <2>1. DOMAIN r.offer[a] = {}
    BY <1>1, <1>15 DEF PipelineInv, SequentialInv, r
  <2>2. offer[a] = [f \in DOMAIN offer[a] |-> offer[a][f]]
    BY <1>2 DEF Offer
  <2> QED BY <2>1, <2>2, <1>4, UpdateNothing
<1> QED BY <1>7, <1>8, <1>11, <1>12, <1>13, <1>14, <1>15 DEF PipelineInv

\* The count decides about the job only.
LEMMA CountKeeps ==
  ASSUME PipelineInv, NEW w \in Workers, NEW a \in Applications, CountHired(w, a)
  PROVE  PipelineInv'
<1> DEFINE next == IF Cardinality({b \in Applications \ {a} : app[b].stage = "hired"}) + 1 >= Headcount
                      /\ job # "paused" THEN "paused" ELSE "same"
           r == [req[w] EXCEPT !.op = "counted", !.hires = {}, !.job = next]
<1>1. /\ a \in req[w].hires
      /\ req' = [req EXCEPT ![w].op = "counted", ![w].hires = {}, ![w].job = next]
      /\ UNCHANGED <<job, app, offer, links, imported, overlapped>>
  BY DEF CountHired, rows
<1>2. req \in [Workers -> Request] /\ req[w].op = "work" /\ req[w].job = "same"
  BY <1>1 DEF PipelineInv, RequestsInv
<1>3. next \in {"paused", "same"}
  OBVIOUS
<1> HIDE DEF next
<1>4. /\ req' = [req EXCEPT ![w] = r] /\ r \in Request
      /\ r.op = "counted" /\ r.hires = {} /\ r.job = next
      /\ r.app = req[w].app /\ r.offer = req[w].offer /\ r.insert = req[w].insert
  BY <1>1, <1>2, <1>3 DEF Request, JobStatus
<1> HIDE DEF r
<1>5. /\ req' \in [Workers -> Request] /\ req'[w] = r
      /\ \A v \in Workers \ {w} : req'[v] = req[v]
  BY <1>2, <1>4
<1>6. RequestsInv'
  BY <1>4, <1>5 DEF PipelineInv, RequestsInv, Busy
<1>7. \A v \in Workers : /\ req'[v].app = req[v].app /\ req'[v].offer = req[v].offer
                         /\ req'[v].insert = req[v].insert
                         /\ req'[v].op = "import" <=> req[v].op = "import"
                         /\ req'[v].op # "idle" => req[v].op # "idle"
  BY <1>2, <1>4, <1>5
<1>8. PendingInv'
  <2>1. ASSUME NEW v \in Workers, NEW b \in Applications
        PROVE  (AppPending(v, b) /\ OfferPending(v, b))'
    <3>1. AppPending(v, b) /\ OfferPending(v, b)
      BY DEF PipelineInv, PendingInv
    <3>2. AppPending(v, b)'
      BY <3>1, <1>1, <1>7 DEF AppPending, Exists
    <3>3. OfferPending(v, b)'
      BY <3>1, <1>1, <1>7 DEF OfferPending
    <3> QED BY <3>2, <3>3
  <2> QED BY <2>1, <1>1 DEF PipelineInv, PendingInv
<1>9. SequentialInv'
  <2> SUFFICES ASSUME ~overlapped PROVE SequentialInv'
    BY <1>1 DEF SequentialInv
  <2>1. \A v \in Workers : NextJob(v)' = "deleted" => NextJob(v) = "deleted"
    BY <1>1, <1>2, <1>3, <1>4, <1>5 DEF NextJob
  <2>2. \A u, v \in Workers : Busy(u)' /\ Busy(v)' => u = v
    BY <1>7 DEF PipelineInv, SequentialInv, Busy
  <2>3. ASSUME NEW v \in Workers, NEW b \in Applications
        PROVE  /\ OfferFine(Update(offer[b], req'[v].offer[b]))
               /\ offer[b].status \in Answered => DOMAIN req'[v].offer[b] = {}
               /\ NextJob(v)' = "deleted" => Update(app[b], req'[v].app[b])["status"] # "active"
    BY <1>7, <2>1 DEF PipelineInv, SequentialInv
  <2>4. \A b \in Applications : OfferFine(offer[b])
    BY DEF PipelineInv, SequentialInv
  <2>5. job = "deleted" => \A b \in Applications : ~Active(b)
    BY DEF PipelineInv, SequentialInv
  <2> QED BY <1>1, <2>2, <2>3, <2>4, <2>5 DEF SequentialInv, OfferFine, Active
<1> QED BY <1>1, <1>6, <1>8, <1>9 DEF PipelineInv, TypeOK, DecisionsHaveEvidence, LinkMatches

-----------------------------------------------------------------------------
(* A request decides about one application and its offer. *)

LEMMA OneKeeps ==
  ASSUME PipelineInv, NEW w \in Workers, NEW a \in Applications, NEW op \in {"work", "import"},
         NEW hires \in SUBSET Applications, NEW insert \in SUBSET Inserts,
         NEW newApp, NEW newOffer,
         Start(w, op, hires, insert, job, [app EXCEPT ![a] = newApp], [offer EXCEPT ![a] = newOffer]),
         links' \in 0..MaxLinks, links <= links',
         hires # {} => op = "work",
         AppSound(op, insert, a, newApp), OfferSound(a, newOffer, links'),
         newApp.status = "active" => Active(a) \/ job = "open"
  PROVE  PipelineInv'
<1> DEFINE apps == [app EXCEPT ![a] = newApp]
           offers == [offer EXCEPT ![a] = newOffer]
<1>1. app \in [Applications -> Application] /\ offer \in [Applications -> Offer]
  BY DEF PipelineInv, TypeOK
<1>2. /\ apps[a] = newApp /\ \A b \in Applications \ {a} : apps[b] = app[b]
      /\ offers[a] = newOffer /\ \A b \in Applications \ {a} : offers[b] = offer[b]
  BY <1>1
<1>3. Start(w, op, hires, insert, job, apps, offers)
  OBVIOUS
<1> HIDE DEF apps, offers
<1>4. links' \in Nat
  BY HiringAssumption
<1>5. \A b \in Applications : AppSound(op, insert, b, apps[b])
  BY <1>2, SameApp
<1>6. \A b \in Applications : OfferSound(b, offers[b], links')
  BY <1>2, <1>4, SameOffer
<1>7. JobSound(job, apps)
  <2>1. \A b \in Applications : apps[b].status = "active" => Active(b) \/ job = "open"
    BY <1>2 DEF Active
  <2> QED BY <2>1, SameJob
<1> QED BY <1>3, <1>5, <1>6, <1>7, StartKeeps

LEMMA LinksKept ==
  ASSUME PipelineInv, UNCHANGED links
  PROVE  links' \in 0..MaxLinks /\ links <= links' /\ links' \in Nat /\ links \in Nat /\ links <= links
  BY HiringAssumption DEF PipelineInv, TypeOK

\* ... about the application only.
LEMMA AppKeeps ==
  ASSUME PipelineInv, NEW w \in Workers, NEW a \in Applications, NEW op \in {"work", "import"},
         NEW hires \in SUBSET Applications, NEW insert \in SUBSET Inserts, NEW newApp,
         Start(w, op, hires, insert, job, [app EXCEPT ![a] = newApp], offer),
         UNCHANGED links, hires # {} => op = "work",
         AppSound(op, insert, a, newApp),
         newApp.status = "active" => Active(a) \/ job = "open"
  PROVE  PipelineInv'
<1>1. offer = [offer EXCEPT ![a] = offer[a]]
  BY DEF PipelineInv, TypeOK
<1>2. OfferSound(a, offer[a], links')
  BY SameOffer, LinksKept
<1>3. Start(w, op, hires, insert, job, [app EXCEPT ![a] = newApp], [offer EXCEPT ![a] = offer[a]])
  BY <1>1
<1> QED BY <1>2, <1>3, LinksKept, OneKeeps

\* ... about the offer only.
LEMMA OfferKeeps ==
  ASSUME PipelineInv, NEW w \in Workers, NEW a \in Applications,
         NEW insert \in SUBSET Inserts, NEW newOffer,
         Begin(w, insert, job, app, [offer EXCEPT ![a] = newOffer]),
         UNCHANGED links, OfferSound(a, newOffer, links)
  PROVE  PipelineInv'
<1>1. app = [app EXCEPT ![a] = app[a]]
  BY DEF PipelineInv, TypeOK
<1>2. AppSound("work", insert, a, app[a])
  BY SameApp
<1>3. Start(w, "work", {}, insert, job, [app EXCEPT ![a] = app[a]], [offer EXCEPT ![a] = newOffer])
  BY <1>1 DEF Begin
<1> QED BY <1>2, <1>3, LinksKept, OneKeeps DEF Active

LEMMA MoveKeeps ==
  ASSUME PipelineInv, NEW w \in Workers, NEW a \in Applications,
         NEW stage \in Stages, NEW status \in {"none", "active", "closed"},
         NEW hires \in SUBSET Applications,
         Start(w, "work", hires, {}, job, Moved(a, stage, status), offer), UNCHANGED links,
         stage = "hired" => Exists(a) /\ app[a].scorecard /\ app[a].consent = "granted",
         status = "active" => Active(a) \/ job = "open"
  PROVE  PipelineInv'
<1> DEFINE new == [app[a] EXCEPT !.stage = stage, !.status = status]
<1>0. app \in [Applications -> Application] /\ app[a] \in Application
  BY DEF PipelineInv, TypeOK
<1>1. /\ Moved(a, stage, status) = [app EXCEPT ![a] = new]
      /\ new \in Application /\ new.stage = stage /\ new.status = status
      /\ new.consent = app[a].consent /\ new.scorecard = app[a].scorecard
  BY <1>0 DEF Moved, Application
<1> HIDE DEF new
<1>2. AppSound("work", {}, a, new)
  BY <1>1 DEF AppSound
<1>3. {} \in SUBSET Inserts /\ "work" \in {"work", "import"}
  OBVIOUS
<1>4. Start(w, "work", hires, {}, job, [app EXCEPT ![a] = new], offer)
  BY <1>1
<1>5. new.status = "active" => Active(a) \/ job = "open"
  BY <1>1
<1> QED BY <1>2, <1>3, <1>4, <1>5, AppKeeps

LEMMA InsertKeeps ==
  ASSUME PipelineInv, NEW w \in Workers, NEW a \in Applications, NEW op \in {"work", "import"},
         NEW stage \in Stages, NEW consent \in Consents,
         Insert(w, op, a, stage, consent), job = "open",
         stage = "hired" => op = "import"
  PROVE  PipelineInv'
<1> DEFINE new == [app[a] EXCEPT !.stage = stage, !.status = "active", !.consent = consent]
<1>1. app \in [Applications -> Application] /\ app[a] \in Application
  BY DEF PipelineInv, TypeOK
<1>2. /\ [app EXCEPT ![a].stage = stage, ![a].status = "active", ![a].consent = consent]
           = [app EXCEPT ![a] = new]
      /\ new \in Application /\ new.stage = stage /\ new.scorecard = app[a].scorecard
  BY <1>1 DEF Application, Consents
<1>3. Start(w, op, {}, {<<"app", a>>}, job, [app EXCEPT ![a] = new], offer) /\ UNCHANGED links
  BY <1>2 DEF Insert
<1> HIDE DEF new
<1>4. {<<"app", a>>} \in SUBSET Inserts
  BY DEF Inserts
<1>5. AppSound(op, {<<"app", a>>}, a, new)
  BY <1>2 DEF AppSound
<1> QED BY <1>3, <1>4, <1>5, AppKeeps

LEMMA PipelineActions ==
  ASSUME PipelineInv, NEW w \in Workers, NEW a \in Applications, Pipeline(w, a)
  PROVE  PipelineInv'
<1> USE DEF Stages
<1>0. app[a] \in Application /\ app[a].consent \in Consents /\ app[a].status \in {"none", "active", "closed"}
  BY AppRow DEF PipelineInv, TypeOK
<1>1. CASE PublicApplication(w, a)
  BY <1>1, InsertKeeps DEF PublicApplication, Consents
<1>2. CASE CreateApplication(w, a)
  <2>1. CASE Exists(a)
    BY <1>2, <2>1, MoveKeeps DEF CreateApplication, Move, Begin
  <2>2. CASE ~Exists(a)
    BY <1>0, <1>2, <2>2, InsertKeeps DEF CreateApplication
  <2> QED BY <2>1, <2>2
<1>3. ASSUME NEW stage \in Targets, ImportApplication(w, a, stage) PROVE PipelineInv'
  BY <1>0, <1>3, InsertKeeps, HiringAssumption DEF ImportApplication
<1>4. ASSUME NEW stage \in Targets, UpdateStage(w, a, stage) PROVE PipelineInv'
  <2> DEFINE status == IF stage \in {"withdrawn", "hired"} THEN "closed" ELSE app[a].status
             hires == IF stage = "hired" THEN {a} ELSE {}
  <2>1. stage \in Stages /\ status \in {"none", "active", "closed"} /\ hires \in SUBSET Applications
    BY <1>0, HiringAssumption
  <2>2. Start(w, "work", hires, {}, job, Moved(a, stage, status), offer) /\ UNCHANGED links
    BY <1>4 DEF UpdateStage
  <2>3. stage = "hired" => Exists(a) /\ app[a].scorecard /\ app[a].consent = "granted"
    BY <1>4 DEF UpdateStage, StageAllowed
  <2>4. status = "active" => Active(a)
    BY DEF Active
  <2> HIDE DEF status, hires
  <2> QED BY <2>1, <2>2, <2>3, <2>4, MoveKeeps
<1>5. CASE IssueAssessment(w, a)
  BY <1>5, MoveKeeps DEF IssueAssessment, Move, Begin
<1>6. CASE FinalizeReview(w, a)
  BY <1>6, MoveKeeps DEF FinalizeReview, Move, Begin
<1>7. CASE CreateInterview(w, a)
  <2> DEFINE new == [app[a] EXCEPT !.interview = TRUE]
  <2>1. [app EXCEPT ![a].interview = TRUE] = [app EXCEPT ![a] = new]
    BY DEF PipelineInv, TypeOK
  <2>2. /\ new \in Application /\ new.stage = app[a].stage /\ new.status = app[a].status
        /\ new.scorecard = app[a].scorecard /\ new.consent = app[a].consent
    BY <1>0 DEF Application
  <2>3. Start(w, "work", {}, {}, job, [app EXCEPT ![a] = new], offer) /\ UNCHANGED links
    BY <1>7, <2>1 DEF CreateInterview, Begin
  <2> HIDE DEF new
  <2>4. AppSound("work", {}, a, new)
    BY <2>2 DEF AppSound
  <2> QED BY <2>2, <2>3, <2>4, AppKeeps DEF Active
<1>8. CASE SubmitScorecard(w, a)
  <2> DEFINE new == [app[a] EXCEPT !.scorecard = TRUE]
  <2>1. [app EXCEPT ![a].scorecard = TRUE] = [app EXCEPT ![a] = new]
    BY DEF PipelineInv, TypeOK
  <2>2. /\ new \in Application /\ new.stage = app[a].stage /\ new.status = app[a].status
        /\ new.scorecard /\ new.consent = app[a].consent
    BY <1>0 DEF Application
  <2>3. Start(w, "work", {}, {}, job, [app EXCEPT ![a] = new], offer) /\ UNCHANGED links
    BY <1>8, <2>1 DEF SubmitScorecard, Begin
  <2> HIDE DEF new
  <2>4. AppSound("work", {}, a, new)
    BY <2>2 DEF AppSound
  <2> QED BY <2>2, <2>3, <2>4, AppKeeps DEF Active
<1>9. CASE CountHired(w, a)
  BY <1>9, CountKeeps
<1>10. CASE RejectApplication(w, a)
  BY <1>10, MoveKeeps DEF RejectApplication, Move, Begin
<1> QED BY <1>1, <1>2, <1>3, <1>4, <1>5, <1>6, <1>7, <1>8, <1>9, <1>10 DEF Pipeline

LEMMA OfferFacts ==
  ASSUME PipelineInv, NEW a \in Applications
  PROVE  /\ offer[a] \in Offer /\ offer[a].link <= links /\ offer[a].link \in Nat
         /\ offer \in [Applications -> Offer]
         /\ offer[a].status # "none" => app[a].scorecard \/ a \in imported
         /\ ~overlapped => OfferFine(offer[a])
<1>1. offer[a] \in Offer
  BY DEF PipelineInv, TypeOK
<1>2. offer[a].link \in Nat
  BY <1>1, OfferRow, HiringAssumption
<1> QED BY <1>1, <1>2 DEF PipelineInv, TypeOK, PendingInv, SequentialInv, DecisionsHaveEvidence

\* An edit keeps the link and the documents of an offer that is not released.
LEMMA EditSound ==
  ASSUME PipelineInv, NEW a \in Applications, NEW new \in Offer,
         offer[a].status \in {"none", "draft", "ready"}, new.status \in {"draft", "ready"},
         new.link = offer[a].link, new.released = offer[a].released, new.signed = offer[a].signed,
         app[a].scorecard \/ a \in imported
  PROVE  OfferSound(a, new, links)
<1>1. ~overlapped => OfferFine(new)
  BY OfferFacts DEF OfferFine
<1> QED BY <1>1, OfferFacts DEF OfferSound, Answered

LEMMA OfferActions ==
  ASSUME PipelineInv, NEW w \in Workers, NEW a \in Applications, Offers(w, a)
  PROVE  PipelineInv'
<1>0. /\ offer[a] \in Offer /\ offer[a].link <= links /\ offer[a].link \in Nat
      /\ offer \in [Applications -> Offer] /\ links \in Nat
      /\ offer[a].pay \in Pay \union {0} /\ app[a] \in Application
      /\ app \in [Applications -> Application] /\ 0 \in 0..MaxLinks
  <2>1. links \in Nat /\ 0 \in 0..MaxLinks
    BY HiringAssumption DEF PipelineInv, TypeOK
  <2> QED BY <2>1, OfferFacts, OfferRow DEF PipelineInv, TypeOK
<1>1. ASSUME NEW pay \in Pay \union {0}, UpdateCompensation(w, a, pay) PROVE PipelineInv'
  <2>1. PICK status \in Readiness(pay) :
          Begin(w, {}, job, app,
                [offer EXCEPT ![a].status = status, ![a].pay = pay, ![a].reviewed = TRUE])
    BY <1>1 DEF UpdateCompensation
  <2> DEFINE new == [offer[a] EXCEPT !.status = status, !.pay = pay, !.reviewed = TRUE]
  <2>2. status \in {"draft", "ready"}
    BY DEF Readiness
  <2>3. /\ new \in Offer /\ new.status = status /\ new.link = offer[a].link
        /\ new.released = offer[a].released /\ new.signed = offer[a].signed
    BY <1>0, <2>2 DEF Offer
  <2>4. Begin(w, {}, job, app, [offer EXCEPT ![a] = new])
    BY <1>0, <2>1
  <2> HIDE DEF new
  <2>5. offer[a].status \in {"draft", "ready"} /\ UNCHANGED links
    BY <1>1 DEF UpdateCompensation, Editable
  <2>6. OfferSound(a, new, links)
    BY <2>2, <2>3, <2>5, OfferFacts, EditSound
  <2> QED BY <2>4, <2>5, <2>6, OfferKeeps
<1>2. ASSUME NEW pay \in Pay \union {0}, NEW permitted \in BOOLEAN,
             CreateOffer(w, a, pay, permitted) PROVE PipelineInv'
  <2> DEFINE status == IF pay = 0 THEN "draft" ELSE "ready"
             reviewed == pay # 0 /\ permitted
             new == [offer[a] EXCEPT !.status = status, !.pay = pay, !.reviewed = reviewed]
  <2>1. Begin(w, {<<"offer", a>>}, job, app,
              [offer EXCEPT ![a].status = status, ![a].pay = pay, ![a].reviewed = reviewed])
    BY <1>2 DEF CreateOffer
  <2>2. status \in {"draft", "ready"} /\ reviewed \in BOOLEAN
    OBVIOUS
  <2> HIDE DEF status, reviewed
  <2>3. /\ new \in Offer /\ new.status = status /\ new.link = offer[a].link
        /\ new.released = offer[a].released /\ new.signed = offer[a].signed
    BY <1>0, <2>2 DEF Offer
  <2>4. Begin(w, {<<"offer", a>>}, job, app, [offer EXCEPT ![a] = new])
    BY <1>0, <2>1
  <2> HIDE DEF new
  <2>5. offer[a].status = "none" /\ UNCHANGED links
    BY <1>2 DEF CreateOffer
  <2>6. app[a].scorecard \/ a \in imported
    BY <1>2 DEF CreateOffer, PipelineInv, DecisionsHaveEvidence
  <2>7. OfferSound(a, new, links)
    BY <2>2, <2>3, <2>5, <2>6, EditSound
  <2>8. {<<"offer", a>>} \in SUBSET Inserts
    BY DEF Inserts
  <2> QED BY <2>4, <2>5, <2>7, <2>8, OfferKeeps
<1>3. CASE UpdateContent(w, a)
  <2>1. PICK status \in Readiness(offer[a].pay) :
          Begin(w, {}, job, app, [offer EXCEPT ![a].status = status])
    BY <1>3 DEF UpdateContent
  <2> DEFINE new == [offer[a] EXCEPT !.status = status]
  <2>2. status \in {"draft", "ready"}
    BY DEF Readiness
  <2>3. /\ new \in Offer /\ new.status = status /\ new.link = offer[a].link
        /\ new.released = offer[a].released /\ new.signed = offer[a].signed
    BY <1>0, <2>2 DEF Offer
  <2>4. Begin(w, {}, job, app, [offer EXCEPT ![a] = new])
    BY <1>0, <2>1
  <2> HIDE DEF new
  <2>5. offer[a].status \in {"draft", "ready"} /\ UNCHANGED links
    BY <1>3 DEF UpdateContent, Editable
  <2>6. OfferSound(a, new, links)
    BY <2>2, <2>3, <2>5, OfferFacts, EditSound
  <2> QED BY <2>4, <2>5, <2>6, OfferKeeps
<1>4. CASE ReleaseOffer(w, a)
  <2> DEFINE stage == IF app[a].stage = "hired" THEN "hired" ELSE "offer"
             newApp == [app[a] EXCEPT !.stage = stage]
             new == [offer[a] EXCEPT !.status = "released", !.link = links + 1,
                                     !.released = {offer[a].pay}]
  <2>1. /\ offer[a].status = "ready" /\ offer[a].pay # 0
        /\ links < MaxLinks /\ links' = links + 1
    BY <1>4 DEF ReleaseOffer, Releasable
  <2>2. links' \in 0..MaxLinks /\ links <= links' /\ links' \in Nat
    BY <1>0, <2>1, HiringAssumption
  <2>3. stage \in Stages /\ (stage = "hired" => app[a].stage = "hired")
    BY DEF Stages
  <2>4. /\ [app EXCEPT ![a].stage = IF @ = "hired" THEN @ ELSE "offer"] = [app EXCEPT ![a] = newApp]
    BY <1>0
  <2>5. Start(w, "work", {}, {}, job, [app EXCEPT ![a] = newApp], [offer EXCEPT ![a] = new])
    <3>1. [offer EXCEPT ![a].status = "released", ![a].link = links + 1,
                        ![a].released = {offer[a].pay}] = [offer EXCEPT ![a] = new]
      BY <1>0
    <3> QED BY <1>4, <2>4, <3>1 DEF ReleaseOffer, Begin
  <2> HIDE DEF stage
  <2>6. /\ newApp \in Application /\ newApp.stage = stage /\ newApp.status = app[a].status
        /\ newApp.consent = app[a].consent /\ newApp.scorecard = app[a].scorecard
    BY <1>0, <2>3 DEF Application
  <2>7. /\ new \in Offer /\ new.status = "released" /\ new.link = links + 1
        /\ new.released = {offer[a].pay} /\ new.pay = offer[a].pay /\ new.signed = offer[a].signed
    BY <1>0, <2>1, <2>2 DEF Offer
  <2> HIDE DEF newApp, new
  <2>8. AppSound("work", {}, a, newApp)
    BY <2>3, <2>6 DEF AppSound
  <2>9. OfferSound(a, new, links')
    <3>1. ~overlapped => OfferFine(new)
      BY <2>1, <2>7, OfferFacts DEF OfferFine
    <3>2. new.link <= links' /\ new.link # offer[a].link /\ new.link # 0
      BY <1>0, <2>1, <2>7
    <3> QED BY <2>1, <2>7, <3>1, <3>2, OfferFacts DEF OfferSound, Answered
  <2> QED BY <2>2, <2>5, <2>6, <2>8, <2>9, OneKeeps DEF Active
<1>5. CASE AcceptOffer(w, a)
  <2> DEFINE new == [offer[a] EXCEPT !.status = "accepted", !.signed = {offer[a].pay}, !.link = 0]
  <2>1. offer[a].status = "released" /\ offer[a].link # 0 /\ UNCHANGED links
    BY <1>5 DEF AcceptOffer, Answerable
  <2>2. /\ new \in Offer /\ new.status = "accepted" /\ new.link = 0
        /\ new.released = offer[a].released /\ new.signed = {offer[a].pay}
    BY <1>0 DEF Offer
  <2>3. Begin(w, {}, job, app, [offer EXCEPT ![a] = new])
    <3>1. [offer EXCEPT ![a].status = "accepted", ![a].signed = {offer[a].pay}, ![a].link = 0]
            = [offer EXCEPT ![a] = new]
      BY <1>0
    <3> QED BY <1>5, <3>1 DEF AcceptOffer
  <2> HIDE DEF new
  <2>4. OfferSound(a, new, links)
    <3>1. ~overlapped => OfferFine(new)
      BY <2>1, <2>2, OfferFacts DEF OfferFine
    <3> QED BY <1>0, <2>1, <2>2, <3>1, OfferFacts DEF OfferSound, Answered
  <2> QED BY <2>1, <2>3, <2>4, OfferKeeps
<1>6. CASE DeclineOffer(w, a)
  <2> DEFINE new == [offer[a] EXCEPT !.status = "declined", !.link = 0]
             newApp == [app[a] EXCEPT !.stage = "withdrawn", !.status = "closed"]
  <2>1. offer[a].status = "released" /\ offer[a].link # 0 /\ UNCHANGED links
    BY <1>6 DEF DeclineOffer, Answerable
  <2>2. /\ new \in Offer /\ new.status = "declined" /\ new.link = 0
        /\ new.released = offer[a].released /\ new.signed = offer[a].signed
    BY <1>0 DEF Offer
  <2>3. /\ Moved(a, "withdrawn", "closed") = [app EXCEPT ![a] = newApp]
        /\ newApp \in Application /\ newApp.stage = "withdrawn" /\ newApp.status = "closed"
        /\ newApp.consent = app[a].consent /\ newApp.scorecard = app[a].scorecard
    BY <1>0 DEF Moved, Application, Stages
  <2> HIDE DEF newApp
  <2>4. Start(w, "work", {}, {}, job, [app EXCEPT ![a] = newApp], [offer EXCEPT ![a] = new])
    <3>1. [offer EXCEPT ![a].status = "declined", ![a].link = 0] = [offer EXCEPT ![a] = new]
      BY <1>0
    <3> QED BY <1>6, <2>3, <3>1 DEF DeclineOffer, Begin
  <2> HIDE DEF new
  <2>5. AppSound("work", {}, a, newApp)
    BY <2>3 DEF AppSound, Stages
  <2>6. OfferSound(a, new, links')
    <3>1. ~overlapped => OfferFine(new)
      BY <2>1, <2>2, OfferFacts DEF OfferFine
    <3> QED BY <1>0, <2>1, <2>2, <3>1, OfferFacts DEF OfferSound, Answered
  <2> QED BY <2>1, <2>3, <2>4, <2>5, <2>6, LinksKept, OneKeeps
<1> QED BY <1>1, <1>2, <1>3, <1>4, <1>5, <1>6 DEF Offers

LEMMA JobActions ==
  ASSUME PipelineInv, NEW w \in Workers,
         \/ \E status \in {"open", "paused"} : UpdateJob(w, status)
         \/ DeleteJob(w) \/ CloseVacancies(w)
  PROVE  PipelineInv'
<1>0. UNCHANGED links
  BY DEF UpdateJob, DeleteJob, CloseVacancies
<1>1. \A a \in Applications : OfferSound(a, offer[a], links')
  BY <1>0, LinksKept, SameOffer
<1>2. \A a \in Applications : AppSound("work", {}, a, app[a])
  BY SameApp
<1>3. ASSUME NEW status \in {"open", "paused"}, UpdateJob(w, status) PROVE PipelineInv'
  <2>1. JobSound(status, app)
    BY DEF JobSound, JobStatus
  <2> QED BY <1>0, <1>1, <1>2, <1>3, <2>1, LinksKept, StartKeeps DEF UpdateJob, Begin
<1>4. CASE DeleteJob(w)
  <2>1. JobSound("deleted", app)
    BY <1>4 DEF DeleteJob, JobSound, JobStatus, Active
  <2> QED BY <1>0, <1>1, <1>2, <1>4, <2>1, LinksKept, StartKeeps DEF DeleteJob, Begin
<1>5. CASE CloseVacancies(w)
  <2> DEFINE new == [a \in Applications |->
                IF Active(a) /\ app[a].stage # "hired"
                THEN [app[a] EXCEPT !.stage = "rejected", !.status = "closed"] ELSE app[a]]
  <2>1. Start(w, "work", {}, {}, "paused", new, offer)
    BY <1>5 DEF CloseVacancies, Begin
  <2>2. ASSUME NEW a \in Applications PROVE AppSound("work", {}, a, new[a])
    <3>1. app[a] \in Application
      BY DEF PipelineInv, TypeOK
    <3> DEFINE closed == [app[a] EXCEPT !.stage = "rejected", !.status = "closed"]
    <3>2. /\ closed \in Application /\ closed.stage = "rejected"
          /\ closed.consent = app[a].consent /\ closed.scorecard = app[a].scorecard
      BY <3>1 DEF Application, Stages
    <3>3. new[a] = closed \/ new[a] = app[a]
      OBVIOUS
    <3> HIDE DEF new, closed
    <3>4. AppSound("work", {}, a, closed)
      BY <3>2 DEF AppSound, Stages
    <3> QED BY <3>3, <3>4, <1>2
  <2>3. JobSound("paused", new)
    BY DEF JobSound, JobStatus
  <2> HIDE DEF new
  <2> QED BY <1>0, <1>1, <2>1, <2>2, <2>3, LinksKept, StartKeeps
<1> QED BY <1>3, <1>4, <1>5

\* Only a commit writes an offer.
LEMMA PipelineStep ==
  ASSUME PipelineInv, [Next]_vars
  PROVE  /\ PipelineInv'
         /\ ~overlapped' => \A a \in Applications : offer[a].status \in Answered => offer'[a] = offer[a]
<1>1. CASE UNCHANGED vars
  <2>1. TypeOK' /\ DecisionsHaveEvidence' /\ LinkMatches'
    BY <1>1 DEF vars, PipelineInv, TypeOK, DecisionsHaveEvidence, LinkMatches
  <2>2. RequestsInv'
    BY <1>1 DEF vars, PipelineInv, RequestsInv, Busy
  <2>3. PendingInv'
    BY <1>1 DEF vars, PipelineInv, PendingInv, AppPending, OfferPending, Exists
  <2>4. SequentialInv'
    BY <1>1 DEF vars, PipelineInv, SequentialInv, Busy, OfferFine, NextJob, Active
  <2> QED BY <1>1, <2>1, <2>2, <2>3, <2>4 DEF vars, PipelineInv
<1>2. ASSUME NEW w \in Workers, NEW a \in Applications, Pipeline(w, a)
      PROVE  PipelineInv' /\ UNCHANGED offer
  <2>1. UNCHANGED offer
    BY <1>2 DEF Pipeline, PublicApplication, CreateApplication, ImportApplication, UpdateStage,
       IssueAssessment, FinalizeReview, CreateInterview, SubmitScorecard, CountHired,
       RejectApplication, Insert, Move, Begin, Start, rows
  <2> QED BY <1>2, <2>1, PipelineActions
<1>3. ASSUME NEW w \in Workers, NEW a \in Applications, Offers(w, a)
      PROVE  PipelineInv' /\ UNCHANGED offer
  <2>1. UNCHANGED offer
    BY <1>3 DEF Offers, UpdateCompensation, CreateOffer, UpdateContent, ReleaseOffer, AcceptOffer,
       DeclineOffer, Begin, Start, rows
  <2> QED BY <1>3, <2>1, OfferActions
<1>4. ASSUME NEW w \in Workers,
             \/ \E status \in {"open", "paused"} : UpdateJob(w, status)
             \/ DeleteJob(w) \/ CloseVacancies(w)
      PROVE  PipelineInv' /\ UNCHANGED offer
  <2>1. UNCHANGED offer
    BY <1>4 DEF UpdateJob, DeleteJob, CloseVacancies, Begin, Start, rows
  <2> QED BY <1>4, <2>1, JobActions
<1>5. ASSUME NEW w \in Workers, Rollback(w) PROVE PipelineInv' /\ UNCHANGED offer
  BY <1>5, RollbackKeeps DEF Rollback, rows
<1>6. ASSUME NEW w \in Workers, Commit(w)
      PROVE  /\ PipelineInv'
             /\ ~overlapped' => \A a \in Applications : offer[a].status \in Answered => offer'[a] = offer[a]
  BY <1>6, CommitKeeps
<1>7. CASE Next
  BY <1>2, <1>3, <1>4, <1>5, <1>6, <1>7 DEF Next
<1> QED BY <1>1, <1>7

-----------------------------------------------------------------------------
(* The reminders. *)

Batches == UNION {[K -> {"sent", "failed"}] : K \in SUBSET Keys}

CallsOK ==
    /\ call \in [Runs -> [running : BOOLEAN, todo : SUBSET Keys, batch : Batches,
                       waits : {{}} \union {{k} : k \in Keys}]]
    /\ \A r \in Runs : ~call[r].running => call[r] = Ended

\* One call has a key in its batch, and the key is on no other record yet: its
\* mail is on record in the batch, in the table, or with a call that was lost.
BatchesInv ==
    \A k \in Keys :
        /\ \A q, r \in Runs : k \in Batched(q) /\ k \in Batched(r) => q = r
        /\ \A r \in Runs : k \in Batched(r) => delivery[k] = "none"
        /\ \A r \in Runs : k \in Batched(r) /\ call[r].batch[k] = "sent" => mailed[k] > 0
        /\ mailed[k] > 1 => k \in lost
        /\ delivery[k] = "sent" => mailed[k] > 0
        /\ mailed[k] > 0 => \/ delivery[k] = "sent" \/ k \in lost
                            \/ \E r \in Runs : k \in Batched(r) /\ call[r].batch[k] = "sent"

RemindersInv ==
    /\ due \in [Keys -> BOOLEAN]
    /\ delivery \in [Keys -> {"none", "sent", "failed"}]
    /\ mailed \in [Keys -> 0..MaxMails] /\ lost \subseteq Keys
    /\ CallsOK
    /\ BatchesInv

LEMMA NoBatchIsEmpty == NoBatch \in Batches /\ DOMAIN NoBatch = {}
  BY DEF NoBatch, Batches, NoChanges

LEMMA EndedOK ==
    Ended \in [running : BOOLEAN, todo : SUBSET Keys, batch : Batches,
               waits : {{}} \union {{k} : k \in Keys}]
  BY NoBatchIsEmpty DEF Ended

LEMMA BatchDomain == ASSUME NEW b \in Batches PROVE DOMAIN b \subseteq Keys
  BY DEF Batches

LEMMA RemindersStart == RemindersInit => RemindersInv
<1> SUFFICES ASSUME RemindersInit PROVE RemindersInv
  OBVIOUS
<1>1. CallsOK
  BY EndedOK DEF RemindersInit, CallsOK
<1>2. \A r \in Runs : Batched(r) = {}
  BY NoBatchIsEmpty DEF RemindersInit, Batched, Ended
<1>3. BatchesInv
  BY <1>2 DEF RemindersInit, BatchesInv
<1> QED BY <1>1, <1>3, RemindersAssumption DEF RemindersInv, RemindersInit

\* A call that changes what it is to do, not its batch.
LEMMA BatchKept ==
  ASSUME RemindersInv, NEW r \in Runs,
         NEW c \in [running : BOOLEAN, todo : SUBSET Keys, batch : Batches,
                    waits : {{}} \union {{k} : k \in Keys}],
         c.batch = call[r].batch, c.running,
         call' = [call EXCEPT ![r] = c],
         UNCHANGED <<due, delivery, mailed, lost>>
  PROVE  RemindersInv'
<1> USE DEF RemindersInv
<1>1. CallsOK'
  BY DEF CallsOK
<1>2. \A q \in Runs : call'[q].batch = call[q].batch
  BY DEF CallsOK
<1>3. BatchesInv'
  BY <1>2 DEF BatchesInv, Batched
<1> QED BY <1>1, <1>3

LEMMA RemindersStep == RemindersInv /\ [RemindersNext]_remindersVars => RemindersInv'
<1> SUFFICES ASSUME RemindersInv, [RemindersNext]_remindersVars PROVE RemindersInv'
  OBVIOUS
<1> DEFINE Calls == [running : BOOLEAN, todo : SUBSET Keys, batch : Batches,
                     waits : {{}} \union {{k} : k \in Keys}]
<1>t. call \in [Runs -> Calls]
  BY DEF RemindersInv, CallsOK
<1>r. \A r \in Runs : ~call[r].running => call[r] = Ended
  BY DEF RemindersInv, CallsOK
<1>1. ASSUME NEW k \in Keys, NEW other \in Keys, MoveDate(k, other) PROVE RemindersInv'
  BY <1>1 DEF RemindersInv, MoveDate, CallsOK, BatchesInv, Batched
<1>2. ASSUME NEW r \in Runs, StartRun(r) PROVE RemindersInv'
  <2> DEFINE c == [Ended EXCEPT !.running = TRUE, !.todo = {k \in Keys : due[k]}]
  <2>1. c \in Calls /\ c.running /\ c.batch = NoBatch
    BY EndedOK DEF Ended
  <2>2. call[r].batch = NoBatch
    BY <1>2, <1>r DEF StartRun, Ended
  <2> QED BY <1>2, <2>1, <2>2, BatchKept DEF StartRun
<1>3. ASSUME NEW r \in Runs, NEW k \in Keys, Skip(r, k) PROVE RemindersInv'
  <2>0. call[r].running
    BY <1>3, <1>r DEF Skip, Ended
  <2> DEFINE c == [call[r] EXCEPT !.todo = @ \ {k}]
  <2>1. c \in Calls /\ c.running /\ c.batch = call[r].batch /\ call' = [call EXCEPT ![r] = c]
    BY <1>3, <1>t, <2>0 DEF Skip
  <2> QED BY <1>3, <2>1, BatchKept DEF Skip
<1>4. ASSUME NEW r \in Runs, NEW k \in Keys, Claim(r, k) PROVE RemindersInv'
  <2>0. call[r].running
    BY <1>4, <1>r DEF Claim, Ended
  <2> DEFINE c == [call[r] EXCEPT !.todo = @ \ {k}, !.waits = {k}]
  <2>1. c \in Calls /\ c.running /\ c.batch = call[r].batch /\ call' = [call EXCEPT ![r] = c]
    BY <1>4, <1>t, <2>0 DEF Claim
  <2> QED BY <1>4, <2>1, BatchKept DEF Claim
<1>5. ASSUME NEW r \in Runs, NEW k \in Keys, NEW went \in BOOLEAN, Send(r, k, went)
      PROVE  RemindersInv'
  <2> DEFINE batch == [key \in DOMAIN call[r].batch \union {k} |->
                         IF key = k THEN Outcome(went) ELSE call[r].batch[key]]
             c == [call[r] EXCEPT !.waits = {}, !.batch = batch]
  <2>1. batch \in Batches
    <3>1. PICK K \in SUBSET Keys : call[r].batch \in [K -> {"sent", "failed"}]
      BY <1>t DEF Batches
    <3>2. batch \in [K \union {k} -> {"sent", "failed"}]
      BY <3>1 DEF Outcome
    <3> QED BY <3>2 DEF Batches
  <2>0. call[r].running
    BY <1>5, <1>r DEF Send, Ended
  <2>2. c \in Calls /\ c.running /\ call' = [call EXCEPT ![r] = c] /\ c.batch = batch
    BY <1>5, <1>t, <2>0, <2>1 DEF Send
  <2>3. CallsOK'
    BY <2>2, <1>t, <1>r DEF CallsOK
  <2>4. /\ delivery[k] = "none" /\ \A q \in Runs : k \notin Batched(q)
        /\ UNCHANGED <<due, delivery, lost>>
    BY <1>5 DEF Send, MustWait, Claimed, Holders
  <2>5. /\ mailed' \in [Keys -> 0..MaxMails]
        /\ \A j \in Keys \ {k} : mailed'[j] = mailed[j]
        /\ went => mailed'[k] = mailed[k] + 1
        /\ ~went => mailed'[k] = mailed[k]
    BY <1>5, RemindersAssumption DEF Send, RemindersInv
  <2>6. /\ \A q \in Runs \ {r} : call'[q] = call[q]
        /\ call'[r].batch = batch
        /\ batch[k] = Outcome(went)
        /\ \A j \in DOMAIN call[r].batch \ {k} : batch[j] = call[r].batch[j]
        /\ DOMAIN batch = DOMAIN call[r].batch \union {k}
    BY <2>2, <1>t
  <2>7. mailed[k] > 0 => k \in lost
    BY <2>4 DEF RemindersInv, BatchesInv
  <2>8. /\ \A q \in Runs \ {r} : Batched(q)' = Batched(q)
        /\ Batched(r)' = Batched(r) \union {k}
    BY <2>6 DEF Batched
  <2>9. mailed[k] \in 0..MaxMails /\ mailed'[k] \in Nat
    BY <2>5, RemindersAssumption DEF RemindersInv
  <2>10. BatchesInv'
    <3> SUFFICES ASSUME NEW j \in Keys
                 PROVE (/\ \A p, q \in Runs : j \in Batched(p) /\ j \in Batched(q) => p = q
                        /\ \A q \in Runs : j \in Batched(q) => delivery[j] = "none"
                        /\ \A q \in Runs : j \in Batched(q) /\ call[q].batch[j] = "sent" => mailed[j] > 0
                        /\ mailed[j] > 1 => j \in lost
                        /\ delivery[j] = "sent" => mailed[j] > 0
                        /\ mailed[j] > 0 => \/ delivery[j] = "sent" \/ j \in lost
                                            \/ \E q \in Runs : j \in Batched(q) /\ call[q].batch[j] = "sent")'
      BY DEF BatchesInv
    <3>1. CASE j # k
      BY <3>1, <2>4, <2>5, <2>6, <2>8 DEF RemindersInv, BatchesInv, Batched
    <3>2. CASE j = k
      <4>1. \A q \in Runs : j \in Batched(q)' => q = r
        BY <3>2, <2>4, <2>8
      <4>2. call'[r].batch[j] = "sent" => mailed'[j] > 0
        BY <3>2, <2>5, <2>6, <2>9 DEF Outcome
      <4>3. mailed'[j] > 1 => j \in lost'
        BY <3>2, <2>4, <2>5, <2>7, <2>9
      <4>4. mailed'[j] > 0 => j \in lost' \/ (j \in Batched(r)' /\ call'[r].batch[j] = "sent")
        BY <3>2, <2>4, <2>5, <2>6, <2>7, <2>8 DEF Outcome
      <4> QED BY <3>2, <4>1, <4>2, <4>3, <4>4, <2>4
    <3> QED BY <3>1, <3>2
  <2> QED BY <2>3, <2>4, <2>5, <2>10 DEF RemindersInv
<1>6. ASSUME NEW r \in Runs, FinishRun(r) PROVE RemindersInv'
  <2>1. /\ call' = [call EXCEPT ![r] = Ended] /\ UNCHANGED <<due, mailed, lost>>
        /\ delivery' = [k \in Keys |-> IF k \in Batched(r) THEN call[r].batch[k] ELSE delivery[k]]
    BY <1>6 DEF FinishRun
  <2>2. CallsOK'
    BY <2>1, <1>t, <1>r, EndedOK DEF CallsOK
  <2>3. /\ \A q \in Runs \ {r} : Batched(q)' = Batched(q) /\ call'[q] = call[q]
        /\ Batched(r)' = {}
    BY <2>1, <1>t, NoBatchIsEmpty DEF Batched, Ended
  <2>4. \A k \in Batched(r) : call[r].batch[k] \in {"sent", "failed"}
    BY <1>t DEF Batched, Batches
  <2>5. BatchesInv'
    <3> SUFFICES ASSUME NEW j \in Keys
                 PROVE (/\ \A p, q \in Runs : j \in Batched(p) /\ j \in Batched(q) => p = q
                        /\ \A q \in Runs : j \in Batched(q) => delivery[j] = "none"
                        /\ \A q \in Runs : j \in Batched(q) /\ call[q].batch[j] = "sent" => mailed[j] > 0
                        /\ mailed[j] > 1 => j \in lost
                        /\ delivery[j] = "sent" => mailed[j] > 0
                        /\ mailed[j] > 0 => \/ delivery[j] = "sent" \/ j \in lost
                                            \/ \E q \in Runs : j \in Batched(q) /\ call[q].batch[j] = "sent")'
      BY DEF BatchesInv
    <3>1. CASE j \in Batched(r)
      BY <3>1, <2>1, <2>3, <2>4 DEF RemindersInv, BatchesInv
    <3>2. CASE j \notin Batched(r)
      BY <3>2, <2>1, <2>3 DEF RemindersInv, BatchesInv
    <3> QED BY <3>1, <3>2
  <2>6. delivery' \in [Keys -> {"none", "sent", "failed"}]
    BY <2>1, <2>4 DEF RemindersInv
  <2> QED BY <2>1, <2>2, <2>5, <2>6 DEF RemindersInv
<1>7. ASSUME NEW r \in Runs, AbortRun(r) PROVE RemindersInv'
  <2>1. /\ call' = [call EXCEPT ![r] = Ended] /\ UNCHANGED <<due, delivery, mailed>>
        /\ lost' = lost \union Batched(r)
    BY <1>7 DEF AbortRun
  <2>2. CallsOK'
    BY <2>1, <1>t, <1>r, EndedOK DEF CallsOK
  <2>3. /\ \A q \in Runs \ {r} : Batched(q)' = Batched(q) /\ call'[q] = call[q]
        /\ Batched(r)' = {}
    BY <2>1, <1>t, NoBatchIsEmpty DEF Batched, Ended
  <2>4. Batched(r) \subseteq Keys
    BY <1>t, BatchDomain DEF Batched
  <2>5. BatchesInv'
    BY <2>1, <2>3 DEF RemindersInv, BatchesInv
  <2> QED BY <2>1, <2>2, <2>4, <2>5 DEF RemindersInv
<1>8. CASE UNCHANGED remindersVars
  BY <1>8 DEF remindersVars, RemindersInv, CallsOK, BatchesInv, Batched
<1> QED BY <1>1, <1>2, <1>3, <1>4, <1>5, <1>6, <1>7, <1>8 DEF RemindersNext

LEMMA RemindersInvHolds == RemindersInv => RemindersTypeOK /\ RemindedOnce
<1> SUFFICES ASSUME RemindersInv PROVE RemindersTypeOK /\ RemindedOnce
  OBVIOUS
<1>1. ASSUME NEW r \in Runs
      PROVE  /\ call[r].running \in BOOLEAN
             /\ call[r].todo \union call[r].waits \union Batched(r) \subseteq Keys
             /\ Cardinality(call[r].waits) <= 1
  <2>1. /\ call[r].running \in BOOLEAN /\ call[r].todo \subseteq Keys
        /\ call[r].batch \in Batches /\ call[r].waits \in {{}} \union {{k} : k \in Keys}
    BY DEF RemindersInv, CallsOK
  <2>2. Batched(r) \subseteq Keys
    BY <2>1, BatchDomain DEF Batched
  <2>3. Cardinality(call[r].waits) <= 1
    <3>1. CASE call[r].waits = {}
      <4>1. Cardinality({}) = 0
        BY FS_EmptySet
      <4> QED BY <3>1, <4>1
    <3>2. CASE call[r].waits # {}
      <4>1. PICK k \in Keys : call[r].waits = {k}
        BY <3>2, <2>1
      <4>2. Cardinality({k}) = 1
        BY FS_Singleton
      <4> QED BY <4>1, <4>2
    <3> QED BY <3>1, <3>2
  <2> QED BY <2>1, <2>2, <2>3
<1>2. ASSUME NEW k \in Keys PROVE Cardinality(Holders(k)) <= 1
  <2>1. CASE Holders(k) = {}
    BY <2>1, FS_EmptySet
  <2>2. CASE Holders(k) # {}
    <3>0. PICK r \in Runs : r \in Holders(k)
      BY <2>2 DEF Holders
    <3>1. Holders(k) = {r}
      BY <3>0 DEF RemindersInv, BatchesInv, Holders
    <3>2. Cardinality({r}) = 1
      BY FS_Singleton
    <3> QED BY <3>1, <3>2
  <2> QED BY <2>1, <2>2
<1>3. RemindedOnce
  <2> SUFFICES ASSUME NEW k \in Keys
               PROVE  /\ mailed[k] > 1 => k \in lost
                      /\ delivery[k] = "sent" => mailed[k] > 0
                      /\ mailed[k] > 0 => delivery[k] = "sent" \/ Holders(k) # {} \/ k \in lost
    BY <1>2 DEF RemindedOnce
  <2> QED BY DEF RemindersInv, BatchesInv, Holders
<1> QED BY <1>1, <1>3 DEF RemindersTypeOK, RemindersInv

-----------------------------------------------------------------------------
(* The members. *)

Statuses == {"none", "pending_sso", "active", "suspended", "removed"}

MemberChanges ==
    {c \in UNION {[K -> Roles \union Statuses] : K \in SUBSET {"role", "status"}} :
        /\ "role" \in DOMAIN c => c["role"] \in Roles
        /\ "status" \in DOMAIN c => c["status"] \in Statuses}

DeskJob == [op : {"quiet", "decide", "sign-in", "look", "name"}, for : Users, set : MemberChanges,
            means : Statuses, insert : BOOLEAN, login : {"same", "sso", "password"},
            slug : 0..MaxOwn]

MembersTypes ==
    /\ team \in [Users -> Membership]
    /\ account \in [Users -> {"none", "sso", "password"}]
    /\ own \in [Users -> 0..MaxOwn]
    /\ desk \in [Desks -> DeskJob]
    /\ decided \in [Users -> Statuses]

\* No request that may change a membership is about the owner's.
OwnerStays ==
    /\ team[Owner] = [role |-> "owner", status |-> "active"]
    /\ \A d \in Desks : desk[d].op \in {"decide", "sign-in"} => desk[d].for # Owner

\* Who is a member has an account, or gets it together with the membership.
AccountsKnown ==
    /\ \A u \in Users : account[u] = "none" => team[u] = Nobody
    /\ \A d \in Desks :
         /\ desk[d].op = "sign-in" => account[desk[d].for] # "none"
         /\ desk[d].op = "decide" /\ desk[d].login = "same" => account[desk[d].for] # "none"

Crossing == overlaps \intersect {"decisions", "sign-in"} # {}

\* As long as no requests about members crossed, the one that decides finds
\* the row it has read, and sign-ins are of members who were made to wait.
DecidedInv ==
    ~Crossing =>
      /\ \A u \in Users : \/ team[u].status = decided[u]
                          \/ team[u].status = "active" /\ decided[u] = "pending_sso"
      /\ \A d, e \in Desks : desk[d].op = "decide" /\ desk[e].op = "decide" => d = e
      /\ \A d, e \in Desks : ~(desk[d].op = "decide" /\ desk[e].op = "sign-in")
      /\ \A d \in Desks : desk[d].op = "decide" =>
           Update(team[desk[d].for], desk[d].set)["status"] = desk[d].means
      /\ \A d \in Desks : desk[d].op = "sign-in" =>
           decided[desk[d].for] = "pending_sso" /\ desk[d].set = [status |-> "active"]

\* As long as no first requests crossed, there is one at a time, of a user
\* without an organization.
FirstInv ==
    "first" \notin overlaps =>
      /\ \A u \in Users : own[u] <= 1
      /\ \A d, e \in Desks : desk[d].op \in {"look", "name"} /\ desk[e].op \in {"look", "name"} => d = e
      /\ \A d \in Desks : desk[d].op \in {"look", "name"} => own[desk[d].for] = 0
      /\ \A d \in Desks : desk[d].op = "name" => desk[d].slug = 1

MembersInv == MembersTypes /\ OwnerStays /\ AccountsKnown /\ DecidedInv /\ FirstInv

LEMMA MembershipRow ==
  ASSUME NEW row \in Membership
  PROVE  DOMAIN row = {"role", "status"} /\ row["role"] \in Roles /\ row["status"] \in Statuses
  BY DEF Membership, Statuses

LEMMA MemberChanged ==
  ASSUME NEW row \in Membership, NEW new \in Membership
  PROVE  /\ Changes(row, new) \in MemberChanges
         /\ Update(row, Changes(row, new))["status"] = new.status
<1> DEFINE c == Changes(row, new)
<1>0. /\ row["role"] \in Roles /\ row["status"] \in Statuses /\ DOMAIN row = {"role", "status"}
      /\ new["role"] \in Roles /\ new["status"] \in Statuses /\ DOMAIN new = {"role", "status"}
  BY MembershipRow
<1>1. /\ DOMAIN c \subseteq {"role", "status"}
      /\ \A f \in DOMAIN c : c[f] = new[f]
      /\ c = [f \in DOMAIN c |-> new[f]]
      /\ "status" \notin DOMAIN c => row["status"] = new["status"]
  BY <1>0 DEF Changes
<1>2. c \in [DOMAIN c -> Roles \union Statuses]
  BY <1>0, <1>1
<1>3. c \in MemberChanges
  BY <1>0, <1>1, <1>2 DEF MemberChanges
<1>4. Update(row, c)["status"] = new["status"]
  BY <1>0, <1>1 DEF Update
<1> HIDE DEF c
<1> QED BY <1>3, <1>4 DEF c

LEMMA MemberUpdated ==
  ASSUME NEW row \in Membership, NEW c \in MemberChanges
  PROVE  Update(row, c) \in Membership
<1>0. /\ row["role"] \in Roles /\ row["status"] \in Statuses /\ DOMAIN row = {"role", "status"}
  BY MembershipRow
<1>1. /\ "role" \in DOMAIN c => c["role"] \in Roles
      /\ "status" \in DOMAIN c => c["status"] \in Statuses
  BY DEF MemberChanges
<1>2. Update(row, c) = [f \in {"role", "status"} |-> IF f \in DOMAIN c THEN c[f] ELSE row[f]]
  BY <1>0 DEF Update
<1> QED BY <1>0, <1>1, <1>2 DEF Membership, Statuses

LEMMA NoMemberChanges == NoChanges \in MemberChanges /\ DOMAIN NoChanges = {}
  BY DEF NoChanges, MemberChanges

LEMMA QuietOK == Quiet \in DeskJob /\ Quiet.op = "quiet"
  BY NoMemberChanges, MembersAssumption DEF Quiet, DeskJob, Users, Statuses

LEMMA MembersStart == MembersInit => MembersInv
<1> SUFFICES ASSUME MembersInit PROVE MembersInv
  OBVIOUS
<1> USE DEF MembersInit
<1>0. Owner \in Users
  BY DEF Users
<1>1. \A d \in Desks : desk[d] = Quiet /\ desk[d].op = "quiet"
  BY QuietOK
<1>2. MembersTypes
  BY QuietOK, MembersAssumption DEF MembersTypes, Membership, Nobody, Roles, Statuses
<1>3. OwnerStays
  BY <1>0, <1>1 DEF OwnerStays
<1>4. AccountsKnown /\ DecidedInv
  BY <1>0, <1>1 DEF AccountsKnown, DecidedInv, Nobody
<1>5. FirstInv
  BY <1>1 DEF FirstInv
<1> QED BY <1>2, <1>3, <1>4, <1>5 DEF MembersInv

\* A request that ends, or is not about members.
LEMMA DeskChanges ==
  ASSUME MembersInv, NEW d \in Desks, NEW doing \in DeskJob,
         desk' = [desk EXCEPT ![d] = doing],
         doing.op \notin {"decide", "sign-in"},
         UNCHANGED <<team, account, decided>>,
         overlaps \subseteq overlaps'
  PROVE  desk' \in [Desks -> DeskJob] /\ OwnerStays' /\ AccountsKnown' /\ DecidedInv'
<1> USE DEF MembersInv
<1>1. desk' \in [Desks -> DeskJob]
  BY DEF MembersTypes
<1>2. \A e \in Desks : desk'[e].op \in {"decide", "sign-in"} => desk'[e] = desk[e]
  BY DEF MembersTypes
<1>3. OwnerStays' /\ AccountsKnown'
  BY <1>2 DEF OwnerStays, AccountsKnown
<1>4. DecidedInv'
  <2>1. SUFFICES ASSUME ~Crossing' PROVE DecidedInv'
    BY DEF DecidedInv
  <2>2. ~Crossing
    BY <2>1 DEF Crossing
  <2>3. \A e \in Desks : desk'[e].op = "decide" => desk[e].op = "decide" /\ desk'[e] = desk[e]
    BY <1>2
  <2>4. \A e \in Desks : desk'[e].op = "sign-in" => desk[e].op = "sign-in" /\ desk'[e] = desk[e]
    BY <1>2
  <2> QED BY <2>2, <2>3, <2>4 DEF DecidedInv
<1> QED BY <1>1, <1>3, <1>4

LEMMA FirstKept ==
  ASSUME MembersInv, NEW d \in Desks, NEW doing \in DeskJob,
         desk' = [desk EXCEPT ![d] = doing],
         doing.op \notin {"look", "name"},
         UNCHANGED own, overlaps \subseteq overlaps'
  PROVE  FirstInv'
<1> USE DEF MembersInv
<1>1. \A e \in Desks : desk'[e].op \in {"look", "name"} => desk'[e] = desk[e]
  BY DEF MembersTypes
<1> QED BY <1>1 DEF FirstInv

LEMMA DecidesKeeps ==
  ASSUME MembersInv, NEW d \in Desks, NEW u \in Users, NEW new \in Membership,
         NEW login \in {"same", "sso", "password"},
         Decides(d, u, new, login), u # Owner,
         login = "same" => account[u] # "none"
  PROVE  MembersInv'
<1> DEFINE doing == [Quiet EXCEPT !.op = "decide", !.for = u, !.set = Changes(team[u], new),
                     !.means = new.status, !.insert = (team[u] = Nobody), !.login = login]
<1>1. /\ desk' = [desk EXCEPT ![d] = doing]
      /\ UNCHANGED <<team, account, own, decided>>
      /\ overlaps' = overlaps \union Marks("decisions", {"decide"})
                              \union Marks("sign-in", {"sign-in"})
  BY DEF Decides
<1>2. team[u] \in Membership /\ desk \in [Desks -> DeskJob]
  BY DEF MembersInv, MembersTypes
<1>3. /\ Changes(team[u], new) \in MemberChanges
      /\ Update(team[u], Changes(team[u], new))["status"] = new.status
  BY <1>2, MemberChanged
<1>4. new.status \in Statuses
  BY DEF Membership, Statuses
<1>5. /\ doing \in DeskJob /\ doing.op = "decide" /\ doing.for = u /\ doing.means = new.status
      /\ doing.set = Changes(team[u], new) /\ doing.login = login
  BY QuietOK, <1>3, <1>4 DEF Quiet, DeskJob
<1> HIDE DEF doing
<1>6. desk' \in [Desks -> DeskJob] /\ desk'[d] = doing /\ \A e \in Desks \ {d} : desk'[e] = desk[e]
  BY <1>1, <1>2, <1>5
<1>7. MembersTypes'
  BY <1>1, <1>6 DEF MembersInv, MembersTypes
<1>8. OwnerStays' /\ AccountsKnown'
  BY <1>1, <1>5, <1>6 DEF MembersInv, OwnerStays, AccountsKnown
<1>9. FirstInv'
  BY <1>1, <1>5, FirstKept
<1>10. DecidedInv'
  <2>1. SUFFICES ASSUME ~Crossing' PROVE DecidedInv'
    BY DEF DecidedInv
  <2>2. ~Crossing /\ \A e \in Desks : desk[e].op \notin {"decide", "sign-in"}
    BY <2>1, <1>1 DEF Crossing, Marks, Working
  <2>3. \A e \in Desks \ {d} : desk'[e].op \notin {"decide", "sign-in"}
    BY <2>2, <1>6
  <2> QED BY <2>2, <2>3, <1>1, <1>3, <1>5, <1>6 DEF DecidedInv, MembersInv
<1> QED BY <1>7, <1>8, <1>9, <1>10 DEF MembersInv

LEMMA MembersStep == MembersInv /\ [MembersNext]_membersVars => MembersInv'
<1> SUFFICES ASSUME MembersInv, [MembersNext]_membersVars PROVE MembersInv'
  OBVIOUS
<1>t. /\ team \in [Users -> Membership] /\ desk \in [Desks -> DeskJob]
      /\ own \in [Users -> 0..MaxOwn] /\ MaxOwn \in Nat
      /\ account \in [Users -> {"none", "sso", "password"}] /\ decided \in [Users -> Statuses]
  BY MembersAssumption DEF MembersInv, MembersTypes
<1>u. \A u \in Users : Replaceable(u) => u # Owner
  BY DEF MembersInv, OwnerStays, Replaceable
<1>1. ASSUME NEW d \in Desks, NEW actor \in Users, NEW u \in Users,
             NEW role \in {"org_admin", "recruiter"}, NEW sso \in BOOLEAN,
             AddMember(d, actor, u, role, sso)
      PROVE  MembersInv'
  <2> DEFINE new == [role |-> role, status |-> IF sso THEN "pending_sso" ELSE "active"]
             login == IF account[u] # "none" THEN "same" ELSE IF sso THEN "sso" ELSE "password"
  <2>1. new \in Membership /\ login \in {"same", "sso", "password"}
    BY DEF Membership, Roles
  <2>2. Decides(d, u, new, login) /\ Replaceable(u)
    BY <1>1 DEF AddMember
  <2>3. login = "same" => account[u] # "none"
    OBVIOUS
  <2> HIDE DEF new, login
  <2> QED BY <2>1, <2>2, <2>3, <1>u, DecidesKeeps
<1>2. ASSUME NEW d \in Desks, NEW actor \in Users, NEW u \in Users,
             NEW role \in {"org_admin", "recruiter"}, NEW status \in {"active", "suspended"},
             UpdateMember(d, actor, u, role, status)
      PROVE  MembersInv'
  <2>1. [role |-> role, status |-> status] \in Membership
    BY DEF Membership, Roles
  <2>2. Decides(d, u, [role |-> role, status |-> status], "same") /\ Replaceable(u)
        /\ account[u] # "none"
    BY <1>2 DEF UpdateMember, MembersInv, AccountsKnown
  <2> QED BY <2>1, <2>2, <1>u, DecidesKeeps
<1>3. ASSUME NEW d \in Desks, NEW actor \in Users, NEW u \in Users, RemoveMember(d, actor, u)
      PROVE  MembersInv'
  <2>1. [team[u] EXCEPT !.status = "removed"] \in Membership
    BY <1>t DEF Membership
  <2>2. Decides(d, u, [team[u] EXCEPT !.status = "removed"], "same") /\ Replaceable(u)
        /\ account[u] # "none"
    BY <1>3 DEF RemoveMember, MembersInv, AccountsKnown
  <2> QED BY <2>1, <2>2, <1>u, DecidesKeeps
<1>4. ASSUME NEW d \in Desks, NEW u \in Users, SignIn(d, u) PROVE MembersInv'
  <2> DEFINE doing == [Quiet EXCEPT !.op = "sign-in", !.for = u, !.set = [status |-> "active"]]
  <2>1. /\ desk' = [desk EXCEPT ![d] = doing] /\ UNCHANGED <<team, account, own, decided>>
        /\ overlaps' = overlaps \union Marks("sign-in", {"decide"})
        /\ account[u] # "none" /\ team[u].status = "pending_sso"
    BY <1>4 DEF SignIn
  <2>2. [status |-> "active"] \in MemberChanges
    BY DEF MemberChanges, Statuses
  <2>3. doing \in DeskJob /\ doing.op = "sign-in" /\ doing.for = u /\ doing.set = [status |-> "active"]
    BY QuietOK, <2>2 DEF Quiet, DeskJob
  <2> HIDE DEF doing
  <2>4. /\ desk' \in [Desks -> DeskJob] /\ desk'[d] = doing
        /\ \A e \in Desks \ {d} : desk'[e] = desk[e]
    BY <1>t, <2>1, <2>3
  <2>5. u # Owner
    BY <2>1 DEF MembersInv, OwnerStays
  <2>6. MembersTypes'
    BY <2>1, <2>4 DEF MembersInv, MembersTypes
  <2>7. OwnerStays' /\ AccountsKnown'
    BY <2>1, <2>3, <2>4, <2>5 DEF MembersInv, OwnerStays, AccountsKnown
  <2>8. FirstInv'
    BY <2>1, <2>3, FirstKept
  <2>9. DecidedInv'
    <3>1. SUFFICES ASSUME ~Crossing' PROVE DecidedInv'
      BY DEF DecidedInv
    <3>2. ~Crossing /\ \A e \in Desks : desk[e].op # "decide"
      BY <3>1, <2>1 DEF Crossing, Marks, Working
    <3>3. decided[u] = "pending_sso"
      BY <3>2, <2>1 DEF DecidedInv, MembersInv
    <3> QED BY <3>2, <3>3, <2>1, <2>3, <2>4 DEF DecidedInv, MembersInv
  <2> QED BY <2>6, <2>7, <2>8, <2>9 DEF MembersInv
<1>5. ASSUME NEW d \in Desks, NEW u \in Users, Looks(d, u) PROVE MembersInv'
  <2> DEFINE doing == [Quiet EXCEPT !.op = "look", !.for = u]
  <2>1. /\ desk' = [desk EXCEPT ![d] = doing] /\ UNCHANGED <<team, account, own, decided>>
        /\ overlaps' = overlaps \union Marks("first", {"look", "name"})
        /\ own[u] = 0
    BY <1>5 DEF Looks
  <2>2. doing \in DeskJob /\ doing.op = "look" /\ doing.for = u
    BY QuietOK DEF Quiet, DeskJob
  <2> HIDE DEF doing
  <2>3. desk' \in [Desks -> DeskJob] /\ OwnerStays' /\ AccountsKnown' /\ DecidedInv'
    BY <2>1, <2>2, DeskChanges
  <2>4. desk'[d] = doing /\ \A e \in Desks \ {d} : desk'[e] = desk[e]
    BY <1>t, <2>1, <2>2
  <2>5. FirstInv'
    BY <2>1, <2>2, <2>4 DEF MembersInv, FirstInv, Marks, Working
  <2> QED BY <2>1, <2>3, <2>5 DEF MembersInv, MembersTypes
<1>6. ASSUME NEW d \in Desks, DecisionCommits(d) PROVE MembersInv'
  <2> DEFINE u == desk[d].for
             set == desk[d].set
  <2>1. /\ desk[d].op = "decide"
        /\ desk[d].login # "same" => account[u] = "none"
        /\ team' = [team EXCEPT ![u] = Update(team[u], set)]
        /\ account' = [account EXCEPT ![u] = IF desk[d].login = "same" THEN @ ELSE desk[d].login]
        /\ decided' = [decided EXCEPT ![u] = desk[d].means]
        /\ desk' = [desk EXCEPT ![d] = Quiet]
        /\ UNCHANGED <<own, overlaps>>
    BY <1>6 DEF DecisionCommits
  <2>2. /\ u \in Users /\ set \in MemberChanges /\ desk[d].means \in Statuses
        /\ desk[d].login \in {"same", "sso", "password"} /\ u # Owner
        /\ desk[d].login = "same" => account[u] # "none"
    BY <1>t, <2>1 DEF DeskJob, MembersInv, OwnerStays, AccountsKnown
  <2>3. Update(team[u], set) \in Membership
    BY <1>t, <2>2, MemberUpdated
  <2> HIDE DEF u, set
  <2>4. /\ desk' \in [Desks -> DeskJob] /\ desk'[d] = Quiet
        /\ \A e \in Desks \ {d} : desk'[e] = desk[e]
    BY <1>t, <2>1, QuietOK
  <2>5. MembersTypes'
    BY <1>t, <2>1, <2>2, <2>3, <2>4 DEF MembersTypes
  <2>6. OwnerStays'
    BY <2>1, <2>2, <2>4, QuietOK DEF MembersInv, OwnerStays
  <2>7. /\ account'[u] # "none" /\ \A v \in Users \ {u} : account'[v] = account[v] /\ team'[v] = team[v]
        /\ \A v \in Users : account[v] # "none" => account'[v] # "none"
    BY <1>t, <2>1, <2>2
  <2>8. AccountsKnown'
    <3>1. \A e \in Desks : desk'[e].op \in {"sign-in", "decide"} => desk'[e] = desk[e]
      BY <2>4, QuietOK
    <3>2. \A e \in Desks : desk[e].for \in Users
      BY <1>t DEF DeskJob
    <3> QED BY <2>7, <3>1, <3>2 DEF MembersInv, AccountsKnown
  <2>9. FirstInv'
    BY <2>1, QuietOK, FirstKept
  <2>10. DecidedInv'
    <3>1. SUFFICES ASSUME ~Crossing' PROVE DecidedInv'
      BY DEF DecidedInv
    <3>2. ~Crossing
      BY <3>1, <2>1 DEF Crossing
    <3>3. /\ \A e \in Desks : desk'[e].op \notin {"decide", "sign-in"}
          /\ Update(team[u], set)["status"] = desk[d].means
      BY <3>2, <2>1, <2>4, QuietOK DEF DecidedInv, MembersInv, u, set
    <3>4. team'[u]["status"] = decided'[u] /\ \A v \in Users \ {u} : team'[v] = team[v] /\ decided'[v] = decided[v]
      BY <1>t, <2>1, <2>2, <3>3
    <3> QED BY <3>2, <3>3, <3>4 DEF DecidedInv, MembersInv
  <2> QED BY <2>5, <2>6, <2>8, <2>9, <2>10 DEF MembersInv
<1>7. ASSUME NEW d \in Desks, SignInCommits(d) PROVE MembersInv'
  <2> DEFINE u == desk[d].for
             set == desk[d].set
  <2>1. /\ desk[d].op = "sign-in"
        /\ team' = [team EXCEPT ![u] = Update(team[u], set)]
        /\ desk' = [desk EXCEPT ![d] = Quiet]
        /\ UNCHANGED <<account, own, decided, overlaps>>
    BY <1>7 DEF SignInCommits
  <2>2. u \in Users /\ set \in MemberChanges /\ u # Owner /\ account[u] # "none"
    BY <1>t, <2>1 DEF DeskJob, MembersInv, OwnerStays, AccountsKnown
  <2>3. Update(team[u], set) \in Membership
    BY <1>t, <2>2, MemberUpdated
  <2> HIDE DEF u, set
  <2>4. /\ desk' \in [Desks -> DeskJob] /\ desk'[d] = Quiet
        /\ \A e \in Desks \ {d} : desk'[e] = desk[e]
    BY <1>t, <2>1, QuietOK
  <2>5. MembersTypes'
    BY <1>t, <2>1, <2>2, <2>3, <2>4 DEF MembersTypes
  <2>6. OwnerStays' /\ AccountsKnown'
    BY <1>t, <2>1, <2>2, <2>4, QuietOK DEF MembersInv, OwnerStays, AccountsKnown
  <2>7. FirstInv'
    BY <2>1, QuietOK, FirstKept
  <2>8. DecidedInv'
    <3>1. SUFFICES ASSUME ~Crossing' PROVE DecidedInv'
      BY DEF DecidedInv
    <3>2. ~Crossing
      BY <3>1, <2>1 DEF Crossing
    <3>3. decided[u] = "pending_sso" /\ set = [status |-> "active"]
      BY <3>2, <2>1 DEF DecidedInv, MembersInv, u, set
    <3>4. team[u] \in Membership
      BY <1>t, <2>2
    <3>5. Update(team[u], set)["status"] = "active"
      BY <3>3, <3>4, MembershipRow DEF Update
    <3>6. team'[u]["status"] = "active" /\ \A v \in Users \ {u} : team'[v] = team[v]
      BY <1>t, <2>1, <2>2, <3>5
    <3>7. \A e \in Desks : desk[e].op # "decide" /\ desk'[e].op # "decide"
      BY <3>2, <2>1, <2>4, QuietOK DEF DecidedInv, MembersInv
    <3> QED BY <3>2, <3>3, <3>6, <3>7, <2>1, <2>4, QuietOK DEF DecidedInv, MembersInv
  <2> QED BY <2>5, <2>6, <2>7, <2>8 DEF MembersInv
<1>8. ASSUME NEW d \in Desks, Names(d) PROVE MembersInv'
  <2> DEFINE doing == [desk[d] EXCEPT !.op = "name", !.slug = own[desk[d].for] + 1]
  <2>1. /\ desk[d].op = "look" /\ own[desk[d].for] < MaxOwn /\ desk' = [desk EXCEPT ![d] = doing]
        /\ UNCHANGED <<team, account, own, decided, overlaps>>
    BY <1>8, <1>t DEF Names
  <2>2. own[desk[d].for] + 1 \in 0..MaxOwn
    <3>1. own[desk[d].for] \in 0..MaxOwn
      BY <1>t DEF DeskJob
    <3> QED BY <3>1, <2>1, <1>t
  <2>3. /\ doing \in DeskJob /\ doing.op = "name" /\ doing.for = desk[d].for
        /\ doing.slug = own[desk[d].for] + 1
    BY <1>t, <2>1, <2>2 DEF DeskJob
  <2> HIDE DEF doing
  <2>4. desk' \in [Desks -> DeskJob] /\ OwnerStays' /\ AccountsKnown' /\ DecidedInv'
    BY <2>1, <2>3, DeskChanges
  <2>5. desk'[d] = doing /\ \A e \in Desks \ {d} : desk'[e] = desk[e]
    BY <1>t, <2>1, <2>3
  <2>6. FirstInv'
    BY <2>1, <2>3, <2>5 DEF MembersInv, FirstInv
  <2> QED BY <2>1, <2>4, <2>6 DEF MembersInv, MembersTypes
<1>9. ASSUME NEW d \in Desks, Founds(d) PROVE MembersInv'
  <2>1. /\ desk[d].op = "name" /\ desk[d].slug > own[desk[d].for]
        /\ own' = [own EXCEPT ![desk[d].for] = desk[d].slug]
        /\ desk' = [desk EXCEPT ![d] = Quiet]
        /\ UNCHANGED <<team, account, decided, overlaps>>
    BY <1>9 DEF Founds
  <2>2. desk' \in [Desks -> DeskJob] /\ OwnerStays' /\ AccountsKnown' /\ DecidedInv'
    BY <2>1, QuietOK, DeskChanges
  <2>3. own' \in [Users -> 0..MaxOwn]
    BY <1>t, <2>1 DEF DeskJob
  <2>4. desk'[d] = Quiet /\ \A e \in Desks \ {d} : desk'[e] = desk[e]
    BY <1>t, <2>1
  <2>5. FirstInv'
    BY <1>t, <2>1, <2>4, QuietOK DEF MembersInv, FirstInv
  <2> QED BY <2>1, <2>2, <2>3, <2>5 DEF MembersInv, MembersTypes
<1>10. ASSUME NEW d \in Desks, DeskFails(d) PROVE MembersInv'
  <2>1. desk' = [desk EXCEPT ![d] = Quiet] /\ UNCHANGED <<team, account, own, decided, overlaps>>
    BY <1>10 DEF DeskFails
  <2>2. desk' \in [Desks -> DeskJob] /\ OwnerStays' /\ AccountsKnown' /\ DecidedInv'
    BY <2>1, QuietOK, DeskChanges
  <2>3. FirstInv'
    BY <2>1, QuietOK, FirstKept
  <2> QED BY <2>1, <2>2, <2>3 DEF MembersInv, MembersTypes
<1>11. CASE UNCHANGED membersVars
  BY <1>11 DEF membersVars, MembersInv, MembersTypes, OwnerStays, AccountsKnown, DecidedInv,
             FirstInv, Crossing
<1> QED BY <1>1, <1>2, <1>3, <1>4, <1>5, <1>6, <1>7, <1>8, <1>9, <1>10, <1>11 DEF MembersNext

LEMMA MembersInvHolds == MembersInv => MembersTypeOK /\ MembersHold
<1> SUFFICES ASSUME MembersInv PROVE MembersTypeOK /\ MembersHold
  OBVIOUS
<1>1. \A d \in Desks : Update(Nobody, desk[d].set) \in Membership
  <2>1. Nobody \in Membership
    BY DEF Nobody, Membership, Roles
  <2> QED BY <2>1, MemberUpdated DEF MembersInv, MembersTypes, DeskJob
<1>2. MembersTypeOK
  BY <1>1 DEF MembersTypeOK, MembersInv, MembersTypes
<1>3. MembersHold
  <2>1. \A u \in Users : own[u] \in Nat
    BY MembersAssumption DEF MembersInv, MembersTypes
  <2> QED BY <2>1 DEF MembersHold, MembersInv, OwnerStays, AccountsKnown, DecidedInv, FirstInv, Crossing
<1> QED BY <1>2, <1>3

-----------------------------------------------------------------------------
(* The calendar and the mail server. *)

CalendarSets ==
    {c \in UNION {[K -> Status \union (0..MaxGrants) \union BOOLEAN] :
                    K \in SUBSET {"status", "grant", "scope"}} :
        /\ "status" \in DOMAIN c => c["status"] \in Status
        /\ "grant" \in DOMAIN c => c["grant"] \in 0..MaxGrants
        /\ "scope" \in DOMAIN c => c["scope"] \in BOOLEAN}

Channel == [settings : Settings, connected : BOOLEAN, tested : BOOLEAN]

MailSets ==
    {c \in UNION {[K -> Settings \union BOOLEAN] : K \in SUBSET {"settings", "connected", "tested"}} :
        /\ "settings" \in DOMAIN c => c["settings"] \in Settings
        /\ "connected" \in DOMAIN c => c["connected"] \in BOOLEAN
        /\ "tested" \in DOMAIN c => c["tested"] \in BOOLEAN}

HandlerJob == [op : {"none", "schedule", "mail", "test"} \union CalendarJobs,
               set : CalendarSets \union MailSets, made : SUBSET Nat]

HandlerOK(x) ==
    /\ x.op \in CalendarJobs => x.set \in CalendarSets
    /\ x.op \in {"mail", "test"} => x.set \in MailSets
    /\ x.op # "schedule" => x.made = {}
    /\ x.op = "none" => x = Resting

ConnectionsTypes ==
    /\ calendar \in Calendar /\ channel \in Channel
    /\ grants \in 0..MaxGrants /\ events \in 0..MaxEvents
    /\ proven \subseteq Settings
    /\ upsets \subseteq {"calendar", "mail", "event"}
    /\ handler \in [Handlers -> HandlerJob]
    /\ \A h \in Handlers : HandlerOK(handler[h])

Works(row) == row["status"] = "connected" => row["grant"] # NoGrant

\* As long as requests for the calendar did not cross, the one that runs finds
\* the row it has read, and leaves one that works.
CalendarInv ==
    "calendar" \notin upsets =>
      /\ Works(calendar)
      /\ \A g, h \in Handlers :
           handler[g].op \in CalendarJobs /\ handler[h].op \in CalendarJobs => g = h
      /\ \A h \in Handlers : handler[h].op \in CalendarJobs => Works(Update(calendar, handler[h].set))

\* As long as a test and a configuration did not cross, tests are of the
\* settings in the row, and configurations leave it untested.
MailInv ==
    "mail" \notin upsets =>
      /\ channel.tested => channel.settings \in proven
      /\ \A g, h \in Handlers : ~(handler[g].op = "mail" /\ handler[h].op = "test")
      /\ \A h \in Handlers : handler[h].op = "mail" =>
           IF "tested" \in DOMAIN handler[h].set THEN handler[h].set["tested"] = FALSE
           ELSE channel.tested = FALSE
      /\ \A h \in Handlers : handler[h].op = "test" =>
           "settings" \notin DOMAIN handler[h].set /\ channel.settings \in proven

EventsInv ==
    /\ interviews \subseteq 1..events
    /\ \A h \in Handlers : handler[h].made \subseteq 1..events
    /\ \A e \in (1..events) \ interviews :
         (\E h \in Handlers : e \in handler[h].made) \/ "event" \in upsets

ConnectionsInv == ConnectionsTypes /\ CalendarInv /\ MailInv /\ EventsInv

LEMMA CalendarRow ==
  ASSUME NEW row \in Calendar
  PROVE  /\ DOMAIN row = {"status", "grant", "scope"}
         /\ row["status"] \in Status /\ row["grant"] \in 0..MaxGrants /\ row["scope"] \in BOOLEAN
  BY DEF Calendar

LEMMA CalendarChanged ==
  ASSUME calendar \in Calendar, NEW new \in Calendar
  PROVE  /\ CalendarColumns(new) \in CalendarSets
         /\ Update(calendar, CalendarColumns(new))["status"] = new["status"]
         /\ Update(calendar, CalendarColumns(new))["grant"] = new["grant"]
<1> DEFINE c == CalendarColumns(new)
<1>1. /\ DOMAIN calendar = {"status", "grant", "scope"} /\ DOMAIN new = {"status", "grant", "scope"}
      /\ new["status"] \in Status /\ new["grant"] \in 0..MaxGrants /\ new["scope"] \in BOOLEAN
  BY CalendarRow
<1>2. /\ DOMAIN c \subseteq {"status", "grant", "scope"}
      /\ \A f \in DOMAIN c : c[f] = new[f]
      /\ c = [f \in DOMAIN c |-> new[f]]
      /\ \A f \in {"status", "grant"} : f \notin DOMAIN c => calendar[f] = new[f]
  BY <1>1 DEF CalendarColumns, Config
<1>3. c \in [DOMAIN c -> Status \union (0..MaxGrants) \union BOOLEAN]
  BY <1>1, <1>2
<1>4. c \in CalendarSets
  BY <1>1, <1>2, <1>3 DEF CalendarSets
<1>5. \A f \in {"status", "grant"} : Update(calendar, c)[f] = new[f]
  BY <1>1, <1>2 DEF Update
<1> HIDE DEF c
<1> QED BY <1>4, <1>5 DEF c

LEMMA CalendarUpdated ==
  ASSUME NEW row \in Calendar, NEW c \in CalendarSets
  PROVE  Update(row, c) \in Calendar
<1>1. Update(row, c) = [f \in {"status", "grant", "scope"} |-> IF f \in DOMAIN c THEN c[f] ELSE row[f]]
  BY CalendarRow DEF Update
<1> QED BY <1>1, CalendarRow DEF Calendar, CalendarSets

LEMMA ChannelRow ==
  ASSUME NEW row \in Channel
  PROVE  /\ DOMAIN row = {"settings", "connected", "tested"}
         /\ row["settings"] \in Settings /\ row["connected"] \in BOOLEAN /\ row["tested"] \in BOOLEAN
  BY DEF Channel

LEMMA ChannelChanged ==
  ASSUME NEW row \in Channel, NEW new \in Channel
  PROVE  /\ Changes(row, new) \in MailSets
         /\ \A f \in DOMAIN Changes(row, new) : Changes(row, new)[f] = new[f] /\ new[f] # row[f]
         /\ \A f \in DOMAIN row \ DOMAIN Changes(row, new) : row[f] = new[f]
<1> DEFINE c == Changes(row, new)
<1>1. /\ DOMAIN row = {"settings", "connected", "tested"} /\ DOMAIN new = {"settings", "connected", "tested"}
      /\ new["settings"] \in Settings /\ new["connected"] \in BOOLEAN /\ new["tested"] \in BOOLEAN
  BY ChannelRow
<1>2. /\ DOMAIN c \subseteq {"settings", "connected", "tested"}
      /\ \A f \in DOMAIN c : c[f] = new[f] /\ new[f] # row[f]
      /\ c = [f \in DOMAIN c |-> new[f]]
      /\ \A f \in DOMAIN row \ DOMAIN c : row[f] = new[f]
  BY <1>1 DEF Changes
<1>3. c \in [DOMAIN c -> Settings \union BOOLEAN]
  BY <1>1, <1>2
<1>4. c \in MailSets
  BY <1>1, <1>2, <1>3 DEF MailSets
<1> HIDE DEF c
<1> QED BY <1>2, <1>4 DEF c

LEMMA ChannelUpdated ==
  ASSUME NEW row \in Channel, NEW c \in MailSets
  PROVE  /\ Update(row, c) \in Channel
         /\ Update(row, c)["tested"] = IF "tested" \in DOMAIN c THEN c["tested"] ELSE row["tested"]
         /\ Update(row, c)["settings"] = IF "settings" \in DOMAIN c THEN c["settings"] ELSE row["settings"]
<1>1. Update(row, c) = [f \in {"settings", "connected", "tested"} |->
                          IF f \in DOMAIN c THEN c[f] ELSE row[f]]
  BY ChannelRow DEF Update
<1> QED BY <1>1, ChannelRow DEF Channel, MailSets

LEMMA NoSets == NoChanges \in CalendarSets /\ NoChanges \in MailSets
  BY DEF NoChanges, CalendarSets, MailSets

LEMMA RestingOK ==
    /\ Resting \in HandlerJob /\ HandlerOK(Resting)
    /\ Resting.op = "none" /\ Resting.made = {} /\ Resting.op \notin CalendarJobs
  BY NoSets DEF Resting, HandlerJob, HandlerOK, CalendarJobs

LEMMA ConnectionsStart == ConnectionsInit => ConnectionsInv
<1> SUFFICES ASSUME ConnectionsInit PROVE ConnectionsInv
  OBVIOUS
<1> USE DEF ConnectionsInit
<1>0. MaxGrants \in Nat /\ MaxEvents \in Nat
  BY ConnectionsAssumption
<1>1. \A h \in Handlers : handler[h] = Resting /\ handler[h].op = "none" /\ handler[h].made = {}
                          /\ handler[h].op \notin CalendarJobs
  BY RestingOK
<1>2. ConnectionsTypes
  <2>1. calendar \in Calendar /\ grants \in 0..MaxGrants /\ events \in 0..MaxEvents
    BY <1>0 DEF Calendar, Status, NoGrant
  <2>2. channel \in Channel
    BY DEF Channel
  <2>3. handler \in [Handlers -> HandlerJob] /\ \A h \in Handlers : HandlerOK(handler[h])
    BY RestingOK
  <2> QED BY <2>1, <2>2, <2>3 DEF ConnectionsTypes
<1>3. CalendarInv /\ MailInv
  BY <1>1 DEF CalendarInv, MailInv, Works
<1>4. EventsInv
  BY <1>1, <1>0 DEF EventsInv
<1> QED BY <1>2, <1>3, <1>4 DEF ConnectionsInv

LEMMA HandlerTakes ==
  ASSUME ConnectionsInv, NEW h \in Handlers, NEW x \in HandlerJob, HandlerOK(x), Takes(h, x)
  PROVE  /\ handler' \in [Handlers -> HandlerJob]
         /\ \A g \in Handlers : HandlerOK(handler[g])'
         /\ handler'[h] = x /\ \A g \in Handlers \ {h} : handler'[g] = handler[g]
<1>1. /\ handler' \in [Handlers -> HandlerJob]
      /\ handler'[h] = x /\ \A g \in Handlers \ {h} : handler'[g] = handler[g]
  BY DEF Takes, ConnectionsInv, ConnectionsTypes
<1>2. \A g \in Handlers : HandlerOK(handler[g])
  BY DEF ConnectionsInv, ConnectionsTypes
<1>3. ASSUME NEW g \in Handlers PROVE HandlerOK(handler[g])'
  <2>1. CASE g = h
    BY <1>1, <2>1 DEF HandlerOK
  <2>2. CASE g # h
    BY <1>1, <1>2, <2>2 DEF HandlerOK
  <2> QED BY <2>1, <2>2
<1> QED BY <1>1, <1>3

LEMMA CalendarKept ==
  ASSUME ConnectionsInv, NEW h \in Handlers, NEW x \in HandlerJob, HandlerOK(x), Takes(h, x),
         x.op \notin CalendarJobs, UNCHANGED calendar, upsets \subseteq upsets'
  PROVE  CalendarInv'
<1>1. \A g \in Handlers : handler'[g].op \in CalendarJobs =>
         handler[g].op \in CalendarJobs /\ handler'[g] = handler[g]
  BY HandlerTakes
<1> QED BY <1>1 DEF ConnectionsInv, CalendarInv

LEMMA MailKept ==
  ASSUME ConnectionsInv, NEW h \in Handlers, NEW x \in HandlerJob, HandlerOK(x), Takes(h, x),
         x.op \notin {"mail", "test"}, UNCHANGED <<channel, proven>>, upsets \subseteq upsets'
  PROVE  MailInv'
<1>1. \A g \in Handlers : handler'[g].op \in {"mail", "test"} => handler'[g] = handler[g]
  BY HandlerTakes
<1> QED BY <1>1 DEF ConnectionsInv, MailInv

LEMMA EventsKept ==
  ASSUME ConnectionsInv, NEW h \in Handlers, NEW x \in HandlerJob, HandlerOK(x), Takes(h, x),
         x.made = {}, handler[h].made = {}, UNCHANGED <<events, interviews>>, upsets \subseteq upsets'
  PROVE  EventsInv'
<1>1. \A g \in Handlers : handler'[g].made = handler[g].made
  BY HandlerTakes
<1> QED BY <1>1 DEF ConnectionsInv, EventsInv

\* A request for the calendar has loaded the row.
LEMMA LoadsKeeps ==
  ASSUME ConnectionsInv, NEW h \in Handlers, NEW op \in CalendarJobs, NEW new \in Calendar,
         handler[h] = Resting,
         Takes(h, [Resting EXCEPT !.op = op, !.set = CalendarColumns(new)]),
         upsets' = upsets \union Crossed(CalendarJobs, "calendar"),
         UNCHANGED <<calendar, channel, events, interviews, proven>>,
         grants' \in 0..MaxGrants,
         "calendar" \notin upsets => Works(new)
  PROVE  ConnectionsInv'
<1> DEFINE x == [Resting EXCEPT !.op = op, !.set = CalendarColumns(new)]
<1>1. calendar \in Calendar
  BY DEF ConnectionsInv, ConnectionsTypes
<1>2. /\ CalendarColumns(new) \in CalendarSets
      /\ Update(calendar, CalendarColumns(new))["status"] = new["status"]
      /\ Update(calendar, CalendarColumns(new))["grant"] = new["grant"]
  BY <1>1, CalendarChanged
<1>3. /\ x \in HandlerJob /\ HandlerOK(x) /\ x.op = op /\ x.set = CalendarColumns(new)
      /\ x.made = {} /\ x.op \notin {"mail", "test", "none", "schedule"}
  BY <1>2, RestingOK DEF Resting, HandlerJob, HandlerOK, CalendarJobs
<1>4. Takes(h, x)
  OBVIOUS
<1>5. upsets \subseteq upsets' /\ upsets' \subseteq {"calendar", "mail", "event"}
  BY DEF Crossed, ConnectionsInv, ConnectionsTypes
<1>6. handler[h].made = {}
  BY RestingOK
<1> HIDE DEF x
<1>7. MailInv' /\ EventsInv'
  BY <1>3, <1>4, <1>5, <1>6, MailKept, EventsKept
<1>8. /\ handler' \in [Handlers -> HandlerJob] /\ \A g \in Handlers : HandlerOK(handler[g])'
      /\ handler'[h] = x /\ \A g \in Handlers \ {h} : handler'[g] = handler[g]
  BY <1>3, <1>4, HandlerTakes
<1>9. CalendarInv'
  <2> SUFFICES ASSUME "calendar" \notin upsets' PROVE CalendarInv'
    BY DEF CalendarInv
  <2>1. "calendar" \notin upsets /\ \A g \in Handlers : handler[g].op \notin CalendarJobs
    BY DEF Crossed, Running
  <2>2. \A g \in Handlers : handler'[g].op \in CalendarJobs => g = h
    BY <2>1, <1>8
  <2>3. Works(Update(calendar', handler'[h].set))
    BY <2>1, <1>2, <1>3, <1>8 DEF Works
  <2> QED BY <2>1, <2>2, <2>3 DEF CalendarInv, ConnectionsInv, Works
<1> QED BY <1>5, <1>7, <1>8, <1>9 DEF ConnectionsInv, ConnectionsTypes

LEMMA CalendarCommitsKeeps ==
  ASSUME ConnectionsInv, NEW h \in Handlers, CalendarCommits(h)
  PROVE  ConnectionsInv'
<1>1. /\ handler[h].op \in CalendarJobs /\ calendar' = Update(calendar, handler[h].set)
      /\ Takes(h, Resting) /\ UNCHANGED <<channel, grants, events, interviews, proven, upsets>>
  BY DEF CalendarCommits
<1>2. handler[h].set \in CalendarSets /\ handler[h].made = {}
  BY <1>1 DEF ConnectionsInv, ConnectionsTypes, HandlerOK, CalendarJobs
<1>3. calendar' \in Calendar
  BY <1>1, <1>2, CalendarUpdated DEF ConnectionsInv, ConnectionsTypes
<1>4. MailInv' /\ EventsInv'
  BY <1>1, <1>2, RestingOK, MailKept, EventsKept
<1>5. /\ handler' \in [Handlers -> HandlerJob] /\ \A g \in Handlers : HandlerOK(handler[g])'
      /\ handler'[h] = Resting /\ \A g \in Handlers \ {h} : handler'[g] = handler[g]
  BY <1>1, RestingOK, HandlerTakes
<1>6. CalendarInv'
  <2> SUFFICES ASSUME "calendar" \notin upsets' PROVE CalendarInv'
    BY DEF CalendarInv
  <2>1. Works(calendar)' /\ \A g \in Handlers \ {h} : handler[g].op \notin CalendarJobs
    BY <1>1 DEF CalendarInv, ConnectionsInv, Works
  <2>2. \A g \in Handlers : handler'[g].op \notin CalendarJobs
    BY <2>1, <1>5, RestingOK
  <2> QED BY <2>1, <2>2 DEF CalendarInv
<1> QED BY <1>1, <1>3, <1>4, <1>5, <1>6 DEF ConnectionsInv, ConnectionsTypes

LEMMA ScheduleKeeps ==
  ASSUME ConnectionsInv, NEW h \in Handlers, NEW made \in BOOLEAN, Schedule(h, made)
  PROVE  ConnectionsInv'
<1> DEFINE x == [Resting EXCEPT !.op = "schedule", !.made = IF made THEN {events'} ELSE {}]
<1>0. events \in Nat /\ MaxEvents \in Nat
  BY ConnectionsAssumption DEF ConnectionsInv, ConnectionsTypes
<1>1. /\ handler[h] = Resting /\ Takes(h, x)
      /\ events' = IF made THEN events + 1 ELSE events
      /\ made => events < MaxEvents
      /\ UNCHANGED <<calendar, channel, grants, interviews, proven, upsets>>
  BY DEF Schedule
<1>2. events' \in 0..MaxEvents
  BY <1>0, <1>1 DEF ConnectionsInv, ConnectionsTypes
<1>3. /\ x \in HandlerJob /\ HandlerOK(x) /\ x.op = "schedule"
      /\ x.made = IF made THEN {events'} ELSE {}
  <2>1. (IF made THEN {events'} ELSE {}) \in SUBSET Nat
    BY <1>0, <1>2
  <2> QED BY <2>1, RestingOK DEF Resting, HandlerJob, HandlerOK, CalendarJobs
<1> HIDE DEF x
<1>4. CalendarInv' /\ MailInv'
  BY <1>1, <1>3, CalendarKept, MailKept DEF CalendarJobs
<1>5. /\ handler' \in [Handlers -> HandlerJob] /\ \A g \in Handlers : HandlerOK(handler[g])'
      /\ handler'[h] = x /\ \A g \in Handlers \ {h} : handler'[g] = handler[g]
  BY <1>1, <1>3, HandlerTakes
<1>6. EventsInv'
  <2>1. 1..events' = IF made THEN (1..events) \union {events'} ELSE 1..events
    <3>1. 1..(events + 1) = (1..events) \union {events + 1}
      BY <1>0
    <3> QED BY <1>1, <3>1
  <2>2. \A g \in Handlers : handler[g].made \subseteq handler'[g].made
    BY <1>1, <1>5, RestingOK
  <2>3. x.made \subseteq 1..events' /\ (made => events' \in handler'[h].made)
    BY <1>3, <1>5, <2>1
  <2> QED BY <1>1, <1>5, <2>1, <2>2, <2>3 DEF EventsInv, ConnectionsInv
<1> QED BY <1>1, <1>2, <1>4, <1>5, <1>6 DEF ConnectionsInv, ConnectionsTypes

LEMMA ScheduleCommitsKeeps ==
  ASSUME ConnectionsInv, NEW h \in Handlers, ScheduleCommits(h)
  PROVE  ConnectionsInv'
<1>1. /\ handler[h].op = "schedule" /\ Takes(h, Resting)
      /\ interviews' = interviews \union handler[h].made
      /\ UNCHANGED <<calendar, channel, grants, events, proven, upsets>>
  BY DEF ScheduleCommits
<1>2. CalendarInv' /\ MailInv'
  BY <1>1, RestingOK, CalendarKept, MailKept
<1>3. /\ handler' \in [Handlers -> HandlerJob] /\ \A g \in Handlers : HandlerOK(handler[g])'
      /\ handler'[h] = Resting /\ \A g \in Handlers \ {h} : handler'[g] = handler[g]
  BY <1>1, RestingOK, HandlerTakes
<1>4. EventsInv'
  BY <1>1, <1>3, RestingOK DEF EventsInv, ConnectionsInv
<1> QED BY <1>1, <1>2, <1>3, <1>4 DEF ConnectionsInv, ConnectionsTypes

\* A request for the mail server has loaded the row.
LEMMA SetsChannelKeeps ==
  ASSUME ConnectionsInv, NEW h \in Handlers, NEW op \in {"mail", "test"}, NEW new \in Channel,
         SetsChannel(h, op, new),
         upsets' = upsets \union Crossed({IF op = "mail" THEN "test" ELSE "mail"}, "mail"),
         proven \subseteq proven', proven' \subseteq Settings,
         op = "mail" => new.tested = FALSE,
         op = "test" => new.settings = channel.settings /\ channel.settings \in proven'
  PROVE  ConnectionsInv'
<1> DEFINE x == [Resting EXCEPT !.op = op, !.set = Changes(channel, new)]
<1>1. /\ handler[h] = Resting /\ Takes(h, x)
      /\ UNCHANGED <<calendar, channel, grants, events, interviews>>
  BY DEF SetsChannel
<1>2. channel \in Channel
  BY DEF ConnectionsInv, ConnectionsTypes
<1>3. /\ Changes(channel, new) \in MailSets
      /\ \A f \in DOMAIN Changes(channel, new) :
           Changes(channel, new)[f] = new[f] /\ new[f] # channel[f]
      /\ \A f \in DOMAIN channel \ DOMAIN Changes(channel, new) : channel[f] = new[f]
  BY <1>2, ChannelChanged
<1>4. /\ x \in HandlerJob /\ HandlerOK(x) /\ x.op = op /\ x.set = Changes(channel, new)
      /\ x.made = {} /\ x.op \notin CalendarJobs
  BY <1>3, RestingOK DEF Resting, HandlerJob, HandlerOK, CalendarJobs
<1>5. handler[h].made = {}
  BY <1>1, RestingOK
<1>6. upsets \subseteq upsets' /\ upsets' \subseteq {"calendar", "mail", "event"}
  BY DEF Crossed, ConnectionsInv, ConnectionsTypes
<1> HIDE DEF x
<1>7. CalendarInv' /\ EventsInv'
  BY <1>1, <1>4, <1>5, <1>6, CalendarKept, EventsKept
<1>8. /\ handler' \in [Handlers -> HandlerJob] /\ \A g \in Handlers : HandlerOK(handler[g])'
      /\ handler'[h] = x /\ \A g \in Handlers \ {h} : handler'[g] = handler[g]
  BY <1>1, <1>4, HandlerTakes
<1>9. MailInv'
  <2> SUFFICES ASSUME "mail" \notin upsets' PROVE MailInv'
    BY DEF MailInv
  <2>0. DOMAIN channel = {"settings", "connected", "tested"} /\ "mail" \notin upsets
    BY <1>2, ChannelRow, <1>6
  <2>1. CASE op = "mail"
    <3>1. \A g \in Handlers : handler'[g].op # "test"
      BY <2>1, <1>4, <1>8 DEF Crossed, Running
    <3>2. IF "tested" \in DOMAIN x.set THEN x.set["tested"] = FALSE ELSE channel.tested = FALSE
      BY <2>0, <2>1, <1>3, <1>4
    <3> QED BY <3>1, <3>2, <2>0, <1>1, <1>8 DEF MailInv, ConnectionsInv
  <2>2. CASE op = "test"
    <3>1. \A g \in Handlers : handler'[g].op # "mail"
      BY <2>2, <1>4, <1>8 DEF Crossed, Running
    <3>2. "settings" \notin DOMAIN x.set
      BY <2>2, <1>3, <1>4
    <3> QED BY <3>1, <3>2, <2>0, <2>2, <1>1, <1>8 DEF MailInv, ConnectionsInv
  <2> QED BY <2>1, <2>2
<1> QED BY <1>1, <1>6, <1>7, <1>8, <1>9 DEF ConnectionsInv, ConnectionsTypes

LEMMA MailCommitsKeeps ==
  ASSUME ConnectionsInv, NEW h \in Handlers, MailCommits(h)
  PROVE  ConnectionsInv'
<1>1. /\ handler[h].op \in {"mail", "test"} /\ channel' = Update(channel, handler[h].set)
      /\ Takes(h, Resting) /\ UNCHANGED <<calendar, grants, events, interviews, proven, upsets>>
  BY DEF MailCommits
<1>2. handler[h].set \in MailSets /\ handler[h].made = {} /\ channel \in Channel
  BY <1>1 DEF ConnectionsInv, ConnectionsTypes, HandlerOK
<1>3. /\ channel' \in Channel
      /\ channel'["tested"] = IF "tested" \in DOMAIN handler[h].set THEN handler[h].set["tested"]
                              ELSE channel["tested"]
      /\ channel'["settings"] = IF "settings" \in DOMAIN handler[h].set
                                THEN handler[h].set["settings"] ELSE channel["settings"]
  BY <1>1, <1>2, ChannelUpdated
<1>4. CalendarInv' /\ EventsInv'
  BY <1>1, <1>2, RestingOK, CalendarKept, EventsKept
<1>5. /\ handler' \in [Handlers -> HandlerJob] /\ \A g \in Handlers : HandlerOK(handler[g])'
      /\ handler'[h] = Resting /\ \A g \in Handlers \ {h} : handler'[g] = handler[g]
  BY <1>1, RestingOK, HandlerTakes
<1>6. MailInv'
  <2> SUFFICES ASSUME "mail" \notin upsets' PROVE MailInv'
    BY DEF MailInv
  <2>0. "mail" \notin upsets
    BY <1>1
  <2>1. CASE handler[h].op = "mail"
    <3>1. channel'["tested"] = FALSE /\ \A g \in Handlers : handler[g].op # "test"
      BY <2>0, <2>1, <1>3 DEF MailInv, ConnectionsInv
    <3> QED BY <3>1, <2>0, <1>1, <1>5, RestingOK DEF MailInv, ConnectionsInv
  <2>2. CASE handler[h].op = "test"
    <3>1. /\ channel'["settings"] = channel["settings"] /\ channel["settings"] \in proven
          /\ \A g \in Handlers : handler[g].op # "mail"
      BY <2>0, <2>2, <1>3 DEF MailInv, ConnectionsInv
    <3> QED BY <3>1, <2>0, <1>1, <1>5, RestingOK DEF MailInv, ConnectionsInv
  <2> QED BY <1>1, <2>1, <2>2
<1> QED BY <1>1, <1>3, <1>4, <1>5, <1>6 DEF ConnectionsInv, ConnectionsTypes

LEMMA RequestEndsKeeps ==
  ASSUME ConnectionsInv, NEW h \in Handlers, RequestEnds(h)
  PROVE  ConnectionsInv'
<1>1. /\ Takes(h, Resting) /\ upsets' = upsets \union {u \in {"event"} : handler[h].made # {}}
      /\ UNCHANGED <<calendar, channel, grants, events, interviews, proven>>
  BY DEF RequestEnds
<1>2. CalendarInv' /\ MailInv'
  BY <1>1, RestingOK, CalendarKept, MailKept
<1>3. /\ handler' \in [Handlers -> HandlerJob] /\ \A g \in Handlers : HandlerOK(handler[g])'
      /\ handler'[h] = Resting /\ \A g \in Handlers \ {h} : handler'[g] = handler[g]
  BY <1>1, RestingOK, HandlerTakes
<1>4. EventsInv'
  BY <1>1, <1>3, RestingOK DEF EventsInv, ConnectionsInv
<1>5. upsets' \subseteq {"calendar", "mail", "event"}
  BY <1>1 DEF ConnectionsInv, ConnectionsTypes
<1> QED BY <1>1, <1>2, <1>3, <1>4, <1>5 DEF ConnectionsInv, ConnectionsTypes

LEMMA ConnectionsStep == ConnectionsInv /\ [ConnectionsNext]_connectionsVars => ConnectionsInv'
<1> SUFFICES ASSUME ConnectionsInv, [ConnectionsNext]_connectionsVars PROVE ConnectionsInv'
  OBVIOUS
<1>t. /\ calendar \in Calendar /\ channel \in Channel /\ grants \in 0..MaxGrants
      /\ MaxGrants \in Nat
      /\ "calendar" \notin upsets => Works(calendar)
      /\ proven \subseteq Settings
  BY ConnectionsAssumption DEF ConnectionsInv, ConnectionsTypes, CalendarInv
<1>1. ASSUME NEW h \in Handlers, NEW status \in Status, NEW scope \in BOOLEAN,
             Configure(h, status, scope)
      PROVE  ConnectionsInv'
  <2> DEFINE new == [status |-> status, grant |-> Kept, scope |-> scope]
  <2>1. new \in Calendar /\ ("calendar" \notin upsets => Works(new))
    BY <1>1, <1>t, CalendarRow DEF Configure, Kept, Calendar, Works
  <2>2. Loads(h, "configure", new)
    BY <1>1 DEF Configure
  <2> HIDE DEF new
  <2> QED BY <2>1, <2>2, <1>t, LoadsKeeps DEF Loads, CalendarJobs
<1>2. ASSUME NEW h \in Handlers, BeginConnection(h) PROVE ConnectionsInv'
  <2> DEFINE new == [calendar EXCEPT !.status = "ready_to_connect"]
  <2>1. new \in Calendar /\ Works(new)
    BY <1>t DEF Calendar, Works, Status
  <2>2. Loads(h, "connect", new)
    BY <1>2 DEF BeginConnection
  <2> HIDE DEF new
  <2> QED BY <2>1, <2>2, <1>t, LoadsKeeps DEF Loads, CalendarJobs
<1>3. ASSUME NEW h \in Handlers, Callback(h) PROVE ConnectionsInv'
  <2> DEFINE new == [calendar EXCEPT !.status = "connected", !.grant = grants']
  <2>1. grants' \in 0..MaxGrants /\ grants' # 0
    BY <1>3, <1>t DEF Callback
  <2>2. new \in Calendar /\ Works(new)
    BY <1>t, <2>1 DEF Calendar, Works, Status, NoGrant
  <2>3. /\ handler[h] = Resting
        /\ Takes(h, [Resting EXCEPT !.op = "callback", !.set = CalendarColumns(new)])
        /\ upsets' = upsets \union Crossed(CalendarJobs, "calendar")
        /\ UNCHANGED <<calendar, channel, events, interviews, proven>>
    BY <1>3 DEF Callback
  <2> HIDE DEF new
  <2> QED BY <2>1, <2>2, <2>3, LoadsKeeps DEF CalendarJobs
<1>4. ASSUME NEW h \in Handlers, NEW settings \in Settings, NEW complete \in BOOLEAN,
             ConfigureMail(h, settings, complete)
      PROVE  ConnectionsInv'
  <2> DEFINE new == [settings |-> settings, connected |-> complete, tested |-> Untested]
  <2>1. new \in Channel /\ new.tested = FALSE
    BY DEF Channel, Untested
  <2>2. SetsChannel(h, "mail", new) /\ upsets' = upsets \union Crossed({"test"}, "mail")
        /\ proven' = proven
    BY <1>4 DEF ConfigureMail
  <2> HIDE DEF new
  <2> QED BY <2>1, <2>2, <1>t, SetsChannelKeeps
<1>5. ASSUME NEW h \in Handlers, TestMail(h) PROVE ConnectionsInv'
  <2> DEFINE new == [channel EXCEPT !.tested = TRUE]
  <2>1. new \in Channel /\ new.settings = channel.settings /\ channel.settings \in Settings
    BY <1>t DEF Channel
  <2>2. SetsChannel(h, "test", new) /\ upsets' = upsets \union Crossed({"mail"}, "mail")
        /\ proven' = proven \union {channel.settings}
    BY <1>5 DEF TestMail
  <2> HIDE DEF new
  <2> QED BY <2>1, <2>2, <1>t, SetsChannelKeeps
<1>6. CASE UNCHANGED connectionsVars
  BY <1>6 DEF connectionsVars, ConnectionsInv, ConnectionsTypes, CalendarInv, MailInv, EventsInv,
             HandlerOK, Works
<1> QED BY <1>1, <1>2, <1>3, <1>4, <1>5, <1>6, CalendarCommitsKeeps, ScheduleKeeps,
        ScheduleCommitsKeeps, MailCommitsKeeps, RequestEndsKeeps
        DEF ConnectionsNext, CalendarNext, MailNext

LEMMA ConnectionsInvHolds == ConnectionsInv => ConnectionsTypeOK /\ ConnectionsHold
<1> SUFFICES ASSUME ConnectionsInv PROVE ConnectionsTypeOK /\ ConnectionsHold
  OBVIOUS
<1>1. ConnectionsTypeOK
  BY DEF ConnectionsTypeOK, ConnectionsInv, ConnectionsTypes, EventsInv, Channel
<1>2. ConnectionsHold
  BY DEF ConnectionsHold, ConnectionsInv, CalendarInv, MailInv, EventsInv, Works
<1> QED BY <1>1, <1>2

LEMMA PipelineInvHolds == PipelineInv => TypeOK /\ DecisionsHold
<1> SUFFICES ASSUME PipelineInv PROVE TypeOK /\ DecisionsHold
  OBVIOUS
<1>1. TypeOK /\ DecisionsHaveEvidence /\ LinkMatches
  BY DEF PipelineInv
<1>2. SignedIsReleased
  BY DEF PipelineInv, SequentialInv, OfferFine, SignedIsReleased
<1>3. DeletedHasNoActive
  BY DEF PipelineInv, SequentialInv, DeletedHasNoActive
<1> QED BY <1>1, <1>2, <1>3 DEF DecisionsHold, OffersHold

-----------------------------------------------------------------------------
(* The desk: parts that share no row. *)

\* The inductive invariant of the desk is that of every part.
DeskInv == PipelineInv /\ RemindersInv /\ ConnectionsInv /\ MembersInv

LEMMA DeskStart == DeskInit => DeskInv
<1> SUFFICES ASSUME DeskInit PROVE DeskInv
  OBVIOUS
<1>1. Init /\ RemindersInit /\ ConnectionsInit /\ MembersInit
  BY DEF DeskInit
<1> QED BY <1>1, PipelineStart, RemindersStart, ConnectionsStart, MembersStart DEF DeskInv

LEMMA DeskParts ==
  ASSUME [DeskNext]_deskVars
  PROVE  [Next]_vars /\ [RemindersNext]_remindersVars /\ [ConnectionsNext]_connectionsVars
         /\ [MembersNext]_membersVars
<1>1. CASE part = "pipeline" /\ Next /\ UNCHANGED <<remindersVars, connectionsVars, membersVars, part>>
  BY <1>1
<1>2. CASE part = "reminders" /\ RemindersNext /\ UNCHANGED <<vars, connectionsVars, membersVars, part>>
  BY <1>2
<1>3. CASE part = "calendar" /\ CalendarNext /\ UNCHANGED <<vars, remindersVars, membersVars, part>>
  BY <1>3 DEF ConnectionsNext
<1>4. CASE part = "mail" /\ MailNext /\ UNCHANGED <<vars, remindersVars, membersVars, part>>
  BY <1>4 DEF ConnectionsNext
<1>5. CASE part = "members" /\ MembersNext /\ UNCHANGED <<vars, remindersVars, connectionsVars, part>>
  BY <1>5
<1>6. CASE UNCHANGED deskVars
  BY <1>6 DEF deskVars
<1> QED BY <1>1, <1>2, <1>3, <1>4, <1>5, <1>6 DEF DeskNext

LEMMA DeskStep == DeskInv /\ [DeskNext]_deskVars => DeskInv'
<1> SUFFICES ASSUME DeskInv, [DeskNext]_deskVars PROVE DeskInv'
  OBVIOUS
<1>1. [Next]_vars /\ [RemindersNext]_remindersVars /\ [ConnectionsNext]_connectionsVars
      /\ [MembersNext]_membersVars
  BY DeskParts
<1> QED BY <1>1, PipelineStep, RemindersStep, ConnectionsStep, MembersStep DEF DeskInv

THEOREM DeskInvariant == DeskSpec => []DeskInv
  BY DeskStart, DeskStep, PTL DEF DeskSpec

\* What the rows of a job, its applications and offers, of the reminders, the
\* connections and the members hold has its type, whatever requests commit.
THEOREM HiringTypeCorrect == DeskSpec => []HiringTypeOK
<1>1. DeskInv => HiringTypeOK
  BY PipelineInvHolds, RemindersInvHolds, ConnectionsInvHolds, MembersInvHolds DEF DeskInv, HiringTypeOK
<1> QED BY <1>1, DeskInvariant, PTL

\* However requests of hiring.py interleave between what they load and what
\* they commit, nobody is hired or gets an offer without a scorecard, nor is
\* hired without consent, unless the ATS import brought the application in; a
\* released offer has its link and an answered one has not; and as long as no
\* two requests overlap, the signed document states what was released and a
\* deleted job has no active application.
THEOREM DecisionsCorrect == DeskSpec => []DecisionsHold
<1>1. DeskInv => DecisionsHold
  BY PipelineInvHolds DEF DeskInv
<1> QED BY <1>1, DeskInvariant, PTL

\* Nobody is reminded twice of a date, unless a call that had mailed it ended
\* without its commit; what is shown as connected works, unless two requests for
\* its row ran across each other or an interview was not stored; and an
\* organization keeps its owner, members have the status they were given, and
\* an account one organization of its own, unless such requests crossed.
THEOREM DeskCorrect == DeskSpec => []DeskHolds
<1>1. DeskInv => DeskHolds
  BY RemindersInvHolds, ConnectionsInvHolds, MembersInvHolds DEF DeskInv, DeskHolds
<1> QED BY <1>1, DeskInvariant, PTL

\* As long as no two requests overlap, an offer that was accepted or declined
\* is never written again.
THEOREM AnswersAreFinal == DeskSpec => AnswerIsFinal
<1>1. DeskInv /\ [DeskNext]_deskVars =>
        [~overlapped' => \A a \in Applications : offer[a].status \in {"accepted", "declined"} =>
                           offer'[a] = offer[a]]_vars
  <2> SUFFICES ASSUME DeskInv, [DeskNext]_deskVars
               PROVE  ~overlapped' => \A a \in Applications :
                        offer[a].status \in {"accepted", "declined"} => offer'[a] = offer[a]
    OBVIOUS
  <2> QED BY DeskParts, PipelineStep DEF DeskInv, Answered
<1> QED BY <1>1, DeskInvariant, PTL DEF DeskSpec, AnswerIsFinal
=============================================================================
