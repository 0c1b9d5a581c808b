---------------------------- MODULE ModelTraining -----------------------------
(***************************************************************************)
(* Training the proctor model (proctoring.py, proctor_training.py,         *)
(* proctor_hard_negative.py): reviewers label sessions, an administrator   *)
(* trains on the labels, and the model and its thresholds are two files    *)
(* written one after the other, read by every evaluation of a session.     *)
(***************************************************************************)
EXTENDS Integers, FiniteSets

CONSTANTS
    Judged,   \* completed proctor sessions
    Trainers,   \* requests of administrators that may run at a time
    MaxRuns     \* bound: proctor_model_runs rows

ASSUME TrainingAssumption == MaxRuns \in Nat

VARIABLES
    labels,     \* proctor_training_feedback, by session
    runs,       \* proctor_model_runs, by id
    bundle,     \* supervised_bundle.joblib: the run that wrote it, 0 as shipped
    rules,      \* deduction_rules.json
    curated,    \* hard_negatives.json
    trainer,    \* what each request is doing
    saved,      \* history: sessions an ingestion has saved
    upsets      \* history: files that two requests wrote at a time or one left half written

trainingVars == <<labels, runs, bundle, rules, curated, trainer, saved, upsets>>

-----------------------------------------------------------------------------
Torn == -1
Runs == 1..MaxRuns

Decisions == {"clear", "manual_review", "high_confidence_flag"}

\* truth: what the newest label makes of its session; wrong: some label says
\* that the model was wrong.
Verdict == [truth : {"none", "clear", "suspicious"}, wrong : BOOLEAN]

\* Thresholds, rounded to hundredths.  fitted: the bundle they were computed for.
ShippedRules == [by |-> 0, fitted |-> 0, warning |-> 58, review |-> 73, critical |-> 85]
TornRules == [ShippedRules EXCEPT !.by = Torn]

NoCurated == [torn |-> FALSE, sessions |-> {}]

\* alone: no other training has been writing since this one chose its values.
Resting == [op |-> "none", run |-> 0, new |-> ShippedRules, sessions |-> {}, alone |-> TRUE]

TrainingInit ==
    /\ labels = [s \in Judged |-> [truth |-> "none", wrong |-> FALSE]]
    /\ runs = [r \in Runs |-> "none"]
    /\ bundle = 0
    /\ rules = ShippedRules
    /\ curated = NoCurated
    /\ trainer = [t \in Trainers |-> Resting]
    /\ saved = {}
    /\ upsets = {}

Goes(t, op) == trainer' = [trainer EXCEPT ![t].op = op]
Stops(t) == trainer' = [trainer EXCEPT ![t] = Resting]

OthersAt(t, ops) == \E u \in Trainers \ {t} : trainer[u].op \in ops

\* The rules are read by every evaluation, and half a file cannot be parsed.
Evaluable == rules.by # Torn

-----------------------------------------------------------------------------
\* _derive_truth_label: a decision of high confidence counts as clear.
Suspicious(decision) == decision = "manual_review"
Truth(label, decision) ==
    IF (label = "correct") = Suspicious(decision) THEN "suspicious" ELSE "clear"

\* save_proctor_training_feedback, save_preview_training_feedback: a label is
\* about the decision the model takes now.
GiveLabel(s, label, decision) ==
    /\ Evaluable
    /\ labels' = [labels EXCEPT ![s] = [truth |-> Truth(label, decision),
                                        wrong |-> @.wrong \/ label = "incorrect"]]
    /\ UNCHANGED <<runs, bundle, rules, curated, trainer, saved, upsets>>

Labelled == {s \in Judged : labels[s].truth # "none"}

\* Sessions without a label are evaluated in their place when labels are few.
Pseudo == Judged \ Labelled

-----------------------------------------------------------------------------
(* admin_train_proctor_model *)

StartRun(t) ==
    /\ trainer[t] = Resting
    /\ \E r \in Runs :
         /\ runs[r] = "none" /\ \A q \in Runs : runs[q] = "none" => r <= q
         /\ runs' = [runs EXCEPT ![r] = "running"]
         /\ trainer' = [trainer EXCEPT ![t] = [Resting EXCEPT !.op = "collect", !.run = r]]
    /\ UNCHANGED <<labels, bundle, rules, curated, saved, upsets>>

Both == {"clear", "suspicious"}

\* The classes of the samples; half a file of hard negatives counts as none.
Classes(guesses) ==
    {labels[s].truth : s \in Labelled} \union {guesses[s] : s \in DOMAIN guesses} \union
    {c \in {"clear"} : ~curated.torn /\ curated.sessions # {}}

Least(a, b) == IF a < b THEN a ELSE b
Most(a, b) == IF a > b THEN a ELSE b

\* Thresholds around the one that validation chose.
Fitted(r, review, strict) ==
    [by |-> r, fitted |-> r, review |-> review,
     warning |-> Most(20, review - (IF strict THEN 14 ELSE 8)),
     critical |-> Least(97, IF strict THEN Most(72, review + 14) ELSE Most(70, review + 18))]

\* Thresholds from the 70th and 90th percentile of past evaluations.
Recalibrated(r, p70, p90, strict) ==
    LET review == IF strict THEN Most(48, Least(88, p70)) ELSE Most(52, Least(90, p70 + 3))
        critical == IF strict THEN Least(97, Most(review + 14, p90))
                    ELSE Least(97, Most(review + 18, p90 + 4))
    IN [by |-> r, fitted |-> bundle, review |-> review,
        warning |-> IF strict THEN Most(20, review - 13) ELSE Most(24, review - 10),
        critical |-> IF critical <= review THEN Least(97, review + 10) ELSE critical]

\* Percentages that fall on the two sides of every bound.
Percents == {0, 100}
Reviews == {15, 92}

Writing == {"bundle", "bundling", "rules", "ruling"}

\* t has chosen what it will write.
Chooses(t, op, new) ==
    /\ trainer' = [u \in Trainers |->
         IF u = t THEN [trainer[t] EXCEPT !.op = op, !.new = new, !.alone = ~OthersAt(t, Writing)]
         ELSE [trainer[u] EXCEPT !.alone = @ /\ trainer[u].op \notin Writing]]
    /\ upsets' = upsets \union {u \in {"model"} : OthersAt(t, Writing)}

\* Both classes are needed to fit a model; with one of them only the thresholds
\* are set again.
Collect(t) ==
    /\ trainer[t].op = "collect"
    /\ Pseudo # {} => Evaluable
    /\ \E guesses \in [Pseudo -> Both], strict \in BOOLEAN :
         \/ /\ Classes(guesses) = Both
            /\ \E review \in Reviews :
                 Chooses(t, "bundle", Fitted(trainer[t].run, review, strict))
         \/ /\ Classes(guesses) # Both /\ Evaluable
            /\ \E p70, p90 \in Percents :
                 /\ p70 <= p90
                 /\ Chooses(t, "rules", Recalibrated(trainer[t].run, p70, p90, strict))
    /\ UNCHANGED <<labels, runs, bundle, rules, curated, saved>>

OpenBundle(t) ==
    /\ trainer[t].op = "bundle"
    /\ bundle' = Torn
    /\ Goes(t, "bundling")
    /\ UNCHANGED <<labels, runs, rules, curated, saved, upsets>>

WriteBundle(t) ==
    /\ trainer[t].op = "bundling"
    /\ bundle' = trainer[t].run
    /\ Goes(t, "rules")
    /\ UNCHANGED <<labels, runs, rules, curated, saved, upsets>>

\* The new values are put over what the file holds.
Merged(old, new) == new

OpenRules(t) ==
    /\ trainer[t].op = "rules"
    /\ trainer' = [trainer EXCEPT ![t].op = "ruling", ![t].new = Merged(rules, @)]
    /\ rules' = TornRules
    /\ UNCHANGED <<labels, runs, bundle, curated, saved, upsets>>

\* A whole training that no other one crossed sets right what went wrong before.
WriteRules(t) ==
    /\ trainer[t].op = "ruling"
    /\ rules' = trainer[t].new
    /\ Goes(t, "done")
    /\ upsets' = upsets \ {u \in {"model"} :
                             trainer[t].alone /\ trainer[t].new.fitted = trainer[t].run}
    /\ UNCHANGED <<labels, runs, bundle, curated, saved>>

EndRun(t) ==
    /\ trainer[t].op = "done"
    /\ runs' = [runs EXCEPT ![trainer[t].run] = "completed"]
    /\ Stops(t)
    /\ UNCHANGED <<labels, bundle, rules, curated, saved, upsets>>

Training == {"collect", "done"} \union Writing

Halfway(t) == upsets' = upsets \union {u \in {"model"} : trainer[t].op \in Writing}

\* Anything that is raised on the way, an evaluation that cannot read its rules
\* among it, fails the run.
RunFails(t) ==
    /\ trainer[t].op \in Training
    /\ runs' = [runs EXCEPT ![trainer[t].run] = "failed"]
    /\ Halfway(t)
    /\ Stops(t)
    /\ UNCHANGED <<labels, bundle, rules, curated, saved>>

\* The process ends: the run stays as running.
RunDies(t) ==
    /\ trainer[t].op \in Training
    /\ Halfway(t)
    /\ Stops(t)
    /\ UNCHANGED <<labels, runs, bundle, rules, curated, saved>>

-----------------------------------------------------------------------------
(* ingest_hard_negative_sessions_from_feedback *)

\* Half a file is read as an empty one.
Existing == IF curated.torn THEN {} ELSE curated.sessions

\* Labels that say the model was wrong, be there a newer one or not; a session
\* that did not look suspicious is passed over.
Ingest(t) ==
    /\ trainer[t] = Resting
    /\ \E wrong \in SUBSET {s \in Judged : labels[s].wrong} :
         trainer' = [trainer EXCEPT ![t] = [Resting EXCEPT !.op = "ingest",
                                             !.sessions = Existing \union wrong]]
    /\ upsets' = upsets \union {u \in {"curated"} : OthersAt(t, {"ingest", "saving"})}
    /\ UNCHANGED <<labels, runs, bundle, rules, curated, saved>>

OpenCurated(t) ==
    /\ trainer[t].op = "ingest"
    /\ curated' = [torn |-> TRUE, sessions |-> {}]
    /\ Goes(t, "saving")
    /\ UNCHANGED <<labels, runs, bundle, rules, saved, upsets>>

SaveCurated(t) ==
    /\ trainer[t].op = "saving"
    /\ curated' = [torn |-> FALSE, sessions |-> trainer[t].sessions]
    /\ saved' = saved \union trainer[t].sessions
    /\ Stops(t)
    /\ UNCHANGED <<labels, runs, bundle, rules, upsets>>

IngestDies(t) ==
    /\ trainer[t].op \in {"ingest", "saving"}
    /\ upsets' = upsets \union {u \in {"curated"} : trainer[t].op = "saving"}
    /\ Stops(t)
    /\ UNCHANGED <<labels, runs, bundle, rules, curated, saved>>

TrainingNext ==
    \/ \E s \in Judged, label \in {"correct", "incorrect"}, decision \in Decisions :
         GiveLabel(s, label, decision)
    \/ \E t \in Trainers :
         \/ StartRun(t) \/ Collect(t) \/ OpenBundle(t) \/ WriteBundle(t)
         \/ OpenRules(t) \/ WriteRules(t) \/ EndRun(t) \/ RunFails(t) \/ RunDies(t)
         \/ Ingest(t) \/ OpenCurated(t) \/ SaveCurated(t) \/ IngestDies(t)

TrainingSpec == TrainingInit /\ [][TrainingNext]_trainingVars

-----------------------------------------------------------------------------
(* Properties. *)

TrainingTypeOK ==
    /\ labels \in [Judged -> Verdict]
    /\ runs \in [Runs -> {"none", "running", "completed", "failed"}]
    /\ bundle \in {Torn} \union (0..MaxRuns)
    /\ {rules.by, rules.fitted} \subseteq {Torn} \union (0..MaxRuns)
    /\ curated.sessions \subseteq Judged /\ saved \subseteq Judged
    /\ upsets \subseteq {"model", "curated"}

\* Between trainings the thresholds in force are those computed for the model in
\* force, unless two trainings overlapped or one stopped between the two files
\* and no whole training has followed; and the critical threshold is above the one of review.
ThresholdsFitModel ==
    /\ "model" \in upsets \/ (\E t \in Trainers : trainer[t].op \in Writing) \/
       (Evaluable /\ rules.fitted = bundle)
    /\ Evaluable => rules.review < rules.critical /\ rules.critical <= 97

\* A session that was curated stays curated, unless two ingestions overlapped or
\* one stopped while it wrote.
CuratedKept ==
    \/ "curated" \in upsets
    \/ \E t \in Trainers : trainer[t].op = "saving"
    \/ ~curated.torn /\ saved \subseteq curated.sessions

\* What the training leaves behind is of one piece: its model and its labels.
TrainingHolds == ThresholdsFitModel /\ CuratedKept
=============================================================================
