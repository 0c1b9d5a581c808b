-------------------------- MODULE MCAttemptRecord --------------------------
(* The record of an attempt, the paper it is drawn from, the recordings it *)
(* names, its score and the model that judges its proctoring: parts that   *)
(* share no row, so a behaviour is about one of them.                      *)
EXTENDS AttemptRecord, AssessmentPaper, ReviewEvidence, TaskScoring, ModelTraining, TLC

VARIABLE part

Parts == {"record", "paper", "evidence", "score", "training"}

\* Which request issues is of interest to the record only, what is graded to
\* the score only.
AttemptInit ==
    /\ PaperInit /\ EvidenceInit /\ TrainingInit /\ part \in Parts
    /\ IF part = "record" THEN Init
       ELSE /\ issue = NewIssue /\ submitted = FALSE
            /\ req = [w \in Workers |-> Idle]
            /\ raised = {} /\ overlapped = FALSE
    /\ IF part = "score" THEN ScoringInit
       ELSE /\ task = [kind |-> "coding", first |-> {}, second |-> {},
                       weight |-> [i \in Items |-> 1], manual |-> TRUE, share |-> 0]
            /\ matched = {} /\ wrong = {} /\ score = Unscored
    /\ part # "paper" => ~library /\ exam.limit = 1

AttemptNext ==
    \/ /\ part = "record" /\ Next
       /\ UNCHANGED <<paperVars, evidenceVars, scoringVars, trainingVars, part>>
    \/ /\ part = "paper" /\ PaperNext
       /\ UNCHANGED <<vars, evidenceVars, scoringVars, trainingVars, part>>
    \/ /\ part = "evidence" /\ EvidenceNext
       /\ UNCHANGED <<vars, paperVars, scoringVars, trainingVars, part>>
    \/ /\ part = "score" /\ ScoringNext
       /\ UNCHANGED <<vars, paperVars, evidenceVars, trainingVars, part>>
    \/ /\ part = "training" /\ TrainingNext
       /\ UNCHANGED <<vars, paperVars, evidenceVars, scoringVars, part>>

attemptVars == <<vars, paperVars, evidenceVars, scoringVars, trainingVars, part>>
AttemptSpec == AttemptInit /\ [][AttemptNext]_attemptVars

\* Requests are alike, in every part: the cfg names the same for each.
Symmetric == Permutations(Workers \union Editors \union Uploads \union Trainers) \union
             Permutations(Signals)

\* What each part keeps in its rows.
AttemptTypeOK ==
    /\ TypeOK /\ PaperTypeOK /\ EvidenceTypeOK /\ ScoringTypeOK /\ TrainingTypeOK

\* A published paper can be drawn from, its total is right, and an attempt is
\* scored, and reviewed, on the questions it was shown.
PaperHolds == PublishedIsComplete /\ TotalIsSum /\ ScoredAsShown /\ ReviewedAsScored

\* What a recruiter reads of an attempt: the questions of its paper, the
\* recordings it names, a fair score and a model that is one training's.
ReportHolds == PaperHolds /\ AnswerIsThere /\ ScoresAreFair /\ TrainingHolds
=============================================================================
