----------------------------- MODULE TaskScoring ------------------------------
(***************************************************************************)
(* The automatic score of a submission (exams.py): one operator for each   *)
(* way a task is graded, over which expected items the candidate has       *)
(* matched.  How one value is compared with another is not modelled.       *)
(***************************************************************************)
EXTENDS Integers, FiniteSets

CONSTANTS
    Items,      \* checkpoints, cells, form values, answers or questions
    Marks,      \* marks of a task, in hundredths
    MaxWeight   \* bound: weight of a checkpoint, marks of a question

ASSUME ScoringAssumption == IsFiniteSet(Items) /\ Marks \in Nat /\ MaxWeight \in Nat \ {0}

VARIABLES
    task,       \* what is graded and how
    matched,    \* items the candidate has right
    wrong,      \* questions answered wrongly
    score       \* the score and the status that go with it

scoringVars == <<task, matched, wrong, score>>

-----------------------------------------------------------------------------
Kinds == {"checkpoints", "coding", "spreadsheet", "accounting", "english", "mcq"}
Unscored == [marks |-> 0, status |-> "none"]

\* first: cells, form values, listening answers; second: formulas, red flags,
\* reading answers; weight: of a checkpoint, or marks of a question; manual:
\* manual_review_required; share: objective_weight, in
\* parts of the marks, or the marks a wrong answer costs.
Task == [kind : Kinds, first : SUBSET Items, second : SUBSET Items,
         weight : [Items -> 0..MaxWeight], manual : BOOLEAN, share : 0..MaxWeight]

ScoringInit ==
    /\ task \in Task /\ task.first \intersect task.second = {}
    /\ task.kind \in {"checkpoints", "coding", "mcq"} => task.second = {}
    /\ task.kind \notin {"checkpoints", "mcq"} => task.weight = [i \in Items |-> 1]
    /\ task.kind \notin {"english", "mcq"} => task.share = 0
    /\ task.kind \in {"coding", "english", "mcq"} => task.manual
    /\ matched \in SUBSET (task.first \union task.second)
    /\ wrong \in IF task.kind = "mcq" THEN SUBSET (task.first \ matched) ELSE {{}}
    /\ score = Unscored

\* round(a / b)
Rounded(a, b) == (2 * a + b) \div (2 * b)

\* The sum of the weights, as the number of weights of one.
Weight(items) == Cardinality(UNION {{i} \X (1..task.weight[i]) : i \in items})

AutoScored(marks) == [marks |-> marks, status |-> "auto_scored"]
ManualReview(marks) == [marks |-> marks, status |-> "manual_review"]
Reviewed(marks) == IF task.manual THEN ManualReview(marks) ELSE AutoScored(marks)

-----------------------------------------------------------------------------
\* How many items a part has, one when it has none: none of it is matched then.
Asked(expected) == IF expected = {} THEN 1 ELSE Cardinality(expected)

\* The part of a percentage of the marks that goes with the part of expected
\* that is matched.
Part(right, expected, percent) ==
    Rounded(Cardinality(right \intersect expected) * percent * Marks, 100 * Asked(expected))

\* _evaluate_checkpoints; weights below zero count as none.
Checkpoints(right) ==
    IF Weight(task.first) = 0 THEN Unscored
    ELSE Reviewed(Rounded(Weight(right) * Marks, Weight(task.first)))

\* _score_spreadsheet_submission
Spreadsheet(right) == AutoScored(Part(right, task.first \union task.second, 100))

\* Form values carry 65 of 100 marks and red flags 35: the first part is
\* rounded on its own, and the sum again.
Accounting(right) ==
    LET flags == Asked(task.second)
    IN Reviewed(Rounded(100 * flags * Part(right, task.first, 65)
                          + Cardinality(right \intersect task.second) * 35 * Marks,
                        100 * flags))

\* Listening and reading carry half of the objective weight each, whatever
\* their numbers of questions; the sum is rounded once.
English(right) ==
    LET listening == Asked(task.first)
        reading == Asked(task.second)
        heard == Cardinality(right \intersect task.first) * reading
        read == Cardinality(right \intersect task.second) * listening
    IN ManualReview(Rounded(task.share * Marks * (heard + read),
                      2 * MaxWeight * listening * reading))

Floor(n) == IF n < 0 THEN 0 ELSE n

\* The percentage of a paper of questions, each wrong answer costing a share.
Questions(right, errors) ==
    IF Weight(task.first) = 0 THEN Unscored
    ELSE AutoScored(Floor(Rounded((Weight(right) - task.share * Cardinality(errors)) * Marks,
                            Weight(task.first))))

Graded(right, errors) ==
    CASE task.kind = "checkpoints" -> Checkpoints(right)
      [] task.kind = "coding"      -> ManualReview(0)
      [] task.kind = "spreadsheet" -> Spreadsheet(right)
      [] task.kind = "accounting"  -> Accounting(right)
      [] task.kind = "english"     -> English(right)
      [] task.kind = "mcq"         -> Questions(right, errors)

\* _score_task_submission, and the scoring of questions in issued_candidate_submit
Grade ==
    /\ score = Unscored
    /\ score' = Graded(matched, wrong)
    /\ UNCHANGED <<task, matched, wrong>>

ScoringNext == Grade

ScoringSpec == ScoringInit /\ [][ScoringNext]_scoringVars

-----------------------------------------------------------------------------
(* Properties. *)

ScoringTypeOK ==
    /\ task \in Task
    /\ matched \subseteq Items /\ wrong \subseteq Items
    /\ score.marks \in Int /\ score.status \in {"none", "auto_scored", "manual_review"}

\* What the two roundings of Accounting may add to the marks, when the marks
\* are not whole.
Excess == IF task.kind = "accounting" /\ Marks % 100 # 0 THEN 1 ELSE 0

\* A score lies within the marks of the task, one more item matched never
\* lowers it, and one more error never raises it, however the parts of a task
\* are weighed and rounded.
ScoresAreFair ==
    /\ score.marks \in 0..(Marks + Excess)
    /\ score # Unscored =>
         /\ \A i \in (task.first \union task.second) \ (matched \union wrong) :
              Graded(matched \union {i}, wrong).marks >= score.marks
         /\ \A i \in wrong : Graded(matched, wrong \ {i}).marks >= score.marks
=============================================================================
