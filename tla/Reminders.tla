------------------------------ MODULE Reminders -------------------------------
(***************************************************************************)
(* The hiring reminders (run_hiring_automations): a call from outside      *)
(* mails everybody who is due and records the mails in one commit at its   *)
(* end.  The unique automation_key of a recorded mail is what keeps the    *)
(* next call, or another at the same time, from mailing it again.          *)
(***************************************************************************)
EXTENDS Naturals, FiniteSets

CONSTANTS
    Runs,       \* calls that may be in progress at a time
    Keys,       \* automation_keys: an issue, interview or onboarding and the
                \* day it falls due on
    MaxMails    \* bound: times one reminder is mailed

ASSUME RemindersAssumption == MaxMails \in Nat

VARIABLES
    due,        \* whether each key is due
    delivery,   \* hiring_automation_deliveries: status by automation_key
    call,       \* what each call is doing
    mailed,     \* history: reminders that were mailed, by key
    lost        \* history: keys in the batch of a call that ended without its commit

remindersVars == <<due, delivery, call, mailed, lost>>

-----------------------------------------------------------------------------
\* todo: keys of the rows the call has loaded; batch: status of the rows it has
\* flushed; waits: keys whose insert waits for another transaction.
NoBatch == [k \in {} |-> "none"]
Ended == [running |-> FALSE, todo |-> {}, batch |-> NoBatch, waits |-> {}]

RemindersInit ==
    /\ due \in [Keys -> BOOLEAN]
    /\ delivery = [k \in Keys |-> "none"]
    /\ call = [r \in Runs |-> Ended]
    /\ mailed = [k \in Keys |-> 0]
    /\ lost = {}

Batched(r) == DOMAIN call[r].batch

\* The invitation is extended or answered, the interview or the start date is
\* moved: the key of the old day is no longer due, that of another may be.
MoveDate(k, other) ==
    /\ due[k]
    /\ due' = [due EXCEPT ![k] = FALSE, ![other] = (other # k)]
    /\ UNCHANGED <<delivery, call, mailed, lost>>

StartRun(r) ==
    /\ ~call[r].running
    /\ call' = [call EXCEPT ![r] = [Ended EXCEPT !.running = TRUE,
                                                !.todo = {k \in Keys : due[k]}]]
    /\ UNCHANGED <<due, delivery, mailed, lost>>

\* _automation_delivery: there is a row for this key.
Claimed(k) == delivery[k] # "none"

Skip(r, k) ==
    /\ call[r].waits = {}
    /\ k \in call[r].todo /\ Claimed(k)
    /\ call' = [call EXCEPT ![r].todo = @ \ {k}]
    /\ UNCHANGED <<due, delivery, mailed, lost>>

Holders(k) == {q \in Runs : k \in Batched(q)}

\* The row is to be flushed: that waits while another transaction has its key.
Claim(r, k) ==
    /\ call[r].waits = {}
    /\ k \in call[r].todo /\ ~Claimed(k)
    /\ call' = [call EXCEPT ![r].todo = @ \ {k}, ![r].waits = {k}]
    /\ UNCHANGED <<due, delivery, mailed, lost>>

Outcome(went) == IF went THEN "sent" ELSE "failed"

MustWait(k) == Claimed(k) \/ Holders(k) # {}

\* _send_automation_email: a mail server that refuses is recorded, too, and the
\* key is not tried again.
Send(r, k, went) ==
    /\ k \in call[r].waits
    /\ ~MustWait(k)
    /\ went => mailed[k] < MaxMails
    /\ call' = [call EXCEPT ![r].waits = {},
                  ![r].batch = [key \in DOMAIN @ \union {k} |->
                                  IF key = k THEN Outcome(went) ELSE call[r].batch[key]]]
    /\ mailed' = [mailed EXCEPT ![k] = IF went THEN @ + 1 ELSE @]
    /\ UNCHANGED <<due, delivery, lost>>

FinishRun(r) ==
    /\ call[r].running
    /\ call[r].todo = {} /\ call[r].waits = {}
    /\ delivery' = [k \in Keys |-> IF k \in Batched(r) THEN call[r].batch[k] ELSE delivery[k]]
    /\ call' = [call EXCEPT ![r] = Ended]
    /\ UNCHANGED <<due, mailed, lost>>

\* The key was stored by the transaction it waited for, two calls wait for each
\* other and the database ends one, or the process ends: every row the call has
\* flushed is gone, and its mails are out.
AbortRun(r) ==
    /\ call[r].running
    /\ lost' = lost \union Batched(r)
    /\ call' = [call EXCEPT ![r] = Ended]
    /\ UNCHANGED <<due, delivery, mailed>>

RemindersNext ==
    \/ \E k, other \in Keys : MoveDate(k, other)
    \/ \E r \in Runs :
         \/ StartRun(r) \/ FinishRun(r) \/ AbortRun(r)
         \/ \E k \in Keys :
              \/ Skip(r, k) \/ Claim(r, k)
              \/ \E went \in BOOLEAN : Send(r, k, went)

RemindersSpec == RemindersInit /\ [][RemindersNext]_remindersVars

-----------------------------------------------------------------------------
(* Properties. *)

RemindersTypeOK ==
    /\ due \in [Keys -> BOOLEAN]
    /\ delivery \in [Keys -> {"none", "sent", "failed"}]
    /\ mailed \in [Keys -> 0..MaxMails] /\ lost \subseteq Keys
    /\ \A r \in Runs :
         /\ call[r].running \in BOOLEAN
         /\ call[r].todo \union call[r].waits \union Batched(r) \subseteq Keys
         /\ Cardinality(call[r].waits) <= 1

\* "Run safe, idempotent hiring reminders" (hiring.py:2520): nobody is reminded
\* twice of one date, and what was mailed is on record, whichever calls run at
\* the same time and in whatever order they take their rows: unless a call that
\* had mailed it ended without its commit.
RemindedOnce ==
    \A k \in Keys :
        /\ mailed[k] > 1 => k \in lost
        /\ Cardinality(Holders(k)) <= 1
        /\ delivery[k] = "sent" => mailed[k] > 0
        /\ mailed[k] > 0 => delivery[k] = "sent" \/ Holders(k) # {} \/ k \in lost
=============================================================================
