--------------------------- MODULE EventDelivery ---------------------------
(***************************************************************************)
(* What the product-event pipeline promises for the analytics table: an    *)
(* event that was recorded with its business transaction is delivered, or  *)
(* lost because the bounded stream in between overflowed.  A delivered     *)
(* event stays delivered, and nothing that was not recorded is delivered.  *)
(***************************************************************************)
CONSTANT Events

VARIABLES
    fate,      \* what became of each event
    overflow   \* the stream has dropped entries

vars == <<fate, overflow>>

Init ==
    /\ fate = [e \in Events |-> "none"]
    /\ overflow = FALSE

Move(E, from, to) ==
    /\ \A e \in E : fate[e] = from
    /\ fate' = [e \in Events |-> IF e \in E THEN to ELSE fate[e]]

Record(e) == Move({e}, "none", "recorded") /\ UNCHANGED overflow

Deliver(E) == Move(E, "recorded", "delivered") /\ UNCHANGED overflow

Lose(E) == Move(E, "recorded", "lost") /\ overflow' = TRUE

Overflow == overflow' = TRUE /\ UNCHANGED fate

Next ==
    \/ \E e \in Events : Record(e)
    \/ \E E \in SUBSET Events : Deliver(E) \/ Lose(E)
    \/ Overflow

Settled(e) == fate[e] \in {"delivered", "lost"}

Spec ==
    /\ Init /\ [][Next]_vars
    /\ \A e \in Events : fate[e] = "recorded" ~> Settled(e)
=============================================================================
