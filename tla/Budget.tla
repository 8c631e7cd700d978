------------------------------- MODULE Budget -------------------------------
(***************************************************************************)
(* What PeerBudget (clove-core/src/budget.rs) promises its callers: at     *)
(* most Limit slots are out at any moment, a claim gives one slot to one   *)
(* holder, and dropping a PeerSlot gives that one back.  Seats shows that  *)
(* the atomic counter, with dial and accept threads of several torrents    *)
(* racing on it, implements this.                                          *)
(***************************************************************************)
EXTENDS Naturals, FiniteSets

CONSTANTS Holder,   \* whatever may hold a slot
          Limit     \* PeerBudget.limit

VARIABLE held       \* the holders of a PeerSlot

BudgetInit == held = {}

Claim(h) ==
    /\ h \notin held
    /\ Cardinality(held) < Limit
    /\ held' = held \cup {h}

Return(h) ==
    /\ h \in held
    /\ held' = held \ {h}

BudgetNext == \E h \in Holder : Claim(h) \/ Return(h)

BudgetSpec == BudgetInit /\ [][BudgetNext]_held
=============================================================================
