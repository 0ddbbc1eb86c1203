------------------------------ MODULE MCBudget ------------------------------
(***************************************************************************)
(* Instances of Budget for TLC.                                            *)
(***************************************************************************)
EXTENDS Budget, TLC

CONSTANTS r1, r2,    \* requests
          all, ann   \* what scopes read

TwoRequests == {r1, r2}
Symmetry    == Permutations(TwoRequests)   \* both have the same key

\* Tokens over one unit of time for everyone, cost over two units for each key.
TwoBudgets == <<[unit |-> "tokens", limit |-> 3, window |-> 1],
                [unit |-> "cost_micros", limit |-> 2, window |-> 2]>>

SameKey == [r \in Requests |-> <<all, ann>>]

Spend(t, c) == [tokens |-> t, cost_micros |-> c]

\* Nothing, an unpriced model, and a priced one.
Some == {Spend(0, 0), Spend(1, 0), Spend(2, 2)}
=============================================================================
