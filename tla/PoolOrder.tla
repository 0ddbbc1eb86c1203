----------------------------- MODULE PoolOrder -----------------------------
(***************************************************************************)
(* How a pool (src/pool.rs) turns its listed targets into the order a      *)
(* request tries them: `order_for` and the two pickers it calls,           *)
(* `weighted_turn` and `least_loaded`.  Pure operators, no state.          *)
(*                                                                         *)
(* A pool's configuration c is a record with at least                      *)
(*   c.targets   the targets as listed, `targets` then `backup`            *)
(*   c.backup    the set of those listed under `backup`                    *)
(*   c.weight    each target's weight, at least 1                          *)
(*   c.balance   "priority", "round_robin", "least_conn" or "hash"         *)
(*   c.managed   FALSE for a route with a single `target`: no health kept  *)
(*                                                                         *)
(* The rendezvous score of a key (`hash64`, `mix`, `score`) is abstracted  *)
(* to the ranking it induces: a sequence of all the targets, best first.   *)
(***************************************************************************)
EXTENDS Integers, Sequences, FiniteSets

CONSTANTS NoKey,     \* the request has no hash key
          NoTarget   \* the request's cookie names no target of the pool

(***************************************************************************)
(* Iterator helpers of the Rust code: `.nth(n)` over the indices in S,     *)
(* and `rotate_left`.                                                      *)
(***************************************************************************)
Nth(S, n) == CHOOSE i \in S : Cardinality({j \in S : j < i}) = n

RotateLeft(s, k) == SubSeq(s, k + 1, Len(s)) \o SubSeq(s, 1, k)

Least(S) == CHOOSE x \in S : \A y \in S : x <= y

Elements(s) == {s[i] : i \in DOMAIN s}

(***************************************************************************)
(* Interleaved weighted round-robin.  walk[k, done] is the loop: rounds    *)
(* before `done` are already counted out of k, and the rounds in which the *)
(* same targets take part are skipped together.  The result is 0-based, as *)
(* in the code.                                                            *)
(***************************************************************************)
TotalWeight(tier, weight) ==
    LET sum[i \in 0..Len(tier)] ==
            IF i = 0 THEN 0 ELSE sum[i - 1] + weight[tier[i]]
    IN  sum[Len(tier)]

Taking(tier, weight, done) == {i \in DOMAIN tier : weight[tier[i]] > done}

WeightedTurn(tier, weight, turn) ==
    LET total == TotalWeight(tier, weight)
        walk[k \in 0..total, done \in 0..total] ==
            LET taking == Taking(tier, weight, done)
                next   == Least({weight[tier[i]] : i \in taking})
                span   == (next - done) * Cardinality(taking)
            IN  IF k < span
                THEN Nth(taking, k % Cardinality(taking))
                ELSE walk[k - span, next]
    IN  walk[turn % total, 0] - 1

(***************************************************************************)
(* Least connections: the least (in flight + 1) / weight, ties in turn.    *)
(* Here all the loads are read at one instant; the module LeastConn reads  *)
(* them one by one, as the code does.                                      *)
(***************************************************************************)
LeastLoaded(tier, weight, load, turn) ==
    LET atMost(i, j) == (load[tier[i]] + 1) * weight[tier[j]]
                            <= (load[tier[j]] + 1) * weight[tier[i]]
        tied == {i \in DOMAIN tier : \A j \in DOMAIN tier : atMost(i, j)}
    IN  Nth(tied, turn % Cardinality(tied)) - 1

(***************************************************************************)
(* One tier of the order: the targets of S that are backups or not, in the *)
(* order listed, then ranked by the key or rotated to start from the one   *)
(* whose turn it is.                                                       *)
(***************************************************************************)
Tier(c, S, backup) ==
    SelectSeq(c.targets, LAMBDA t : t \in S /\ (t \in c.backup) = backup)

\* Mutant: a key picks by its hash modulo the number of targets in rotation.
BalancedMutant(c, tier, load, turn, rank) ==
    LET hash == IF rank = NoKey THEN turn ELSE CHOOSE i \in DOMAIN c.targets : c.targets[i] = rank[1]
    IN  IF tier = <<>> THEN tier ELSE RotateLeft(tier, hash % Len(tier))

Balanced(c, tier, load, turn, rank) ==
    CASE rank # NoKey -> SelectSeq(rank, LAMBDA t : t \in Elements(tier))
      [] rank = NoKey /\ tier = <<>> -> tier
      [] rank = NoKey /\ tier # <<>> /\ c.balance = "least_conn" ->
            RotateLeft(tier, LeastLoaded(tier, c.weight, load, turn))
      [] rank = NoKey /\ tier # <<>> /\ c.balance # "least_conn" ->
            RotateLeft(tier, WeightedTurn(tier, c.weight, turn))

Tiers(c, S, load, turn, rank) ==
    Balanced(c, Tier(c, S, FALSE), load, turn, rank)
        \o Balanced(c, Tier(c, S, TRUE), load, turn, rank)

(***************************************************************************)
(* The sticky target goes first, unless that would put a backup ahead of a *)
(* target that is not.                                                     *)
(***************************************************************************)
StickyFirst(c, out, stuck) ==
    IF stuck \in Elements(out) /\ (stuck \in c.backup) = (out[1] \in c.backup)
    THEN <<stuck>> \o SelectSeq(out, LAMBDA t : t # stuck)
    ELSE out

(***************************************************************************)
(* `order_for`: up is the set of targets in rotation, turn the value the   *)
(* pool's turn counter gave (0 for "priority" and for a keyed request).    *)
(***************************************************************************)
OrderFor(c, up, load, turn, rank, stuck) ==
    LET live == up \cap Elements(c.targets)
        out  == Tiers(c, IF live = {} THEN Elements(c.targets) ELSE live,
                      load, turn, rank)
    IN  IF c.managed THEN StickyFirst(c, out, stuck) ELSE c.targets

(***************************************************************************)
(* What every balance promises of the order, whichever target it starts    *)
(* from: the targets in rotation, or all of them when none is, each once,  *)
(* no backup before a target that is not one.  Balancing checks that       *)
(* `order_for` keeps this promise; UpstreamPool relies on nothing else.    *)
(***************************************************************************)
Tried(c, up) ==
    LET live == up \cap Elements(c.targets)
    IN  IF live = {} \/ ~c.managed THEN Elements(c.targets) ELSE live

Orders(c, up) ==
    LET S == Tried(c, up)
    IN  {s \in [1..Cardinality(S) -> S] :
            \A i, j \in DOMAIN s :
                i < j => /\ s[i] # s[j]
                         /\ s[i] \in c.backup => s[j] \in c.backup}
=============================================================================
