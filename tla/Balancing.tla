----------------------------- MODULE Balancing -----------------------------
(***************************************************************************)
(* One pool's requests taking their turns (src/pool.rs, `order_for`) while *)
(* targets leave rotation and return.  The pool's turn counter is the only *)
(* state the order keeps; the rest here records what it did, so that the   *)
(* promises of the documentation can be stated over several requests.      *)
(***************************************************************************)
EXTENDS PoolOrder

CONSTANTS Pools,     \* the configurations the pool may have (see PoolOrder)
          Ranks,     \* the rankings the keys of requests may induce, or {NoKey}
          Stuck,     \* what a request's sticky cookie may name
          MaxTurn    \* bound: requests followed by the model

VARIABLES pool,   \* the pool's configuration
          up,     \* the targets in rotation
          turn,   \* the pool's turn counter
          order,  \* the order of the last request
          asked,  \* what the last request asked for: its ranking and sticky target
          firsts  \* history: whom the turn chose since rotation last changed
vars == <<pool, up, turn, order, asked, firsts>>

Listed == Elements(pool.targets)
Idle   == [t \in Listed |-> 0]

ASSUME PoolAssumption ==
    /\ \A c \in Pools : /\ c.managed /\ c.targets # <<>>
                        /\ c.backup \subseteq Elements(c.targets)
                        /\ \A t \in Elements(c.targets) : c.weight[t] \in Nat \ {0}
    /\ MaxTurn \in Nat

Init == /\ pool \in Pools
        /\ up = Listed
        /\ turn = 0
        /\ order = pool.targets
        /\ asked = [rank |-> NoKey, stuck |-> NoTarget]
        /\ firsts = <<>>

(***************************************************************************)
(* Whether a request advances the turn counter, and the turn it takes.     *)
(***************************************************************************)
TakesTurn(rank) == pool.balance # "priority" /\ rank = NoKey

(***************************************************************************)
(* A request asks for its order.  rank is its key's ranking, which only a  *)
(* pool that balances by hash uses.                                        *)
(***************************************************************************)
Request(rank, stuck) ==
    LET t == IF TakesTurn(rank) THEN turn ELSE 0
    IN  /\ turn < MaxTurn
        /\ rank # NoKey => pool.balance = "hash"
        /\ turn' = IF TakesTurn(rank) THEN turn + 1 ELSE turn
        /\ order' = OrderFor(pool, up, Idle, t, rank, stuck)
        /\ asked' = [rank |-> rank, stuck |-> stuck]
        /\ firsts' = IF TakesTurn(rank)
                     THEN Append(firsts, OrderFor(pool, up, Idle, t, rank, NoTarget)[1])
                     ELSE firsts
        /\ UNCHANGED <<pool, up>>

(***************************************************************************)
(* A target leaves rotation or returns to it (module UpstreamPool says     *)
(* when).                                                                  *)
(***************************************************************************)
Leave(t) ==
    /\ t \in up
    /\ up' = up \ {t}
    /\ firsts' = <<>>
    /\ UNCHANGED <<pool, turn, order, asked>>

Return(t) ==
    /\ t \in Listed \ up
    /\ up' = up \union {t}
    /\ firsts' = <<>>
    /\ UNCHANGED <<pool, turn, order, asked>>

Next == \/ \E rank \in Ranks, stuck \in Stuck : Request(rank, stuck)
        \/ \E t \in Listed : Leave(t) \/ Return(t)

Spec == Init /\ [][Next]_vars

----------------------------------------------------------------------------
(***************************************************************************)
(* Type invariant.                                                         *)
(***************************************************************************)
TypeOK == /\ pool \in Pools /\ up \subseteq Listed
          /\ turn \in 0..MaxTurn
          /\ order \in Seq(Listed)
          /\ asked \in [rank : Ranks \union {NoKey}, stuck : Stuck \union {NoTarget}]
          /\ firsts \in Seq(Listed)

(***************************************************************************)
(* The targets that the turn goes around, and one whole cycle of turns.    *)
(***************************************************************************)
FirstTier ==
    LET live == IF up = {} THEN Listed ELSE up
    IN  IF live \subseteq pool.backup THEN live ELSE live \ pool.backup

Cycle == LET sum[S \in SUBSET Listed] ==
               IF S = {} THEN 0
               ELSE LET t == CHOOSE t \in S : TRUE
                    IN  pool.weight[t] + sum[S \ {t}]
         IN  sum[FirstTier]

(***************************************************************************)
(* The promise of `weighted_turn`: whichever targets are in rotation, any  *)
(* whole cycle of consecutive turns, wherever it starts, gives each target *)
(* of the tier exactly as many turns as its weight.                        *)
(***************************************************************************)
WeightedShare ==
    \A start \in 1..(Len(firsts) - Cycle + 1) :
        \A t \in FirstTier :
            Cardinality({i \in start..(start + Cycle - 1) : firsts[i] = t})
                = pool.weight[t]

(***************************************************************************)
(* `order_for` keeps the promise UpstreamPool relies on: with nothing in   *)
(* rotation a request tries every target, otherwise exactly those in       *)
(* rotation, each once, and never a backup before a target that is not     *)
(* one, the sticky target included.                                        *)
(***************************************************************************)
OrderKeepsContract == [][up' = up => order' \in Orders(pool, up)]_vars

(***************************************************************************)
(* `sticky_cookie`: a client stays on the target its cookie names for as   *)
(* long as that target is in rotation and in the first tier, whatever its  *)
(* key or the turn would choose.                                           *)
(***************************************************************************)
StickyKept ==
    [][up' = up /\ asked'.stuck \in FirstTier => order'[1] = asked'.stuck]_vars

(***************************************************************************)
(* Rendezvous hashing: when a target leaves rotation only the keys it      *)
(* served move.  Home(S, rank) is where a key goes with S in rotation.     *)
(***************************************************************************)
Home(S, rank) == OrderFor(pool, S, Idle, 0, rank, NoTarget)[1]

OnlyItsKeysMove ==
    [][\A t \in Listed, rank \in Ranks \ {NoKey} :
          up' = up \ {t} /\ t \in up /\ up' # {} /\ Home(up', rank) # Home(up, rank)
              => Home(up, rank) = t]_vars

(***************************************************************************)
(* `order_for` gives each request the targets it may try, in the order     *)
(* that weights, cookies and keys promise, and the state has its type.     *)
(***************************************************************************)
TargetsInOrder == [](TypeOK /\ WeightedShare) /\ OrderKeepsContract /\ StickyKept /\ OnlyItsKeysMove
=============================================================================
