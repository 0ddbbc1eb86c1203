-------------------------------- MODULE Gcra --------------------------------
(***************************************************************************)
(* The arithmetic of one rate limit (`Gcra` and `gcra_admit`,              *)
(* src/limiter.rs), which the shared-store limiter and the ledger of ACME  *)
(* orders both decide by.  Times are in microseconds, far below the 64     *)
(* bits they are kept in.                                                  *)
(***************************************************************************)
EXTENDS Integers

None == -1  \* no arrival time stored for a key

Rate == [count : Nat \ {0}, period : Nat \ {0}, burst : Nat \ {0}]

FromRate(r) == LET interval == r.period \div r.count
               IN [interval |-> interval, tolerance |-> interval * r.burst]

MaxOf(a, b) == IF a > b THEN a ELSE b
Tat(stored, t) == IF stored = None THEN t ELSE MaxOf(stored, t)

Admits(stored, t, g) == t >= MaxOf(Tat(stored, t) + g.interval - g.tolerance, 0)
NewTat(stored, t, g) == Tat(stored, t) + g.interval

NextAdmitAt(stored, t, g) == MaxOf(Tat(stored, t) + g.interval - g.tolerance, 0)

Burst(g) == g.tolerance \div g.interval

Remaining(stored, t, g) ==
    MaxOf(Burst(g) - (Tat(stored, t) - t) \div g.interval, 0)

\* How many requests in a row the bucket lets through at once.
Successive(stored, t, g) ==
    LET ahead[n \in 0..(Burst(g) + 1)] ==
            IF n = 0 THEN stored ELSE NewTat(ahead[n - 1], t, g)
    IN CHOOSE n \in 0..(Burst(g) + 1) :
          /\ \A i \in 0..(n - 1) : Admits(ahead[i], t, g)
          /\ ~Admits(ahead[n], t, g)
=============================================================================
