---------------------------- MODULE LeakyBucket ----------------------------
(***************************************************************************)
(* What a rate limit promises, whatever stores it: every key has a bucket  *)
(* of `capacity` units of time that fills by one unit per unit of time; an *)
(* admission takes `interval` units and needs them to be there.  A limiter *)
(* that forgets its keys (a new runtime with an in-process store) fills    *)
(* their buckets again, which is counted.                                  *)
(***************************************************************************)
EXTENDS Integers

VARIABLES rates,    \* the interval and the capacity of every key's bucket
          now, credit, admitted, resets

vars == <<rates, now, credit, admitted, resets>>

Keys == DOMAIN rates

Full == [k \in Keys |-> rates[k].capacity]

Lesser(a, b) == IF a < b THEN a ELSE b

Init == /\ \A k \in Keys : rates[k].interval > 0 /\ rates[k].capacity >= rates[k].interval
        /\ now = 0
        /\ credit = Full
        /\ admitted = [k \in Keys |-> 0]
        /\ resets = 0

Elapse == /\ now' = now + 1
          /\ credit' = [k \in Keys |-> Lesser(rates[k].capacity, credit[k] + 1)]
          /\ UNCHANGED <<rates, admitted, resets>>

Take(k) == /\ credit[k] >= rates[k].interval
           /\ credit' = [credit EXCEPT ![k] = @ - rates[k].interval]
           /\ admitted' = [admitted EXCEPT ![k] = @ + 1]
           /\ UNCHANGED <<rates, now, resets>>

\* Charged, and the caller never learnt of it: the reply of the store was lost.
Lose(k) == /\ credit[k] >= rates[k].interval
           /\ credit' = [credit EXCEPT ![k] = @ - rates[k].interval]
           /\ UNCHANGED <<rates, now, admitted, resets>>

Reset == /\ credit' = Full
         /\ resets' = resets + 1
         /\ UNCHANGED <<rates, now, admitted>>

Next == \/ Elapse
        \/ \E k \in Keys : Take(k) \/ Lose(k)
        \/ Reset

Spec == Init /\ [][Next]_vars
=============================================================================
