---------------------------- MODULE TokenBudget -----------------------------
(***************************************************************************)
(* What a rate limiter promises the RPC endpoint, whatever it does inside: *)
(* callers pass through it at the price of a whole token each, out of a    *)
(* credit that never exceeds the burst and grows by PerInterval tokens     *)
(* every Interval milliseconds.  The credit is counted in parts, Interval  *)
(* of them to a token, so that a millisecond is worth PerInterval parts.   *)
(* So at most MaxBurst + t * PerInterval / Interval callers pass in any t  *)
(* milliseconds.  The limiter may waste credit (Lose): being too strict    *)
(* breaks no promise to the endpoint.                                      *)
(***************************************************************************)
EXTENDS Naturals

CONSTANTS Callers, Interval, PerInterval, MaxBurst

VARIABLES
  credit,      \* what may still be spent, in parts of a token
  admitted     \* the callers that have passed and not finished yet

Capacity == MaxBurst * Interval

Init == credit = Capacity /\ admitted = {}

Accrue ==
  /\ credit' = IF credit + PerInterval > Capacity THEN Capacity ELSE credit + PerInterval
  /\ UNCHANGED admitted

Lose == credit' \in 0..credit /\ UNCHANGED admitted

Pass(c) ==
  /\ c \notin admitted
  /\ credit >= Interval
  /\ credit' \in 0..(credit - Interval)
  /\ admitted' = admitted \cup {c}

Finish(c) == c \in admitted /\ admitted' = admitted \ {c} /\ UNCHANGED credit

Next == Accrue \/ Lose \/ \E c \in Callers : Pass(c) \/ Finish(c)

Spec == Init /\ [][Next]_<<credit, admitted>>
=============================================================================
