----------------------------- MODULE LeasePool -----------------------------
(***************************************************************************)
(* What leased concurrency limits promise their users, whoever keeps them: *)
(* at most Limit tickets of a pool are out at any time, a ticket is handed *)
(* out once and by one pool, and a ticket that came back (returned, or     *)
(* lapsed because its holder died) never counts again.                     *)
(***************************************************************************)
EXTENDS Naturals, FiniteSets

CONSTANTS Pools, Tickets, Limit

VARIABLES
    out,   \* the tickets that count against the limit of each pool
    used   \* the tickets handed out so far

poolVars == <<out, used>>

PoolInit == out = [k \in Pools |-> {}] /\ used = {}

Take(k, t) ==
    /\ t \notin used
    /\ Cardinality(out[k]) < Limit
    /\ out' = [out EXCEPT ![k] = @ \cup {t}]
    /\ used' = used \cup {t}

\* Several leases, of several pools, may lapse at the same instant.
GiveBack ==
    /\ \A k \in Pools : out'[k] \subseteq out[k]
    /\ out' = [k \in Pools |-> out'[k]]
    /\ UNCHANGED used

PoolNext == GiveBack \/ \E k \in Pools, t \in Tickets : Take(k, t)

PoolSpec == PoolInit /\ [][PoolNext]_poolVars
=============================================================================
