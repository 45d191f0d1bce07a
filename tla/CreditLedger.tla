---------------------------- MODULE CreditLedger ----------------------------
(***************************************************************************)
(* What credit flow control promises, without queues, threads or the       *)
(* distribution policy: the credits the target granted go round from the   *)
(* host, on a packet, to the target, and back to the host.                 *)
(*                                                                         *)
(* A packet is charged once, whole, while the host can pay for it.  Its    *)
(* credits come to the target's account of its endpoint when the transfer  *)
(* succeeds, or back to the host when it fails, never both.  The target    *)
(* returns only credits it holds.  How the host divides its credits among  *)
(* the services changes nothing here.                                      *)
(***************************************************************************)
EXTENDS Naturals

CONSTANTS Packets,      \* the packets that may be charged
          Services,     \* the services, one endpoint each
          EpOf,         \* packet -> its service
          Cost,         \* packet -> the credits it is charged
          TotalCredits, \* credits the target granted
          Sum(_)        \* the sum of a function on Services

VARIABLES held,         \* credits with the host
          carrying,     \* packets charged whose transfer has no outcome yet
          atTarget      \* service -> credits the target holds

ledgerVars == <<held, carrying, atTarget>>

Init ==
    /\ held = TotalCredits
    /\ carrying = {}
    /\ atTarget = [s \in Services |-> 0]

\* The host pays for packet p.
Charge(p) ==
    /\ p \notin carrying
    /\ held >= Cost[p]
    /\ held' = held - Cost[p]
    /\ carrying' = carrying \cup {p}
    /\ UNCHANGED atTarget

\* The transfer of p succeeds.
Arrive(p) ==
    /\ p \in carrying
    /\ carrying' = carrying \ {p}
    /\ atTarget' = [atTarget EXCEPT ![EpOf[p]] = @ + Cost[p]]
    /\ UNCHANGED held

\* The transfer of p fails and the host reclaims its credits.
Reclaim(p) ==
    /\ p \in carrying
    /\ carrying' = carrying \ {p}
    /\ held' = held + Cost[p]
    /\ UNCHANGED atTarget

\* The target returns some of the credits it holds.
Report ==
    /\ atTarget' \in [Services -> Nat]
    /\ \A s \in Services : atTarget'[s] <= atTarget[s]
    /\ held' + Sum(atTarget') = held + Sum(atTarget)
    /\ UNCHANGED carrying

Next ==
    \/ \E p \in Packets : Charge(p) \/ Arrive(p) \/ Reclaim(p)
    \/ Report

Spec == Init /\ [][Next]_ledgerVars
=============================================================================
