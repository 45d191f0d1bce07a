----------------------------- MODULE MCHTCSend -----------------------------
(***************************************************************************)
(* Instances of HTCSend for TLC.  Packets are numbered; the endpoint, cost *)
(* and tag of each are given by the tables below.                          *)
(***************************************************************************)
EXTENDS HTCSend, TLC

\* Two video packets and two best-effort packets.
MCPackets == 1..4
MCEpOf == <<"VI", "VI", "BE", "BE">>

\* Messages of one or two credits, for a maximum message of two.
MCCost == <<2, 1, 2, 1>>

MCDataPackets == {1, 3}

\* Three packets of one credit each, on two endpoints.
MCThreePackets == 1..3
MCThreeCost == <<1, 1, 1>>
MCTwoEps == <<"VI", "BE", "BE">>

\* The same with two packets on a stream, and a message of two credits on each.
MCMixedCost == <<2, 1, 2>>
MCMixedEps == <<"VI", "VI", "BE">>

\* The sending threads are interchangeable.
MCSymmetry == Permutations(Senders)
=============================================================================
