----------------------------- MODULE MCHTCRecv ------------------------------
\* Instances of HTCRecv for TLC.
EXTENDS HTCRecv, TLC

CONSTANTS e1, e2

\* One endpoint has two buffers, the other runs out of them first.
MCBufs == (e1 :> 2) @@ (e2 :> 1)

MCTwoBufs == [e \in Eps |-> 2]

\* The contexts of the HIF are interchangeable.
MCSymmetry == Permutations(Contexts)
=============================================================================
