------------------------------- MODULE Queues -------------------------------
(***************************************************************************)
(* Packet queues as sequences.                                             *)
(***************************************************************************)
EXTENDS Integers, Sequences

\* The packets in a queue.
Elems(q) == {q[i] : i \in DOMAIN q}

\* An HTC_PACKET has one list link, so a queue must hold it at most once.
Distinct(q) == \A i, j \in DOMAIN q : i # j => q[i] # q[j]

\* Mutant: the packet stays linked.
KeepAt(q, i) == q

\* HTC_PACKET_REMOVE: unlink the packet at position i.
RemoveAt(q, i) == SubSeq(q, 1, i - 1) \o SubSeq(q, i + 1, Len(q))

\* Mutant: one of the first n packets is left behind.
RestWithLast(q, n) == SubSeq(q, n, Len(q))

\* The first n packets, and those after them.
Front(q, n) == SubSeq(q, 1, n)
Rest(q, n) == SubSeq(q, n + 1, Len(q))
=============================================================================
