--------------------------- MODULE HTCSend_proofs ---------------------------
(***************************************************************************)
(* Proofs about HTCSend for any number of threads, packets and credits.    *)
(*                                                                         *)
(* First what a thread's queues hold at each point, and the promises that  *)
(* need no more.  Then every packet is in the one place "where" names, no  *)
(* credit is created or lost, and the packets of an endpoint are handed to *)
(* HIF in the order of their numbers: a packet carries its credits from    *)
(* the charge to the completion, and is numbered when it is charged, so    *)
(* the second and the third rest on the first.  Last, no queue stalls when *)
(* the grant is ample.                                                     *)
(***************************************************************************)
EXTENDS HTCSend, CreditDist_proofs, Queues_proofs, FiniteSetTheorems, TLAPS

(***************************************************************************)
(* What a thread's queues hold at each point of HTCTrySend.                *)
(***************************************************************************)
Control ==
    \A t \in Threads :
      /\ pc[t] \in {"measure", "offer"} <=> overflow[t] # <<>>
      /\ pc[t] \notin {"offer", "enter", "drain", "issue"} => sendQueue[t] = <<>>

TypeInv == TypeOK /\ Control

LEMMA InitTypeInv == Init => TypeInv
BY InitCreditsCorrect, SendAssumption
   DEF Init, TypeInv, TypeOK, Control, Owners, Locations, Threads, Services

LEMMA MoveType ==
    ASSUME TypeOK, NEW ps, NEW owner \in Owners
    PROVE  Move(ps, owner) \in [Packets -> Owners]
BY DEF Move, TypeOK

LEMMA CompletedType == Completed \in Owners
BY DEF Completed, Owners

LEMMA AfterTrySendType ==
    ASSUME NEW t
    PROVE  AfterTrySend(t) \in {"check", "return", "idle"}
BY DEF AfterTrySend

LEMMA SendPktsMultipleType ==
    ASSUME TypeInv, NEW t \in Threads, SendPktsMultiple(t)
    PROVE  TypeInv'
<1> USE DEF TypeInv
<1>1. PICK q \in Batches :
        /\ ep' = [ep EXCEPT ![t] = EpOf[q[1]]]
        /\ overflow' = [overflow EXCEPT ![t] = q]
        /\ where' = Move(Elems(q), "caller")
        /\ pc' = [pc EXCEPT ![t] = IF Len(txQueue[EpOf[q[1]]]) >= MaxTxQueueDepth
                                   THEN "offer" ELSE "measure"]
  BY DEF SendPktsMultiple
<1>2. q \in Seq(Packets) /\ q # <<>> /\ q[1] \in Packets
  BY SendAssumption DEF Batches
<1>3. EpOf[q[1]] \in Services
  BY <1>2, SendAssumption
<1>4. where' \in [Packets -> Owners]
  BY <1>1, MoveType DEF Owners
<1>5. TypeOK'
  BY <1>1, <1>2, <1>3, <1>4
  DEF SendPktsMultiple, TypeOK, Locations, creditVars, queueVars, hifVars
<1>6. Control'
  BY <1>1, <1>2 DEF SendPktsMultiple, TypeOK, Control, Locations
<1> QED
  BY <1>5, <1>6

LEMMA MeasureOverflowType ==
    ASSUME TypeInv, NEW t \in Threads, MeasureOverflow(t)
    PROVE  TypeInv'
<1> USE DEF TypeInv
<1> DEFINE q == overflow[t]
           n == Room(ep[t], Len(q))
           f == Front(q, n)
           r == Rest(q, n)
<1>1. /\ sendQueue' = [sendQueue EXCEPT ![t] = f]
      /\ overflow' = [overflow EXCEPT ![t] = r]
      /\ pc' = [pc EXCEPT ![t] = AfterOffers(r, f)]
  BY DEF MeasureOverflow
<1>2. q \in Seq(Packets) /\ txQueue[ep[t]] \in Seq(Packets)
  BY DEF TypeOK
<1>3. n \in 0..Len(q)
  BY <1>2, SendAssumption DEF Room
<1>4. f \in Seq(Packets) /\ r \in Seq(Packets)
  BY <1>2, <1>3, ElemsSplit
<1> HIDE DEF q, n, f, r
<1>5. AfterOffers(r, f) \in {"offer", "return", "enter"}
  BY DEF AfterOffers
<1>6. TypeOK'
  BY <1>1, <1>4, <1>5
  DEF MeasureOverflow, TypeOK, Locations, creditVars, queueVars, hifVars
<1>7. Control'
  BY <1>1, <1>4 DEF MeasureOverflow, TypeOK, Control, AfterOffers
<1> QED
  BY <1>6, <1>7

LEMMA OfferOverflowType ==
    ASSUME TypeInv, NEW t \in Threads, OfferOverflow(t)
    PROVE  TypeInv'
<1> USE DEF TypeInv
<1>1. overflow[t] \in Seq(Packets) /\ overflow[t] # <<>> /\ sendQueue[t] \in Seq(Packets)
  BY DEF OfferOverflow, Control, TypeOK
<1>2. Head(overflow[t]) \in Packets /\ Tail(overflow[t]) \in Seq(Packets)
  BY <1>1
<1>3. Append(sendQueue[t], Head(overflow[t])) \in Seq(Packets)
  BY <1>1, <1>2
<1>4. PICK q \in Seq(Packets), r \in SUBSET Packets, l \in {"offer", "return", "enter"} :
        /\ sendQueue' = [sendQueue EXCEPT ![t] = q]
        /\ refused' = [refused EXCEPT ![t] = r]
        /\ pc' = [pc EXCEPT ![t] = l]
  <2>1. AfterOffers(overflow'[t], sendQueue'[t]) \in {"offer", "return", "enter"}
    BY DEF AfterOffers
  <2>2. refused[t] \in SUBSET Packets /\ sendQueue \in [Threads -> Seq(Packets)]
        /\ refused \in [Threads -> SUBSET Packets]
    BY DEF TypeOK
  <2>3. sendQueue = [sendQueue EXCEPT ![t] = sendQueue[t]] /\ refused = [refused EXCEPT ![t] = refused[t]]
    BY <2>2
  <2>4. refused[t] \cup {Head(overflow[t])} \in SUBSET Packets
    BY <1>2, <2>2
  <2>5. CASE sendQueue' = [sendQueue EXCEPT ![t] = Append(@, Head(overflow[t]))] /\ UNCHANGED refused
    BY <1>3, <2>1, <2>2, <2>3, <2>5 DEF OfferOverflow
  <2>6. CASE refused' = [refused EXCEPT ![t] = @ \cup {Head(overflow[t])}] /\ UNCHANGED sendQueue
    BY <1>1, <2>1, <2>2, <2>3, <2>4, <2>6 DEF OfferOverflow
  <2> QED
    BY <2>5, <2>6 DEF OfferOverflow
<1>5. TypeOK'
  <2>1. /\ overflow' = [overflow EXCEPT ![t] = Tail(overflow[t])]
        /\ UNCHANGED <<creditVars, queueVars, where, hifVars, txLock, ep, toCheck>>
    BY DEF OfferOverflow
  <2> QED
    BY <1>2, <1>4, <2>1 DEF TypeOK, Locations, creditVars, queueVars, hifVars
<1>6. Control'
  BY <1>2, <1>3 DEF OfferOverflow, TypeOK, Control, AfterOffers
<1> QED
  BY <1>5, <1>6

LEMMA EnterTrySendType ==
    ASSUME TypeInv, NEW t \in Threads, EnterTrySend(t)
    PROVE  TypeInv'
<1> USE DEF TypeInv
<1>1. where' \in [Packets -> Owners]
  BY MoveType DEF EnterTrySend, Owners
<1>2. \A s \in Services : txQueue[s] \o sendQueue[t] \in Seq(Packets)
  BY DEF TypeOK
<1>3. PICK l \in {"check", "return", "idle", "drain"} : pc' = [pc EXCEPT ![t] = l]
  <2>1. CASE txProcessCount[ep[t]] > 0
    BY <2>1, AfterTrySendType DEF EnterTrySend, BeingDrained
  <2>2. CASE ~(txProcessCount[ep[t]] > 0)
    BY <2>2 DEF EnterTrySend, BeingDrained
  <2> QED
    BY <2>1, <2>2
<1>4. txProcessCount' \in [Services -> 0..1] /\ txLock' \in Threads \cup {NoThread}
  <2>1. CASE txProcessCount[ep[t]] > 0
    BY <2>1 DEF EnterTrySend, BeingDrained, TypeOK
  <2>2. CASE ~(txProcessCount[ep[t]] > 0)
    <3>1. ep[t] \in Services /\ txProcessCount[ep[t]] \in 0..1
      BY DEF TypeOK
    <3>2. txProcessCount[ep[t]] = 0
      BY <2>2, <3>1
    <3>3. txProcessCount' = [txProcessCount EXCEPT ![ep[t]] = 1] /\ txLock' = t
      BY <2>2, <3>2 DEF EnterTrySend, BeingDrained
    <3> QED
      BY <3>1, <3>3 DEF TypeOK
  <2> QED
    BY <2>1, <2>2
<1>5. TypeOK'
  <2>1. /\ txQueue' = [txQueue EXCEPT ![ep[t]] = @ \o sendQueue[t]]
        /\ sendQueue' = [sendQueue EXCEPT ![t] = <<>>]
        /\ UNCHANGED <<creditVars, seqNo, pktSeq, hifVars, ep, overflow, refused,
                       toCheck>>
    BY DEF EnterTrySend
  <2> QED
    BY <1>1, <1>2, <1>3, <1>4, <2>1, SMTT(30) DEF TypeOK, Locations, creditVars, hifVars
<1>6. Control'
  BY <1>3 DEF EnterTrySend, TypeOK, Control
<1> QED
  BY <1>5, <1>6

\* Seeking credits and charging a packet keep the credit state well formed;
\* only the charge takes credits from the host.
LEMMA SeekUpToCorrect ==
    ASSUME NEW c \in CreditStates, NEW s \in Services, NEW n \in Nat
    PROVE  /\ SeekUpTo(c, s, n) \in CreditStates
           /\ HeldCredits(SeekUpTo(c, s, n)) = HeldCredits(c)
<1>1. c.credits[s] < n => n - c.credits[s] \in Nat
  BY DEF CreditStates
<1> QED
  BY <1>1, SeekCreditsCorrect DEF SeekUpTo

LEMMA SpendCorrect ==
    ASSUME NEW c \in CreditStates, NEW s \in Services, NEW n \in Nat, n <= c.credits[s]
    PROVE  /\ Spend(c, s, n) \in CreditStates
           /\ HeldCredits(Spend(c, s, n)) = HeldCredits(c) - n
<1>1. c.credits[s] - n \in Nat
  BY DEF CreditStates
<1>2. Spend(c, s, n) \in CreditStates
  BY <1>1 DEF CreditStates, Spend
<1>3. HeldCredits(Spend(c, s, n)) = HeldCredits(c) - n
  BY <1>1 DEF CreditStates, Spend, HeldCredits, Total, Services
<1> QED
  BY <1>2, <1>3

\* What charging the packet at the head of a queue does to the credits.
LEMMA GetHTCSendPacketCredits ==
    ASSUME TypeOK, NEW t \in Threads, GetHTCSendPacket(t)
    PROVE  LET p == Head(txQueue[ep[t]])
           IN  /\ p \in Packets
               /\ txQueue[ep[t]] # <<>>
               /\ cs' \in CreditStates
               /\ HeldCredits(cs') = HeldCredits(cs) - Cost[p]
<1> DEFINE s == ep[t]
           p == Head(txQueue[s])
           sought == SoughtForHead(s)
           spent == Spend(sought, s, Cost[p])
<1>1. s \in Services /\ txQueue[s] \in Seq(Packets) /\ txQueue[s] # <<>>
      /\ cs \in CreditStates
  BY DEF TypeOK, GetHTCSendPacket, HeadCovered
<1>2. p \in Packets
  BY <1>1
<1>3. Cost[p] \in Nat /\ PerMaxMsg \in Nat
  BY <1>2, SendAssumption, CreditAssumption
<1>4. sought \in CreditStates /\ HeldCredits(sought) = HeldCredits(cs)
  BY <1>1, <1>3, SeekUpToCorrect DEF SoughtForHead
<1>5. Cost[p] <= sought.credits[s]
  BY <1>1, <1>3, <1>4 DEF GetHTCSendPacket, HeadCovered, CreditStates
<1>6. cs' = SeekUpTo(spent, s, PerMaxMsg)
  BY DEF GetHTCSendPacket
<1> HIDE DEF sought
<1>7. spent \in CreditStates /\ HeldCredits(spent) = HeldCredits(cs) - Cost[p]
  BY <1>1, <1>3, <1>4, <1>5, SpendCorrect
<1> HIDE DEF spent
<1>8. cs' \in CreditStates /\ HeldCredits(cs') = HeldCredits(spent)
  BY <1>1, <1>3, <1>6, <1>7, SeekUpToCorrect
<1> QED
  BY <1>1, <1>2, <1>7, <1>8

LEMMA GetHTCSendPacketType ==
    ASSUME TypeInv, NEW t \in Threads, GetHTCSendPacket(t)
    PROVE  TypeInv'
<1> USE DEF TypeInv
<1> DEFINE s == ep[t]
           p == Head(txQueue[s])
<1>1. /\ p \in Packets /\ txQueue[s] # <<>> /\ cs' \in CreditStates
  BY GetHTCSendPacketCredits
<1>2. s \in Services /\ txQueue[s] \in Seq(Packets) /\ sendQueue[t] \in Seq(Packets)
      /\ seqNo[s] \in 0..(SeqModulus - 1)
  BY DEF TypeOK
<1>3. Tail(txQueue[s]) \in Seq(Packets) /\ Append(sendQueue[t], p) \in Seq(Packets)
  BY <1>1, <1>2
<1>4. (seqNo[s] + 1) % SeqModulus \in 0..(SeqModulus - 1)
  BY <1>2, SendAssumption
<1>5. where' \in [Packets -> Owners]
  BY MoveType DEF GetHTCSendPacket, Owners
<1> HIDE DEF p
<1>6. /\ txQueue' = [txQueue EXCEPT ![s] = Tail(@)]
      /\ sendQueue' = [sendQueue EXCEPT ![t] = Append(@, p)]
      /\ pktSeq' = [pktSeq EXCEPT ![p] = seqNo[s]]
      /\ seqNo' = [seqNo EXCEPT ![s] = (@ + 1) % SeqModulus]
      /\ UNCHANGED <<active, depth, atTarget, txProcessCount, hifVars, txLock, pc, ep,
                     overflow, refused, toCheck>>
  BY DEF GetHTCSendPacket, p
<1>7. TypeOK'
  BY <1>1, <1>2, <1>3, <1>4, <1>5, <1>6 DEF TypeOK, hifVars
<1>8. Control'
  BY <1>2, <1>6 DEF GetHTCSendPacket, TypeOK, Control
<1> QED
  BY <1>7, <1>8

\* A pass that ends without its head covered has only moved credits around.
LEMMA EndOfPassCredits ==
    ASSUME TypeOK, NEW t \in Threads, EndOfPass(t)
    PROVE  cs' \in CreditStates /\ HeldCredits(cs') = HeldCredits(cs)
<1>1. ep[t] \in Services /\ txQueue[ep[t]] \in Seq(Packets) /\ cs \in CreditStates
  BY DEF TypeOK
<1>2. ASSUME txQueue[ep[t]] # <<>>
      PROVE  /\ SoughtForHead(ep[t]) \in CreditStates
             /\ HeldCredits(SoughtForHead(ep[t])) = HeldCredits(cs)
  <2>1. Head(txQueue[ep[t]]) \in Packets
    BY <1>1, <1>2
  <2>2. Cost[Head(txQueue[ep[t]])] \in Nat
    BY <2>1, SendAssumption
  <2> QED
    BY <1>1, <2>2, SeekUpToCorrect DEF SoughtForHead
<1> QED
  BY <1>1, <1>2 DEF EndOfPass

LEMMA EndOfPassType ==
    ASSUME TypeInv, NEW t \in Threads, EndOfPass(t)
    PROVE  TypeInv'
<1> USE DEF TypeInv
<1>1. cs' \in CreditStates
  BY EndOfPassCredits
<1>2. PICK l \in {"issue", "check", "return", "idle"} :
        pc' = [pc EXCEPT ![t] = l] /\ (l # "issue" => sendQueue[t] = <<>>)
  <2>1. CASE sendQueue[t] # <<>>
    BY <2>1 DEF EndOfPass
  <2>2. CASE sendQueue[t] = <<>>
    BY <2>2, AfterTrySendType DEF EndOfPass
  <2> QED
    BY <2>1, <2>2
<1>3. txProcessCount' \in [Services -> 0..1]
  <2>1. DrainersAfterPass(t) \in 0..1
    BY DEF TypeOK, DrainersAfterPass
  <2>2. txProcessCount' = [txProcessCount EXCEPT ![ep[t]] = DrainersAfterPass(t)]
    BY DEF EndOfPass
  <2> QED
    BY <2>1, <2>2 DEF TypeOK
<1>4. TypeOK'
  BY <1>1, <1>2, <1>3 DEF EndOfPass, TypeOK, Locations, hifVars
<1>5. Control'
  BY <1>2 DEF EndOfPass, TypeOK, Control
<1> QED
  BY <1>4, <1>5

LEMMA IssueSendType ==
    ASSUME TypeInv, NEW t \in Threads, IssueSend(t)
    PROVE  TypeInv'
<1> USE DEF TypeInv
<1> DEFINE p == Head(sendQueue[t])
           x == [pkt |-> p, kind |-> "single"]
<1>1. sendQueue[t] \in Seq(Packets) /\ sendQueue[t] # <<>> /\ pc[t] = "issue"
  BY DEF IssueSend, TypeOK
<1>2. p \in Packets /\ Tail(sendQueue[t]) \in Seq(Packets)
  BY <1>1
<1>3. x \in Submissions
  BY <1>2 DEF Submissions
<1>4. Append(hif, x) \in Seq(Submissions)
  BY <1>3 DEF TypeOK
<1>5. where' \in [Packets -> Owners] /\ hif' \in Seq(Submissions)
  <2>1. CASE BusRequestsInUse < BusRequests
    BY <1>4, <2>1, MoveType DEF IssueSend, Owners
  <2>2. CASE ~(BusRequestsInUse < BusRequests)
    BY <2>2, MoveType DEF IssueSend, Owners, TypeOK
  <2> QED
    BY <2>1, <2>2
<1> HIDE DEF p, x
<1>6. /\ sendQueue' = [sendQueue EXCEPT ![t] = Tail(@)]
      /\ UNCHANGED <<creditVars, queueVars, hifStatus, txLock, pc, ep, overflow,
                     refused, toCheck>>
  BY DEF IssueSend
<1>7. TypeOK'
  BY <1>2, <1>5, <1>6 DEF TypeOK, creditVars, queueVars
<1>8. Control'
  BY <1>1, <1>6 DEF TypeOK, Control
<1> QED
  BY <1>7, <1>8

LEMMA BundleType ==
    ASSUME NEW q \in Seq(Packets)
    PROVE  Bundle(q) \in Seq(Submissions)
<1>1. \A i \in 1..Len(q) : [pkt |-> q[i], kind |-> IF i < Len(q) THEN "more" ELSE "end"]
                             \in Submissions
  BY DEF Submissions
<1>2. Len(q) \in Nat
  OBVIOUS
<1> QED
  BY <1>1, <1>2 DEF Bundle

LEMMA IssueSendBundleType ==
    ASSUME TypeInv, NEW t \in Threads, IssueSendBundle(t)
    PROVE  TypeInv'
<1> USE DEF TypeInv
<1>1. sendQueue[t] \in Seq(Packets) /\ pc[t] = "issue"
  BY DEF IssueSendBundle, TypeOK
<1>2. PICK n \in 2..MaxMsgPerBundle :
        /\ n <= Len(sendQueue[t])
        /\ hif' = hif \o Bundle(Front(sendQueue[t], n))
        /\ where' = Move(Elems(Front(sendQueue[t], n)), "hif")
        /\ sendQueue' = [sendQueue EXCEPT ![t] = Rest(sendQueue[t], n)]
  BY DEF IssueSendBundle
<1>3. n \in 0..Len(sendQueue[t])
  BY <1>1, <1>2
<1>4. Front(sendQueue[t], n) \in Seq(Packets) /\ Rest(sendQueue[t], n) \in Seq(Packets)
  BY <1>1, <1>3, ElemsSplit
<1>5. Bundle(Front(sendQueue[t], n)) \in Seq(Submissions)
  BY <1>4, BundleType
<1>6. hif' \in Seq(Submissions)
  <2> HIDE DEF TypeInv
  <2>1. hif \in Seq(Submissions)
    BY DEF TypeOK, TypeInv
  <2> QED
    BY <1>2, <1>5, <2>1
<1>7. where' \in [Packets -> Owners]
  BY <1>2, MoveType DEF Owners
<1>8. UNCHANGED <<creditVars, queueVars, hifStatus, txLock, pc, ep, overflow,
                  refused, toCheck>>
  BY DEF IssueSendBundle
<1>9. TypeOK'
  BY <1>2, <1>4, <1>6, <1>7, <1>8 DEF TypeOK, creditVars, queueVars
<1>10. Control'
  BY <1>1, <1>2, <1>8 DEF TypeOK, Control
<1> QED
  BY <1>9, <1>10

LEMMA RelockType ==
    ASSUME TypeInv, NEW t \in Threads, Relock(t)
    PROVE  TypeInv'
BY DEF TypeInv, TypeOK, Control, Relock, Locations, creditVars, queueVars, hifVars

LEMMA ReturnToCallerType ==
    ASSUME TypeInv, NEW t \in Threads, ReturnToCaller(t)
    PROVE  TypeInv'
<1>1. where' \in [Packets -> Owners]
  BY MoveType, CompletedType DEF TypeInv, ReturnToCaller
<1> QED
  BY <1>1 DEF TypeInv, TypeOK, Control, ReturnToCaller, Locations, creditVars, queueVars,
              hifVars

LEMMA CheckEndpointTxQueueType ==
    ASSUME TypeInv, NEW t \in Threads, CheckEndpointTxQueue(t)
    PROVE  TypeInv'
<1> USE DEF TypeInv
<1>1. pc[t] = "check" /\ sendQueue[t] = <<>>
  BY DEF CheckEndpointTxQueue, Control
<1>2. PICK s \in toCheck[t] :
        /\ toCheck' = [toCheck EXCEPT ![t] = @ \ {s}]
        /\ \/ ep' = [ep EXCEPT ![t] = s] /\ pc' = [pc EXCEPT ![t] = "enter"]
           \/ \E l \in {"idle", "check"} : pc' = [pc EXCEPT ![t] = l] /\ ep' = ep
  BY DEF CheckEndpointTxQueue
<1>3. s \in Services
  BY DEF TypeOK
<1>4. UNCHANGED <<creditVars, queueVars, where, hifVars, txLock, sendQueue,
                  overflow, refused>>
  BY DEF CheckEndpointTxQueue
<1>5. TypeOK'
  BY <1>2, <1>3, <1>4 DEF TypeOK, Locations, creditVars, queueVars, hifVars
<1>6. Control'
  BY <1>1, <1>2, <1>4 DEF TypeOK, Control
<1> QED
  BY <1>5, <1>6

\* Reported credits are natural numbers the target has.
LEMMA ReportedType ==
    ASSUME TypeOK, NEW rpt \in Reports, NEW s \in Services
    PROVE  Reported(rpt, s) \in Nat /\ Reported(rpt, s) <= atTarget[s]
<1>1. TotalCredits \in Nat /\ atTarget[s] \in Nat
  BY CreditAssumption DEF TypeOK
<1>2. PICK S \in SUBSET Services : rpt \in [S -> 1..TotalCredits]
  BY DEF Reports
<1> QED
  BY <1>1, <1>2 DEF Reports, Reported

LEMMA OweCorrect ==
    ASSUME NEW rpt, cs \in CreditStates,
           \A s \in Services : Reported(rpt, s) \in Nat
    PROVE  /\ Owe(rpt) \in CreditStates
           /\ HeldCredits(Owe(rpt)) =
                HeldCredits(cs) + Total([s \in Services |-> Reported(rpt, s)])
<1> DEFINE r == [s \in Services |-> Reported(rpt, s)]
           d == [s \in Services |-> cs.toDist[s] + r[s]]
<1>1. r \in [Services -> Nat]
  OBVIOUS
<1>2. Owe(rpt) = [free |-> cs.free, credits |-> cs.credits, assigned |-> cs.assigned,
                  toDist |-> d]
  BY DEF Owe
<1> HIDE DEF r
<1>3. d \in [Services -> Nat]
  BY <1>1 DEF CreditStates
<1>4. Owe(rpt) \in CreditStates
  BY <1>2, <1>3 DEF CreditStates
<1>5. Total(d) = Total(cs.toDist) + Total(r)
  BY <1>1 DEF Total, Services, CreditStates
<1> HIDE DEF d
<1>6. /\ Total(d) \in Nat /\ Total(cs.toDist) \in Nat /\ Total(r) \in Nat
      /\ Total(cs.credits) \in Nat /\ cs.free \in Nat
  BY <1>1, <1>3, TotalType DEF CreditStates
<1>7. HeldCredits(Owe(rpt)) = HeldCredits(cs) + Total(r)
  BY <1>2, <1>5, <1>6 DEF HeldCredits
<1> QED
  BY <1>4, <1>7 DEF r

\* A credit report moves credits from the target to the host.
LEMMA HTCProcessCreditRptCredits ==
    ASSUME TypeOK, NEW rpt \in Reports, HTCProcessCreditRpt(rpt)
    PROVE  /\ cs' \in CreditStates /\ atTarget' \in [Services -> Nat]
           /\ \A s \in Services : atTarget'[s] <= atTarget[s]
           /\ HeldCredits(cs') + Total(atTarget') = HeldCredits(cs) + Total(atTarget)
<1> DEFINE r == [s \in Services |-> Reported(rpt, s)]
           idle == Idle(active, depth')
<1>1. \A s \in Services : Reported(rpt, s) \in Nat /\ Reported(rpt, s) <= atTarget[s]
  BY ReportedType
<1>2. cs \in CreditStates /\ atTarget \in [Services -> Nat]
  BY DEF TypeOK
<1>3. Owe(rpt) \in CreditStates /\ HeldCredits(Owe(rpt)) = HeldCredits(cs) + Total(r)
  BY <1>1, <1>2, OweCorrect
<1>4. cs' = SendComplete(Owe(rpt), idle)
  BY DEF HTCProcessCreditRpt
<1> HIDE DEF idle
<1>5. cs' \in CreditStates /\ HeldCredits(cs') = HeldCredits(cs) + Total(r)
  BY <1>3, <1>4, SendCompleteCorrect
<1>6. r \in [Services -> Nat] /\ \A s \in Services : r[s] <= atTarget[s]
  BY <1>1
<1>7. atTarget' = [s \in Services |-> atTarget[s] - r[s]]
  BY DEF HTCProcessCreditRpt
<1> HIDE DEF r
<1>8. atTarget' \in [Services -> Nat] /\ \A s \in Services : atTarget'[s] <= atTarget[s]
  BY <1>2, <1>6, <1>7
<1>9. Total(atTarget') = Total(atTarget) - Total(r)
  BY <1>2, <1>6, <1>7 DEF Total, Services
<1>10. /\ Total(atTarget') \in Nat /\ Total(atTarget) \in Nat /\ Total(r) \in Nat
       /\ HeldCredits(cs) \in Nat
  <2>1. cs.free \in Nat /\ Total(cs.credits) \in Nat /\ Total(cs.toDist) \in Nat
    BY <1>2, TotalType DEF CreditStates
  <2> QED
    BY <1>2, <1>6, <1>8, <2>1, TotalType DEF HeldCredits
<1> QED
  BY <1>5, <1>8, <1>9, <1>10

LEMMA HTCProcessCreditRptType ==
    ASSUME TypeInv, NEW rpt \in Reports, HTCProcessCreditRpt(rpt)
    PROVE  TypeInv'
<1> USE DEF TypeInv
<1>1. cs' \in CreditStates /\ atTarget' \in [Services -> Nat]
  BY HTCProcessCreditRptCredits
<1>2. depth' \in [Services -> Nat]
  <2>1. \A s \in Services : Len(txQueue[s]) \in Nat
    BY DEF TypeOK
  <2> QED
    BY <2>1 DEF HTCProcessCreditRpt, TypeOK
<1>3. /\ toCheck' = [toCheck EXCEPT ![Rx] = UsedServices]
      /\ pc' = [pc EXCEPT ![Rx] = "check"] /\ pc[Rx] = "idle"
      /\ UNCHANGED <<active, queueVars, where, hifVars, txLock, ep, sendQueue, overflow,
                     refused>>
  BY DEF HTCProcessCreditRpt
<1>4. UsedServices \in SUBSET Services /\ Rx \in Threads
  BY SendAssumption DEF Threads
<1>5. TypeOK'
  BY <1>1, <1>2, <1>3, <1>4 DEF TypeOK, Locations, queueVars, hifVars
<1>6. Control'
  BY <1>3, <1>4 DEF TypeOK, Control
<1> QED
  BY <1>5, <1>6

\* An activity change moves no credit off the host.
LEMMA HTCIndicateActivityChangeCredits ==
    ASSUME TypeOK, NEW t, NEW s, NEW on, HTCIndicateActivityChange(t, s, on)
    PROVE  cs' \in CreditStates /\ HeldCredits(cs') = HeldCredits(cs)
<1>1. cs \in CreditStates
  BY DEF TypeOK
<1>2. PICK act, idle : cs' = RedistributeCredits(cs, act, idle)
  BY DEF HTCIndicateActivityChange
<1> QED
  BY <1>1, <1>2, RedistributeCreditsCorrect

LEMMA HTCIndicateActivityChangeType ==
    ASSUME TypeInv, NEW t \in Threads, NEW s \in Streams, NEW on \in BOOLEAN,
           HTCIndicateActivityChange(t, s, on)
    PROVE  TypeInv'
<1> USE DEF TypeInv
<1>1. cs' \in CreditStates
  BY HTCIndicateActivityChangeCredits
<1>2. s \in Services /\ UsedServices \in SUBSET Services
  BY SendAssumption
<1>3. depth' \in [Services -> Nat]
  BY <1>2 DEF HTCIndicateActivityChange, TypeOK
<1>4. active' \in [Services -> BOOLEAN]
  BY DEF HTCIndicateActivityChange, ForceActive
<1>5. /\ pc[t] = "idle"
      /\ UNCHANGED <<atTarget, queueVars, where, hifVars, txLock, ep, sendQueue,
                     overflow, refused>>
      /\ \/ UNCHANGED <<toCheck, pc>>
         \/ /\ toCheck' = [toCheck EXCEPT ![t] = UsedServices]
            /\ pc' = [pc EXCEPT ![t] = "check"]
  BY DEF HTCIndicateActivityChange
<1>6. TypeOK'
  BY <1>1, <1>2, <1>3, <1>4, <1>5 DEF TypeOK, Locations, queueVars, hifVars
<1>7. Control'
  BY <1>5 DEF TypeOK, Control
<1> QED
  BY <1>6, <1>7

LEMMA FlushEndpointTXType ==
    ASSUME TypeInv, NEW t \in Threads, NEW s \in UsedServices, NEW how \in FlushModes,
           FlushEndpointTX(t, s, how)
    PROVE  TypeInv'
<1>1. s \in Services /\ how \in {"flushAll", "flushData"}
  BY SendAssumption
<1> QED
  BY <1>1 DEF TypeInv, TypeOK, Control, FlushEndpointTX, Locations, creditVars, queueVars,
              hifVars

LEMMA FlushPacketType ==
    ASSUME TypeInv, NEW t \in Threads, FlushPacket(t)
    PROVE  TypeInv'
<1> USE DEF TypeInv
<1>1. PICK i \in ToFlush(t) :
        /\ txQueue' = [txQueue EXCEPT ![ep[t]] = RemoveAt(@, i)]
        /\ where' = Move({txQueue[ep[t]][i]}, "caller")
        /\ refused' = [refused EXCEPT ![t] = @ \cup {txQueue[ep[t]][i]}]
  BY DEF FlushPacket
<1>2. txQueue[ep[t]] \in Seq(Packets) /\ i \in DOMAIN txQueue[ep[t]] /\ ep[t] \in Services
  BY DEF TypeOK, ToFlush
<1>3. RemoveAt(txQueue[ep[t]], i) \in Seq(Packets) /\ txQueue[ep[t]][i] \in Packets
  BY <1>2, ElemsRemoveAt
<1>4. where' \in [Packets -> Owners]
  BY <1>1, MoveType DEF Owners
<1>5. UNCHANGED <<creditVars, txProcessCount, seqNo, pktSeq, hifVars, txLock, pc,
                  ep, sendQueue, overflow, toCheck>>
  BY DEF FlushPacket
<1>6. TypeOK'
  BY <1>1, <1>2, <1>3, <1>4, <1>5 DEF TypeOK, creditVars, hifVars
<1>7. Control'
  BY <1>5 DEF Control
<1> QED
  BY <1>6, <1>7

LEMMA FlushDoneType ==
    ASSUME TypeInv, NEW t \in Threads, FlushDone(t)
    PROVE  TypeInv'
BY DEF TypeInv, TypeOK, Control, FlushDone, FlushLocations, Locations, creditVars, queueVars,
       hifVars

LEMMA TransferDoneType ==
    ASSUME TypeInv, NEW status \in {"ok", "failed"}, TransferDone(status)
    PROVE  TypeInv'
BY DEF TypeInv, TypeOK, Control, TransferDone, creditVars, queueVars, threadVars

\* Completing a packet hands its credits to the host or to the target.
LEMMA CompleteSentPacketCredits ==
    ASSUME TypeOK, CompleteSentPacket
    PROVE  LET p == Head(hif).pkt
           IN  /\ p \in Packets /\ hif # <<>>
               /\ cs' \in CreditStates /\ atTarget' \in [Services -> Nat]
               /\ \/ /\ HeldCredits(cs') = HeldCredits(cs) + Cost[p]
                     /\ atTarget' = atTarget
                  \/ /\ HeldCredits(cs') = HeldCredits(cs)
                     /\ atTarget' = [atTarget EXCEPT ![EpOf[p]] = @ + Cost[p]]
<1> DEFINE p == Head(hif).pkt
           s == EpOf[p]
           rpt == [r \in {s} |-> Cost[p]]
<1>1. hif # <<>> /\ Head(hif) \in Submissions
  BY DEF CompleteSentPacket, TypeOK
<1>2. p \in Packets
  BY <1>1 DEF Submissions
<1>3. s \in Services /\ Cost[p] \in Nat
  BY <1>2, SendAssumption
<1>4. cs \in CreditStates /\ atTarget \in [Services -> Nat]
  BY DEF TypeOK
<1>5. \/ cs' = SendComplete(Owe(rpt), Idle(active, depth')) /\ atTarget' = atTarget
      \/ cs' = cs /\ atTarget' = [atTarget EXCEPT ![s] = @ + Cost[p]]
  BY DEF CompleteSentPacket
<1> HIDE DEF p, s
<1>6. CASE cs' = SendComplete(Owe(rpt), Idle(active, depth')) /\ atTarget' = atTarget
  <2> DEFINE d == [r \in Services |-> Reported(rpt, r)]
             idle == Idle(active, depth')
  <2>1. d = [r \in Services |-> IF r = s THEN Cost[p] ELSE 0]
    BY DEF Reported
  <2>2. \A r \in Services : Reported(rpt, r) \in Nat
    BY <1>3 DEF Reported
  <2> HIDE DEF rpt
  <2>3. Owe(rpt) \in CreditStates /\ HeldCredits(Owe(rpt)) = HeldCredits(cs) + Total(d)
    BY <1>4, <2>2, OweCorrect
  <2> HIDE DEF d
  <2>4. Total(d) = Cost[p]
    BY <1>3, <2>1 DEF Total, Services
  <2>5. cs' = SendComplete(Owe(rpt), idle)
    BY <1>6
  <2> HIDE DEF idle
  <2>6. cs' \in CreditStates /\ HeldCredits(cs') = HeldCredits(cs) + Cost[p]
    BY <2>3, <2>4, <2>5, SendCompleteCorrect
  <2> QED
    BY <1>1, <1>2, <1>3, <1>4, <1>6, <2>6 DEF p
<1>7. CASE cs' = cs /\ atTarget' = [atTarget EXCEPT ![s] = @ + Cost[p]]
  <2>1. atTarget' \in [Services -> Nat]
    BY <1>3, <1>4, <1>7
  <2> QED
    BY <1>1, <1>2, <1>3, <1>4, <1>7, <2>1 DEF p, s
<1> QED
  BY <1>5, <1>6, <1>7

LEMMA CompleteSentPacketType ==
    ASSUME TypeInv, CompleteSentPacket
    PROVE  TypeInv'
<1> USE DEF TypeInv
<1>1. hif # <<>> /\ cs' \in CreditStates /\ atTarget' \in [Services -> Nat]
  BY CompleteSentPacketCredits
<1>2. Tail(hif) \in Seq(Submissions) /\ hif' = Tail(hif)
  BY <1>1 DEF TypeOK, CompleteSentPacket
<1>3. EpOf[Head(hif).pkt] \in Services
  BY CompleteSentPacketCredits, SendAssumption
<1>4. depth' \in [Services -> Nat]
  <2>1. Len(txQueue[EpOf[Head(hif).pkt]]) \in Nat
    BY <1>3 DEF TypeOK
  <2> QED
    BY <1>3, <2>1 DEF CompleteSentPacket, TypeOK
<1>5. where' \in [Packets -> Owners] /\ hifStatus' \in {"pending", "ok", "failed"}
  <2>1. CASE Head(hif).kind = "more"
    BY <2>1, MoveType, SMTT(30) DEF CompleteSentPacket, Owners, TypeOK
  <2>2. CASE Head(hif).kind # "more"
    BY <2>2, MoveType, CompletedType DEF CompleteSentPacket
  <2> QED
    BY <2>1, <2>2
<1>6. UNCHANGED <<active, queueVars, txLock, threadVars>>
  BY DEF CompleteSentPacket
<1>7. TypeOK'
  BY <1>1, <1>2, <1>4, <1>5, <1>6 DEF TypeOK, queueVars, threadVars
<1>8. Control'
  BY <1>6 DEF Control, threadVars
<1> QED
  BY <1>7, <1>8

LEMMA NextTypeInv == TypeInv /\ [Next]_vars => TypeInv'
<1> SUFFICES ASSUME TypeInv, [Next]_vars PROVE TypeInv'
  OBVIOUS
<1>1. ASSUME NEW t \in Threads, ThreadStep(t) PROVE TypeInv'
  BY <1>1, MeasureOverflowType, OfferOverflowType, EnterTrySendType, GetHTCSendPacketType,
     EndOfPassType, IssueSendType, IssueSendBundleType, RelockType, ReturnToCallerType,
     CheckEndpointTxQueueType, FlushPacketType, FlushDoneType
  DEF ThreadStep
<1>2. ASSUME NEW t \in Senders, SenderCall(t) PROVE TypeInv'
  <2>1. t \in Threads
    BY DEF Threads
  <2> QED
    BY <1>2, <2>1, SendPktsMultipleType, HTCIndicateActivityChangeType, FlushEndpointTXType
    DEF SenderCall
<1>3. ASSUME NEW rpt \in Reports, HTCProcessCreditRpt(rpt) PROVE TypeInv'
  BY <1>3, HTCProcessCreditRptType
<1>4. ASSUME HifStep PROVE TypeInv'
  BY <1>4, TransferDoneType, CompleteSentPacketType DEF HifStep
<1>5. ASSUME UNCHANGED vars PROVE TypeInv'
  BY <1>5 DEF TypeInv, TypeOK, Control, vars, creditVars, queueVars, hifVars, threadVars
<1> QED
  BY <1>1, <1>2, <1>3, <1>4, <1>5 DEF Next

\* The types hold in every reachable state; in particular no endpoint's
\* credits and no pool ever go below zero.
THEOREM TypeCorrect == Spec => []TypeOK
<1>1. TypeInv => TypeOK
  BY DEF TypeInv
<1> QED
  BY <1>1, InitTypeInv, NextTypeInv, PTL DEF Spec

-----------------------------------------------------------------------------
(***************************************************************************)
(* One thread drains an endpoint at a time.                                *)
(***************************************************************************)
DrainInv == TypeInv /\ OneDrainer

LEMMA InitOneDrainer == Init => OneDrainer
BY DEF Init, OneDrainer, Draining, InPass

\* Every action but EnterTrySend and EndOfPass leaves the drainers alone.
LEMMA SameDrainers ==
    ASSUME OneDrainer, txProcessCount' = txProcessCount,
           \A t \in Threads, s \in Services : Draining(t, s)' <=> Draining(t, s)
    PROVE  OneDrainer'
BY DEF OneDrainer

\* A thread outside a pass may turn to another endpoint.
LEMMA OutsidePass ==
    ASSUME DrainInv, NEW t \in Threads, ~InPass(t),
           NEW l \in Locations \ {"drain", "issue"},
           txProcessCount' = txProcessCount,
           pc' = [pc EXCEPT ![t] = l],
           \A u \in Threads \ {t} : ep'[u] = ep[u]
    PROVE  OneDrainer'
<1>1. \A u \in Threads, v \in Services : Draining(u, v)' <=> Draining(u, v)
  BY DEF DrainInv, TypeInv, TypeOK, Draining, InPass
<1> QED
  BY <1>1, SameDrainers DEF DrainInv

LEMMA EnterTrySendOneDrainer ==
    ASSUME DrainInv, NEW t \in Threads, EnterTrySend(t)
    PROVE  OneDrainer'
<1>1. pc \in [Threads -> Locations] /\ ep[t] \in Services /\ ~InPass(t)
      /\ txProcessCount \in [Services -> 0..1] /\ ep' = ep
  BY DEF DrainInv, TypeInv, TypeOK, EnterTrySend, InPass
<1>2. CASE BeingDrained(ep[t])
  <2>1. PICK l \in {"check", "return", "idle"} : pc' = [pc EXCEPT ![t] = l]
    BY <1>2, AfterTrySendType DEF EnterTrySend
  <2>2. l \in Locations \ {"drain", "issue"} /\ txProcessCount' = txProcessCount
    BY <1>2 DEF Locations, EnterTrySend
  <2> QED
    BY <1>1, <2>1, <2>2, OutsidePass
<1>3. CASE ~BeingDrained(ep[t])
  <2>1. txProcessCount[ep[t]] = 0
    BY <1>1, <1>3 DEF BeingDrained
  <2>2. /\ pc' = [pc EXCEPT ![t] = "drain"]
        /\ txProcessCount' = [txProcessCount EXCEPT ![ep[t]] = 1]
    BY <1>3, <2>1 DEF EnterTrySend
  <2>3. \A u \in Threads : ~Draining(u, ep[t])
    BY <1>1, <2>1 DEF DrainInv, OneDrainer
  <2>4. \A u \in Threads, v \in Services :
          Draining(u, v)' <=> Draining(u, v) \/ (u = t /\ v = ep[t])
    BY <1>1, <2>2 DEF Draining, InPass
  <2>5. \A v \in Services : txProcessCount'[v] = IF v = ep[t] THEN 1 ELSE txProcessCount[v]
    BY <1>1, <2>2
  <2> QED
    BY <1>1, <2>3, <2>4, <2>5 DEF DrainInv, OneDrainer
<1> QED
  BY <1>2, <1>3

LEMMA EndOfPassOneDrainer ==
    ASSUME DrainInv, NEW t \in Threads, EndOfPass(t)
    PROVE  OneDrainer'
<1>1. /\ pc \in [Threads -> Locations] /\ ep[t] \in Services /\ pc[t] = "drain"
      /\ txProcessCount \in [Services -> 0..1] /\ ep' = ep
      /\ txProcessCount' = [txProcessCount EXCEPT ![ep[t]] = DrainersAfterPass(t)]
  BY DEF DrainInv, TypeInv, TypeOK, EndOfPass
<1>2. CASE sendQueue[t] # <<>>
  <2>1. pc' = [pc EXCEPT ![t] = "issue"] /\ txProcessCount' = txProcessCount
    BY <1>1, <1>2 DEF EndOfPass, DrainersAfterPass
  <2>2. \A u \in Threads, v \in Services : Draining(u, v)' <=> Draining(u, v)
    BY <1>1, <2>1 DEF Draining, InPass
  <2> QED
    BY <2>1, <2>2, SameDrainers DEF DrainInv
<1>3. CASE sendQueue[t] = <<>>
  <2>1. PICK l \in {"check", "return", "idle"} : pc' = [pc EXCEPT ![t] = l]
    BY <1>3, AfterTrySendType DEF EndOfPass
  <2>2. txProcessCount' = [txProcessCount EXCEPT ![ep[t]] = 0]
    BY <1>1, <1>3 DEF DrainersAfterPass
  <2>3. Draining(t, ep[t])
    BY <1>1 DEF Draining, InPass
  <2>4. \A u \in Threads : Draining(u, ep[t]) => u = t
    BY <1>1, <2>3 DEF DrainInv, OneDrainer
  <2>5. \A u \in Threads, v \in Services :
          Draining(u, v)' <=> Draining(u, v) /\ u # t
    BY <1>1, <2>1 DEF Draining, InPass
  <2>6. \A v \in Services : txProcessCount'[v] = IF v = ep[t] THEN 0 ELSE txProcessCount[v]
    BY <1>1, <2>2
  <2>7. \A v \in Services : v # ep[t] => ~Draining(t, v)
    BY DEF Draining
  <2> QED
    BY <1>1, <2>4, <2>5, <2>6, <2>7 DEF DrainInv, OneDrainer
<1> QED
  BY <1>2, <1>3

\* Steps that leave every thread's location, endpoint and count alone.
LEMMA NobodyMovesOneDrainer ==
    ASSUME DrainInv, UNCHANGED <<pc, ep, txProcessCount>>
    PROVE  OneDrainer'
BY DEF DrainInv, OneDrainer, Draining, InPass

LEMMA ThreadStepOneDrainer ==
    ASSUME DrainInv, NEW t \in Threads, ThreadStep(t)
    PROVE  OneDrainer'
<1>1. /\ pc \in [Threads -> Locations] /\ ep \in [Threads -> Services]
  BY DEF DrainInv, TypeInv, TypeOK
<1>2. CASE MeasureOverflow(t)
  <2>1. PICK l \in {"offer", "return", "enter"} : pc' = [pc EXCEPT ![t] = l]
    <3>1. \A q, r : AfterOffers(q, r) \in {"offer", "return", "enter"}
      BY DEF AfterOffers
    <3> QED
      BY <1>2, <3>1 DEF MeasureOverflow
  <2>2. ~InPass(t) /\ l \in Locations \ {"drain", "issue"} /\ UNCHANGED <<ep, txProcessCount>>
    BY <1>2 DEF MeasureOverflow, InPass, Locations, queueVars
  <2> QED
    BY <2>1, <2>2, OutsidePass
<1>3. CASE OfferOverflow(t)
  <2>1. PICK l \in {"offer", "return", "enter"} : pc' = [pc EXCEPT ![t] = l]
    <3>1. \A q, r : AfterOffers(q, r) \in {"offer", "return", "enter"}
      BY DEF AfterOffers
    <3> QED
      BY <1>3, <3>1 DEF OfferOverflow
  <2>2. ~InPass(t) /\ l \in Locations \ {"drain", "issue"} /\ UNCHANGED <<ep, txProcessCount>>
    BY <1>3 DEF OfferOverflow, InPass, Locations, queueVars
  <2> QED
    BY <2>1, <2>2, OutsidePass
<1>4. CASE EnterTrySend(t)
  BY <1>4, EnterTrySendOneDrainer
<1>5. CASE GetHTCSendPacket(t)
  BY <1>5, NobodyMovesOneDrainer DEF GetHTCSendPacket
<1>6. CASE EndOfPass(t)
  BY <1>6, EndOfPassOneDrainer
<1>7. CASE IssueSend(t)
  BY <1>7, NobodyMovesOneDrainer DEF IssueSend, queueVars
<1>8. CASE IssueSendBundle(t)
  BY <1>8, NobodyMovesOneDrainer DEF IssueSendBundle, queueVars
<1>9. CASE Relock(t)
  <2>1. \A u \in Threads, v \in Services : Draining(u, v)' <=> Draining(u, v)
    BY <1>1, <1>9 DEF Relock, Draining, InPass
  <2> QED
    BY <1>9, <2>1, SameDrainers DEF DrainInv, Relock, queueVars
<1>10. CASE ReturnToCaller(t)
  <2>1. ~InPass(t) /\ "idle" \in Locations \ {"drain", "issue"}
    BY <1>10 DEF ReturnToCaller, InPass, Locations
  <2> QED
    BY <1>10, <2>1, OutsidePass DEF ReturnToCaller, queueVars
<1>11. CASE CheckEndpointTxQueue(t)
  <2>1. PICK l \in {"idle", "check", "enter"} :
          /\ pc' = [pc EXCEPT ![t] = l]
          /\ \A u \in Threads \ {t} : ep'[u] = ep[u]
    BY <1>1, <1>11 DEF CheckEndpointTxQueue
  <2>2. ~InPass(t) /\ l \in Locations \ {"drain", "issue"} /\ txProcessCount' = txProcessCount
    BY <1>11 DEF CheckEndpointTxQueue, InPass, Locations, queueVars
  <2> QED
    BY <2>1, <2>2, OutsidePass
<1>12. CASE FlushPacket(t)
  BY <1>12, NobodyMovesOneDrainer DEF FlushPacket
<1>13. CASE FlushDone(t)
  <2>1. ~InPass(t) /\ "return" \in Locations \ {"drain", "issue"}
    BY <1>13 DEF FlushDone, FlushLocations, InPass, Locations
  <2> QED
    BY <1>13, <2>1, OutsidePass DEF FlushDone, queueVars
<1> QED
  BY <1>2, <1>3, <1>4, <1>5, <1>6, <1>7, <1>8, <1>9, <1>10, <1>11, <1>12, <1>13
  DEF ThreadStep

LEMMA SenderCallOneDrainer ==
    ASSUME DrainInv, NEW t \in Senders, SenderCall(t)
    PROVE  OneDrainer'
<1>1. t \in Threads
  BY DEF Threads
<1>2. /\ pc[t] = "idle" /\ ~InPass(t) /\ pc \in [Threads -> Locations]
      /\ ep \in [Threads -> Services]
  BY DEF SenderCall, SendPktsMultiple, HTCIndicateActivityChange, FlushEndpointTX, InPass,
         DrainInv, TypeInv, TypeOK
<1>3. PICK l \in Locations \ {"drain", "issue"} :
        /\ pc' = [pc EXCEPT ![t] = l]
        /\ \A u \in Threads \ {t} : ep'[u] = ep[u]
        /\ txProcessCount' = txProcessCount
  <2>1. CASE SendPktsMultiple(t)
    <3>1. {"offer", "measure"} \subseteq Locations \ {"drain", "issue"}
      BY DEF Locations
    <3> QED
      BY <1>2, <2>1, <3>1 DEF SendPktsMultiple, queueVars
  <2>2. ASSUME NEW v \in Streams, NEW on \in BOOLEAN, HTCIndicateActivityChange(t, v, on)
        PROVE  \E l \in Locations \ {"drain", "issue"} :
                 /\ pc' = [pc EXCEPT ![t] = l]
                 /\ \A u \in Threads \ {t} : ep'[u] = ep[u]
                 /\ txProcessCount' = txProcessCount
    <3>1. {"idle", "check"} \subseteq Locations \ {"drain", "issue"}
      BY DEF Locations
    <3>2. pc = [pc EXCEPT ![t] = "idle"]
      BY <1>2
    <3>3. UNCHANGED ep /\ txProcessCount' = txProcessCount
      BY <2>2 DEF HTCIndicateActivityChange, queueVars
    <3>4. pc' = pc \/ pc' = [pc EXCEPT ![t] = "check"]
      BY <2>2 DEF HTCIndicateActivityChange
    <3> QED
      BY <3>1, <3>2, <3>3, <3>4
  <2>3. ASSUME NEW v \in UsedServices, NEW how \in FlushModes, FlushEndpointTX(t, v, how)
        PROVE  \E l \in Locations \ {"drain", "issue"} :
                 /\ pc' = [pc EXCEPT ![t] = l]
                 /\ \A u \in Threads \ {t} : ep'[u] = ep[u]
                 /\ txProcessCount' = txProcessCount
    <3>1. how \in Locations \ {"drain", "issue"}
      BY SendAssumption DEF Locations
    <3> QED
      BY <1>2, <2>3, <3>1 DEF FlushEndpointTX, queueVars
  <2> QED
    BY <2>1, <2>2, <2>3 DEF SenderCall
<1> QED
  BY <1>1, <1>2, <1>3, OutsidePass

LEMMA NextOneDrainer == DrainInv /\ [Next]_vars => OneDrainer'
<1> SUFFICES ASSUME DrainInv, [Next]_vars PROVE OneDrainer'
  OBVIOUS
<1>1. ASSUME NEW rpt \in Reports, HTCProcessCreditRpt(rpt) PROVE OneDrainer'
  <2>1. Rx \in Threads /\ ~InPass(Rx) /\ "check" \in Locations \ {"drain", "issue"}
    BY <1>1 DEF Threads, HTCProcessCreditRpt, InPass, Locations
  <2> QED
    BY <1>1, <2>1, OutsidePass DEF HTCProcessCreditRpt, queueVars
<1>2. ASSUME HifStep PROVE OneDrainer'
  BY <1>2, NobodyMovesOneDrainer
  DEF HifStep, TransferDone, CompleteSentPacket, queueVars, threadVars
<1>3. ASSUME UNCHANGED vars PROVE OneDrainer'
  BY <1>3, NobodyMovesOneDrainer DEF vars, queueVars, threadVars
<1> QED
  BY <1>1, <1>2, <1>3, ThreadStepOneDrainer, SenderCallOneDrainer DEF Next

\* TxProcessCount is one exactly while a thread drains the endpoint, and two
\* threads never drain the same endpoint, however many senders there are.
THEOREM OneDrainerCorrect == Spec => []OneDrainer
<1>1. Init => DrainInv
  BY InitTypeInv, InitOneDrainer DEF DrainInv
<1>2. DrainInv /\ [Next]_vars => DrainInv'
  BY NextTypeInv, NextOneDrainer DEF DrainInv
<1>3. DrainInv => OneDrainer
  BY DEF DrainInv
<1> QED
  BY <1>1, <1>2, <1>3, PTL DEF Spec

(***************************************************************************)
(* PacketsPlaced in two parts: the sets of packets in each place, and      *)
(* that no queue repeats a packet.  What a thread collected goes to the    *)
(* queue of its endpoint, so it must belong there.                         *)
(***************************************************************************)
Queued(s) == Elems(txQueue[s])
InHif == Elems(HifPackets)
Local(t) == IF InPass(t) THEN Elems(sendQueue[t]) ELSE {}

Placed ==
    /\ \A p \in Packets :
         /\ \A s \in Services : p \in Queued(s) <=> where[p] = "queued" /\ EpOf[p] = s
         /\ p \in InHif <=> where[p] = "hif"
         /\ (\E t \in Threads : p \in Local(t)) <=> where[p] = "local"
         /\ (\E t \in Threads : p \in HeldUncharged(t)) <=> where[p] = "caller"
    /\ \A t, u \in Threads :
         t # u => (Local(t) \cup HeldUncharged(t)) \cap (Local(u) \cup HeldUncharged(u)) = {}

\* What thread t has in hand is in one of its queues, once.
HoldsOnce(t) ==
    /\ Distinct(sendQueue[t]) /\ Distinct(overflow[t])
    /\ Elems(sendQueue[t]) \cap Elems(overflow[t]) = {}
    /\ refused[t] \cap (Elems(sendQueue[t]) \cup Elems(overflow[t])) = {}

Unrepeated ==
    /\ \A s \in Services : Distinct(txQueue[s])
    /\ Distinct(HifPackets)
    /\ \A t \in Threads : HoldsOnce(t)

OnEndpoint ==
    \A t \in Threads :
      \A p \in Elems(sendQueue[t]) \cup Elems(overflow[t]) : EpOf[p] = ep[t]

PlaceInv == TypeInv /\ Placed /\ Unrepeated /\ OnEndpoint

LEMMA PlacedIsPacketsPlaced == Placed /\ Unrepeated => PacketsPlaced
<1> SUFFICES ASSUME Placed, Unrepeated PROVE PacketsPlaced
  OBVIOUS
<1>1. \A t \in Threads : HeldBy(t) = Local(t) \cup HeldUncharged(t)
  BY DEF HeldBy, Local, HeldUncharged
<1>2. \A p, t : p \in Local(t) <=> InPass(t) /\ p \in Elems(sendQueue[t])
  BY DEF Local
<1> QED
  BY <1>1, <1>2 DEF Placed, Unrepeated, HoldsOnce, PacketsPlaced, Queued, InHif

\* The places hold packets.
LEMMA PlacesType ==
    ASSUME TypeOK
    PROVE  /\ \A s \in Services : Queued(s) \subseteq Packets
           /\ \A t \in Threads : /\ Local(t) \subseteq Packets
                                 /\ HeldUncharged(t) \subseteq Packets
                                 /\ Elems(sendQueue[t]) \subseteq Packets
                                 /\ Elems(overflow[t]) \subseteq Packets
<1>1. \A s \in Services : Queued(s) \subseteq Packets
  BY ElemsType DEF TypeOK, Queued
<1>2. \A t \in Threads : /\ Elems(sendQueue[t]) \subseteq Packets
                         /\ Elems(overflow[t]) \subseteq Packets
                         /\ refused[t] \subseteq Packets
  BY ElemsType DEF TypeOK
<1> QED
  BY <1>1, <1>2 DEF Local, HeldUncharged

(***************************************************************************)
(* The packets of the submissions to HIF.                                  *)
(***************************************************************************)
LEMMA PacketsOfType ==
    ASSUME NEW h \in Seq(Submissions)
    PROVE  PacketsOf(h) \in Seq(Packets) /\ Len(PacketsOf(h)) = Len(h)
<1>1. Len(h) \in Nat /\ DOMAIN h = 1..Len(h) /\ \A i \in 1..Len(h) : h[i].pkt \in Packets
  <2>1. \A x \in Submissions : x.pkt \in Packets
    BY DEF Submissions
  <2> QED
    BY <2>1
<1>2. PacketsOf(h) = [i \in 1..Len(h) |-> h[i].pkt]
  BY <1>1 DEF PacketsOf
<1>3. PacketsOf(h) \in [1..Len(h) -> Packets]
  BY <1>1, <1>2
<1> QED
  BY <1>1, <1>3

LEMMA PacketsOfConcat ==
    ASSUME NEW h \in Seq(Submissions), NEW g \in Seq(Submissions)
    PROVE  PacketsOf(h \o g) = PacketsOf(h) \o PacketsOf(g)
<1> DEFINE a == PacketsOf(h)
           b == PacketsOf(g)
           c == PacketsOf(h \o g)
<1>1. h \o g \in Seq(Submissions) /\ Len(h \o g) = Len(h) + Len(g)
  OBVIOUS
<1>2. /\ a \in Seq(Packets) /\ Len(a) = Len(h)
      /\ b \in Seq(Packets) /\ Len(b) = Len(g)
      /\ c \in Seq(Packets) /\ Len(c) = Len(h) + Len(g)
  BY <1>1, PacketsOfType
<1>3. /\ \A i \in 1..Len(h) : a[i] = h[i].pkt
      /\ \A i \in 1..Len(g) : b[i] = g[i].pkt
      /\ \A i \in 1..(Len(h) + Len(g)) :
           c[i] = IF i <= Len(h) THEN h[i].pkt ELSE g[i - Len(h)].pkt
  BY <1>1 DEF PacketsOf
<1> HIDE DEF a, b, c
<1>4. a \o b \in Seq(Packets) /\ Len(a \o b) = Len(h) + Len(g)
  BY <1>2
<1>5. ASSUME NEW i \in 1..(Len(h) + Len(g)) PROVE c[i] = (a \o b)[i]
  <2>1. CASE i <= Len(h)
    BY <1>2, <1>3, <2>1
  <2>2. CASE ~(i <= Len(h))
    <3>1. i - Len(h) \in 1..Len(g) /\ i \in Len(a) + 1..Len(a) + Len(b)
      BY <1>2, <2>2
    <3>2. (a \o b)[i] = b[i - Len(h)]
      BY <1>2, <3>1
    <3>3. b[i - Len(h)] = g[i - Len(h)].pkt
      BY <1>3, <3>1
    <3> QED
      BY <1>3, <2>2, <3>2, <3>3
  <2> QED
    BY <2>1, <2>2
<1>6. c = a \o b
  BY <1>2, <1>4, <1>5, SeqEqual
<1> QED
  BY <1>6 DEF a, b, c

LEMMA PacketsOfAppend ==
    ASSUME NEW h \in Seq(Submissions), NEW x \in Submissions
    PROVE  PacketsOf(Append(h, x)) = Append(PacketsOf(h), x.pkt)
<1>1. Append(h, x) = h \o <<x>> /\ <<x>> \in Seq(Submissions)
  BY AppendIsConcat
<1>2. PacketsOf(<<x>>) = <<x.pkt>>
  BY DEF PacketsOf
<1>3. x.pkt \in Packets
  BY DEF Submissions
<1>4. PacketsOf(h) \in Seq(Packets)
  BY PacketsOfType
<1>5. PacketsOf(h \o <<x>>) = PacketsOf(h) \o PacketsOf(<<x>>)
  BY <1>1, PacketsOfConcat
<1>6. Append(PacketsOf(h), x.pkt) = PacketsOf(h) \o <<x.pkt>>
  BY <1>3, <1>4, AppendIsConcat
<1> QED
  BY <1>1, <1>2, <1>5, <1>6

LEMMA PacketsOfBundle ==
    ASSUME NEW q \in Seq(Packets)
    PROVE  PacketsOf(Bundle(q)) = q
<1>1. PacketsOf(Bundle(q)) = [i \in 1..Len(q) |-> q[i]]
  BY DEF PacketsOf, Bundle
<1> QED
  BY <1>1

LEMMA PacketsOfTail ==
    ASSUME NEW h \in Seq(Submissions), h # <<>>
    PROVE  /\ Head(PacketsOf(h)) = Head(h).pkt
           /\ Tail(PacketsOf(h)) = PacketsOf(Tail(h))
           /\ PacketsOf(h) \in Seq(Packets) /\ PacketsOf(h) # <<>>
<1>1. PacketsOf(h) \in Seq(Packets) /\ Len(PacketsOf(h)) = Len(h) /\ Len(h) > 0
  BY PacketsOfType
<1>2. Head(PacketsOf(h)) = Head(h).pkt
  BY <1>1 DEF PacketsOf
<1>3. Tail(PacketsOf(h)) = PacketsOf(Tail(h))
  <2>1. Tail(h) \in Seq(Submissions) /\ Len(Tail(h)) = Len(h) - 1
    OBVIOUS
  <2>2. /\ Tail(PacketsOf(h)) \in Seq(Packets) /\ Len(Tail(PacketsOf(h))) = Len(h) - 1
        /\ \A i \in 1..(Len(h) - 1) : Tail(PacketsOf(h))[i] = PacketsOf(h)[i + 1]
    BY <1>1
  <2>3. \A i \in 1..(Len(h) - 1) : PacketsOf(h)[i + 1] = h[i + 1].pkt
    BY DEF PacketsOf
  <2>4. \A i \in 1..(Len(h) - 1) : PacketsOf(Tail(h))[i] = h[i + 1].pkt
    BY <2>1 DEF PacketsOf
  <2>5. PacketsOf(Tail(h)) \in Seq(Packets) /\ Len(PacketsOf(Tail(h))) = Len(h) - 1
    BY <2>1, PacketsOfType
  <2> QED
    BY <2>2, <2>3, <2>4, <2>5, SeqEqual
<1> QED
  BY <1>1, <1>2, <1>3

(***************************************************************************)
(* A step of thread t moves the packets ps to a new owner: they leave the  *)
(* place they were in and show up in the owner's place, if it has one.     *)
(***************************************************************************)
OnlyThread(t) ==
    \A u \in Threads \ {t} :
      /\ pc'[u] = pc[u] /\ ep'[u] = ep[u] /\ refused'[u] = refused[u]
      /\ sendQueue'[u] = sendQueue[u] /\ overflow'[u] = overflow[u]

After(place, is, ps) == IF is THEN place \cup ps ELSE place \ ps

Moves(t, ps, owner) ==
    /\ \A s \in Services :
         Queued(s)' = After(Queued(s), owner = "queued", {p \in ps :
                                                   owner = "queued" => EpOf[p] = s})
    /\ InHif' = After(InHif, owner = "hif", ps)
    /\ Local(t)' = After(Local(t), owner = "local", ps)
    /\ HeldUncharged(t)' = After(HeldUncharged(t), owner = "caller", ps)

LEMMA OthersKeep ==
    ASSUME NEW t, OnlyThread(t), NEW u \in Threads, u # t
    PROVE  /\ Local(u)' = Local(u) /\ HeldUncharged(u)' = HeldUncharged(u)
           /\ HoldsOnce(u) => HoldsOnce(u)'
BY DEF OnlyThread, Local, HeldUncharged, HoldsOnce, InPass

LEMMA MovePlaced ==
    ASSUME Placed, NEW t \in Threads, OnlyThread(t),
           NEW ps, NEW owner, Moves(t, ps, owner), where' = Move(ps, owner),
           \A u \in Threads \ {t} : (Local(u) \cup HeldUncharged(u)) \cap ps = {}
    PROVE  Placed'
<1>1. \A u \in Threads \ {t} :
        Local(u)' = Local(u) /\ HeldUncharged(u)' = HeldUncharged(u)
  BY OthersKeep
<1>2. \A p \in Packets : where'[p] = IF p \in ps THEN owner ELSE where[p]
  BY DEF Move
<1>3. ASSUME NEW p \in Packets
      PROVE  /\ \A s \in Services : p \in Queued(s)' <=> where'[p] = "queued" /\ EpOf[p] = s
             /\ p \in InHif' <=> where'[p] = "hif"
  BY <1>2 DEF Moves, After, Placed
<1>4. ASSUME NEW p \in Packets
      PROVE  (\E u \in Threads : p \in Local(u)') <=> where'[p] = "local"
  <2>1. p \in Local(t)' <=> IF p \in ps THEN owner = "local" ELSE p \in Local(t)
    BY DEF Moves, After
  <2>2. (\E u \in Threads : p \in Local(u)') <=>
          p \in Local(t)' \/ \E u \in Threads \ {t} : p \in Local(u)
    BY <1>1
  <2>3. (\E u \in Threads : p \in Local(u)) <=> where[p] = "local"
    BY DEF Placed
  <2> QED
    BY <1>2, <2>1, <2>2, <2>3
<1>5. ASSUME NEW p \in Packets
      PROVE  (\E u \in Threads : p \in HeldUncharged(u)') <=> where'[p] = "caller"
  <2>1. p \in HeldUncharged(t)' <=>
          IF p \in ps THEN owner = "caller" ELSE p \in HeldUncharged(t)
    BY DEF Moves, After
  <2>2. (\E u \in Threads : p \in HeldUncharged(u)') <=>
          p \in HeldUncharged(t)' \/ \E u \in Threads \ {t} : p \in HeldUncharged(u)
    BY <1>1
  <2>3. (\E u \in Threads : p \in HeldUncharged(u)) <=> where[p] = "caller"
    BY DEF Placed
  <2> QED
    BY <1>2, <2>1, <2>2, <2>3
<1>6. ASSUME NEW u \in Threads, NEW v \in Threads, u # v
      PROVE  (Local(u) \cup HeldUncharged(u))' \cap (Local(v) \cup HeldUncharged(v))' = {}
  <2>1. \A w \in Threads :
          (Local(w) \cup HeldUncharged(w))' \subseteq
            (Local(w) \cup HeldUncharged(w)) \cup (IF w = t THEN ps ELSE {})
    BY <1>1 DEF Moves, After
  <2>2. (Local(u) \cup HeldUncharged(u)) \cap (Local(v) \cup HeldUncharged(v)) = {}
    BY <1>6 DEF Placed
  <2> QED
    BY <1>6, <2>1, <2>2
<1> QED
  BY <1>3, <1>4, <1>5, <1>6 DEF Placed

\* What is left to show of a step of thread t that moves packets.
LEMMA ThreadPlaces ==
    ASSUME PlaceInv, NEW t \in Threads, OnlyThread(t), Placed',
           \A s \in Services : Distinct(txQueue[s])', Distinct(HifPackets)', HoldsOnce(t)',
           \A p \in Elems(sendQueue'[t]) \cup Elems(overflow'[t]) : EpOf[p] = ep'[t]
    PROVE  Placed' /\ Unrepeated' /\ OnEndpoint'
<1>1. Unrepeated'
  BY OthersKeep DEF PlaceInv, Unrepeated
<1>2. OnEndpoint'
  BY DEF PlaceInv, OnEndpoint, OnlyThread
<1> QED
  BY <1>1, <1>2

\* Steps that move no packet.  A thread enters or leaves a pass with nothing
\* collected, and turns to another endpoint with nothing in hand.
LEMMA NothingMoves ==
    ASSUME PlaceInv, NEW t \in Threads,
           UNCHANGED <<txQueue, hif, where, sendQueue, overflow, refused>>,
           \A u \in Threads \ {t} : pc'[u] = pc[u] /\ ep'[u] = ep[u],
           InPass(t)' = InPass(t) \/ sendQueue[t] = <<>>,
           ep'[t] = ep[t] \/ (sendQueue[t] = <<>> /\ overflow[t] = <<>>)
    PROVE  Placed' /\ Unrepeated' /\ OnEndpoint'
<1>1. OnlyThread(t)
  BY DEF OnlyThread
<1>2. Local(t)' = Local(t) /\ HeldUncharged(t)' = HeldUncharged(t)
  BY ElemsEmpty DEF Local, HeldUncharged
<1>3. \A s \in Services : Queued(s)' = Queued(s)
  BY DEF Queued
<1>4. InHif' = InHif /\ HifPackets' = HifPackets
  BY DEF InHif, HifPackets
<1>5. where' = Move({}, "app")
  BY DEF Move, PlaceInv, TypeInv, TypeOK
<1>6. Moves(t, {}, "app")
  BY <1>2, <1>3, <1>4 DEF Moves, After
<1>7. Placed'
  BY <1>1, <1>5, <1>6, MovePlaced DEF PlaceInv
<1>8. HoldsOnce(t)' /\ Distinct(HifPackets)' /\ \A s \in Services : Distinct(txQueue[s])'
  BY <1>4 DEF PlaceInv, Unrepeated, HoldsOnce
<1>9. \A p \in Elems(sendQueue'[t]) \cup Elems(overflow'[t]) : EpOf[p] = ep'[t]
  BY ElemsEmpty DEF PlaceInv, OnEndpoint
<1> QED
  BY <1>1, <1>7, <1>8, <1>9, ThreadPlaces

-----------------------------------------------------------------------------
(***************************************************************************)
(* The steps of a thread.                                                  *)
(***************************************************************************)
\* A packet is in no place but its own.
LEMMA Elsewhere ==
    ASSUME Placed, NEW p \in Packets
    PROVE  /\ where[p] # "queued" => \A s \in Services : p \notin Queued(s)
           /\ where[p] # "hif" => p \notin InHif
           /\ where[p] # "local" => \A t \in Threads : p \notin Local(t)
           /\ where[p] # "caller" => \A t \in Threads : p \notin HeldUncharged(t)
BY DEF Placed

LEMMA InitPlaceInv == Init => PlaceInv
<1> SUFFICES ASSUME Init PROVE PlaceInv
  OBVIOUS
<1>1. TypeInv
  BY InitTypeInv
<1>2. HifPackets = <<>>
  BY DEF Init, HifPackets, PacketsOf
<1>3. Placed
  BY <1>2, ElemsEmpty DEF Init, Placed, Queued, InHif, Local, HeldUncharged, InPass
<1>4. Unrepeated
  BY <1>2, ElemsEmpty DEF Init, Unrepeated, HoldsOnce
<1>5. OnEndpoint
  BY ElemsEmpty DEF Init, OnEndpoint
<1> QED
  BY <1>1, <1>3, <1>4, <1>5 DEF PlaceInv

LEMMA SendPktsMultiplePlaces ==
    ASSUME PlaceInv, NEW t \in Threads, SendPktsMultiple(t)
    PROVE  Placed' /\ Unrepeated' /\ OnEndpoint'
<1>1. PICK q \in Batches :
        /\ ep' = [ep EXCEPT ![t] = EpOf[q[1]]]
        /\ overflow' = [overflow EXCEPT ![t] = q]
        /\ where' = Move(Elems(q), "caller")
        /\ pc' = [pc EXCEPT ![t] = IF Len(txQueue[EpOf[q[1]]]) >= MaxTxQueueDepth
                                   THEN "offer" ELSE "measure"]
  BY DEF SendPktsMultiple
<1>2. /\ Placed /\ TypeOK /\ HoldsOnce(t) /\ pc[t] = "idle"
      /\ sendQueue[t] = <<>> /\ overflow[t] = <<>>
  BY DEF PlaceInv, TypeInv, Control, Unrepeated, SendPktsMultiple
<1>3. UNCHANGED <<txQueue, hif, sendQueue, refused>>
  BY DEF SendPktsMultiple, queueVars, hifVars
<1>4. /\ \A p \in Elems(q) : p \in Packets /\ where[p] = "app" /\ EpOf[p] = EpOf[q[1]]
      /\ Distinct(q)
  BY DEF Batches, Elems
<1>5. OnlyThread(t)
  BY <1>1, <1>2, <1>3 DEF OnlyThread, TypeOK
<1> DEFINE ps == Elems(q)
<1> HIDE DEF ps
<1>6. /\ pc'[t] \in {"offer", "measure"} /\ overflow'[t] = q /\ ep'[t] = EpOf[q[1]]
  BY <1>1, <1>2 DEF TypeOK
<1>7. /\ Local(t) = {} /\ Local(t)' = {}
      /\ HeldUncharged(t) = refused[t] /\ HeldUncharged(t)' = ps \cup refused[t]
  BY <1>2, <1>3, <1>6, ElemsEmpty DEF Local, HeldUncharged, InPass, ps
<1>8. /\ \A s \in Services : Queued(s)' = Queued(s)
      /\ InHif' = InHif /\ HifPackets' = HifPackets
  BY <1>3 DEF Queued, InHif, HifPackets
<1>9. \A p \in ps : /\ p \notin InHif /\ \A s \in Services : p \notin Queued(s)
                    /\ \A u \in Threads : p \notin Local(u) \cup HeldUncharged(u)
  BY <1>2, <1>4, Elsewhere DEF ps
<1>10. Moves(t, ps, "caller")
  BY <1>7, <1>8, <1>9 DEF Moves, After
<1>11. where' = Move(ps, "caller")
  BY <1>1 DEF ps
<1>12. Placed'
  BY <1>2, <1>5, <1>9, <1>10, <1>11, MovePlaced
<1>13. HoldsOnce(t)'
  BY <1>2, <1>3, <1>4, <1>6, <1>7, <1>9, ElemsEmpty DEF HoldsOnce, ps
<1>14. Distinct(HifPackets)' /\ \A s \in Services : Distinct(txQueue[s])'
  BY <1>3, <1>8 DEF PlaceInv, Unrepeated
<1>15. \A p \in Elems(sendQueue'[t]) \cup Elems(overflow'[t]) : EpOf[p] = ep'[t]
  BY <1>2, <1>3, <1>4, <1>6, ElemsEmpty
<1> QED
  BY <1>5, <1>12, <1>13, <1>14, <1>15, ThreadPlaces

\* Steps before the lock is taken share the batch out among the thread's own
\* queues.
LEMMA SharesOut ==
    ASSUME PlaceInv, NEW t \in Threads, ~InPass(t), ~InPass(t)', OnlyThread(t),
           UNCHANGED <<txQueue, hif, where, ep>>,
           HeldUncharged(t)' = HeldUncharged(t), HoldsOnce(t)',
           Elems(sendQueue'[t]) \cup Elems(overflow'[t])
             \subseteq Elems(sendQueue[t]) \cup Elems(overflow[t])
    PROVE  Placed' /\ Unrepeated' /\ OnEndpoint'
<1>1. where' = Move({}, "app")
  BY DEF Move, PlaceInv, TypeInv, TypeOK
<1>2. /\ \A s \in Services : Queued(s)' = Queued(s)
      /\ InHif' = InHif /\ HifPackets' = HifPackets
  BY DEF Queued, InHif, HifPackets
<1>3. Local(t) = {} /\ Local(t)' = {}
  BY DEF Local
<1>4. Moves(t, {}, "app")
  BY <1>2, <1>3 DEF Moves, After
<1>5. Placed'
  BY <1>1, <1>4, MovePlaced DEF PlaceInv
<1>6. Distinct(HifPackets)' /\ \A s \in Services : Distinct(txQueue[s])'
  BY <1>2 DEF PlaceInv, Unrepeated
<1>7. \A p \in Elems(sendQueue'[t]) \cup Elems(overflow'[t]) : EpOf[p] = ep'[t]
  BY DEF PlaceInv, OnEndpoint
<1> QED
  BY <1>5, <1>6, <1>7, ThreadPlaces

LEMMA MeasureOverflowPlaces ==
    ASSUME PlaceInv, NEW t \in Threads, MeasureOverflow(t)
    PROVE  Placed' /\ Unrepeated' /\ OnEndpoint'
<1> DEFINE q == overflow[t]
           n == Room(ep[t], Len(q))
           f == Front(q, n)
           r == Rest(q, n)
<1>1. /\ sendQueue' = [sendQueue EXCEPT ![t] = f]
      /\ overflow' = [overflow EXCEPT ![t] = r]
      /\ pc' = [pc EXCEPT ![t] = AfterOffers(r, f)]
      /\ UNCHANGED <<txQueue, hif, where, ep, refused>> /\ pc[t] = "measure"
  BY DEF MeasureOverflow, queueVars, hifVars
<1>2. TypeOK /\ q \in Seq(Packets) /\ txQueue[ep[t]] \in Seq(Packets)
  BY DEF PlaceInv, TypeInv, TypeOK
<1>3. n \in 0..Len(q)
  BY <1>2, SendAssumption DEF Room
<1>4. HoldsOnce(t) /\ sendQueue[t] = <<>>
  BY <1>1 DEF PlaceInv, Unrepeated, TypeInv, Control
<1>5. /\ Elems(q) = Elems(f) \cup Elems(r)
      /\ Distinct(f) /\ Distinct(r) /\ Elems(f) \cap Elems(r) = {}
  <2>1. Distinct(q)
    BY <1>4 DEF HoldsOnce
  <2> HIDE DEF n
  <2> QED
    BY <1>2, <1>3, <2>1, ElemsSplit
<1>6. AfterOffers(r, f) \in {"offer", "return", "enter"}
  BY DEF AfterOffers
<1> HIDE DEF n, f, r
<1>7. /\ sendQueue'[t] = f /\ overflow'[t] = r /\ pc'[t] \in {"offer", "return", "enter"}
      /\ OnlyThread(t)
  BY <1>1, <1>2, <1>6 DEF OnlyThread, TypeOK
<1>8. ~InPass(t) /\ ~InPass(t)'
  BY <1>1, <1>7 DEF InPass
<1>9. HeldUncharged(t) = Elems(q) \cup refused[t]
  BY <1>4, <1>8, ElemsEmpty DEF HeldUncharged
<1>10. HeldUncharged(t)' = Elems(q) \cup refused[t]
  BY <1>1, <1>5, <1>7, <1>8 DEF HeldUncharged
<1>11. HoldsOnce(t)'
  BY <1>1, <1>4, <1>5, <1>7, ElemsEmpty DEF HoldsOnce
<1>12. Elems(sendQueue'[t]) \cup Elems(overflow'[t]) \subseteq
         Elems(sendQueue[t]) \cup Elems(overflow[t])
  BY <1>5, <1>7
<1> QED
  BY <1>1, <1>7, <1>8, <1>9, <1>10, <1>11, <1>12, SharesOut

LEMMA OfferOverflowPlaces ==
    ASSUME PlaceInv, NEW t \in Threads, OfferOverflow(t)
    PROVE  Placed' /\ Unrepeated' /\ OnEndpoint'
<1> DEFINE p == Head(overflow[t])
           r == Tail(overflow[t])
           q == sendQueue[t]
           e == Append(q, p)
<1>1. /\ overflow' = [overflow EXCEPT ![t] = r]
      /\ UNCHANGED <<txQueue, hif, where, ep>> /\ pc[t] = "offer"
  BY DEF OfferOverflow, queueVars, hifVars
<1>2. /\ TypeOK /\ overflow[t] \in Seq(Packets) /\ overflow[t] # <<>>
      /\ q \in Seq(Packets) /\ HoldsOnce(t)
  BY <1>1 DEF PlaceInv, TypeInv, TypeOK, Control, Unrepeated
<1>3. /\ p \in Packets /\ Elems(overflow[t]) = {p} \cup Elems(r)
      /\ Distinct(r) /\ p \notin Elems(r)
  BY <1>2, ElemsTail DEF HoldsOnce
<1>4. Elems(e) = Elems(q) \cup {p} /\ (Distinct(e) <=> Distinct(q) /\ p \notin Elems(q))
  <2> HIDE DEF p, q
  <2> QED
    BY <1>2, <1>3, ElemsAppend
<1>5. /\ overflow'[t] = r
      /\ \/ sendQueue' = [sendQueue EXCEPT ![t] = e] /\ refused' = refused
         \/ refused' = [refused EXCEPT ![t] = @ \cup {p}] /\ sendQueue' = sendQueue
  BY <1>1, <1>2 DEF OfferOverflow, TypeOK
<1>6. PICK l \in {"offer", "return", "enter"} : pc' = [pc EXCEPT ![t] = l]
  <2>1. \A a, b : AfterOffers(a, b) \in {"offer", "return", "enter"}
    BY DEF AfterOffers
  <2> QED
    BY <2>1 DEF OfferOverflow
<1> HIDE DEF p, r, q, e
<1>7. OnlyThread(t)
  BY <1>1, <1>2, <1>5, <1>6 DEF OnlyThread, TypeOK
<1>8. ~InPass(t) /\ ~InPass(t)'
  BY <1>1, <1>2, <1>6 DEF InPass, TypeOK
<1>9. \/ sendQueue'[t] = e /\ refused'[t] = refused[t]
      \/ refused'[t] = refused[t] \cup {p} /\ sendQueue'[t] = q
  BY <1>2, <1>5 DEF TypeOK, q
<1>10. HeldUncharged(t)' = HeldUncharged(t)
  BY <1>3, <1>4, <1>5, <1>8, <1>9 DEF HeldUncharged, q
<1>11. HoldsOnce(t)'
  BY <1>2, <1>3, <1>4, <1>5, <1>9 DEF HoldsOnce, q
<1>12. Elems(sendQueue'[t]) \cup Elems(overflow'[t]) \subseteq
         Elems(sendQueue[t]) \cup Elems(overflow[t])
  BY <1>3, <1>4, <1>5, <1>9 DEF q
<1> QED
  BY <1>1, <1>7, <1>8, <1>10, <1>11, <1>12, SharesOut

LEMMA EnterTrySendPlaces ==
    ASSUME PlaceInv, NEW t \in Threads, EnterTrySend(t)
    PROVE  Placed' /\ Unrepeated' /\ OnEndpoint'
<1> DEFINE ps == Elems(sendQueue[t])
           s == ep[t]
<1>1. /\ TypeOK /\ Placed /\ HoldsOnce(t) /\ overflow[t] = <<>> /\ ~InPass(t)
      /\ s \in Services /\ txQueue[s] \in Seq(Packets) /\ sendQueue[t] \in Seq(Packets)
      /\ Distinct(txQueue[s]) /\ t \in Threads
  BY DEF PlaceInv, TypeInv, TypeOK, Control, Unrepeated, EnterTrySend, InPass
<1>2. /\ txQueue' = [txQueue EXCEPT ![s] = txQueue[s] \o sendQueue[t]]
      /\ where' = Move(ps, "queued")
      /\ sendQueue' = [sendQueue EXCEPT ![t] = <<>>]
      /\ UNCHANGED <<hif, ep, overflow, refused>>
      /\ \A u \in Threads \ {t} : pc'[u] = pc[u]
  <2>1. \E l : pc' = [pc EXCEPT ![t] = l]
    BY DEF EnterTrySend
  <2> QED
    BY <2>1 DEF EnterTrySend, hifVars, PlaceInv, TypeInv, TypeOK
<1>3. OnlyThread(t)
  BY <1>1, <1>2 DEF OnlyThread, TypeOK
<1>4. ps \subseteq Packets /\ ps \subseteq HeldUncharged(t)
  BY <1>1, PlacesType DEF HeldUncharged
<1>5. \A p \in ps : p \in Packets /\ where[p] = "caller" /\ EpOf[p] = s
  BY <1>1, <1>4 DEF Placed, PlaceInv, OnEndpoint
<1>6. Queued(s) \cap ps = {}
  BY <1>1, <1>5, Elsewhere
<1>7. /\ Elems(txQueue[s] \o sendQueue[t]) = Queued(s) \cup ps
      /\ Distinct(txQueue[s] \o sendQueue[t])
  <2>1. Distinct(sendQueue[t])
    BY <1>1 DEF HoldsOnce
  <2> QED
    BY <1>1, <1>6, <2>1, ElemsConcat DEF Queued
<1> HIDE DEF ps
<1>8. \A v \in Services : Queued(v)' = IF v = s THEN Queued(s) \cup ps ELSE Queued(v)
  BY <1>1, <1>2, <1>7 DEF Queued, TypeOK
<1>9. sendQueue'[t] = <<>> /\ overflow'[t] = <<>> /\ refused'[t] = refused[t]
  BY <1>1, <1>2 DEF TypeOK
<1>10. /\ Local(t) = {} /\ Local(t)' = {}
       /\ HeldUncharged(t) = ps \cup refused[t] /\ HeldUncharged(t)' = refused[t]
       /\ ps \cap refused[t] = {}
  BY <1>1, <1>9, ElemsEmpty DEF Local, HeldUncharged, HoldsOnce, ps
<1>11. InHif' = InHif /\ HifPackets' = HifPackets /\ InHif \cap ps = {}
  BY <1>1, <1>2, <1>5, Elsewhere DEF InHif, HifPackets
<1>12. Moves(t, ps, "queued")
  BY <1>5, <1>8, <1>10, <1>11 DEF Moves, After
<1>13. \A u \in Threads \ {t} : (Local(u) \cup HeldUncharged(u)) \cap ps = {}
  BY <1>1, <1>10 DEF Placed
<1>14. Placed'
  BY <1>1, <1>2, <1>3, <1>12, <1>13, MovePlaced
<1>15. HoldsOnce(t)'
  BY <1>9, ElemsEmpty DEF HoldsOnce
<1>16. Distinct(HifPackets)' /\ \A v \in Services : Distinct(txQueue[v])'
  BY <1>1, <1>2, <1>7, <1>11 DEF PlaceInv, Unrepeated, TypeOK
<1>17. \A p \in Elems(sendQueue'[t]) \cup Elems(overflow'[t]) : EpOf[p] = ep'[t]
  BY <1>9, ElemsEmpty
<1> QED
  BY <1>3, <1>14, <1>15, <1>16, <1>17, ThreadPlaces

LEMMA GetHTCSendPacketPlaces ==
    ASSUME PlaceInv, NEW t \in Threads, GetHTCSendPacket(t)
    PROVE  Placed' /\ Unrepeated' /\ OnEndpoint'
<1> DEFINE s == ep[t]
           p == Head(txQueue[s])
           q == sendQueue[t]
           e == Append(q, p)
           r == Tail(txQueue[s])
<1>1. /\ TypeOK /\ Placed /\ HoldsOnce(t) /\ overflow[t] = <<>> /\ InPass(t)
      /\ s \in Services /\ txQueue[s] \in Seq(Packets) /\ q \in Seq(Packets)
      /\ Distinct(txQueue[s]) /\ txQueue[s] # <<>>
  BY DEF PlaceInv, TypeInv, TypeOK, Control, Unrepeated, GetHTCSendPacket, HeadCovered, InPass
<1>2. /\ txQueue' = [txQueue EXCEPT ![s] = r]
      /\ sendQueue' = [sendQueue EXCEPT ![t] = e]
      /\ where' = Move({p}, "local")
      /\ UNCHANGED <<hif, pc, ep, overflow, refused>>
  BY DEF GetHTCSendPacket, hifVars
<1>3. p \in Packets /\ Queued(s) = {p} \cup Elems(r) /\ Distinct(r) /\ p \notin Elems(r)
  BY <1>1, ElemsTail DEF Queued
<1>4. where[p] = "queued" /\ EpOf[p] = s
  BY <1>1, <1>3 DEF Placed
<1>5. Elems(e) = Elems(q) \cup {p} /\ (Distinct(e) <=> Distinct(q) /\ p \notin Elems(q))
  <2> HIDE DEF p, q
  <2> QED
    BY <1>1, <1>3, ElemsAppend
<1> HIDE DEF p, e, r
<1>6. OnlyThread(t)
  BY <1>1, <1>2 DEF OnlyThread, TypeOK
<1>7. /\ sendQueue'[t] = e /\ overflow'[t] = overflow[t] /\ refused'[t] = refused[t]
      /\ InPass(t)'
  BY <1>1, <1>2 DEF TypeOK, InPass
<1>8. /\ p \notin InHif
      /\ \A u \in Threads : p \notin Local(u) \cup HeldUncharged(u)
  BY <1>1, <1>3, <1>4, Elsewhere
<1>9. Local(t) = Elems(q) /\ HeldUncharged(t) = refused[t]
  BY <1>1, ElemsEmpty DEF Local, HeldUncharged
<1>10. Local(t)' = Elems(q) \cup {p} /\ HeldUncharged(t)' = refused[t]
  BY <1>1, <1>5, <1>7, ElemsEmpty DEF Local, HeldUncharged
<1>11. ASSUME NEW v \in Services PROVE Queued(v)' = Queued(v) \ {p}
  <2>1. CASE v = s
    <3>1. Queued(v)' = Elems(r)
      BY <1>1, <1>2, <2>1 DEF Queued, TypeOK
    <3> QED
      BY <1>3, <2>1, <3>1
  <2>2. CASE v # s
    <3>1. Queued(v)' = Queued(v)
      BY <1>1, <1>2, <2>2 DEF Queued, TypeOK
    <3>2. p \notin Queued(v)
      BY <1>1, <1>3, <1>4, <2>2 DEF Placed
    <3> QED
      BY <3>1, <3>2
  <2> QED
    BY <2>1, <2>2
<1>12. InHif' = InHif /\ HifPackets' = HifPackets
  BY <1>2 DEF InHif, HifPackets
<1>13. Moves(t, {p}, "local")
  BY <1>8, <1>9, <1>10, <1>11, <1>12 DEF Moves, After
<1>14. Placed'
  BY <1>1, <1>2, <1>6, <1>8, <1>13, MovePlaced
<1>15. HoldsOnce(t)'
  BY <1>1, <1>5, <1>7, <1>8, <1>9, ElemsEmpty DEF HoldsOnce
<1>16. Distinct(HifPackets)' /\ \A v \in Services : Distinct(txQueue[v])'
  BY <1>1, <1>2, <1>3, <1>12 DEF PlaceInv, Unrepeated, TypeOK
<1>17. \A x \in Elems(sendQueue'[t]) \cup Elems(overflow'[t]) : EpOf[x] = ep'[t]
  BY <1>1, <1>2, <1>4, <1>5, <1>7, ElemsEmpty DEF PlaceInv, OnEndpoint
<1> QED
  BY <1>6, <1>14, <1>15, <1>16, <1>17, ThreadPlaces

\* Packets leave the local queue of thread t, the first part a of it, for
\* another owner; if that is HIF they join those submitted.
LEMMA LeaveLocal ==
    ASSUME PlaceInv, NEW t \in Threads, pc[t] = "issue",
           NEW a \in Seq(Packets), NEW b \in Seq(Packets), NEW owner \in {"hif", "lost"},
           Elems(sendQueue[t]) = Elems(a) \cup Elems(b),
           Elems(a) \cap Elems(b) = {}, Distinct(a), Distinct(b),
           sendQueue' = [sendQueue EXCEPT ![t] = b],
           where' = Move(Elems(a), owner),
           HifPackets' = IF owner = "hif" THEN HifPackets \o a ELSE HifPackets,
           UNCHANGED <<txQueue, pc, ep, overflow, refused>>
    PROVE  Placed' /\ Unrepeated' /\ OnEndpoint'
<1> DEFINE ps == Elems(a)
<1>1. /\ TypeOK /\ Placed /\ HoldsOnce(t) /\ overflow[t] = <<>> /\ InPass(t)
      /\ HifPackets \in Seq(Packets) /\ Distinct(HifPackets)
  BY PacketsOfType
  DEF PlaceInv, TypeInv, TypeOK, Control, Unrepeated, InPass, HifPackets
<1>2. OnlyThread(t) /\ sendQueue'[t] = b /\ overflow'[t] = <<>> /\ InPass(t)'
  BY <1>1 DEF OnlyThread, TypeOK, InPass
<1>3. ps \subseteq Packets
  BY ElemsType
<1> HIDE DEF ps
<1>4. Local(t) = ps \cup Elems(b) /\ HeldUncharged(t) = refused[t]
  BY <1>1, ElemsEmpty DEF Local, HeldUncharged, ps
<1>5. Local(t)' = Elems(b) /\ HeldUncharged(t)' = refused[t]
  BY <1>2, ElemsEmpty DEF Local, HeldUncharged
<1>6. \A p \in ps : where[p] = "local"
  BY <1>1, <1>3, <1>4 DEF Placed
<1>7. \A p \in ps : p \notin InHif /\ p \notin HeldUncharged(t)
                    /\ \A s \in Services : p \notin Queued(s)
  BY <1>1, <1>3, <1>6, Elsewhere
<1>8. \A s \in Services : Queued(s)' = Queued(s)
  BY DEF Queued
<1>9. InHif' = IF owner = "hif" THEN InHif \cup ps ELSE InHif
  BY <1>1, ElemsConcat, ZenonT(30) DEF InHif, ps
<1>10. Distinct(HifPackets)'
  BY <1>1, <1>7, ElemsConcat DEF InHif, ps
<1>11. ps \cap Elems(b) = {}
  BY DEF ps
<1>12. Moves(t, ps, owner)
  BY <1>4, <1>5, <1>7, <1>8, <1>9, <1>11 DEF Moves, After
<1>13. \A u \in Threads \ {t} : (Local(u) \cup HeldUncharged(u)) \cap ps = {}
  BY <1>1, <1>4 DEF Placed
<1>14. Placed'
  BY <1>1, <1>2, <1>12, <1>13, MovePlaced DEF ps
<1>15. HoldsOnce(t)'
  BY <1>1, <1>2, ElemsEmpty DEF HoldsOnce
<1>16. \A s \in Services : Distinct(txQueue[s])'
  BY DEF PlaceInv, Unrepeated
<1>17. \A p \in Elems(sendQueue'[t]) \cup Elems(overflow'[t]) : EpOf[p] = ep'[t]
  BY <1>2, ElemsEmpty DEF PlaceInv, OnEndpoint
<1> QED
  BY <1>2, <1>10, <1>14, <1>15, <1>16, <1>17, ThreadPlaces

LEMMA IssueSendPlaces ==
    ASSUME PlaceInv, NEW t \in Threads, IssueSend(t)
    PROVE  Placed' /\ Unrepeated' /\ OnEndpoint'
<1> DEFINE q == sendQueue[t]
           p == Head(q)
           b == Tail(q)
           a == <<p>>
           x == [pkt |-> p, kind |-> "single"]
<1>1. /\ q \in Seq(Packets) /\ q # <<>> /\ Distinct(q) /\ pc[t] = "issue"
      /\ hif \in Seq(Submissions)
  BY DEF PlaceInv, TypeInv, TypeOK, Unrepeated, HoldsOnce, IssueSend
<1>2. /\ p \in Packets /\ b \in Seq(Packets)
      /\ Elems(q) = {p} \cup Elems(b) /\ Distinct(b) /\ p \notin Elems(b)
  BY <1>1, ElemsTail
<1>3. a \in Seq(Packets) /\ Elems(a) = {p} /\ Distinct(a)
  BY <1>2, ElemsSingle
<1>4. x \in Submissions /\ x.pkt = p
  BY <1>2 DEF Submissions
<1>5. /\ sendQueue' = [sendQueue EXCEPT ![t] = b]
      /\ UNCHANGED <<txQueue, pc, ep, overflow, refused>>
      /\ \/ hif' = Append(hif, x) /\ where' = Move({p}, "hif")
         \/ hif' = hif /\ where' = Move({p}, "lost")
  BY DEF IssueSend, queueVars
<1> HIDE DEF b, x
<1>6. CASE hif' = Append(hif, x) /\ where' = Move({p}, "hif")
  <2>1. HifPackets' = HifPackets \o a
    <3>1. PacketsOf(Append(hif, x)) = Append(PacketsOf(hif), x.pkt)
      BY <1>1, <1>4, PacketsOfAppend
    <3>2. Append(PacketsOf(hif), p) = PacketsOf(hif) \o <<p>>
      BY <1>1, <1>2, PacketsOfType, AppendIsConcat
    <3> QED
      BY <1>4, <1>6, <3>1, <3>2 DEF HifPackets
  <2> HIDE DEF a, p
  <2> QED
    BY <1>1, <1>2, <1>3, <1>5, <1>6, <2>1, LeaveLocal
<1>7. CASE hif' = hif /\ where' = Move({p}, "lost")
  <2>1. HifPackets' = HifPackets
    BY <1>7 DEF HifPackets
  <2> HIDE DEF a, p
  <2> QED
    BY <1>1, <1>2, <1>3, <1>5, <1>7, <2>1, LeaveLocal
<1> QED
  BY <1>5, <1>6, <1>7

LEMMA IssueSendBundlePlaces ==
    ASSUME PlaceInv, NEW t \in Threads, IssueSendBundle(t)
    PROVE  Placed' /\ Unrepeated' /\ OnEndpoint'
<1>1. /\ sendQueue[t] \in Seq(Packets) /\ Distinct(sendQueue[t]) /\ pc[t] = "issue"
      /\ hif \in Seq(Submissions)
  BY DEF PlaceInv, TypeInv, TypeOK, Unrepeated, HoldsOnce, IssueSendBundle
<1>2. PICK n \in 2..MaxMsgPerBundle :
        /\ n <= Len(sendQueue[t])
        /\ hif' = hif \o Bundle(Front(sendQueue[t], n))
        /\ where' = Move(Elems(Front(sendQueue[t], n)), "hif")
        /\ sendQueue' = [sendQueue EXCEPT ![t] = Rest(sendQueue[t], n)]
  BY DEF IssueSendBundle
<1>3. n \in 0..Len(sendQueue[t])
  BY <1>1, <1>2
<1> DEFINE a == Front(sendQueue[t], n)
           b == Rest(sendQueue[t], n)
<1>4. /\ a \in Seq(Packets) /\ b \in Seq(Packets)
      /\ Elems(sendQueue[t]) = Elems(a) \cup Elems(b)
      /\ Distinct(a) /\ Distinct(b) /\ Elems(a) \cap Elems(b) = {}
  BY <1>1, <1>3, ElemsSplit
<1>5. hif' = hif \o Bundle(a) /\ where' = Move(Elems(a), "hif")
      /\ sendQueue' = [sendQueue EXCEPT ![t] = b]
  BY <1>2
<1> HIDE DEF a, b
<1>6. HifPackets' = HifPackets \o a
  <2>1. Bundle(a) \in Seq(Submissions) /\ PacketsOf(Bundle(a)) = a
    BY <1>4, BundleType, PacketsOfBundle
  <2>2. PacketsOf(hif \o Bundle(a)) = PacketsOf(hif) \o PacketsOf(Bundle(a))
    BY <1>1, <2>1, PacketsOfConcat
  <2> QED
    BY <1>5, <2>1, <2>2 DEF HifPackets
<1>7. UNCHANGED <<txQueue, pc, ep, overflow, refused>>
  BY DEF IssueSendBundle, queueVars
<1> QED
  BY <1>1, <1>4, <1>5, <1>6, <1>7, LeaveLocal

LEMMA ReturnToCallerPlaces ==
    ASSUME PlaceInv, NEW t \in Threads, ReturnToCaller(t)
    PROVE  Placed' /\ Unrepeated' /\ OnEndpoint'
<1> DEFINE ps == refused[t]
<1>1. /\ TypeOK /\ Placed /\ sendQueue[t] = <<>> /\ overflow[t] = <<>> /\ pc[t] = "return"
      /\ ps \subseteq Packets
  BY DEF PlaceInv, TypeInv, TypeOK, Control, ReturnToCaller
<1>2. /\ where' = Move(ps, Completed) /\ refused' = [refused EXCEPT ![t] = {}]
      /\ pc' = [pc EXCEPT ![t] = "idle"]
      /\ UNCHANGED <<txQueue, hif, ep, sendQueue, overflow>>
  BY DEF ReturnToCaller, queueVars, hifVars
<1> HIDE DEF ps
<1>3. OnlyThread(t) /\ refused'[t] = {} /\ ~InPass(t) /\ ~InPass(t)'
  BY <1>1, <1>2 DEF OnlyThread, TypeOK, InPass
<1>4. /\ Local(t) = {} /\ Local(t)' = {}
      /\ HeldUncharged(t) = ps /\ HeldUncharged(t)' = {}
  BY <1>1, <1>2, <1>3, ElemsEmpty DEF Local, HeldUncharged, ps
<1>5. /\ \A s \in Services : Queued(s)' = Queued(s)
      /\ InHif' = InHif /\ HifPackets' = HifPackets
  BY <1>2 DEF Queued, InHif, HifPackets
<1>6. \A p \in ps : p \notin InHif /\ \A s \in Services : p \notin Queued(s)
  BY <1>1, <1>4, Elsewhere DEF Placed
<1>7. Moves(t, ps, Completed)
  BY <1>4, <1>5, <1>6 DEF Moves, After, Completed
<1>8. \A u \in Threads \ {t} : (Local(u) \cup HeldUncharged(u)) \cap ps = {}
  BY <1>1, <1>4 DEF Placed
<1>9. Placed'
  BY <1>1, <1>2, <1>3, <1>7, <1>8, MovePlaced
<1>10. HoldsOnce(t)'
  BY <1>1, <1>2, <1>3, ElemsEmpty DEF HoldsOnce
<1>11. Distinct(HifPackets)' /\ \A s \in Services : Distinct(txQueue[s])'
  BY <1>2, <1>5 DEF PlaceInv, Unrepeated
<1>12. \A p \in Elems(sendQueue'[t]) \cup Elems(overflow'[t]) : EpOf[p] = ep'[t]
  BY <1>1, <1>2, ElemsEmpty
<1> QED
  BY <1>3, <1>9, <1>10, <1>11, <1>12, ThreadPlaces

LEMMA FlushPacketPlaces ==
    ASSUME PlaceInv, NEW t \in Threads, FlushPacket(t)
    PROVE  Placed' /\ Unrepeated' /\ OnEndpoint'
<1> DEFINE s == ep[t]
           q == txQueue[s]
<1>1. PICK i \in ToFlush(t) :
        /\ txQueue' = [txQueue EXCEPT ![s] = RemoveAt(q, i)]
        /\ where' = Move({q[i]}, "caller")
        /\ refused' = [refused EXCEPT ![t] = refused[t] \cup {q[i]}]
  BY DEF FlushPacket
<1> DEFINE p == q[i]
           r == RemoveAt(q, i)
<1>2. /\ TypeOK /\ Placed /\ HoldsOnce(t) /\ ~InPass(t)
      /\ s \in Services /\ q \in Seq(Packets) /\ Distinct(q) /\ i \in DOMAIN q
      /\ sendQueue[t] = <<>> /\ overflow[t] = <<>>
  BY DEF PlaceInv, TypeInv, TypeOK, Control, Unrepeated, FlushPacket, FlushLocations,
         ToFlush, InPass
<1>3. /\ p \in Packets /\ p \in Queued(s)
      /\ Distinct(r) /\ Elems(r) = Queued(s) \ {p}
  BY <1>2, ElemsRemoveAt DEF Queued
<1>4. UNCHANGED <<hif, pc, ep, sendQueue, overflow>>
  BY DEF FlushPacket, hifVars
<1>5. where[p] = "queued" /\ EpOf[p] = s
  BY <1>2, <1>3 DEF Placed
<1>6. /\ txQueue' = [txQueue EXCEPT ![s] = r] /\ where' = Move({p}, "caller")
      /\ refused' = [refused EXCEPT ![t] = refused[t] \cup {p}]
  BY <1>1
<1> HIDE DEF p, r
<1>7. OnlyThread(t) /\ refused'[t] = refused[t] \cup {p} /\ ~InPass(t)'
  BY <1>2, <1>4, <1>6 DEF OnlyThread, TypeOK, InPass
<1>8. /\ p \notin InHif
      /\ \A u \in Threads : p \notin Local(u) \cup HeldUncharged(u)
  BY <1>2, <1>3, <1>5, Elsewhere
<1>9. /\ Local(t) = {} /\ Local(t)' = {}
      /\ HeldUncharged(t) = refused[t] /\ HeldUncharged(t)' = refused[t] \cup {p}
  BY <1>2, <1>4, <1>7, ElemsEmpty DEF Local, HeldUncharged
<1>10. ASSUME NEW v \in Services PROVE Queued(v)' = Queued(v) \ {p}
  <2>1. CASE v = s
    <3>1. Queued(v)' = Elems(r)
      BY <1>2, <1>6, <2>1 DEF Queued, TypeOK
    <3> QED
      BY <1>3, <2>1, <3>1
  <2>2. CASE v # s
    <3>1. Queued(v)' = Queued(v)
      BY <1>2, <1>6, <2>2 DEF Queued, TypeOK
    <3>2. p \notin Queued(v)
      BY <1>2, <1>3, <1>5, <2>2 DEF Placed
    <3> QED
      BY <3>1, <3>2
  <2> QED
    BY <2>1, <2>2
<1>11. InHif' = InHif /\ HifPackets' = HifPackets
  BY <1>4 DEF InHif, HifPackets
<1>12. Moves(t, {p}, "caller")
  BY <1>8, <1>9, <1>10, <1>11 DEF Moves, After
<1>13. Placed'
  BY <1>2, <1>6, <1>7, <1>8, <1>12, MovePlaced
<1>14. HoldsOnce(t)'
  BY <1>2, <1>4, <1>7, ElemsEmpty DEF HoldsOnce
<1>15. Distinct(HifPackets)' /\ \A v \in Services : Distinct(txQueue[v])'
  BY <1>2, <1>3, <1>6, <1>11 DEF PlaceInv, Unrepeated, TypeOK
<1>16. \A x \in Elems(sendQueue'[t]) \cup Elems(overflow'[t]) : EpOf[x] = ep'[t]
  BY <1>2, <1>4, ElemsEmpty
<1> QED
  BY <1>7, <1>13, <1>14, <1>15, <1>16, ThreadPlaces

LEMMA ThreadStepPlaces ==
    ASSUME PlaceInv, NEW t \in Threads, ThreadStep(t)
    PROVE  Placed' /\ Unrepeated' /\ OnEndpoint'
<1>1. /\ pc \in [Threads -> Locations] /\ ep \in [Threads -> Services]
      /\ pc[t] \in {"check", "flushAll", "flushData"} =>
           sendQueue[t] = <<>> /\ overflow[t] = <<>>
  BY DEF PlaceInv, TypeInv, TypeOK, Control
<1>2. CASE EndOfPass(t)
  <2>1. PICK l : pc' = [pc EXCEPT ![t] = l] /\ (sendQueue[t] # <<>> => l = "issue")
    BY <1>2 DEF EndOfPass
  <2>2. /\ UNCHANGED <<txQueue, hif, where, sendQueue, overflow, refused, ep>>
        /\ pc[t] = "drain"
    BY <1>2 DEF EndOfPass, hifVars
  <2>3. InPass(t)' = InPass(t) \/ sendQueue[t] = <<>>
    BY <1>1, <2>1, <2>2 DEF InPass
  <2>4. \A u \in Threads \ {t} : pc'[u] = pc[u] /\ ep'[u] = ep[u]
    BY <1>1, <2>1, <2>2
  <2> QED
    BY <2>2, <2>3, <2>4, NothingMoves
<1>3. CASE Relock(t)
  BY <1>1, <1>3, NothingMoves DEF Relock, queueVars, hifVars, InPass
<1>4. CASE CheckEndpointTxQueue(t)
  <2>1. \A u \in Threads \ {t} : pc'[u] = pc[u] /\ ep'[u] = ep[u]
    BY <1>1, <1>4 DEF CheckEndpointTxQueue
  <2>2. /\ UNCHANGED <<txQueue, hif, where, sendQueue, overflow, refused>>
        /\ sendQueue[t] = <<>> /\ overflow[t] = <<>>
    BY <1>1, <1>4 DEF CheckEndpointTxQueue, queueVars, hifVars
  <2> QED
    BY <2>1, <2>2, NothingMoves
<1>5. CASE FlushDone(t)
  <2>1. /\ UNCHANGED <<txQueue, hif, where, sendQueue, overflow, refused, ep>>
        /\ pc' = [pc EXCEPT ![t] = "return"] /\ sendQueue[t] = <<>>
    BY <1>1, <1>5 DEF FlushDone, FlushLocations, queueVars, hifVars
  <2>2. \A u \in Threads \ {t} : pc'[u] = pc[u] /\ ep'[u] = ep[u]
    BY <1>1, <2>1
  <2> QED
    BY <2>1, <2>2, NothingMoves
<1> QED
  BY <1>2, <1>3, <1>4, <1>5, MeasureOverflowPlaces, OfferOverflowPlaces, EnterTrySendPlaces,
     GetHTCSendPacketPlaces, IssueSendPlaces, IssueSendBundlePlaces, ReturnToCallerPlaces,
     FlushPacketPlaces
  DEF ThreadStep

-----------------------------------------------------------------------------
(***************************************************************************)
(* Calls from above, credit reports and the HIF thread.                    *)
(***************************************************************************)
LEMMA SenderCallPlaces ==
    ASSUME PlaceInv, NEW t \in Senders, SenderCall(t)
    PROVE  Placed' /\ Unrepeated' /\ OnEndpoint'
<1>1. t \in Threads
  BY DEF Threads
<1>2. CASE SendPktsMultiple(t)
  BY <1>1, <1>2, SendPktsMultiplePlaces
<1>3. ASSUME ~SendPktsMultiple(t)
      PROVE  Placed' /\ Unrepeated' /\ OnEndpoint'
  <2>1. /\ pc[t] = "idle" /\ pc \in [Threads -> Locations] /\ ep \in [Threads -> Services]
        /\ sendQueue[t] = <<>> /\ overflow[t] = <<>>
    BY <1>1, <1>3 DEF SenderCall, HTCIndicateActivityChange, FlushEndpointTX,
                      PlaceInv, TypeInv, TypeOK, Control
  <2>2. PICK l, s : /\ pc' = pc \/ pc' = [pc EXCEPT ![t] = l]
                    /\ ep' = ep \/ ep' = [ep EXCEPT ![t] = s]
                    /\ UNCHANGED <<txQueue, hif, where, sendQueue, overflow, refused>>
    <3>1. ASSUME NEW v, NEW on, HTCIndicateActivityChange(t, v, on)
          PROVE  /\ pc' = pc \/ pc' = [pc EXCEPT ![t] = "check"]
                 /\ UNCHANGED <<ep, txQueue, hif, where, sendQueue, overflow, refused>>
      BY <3>1 DEF HTCIndicateActivityChange, queueVars, hifVars
    <3>2. ASSUME NEW v, NEW how, FlushEndpointTX(t, v, how)
          PROVE  /\ pc' = [pc EXCEPT ![t] = how] /\ ep' = [ep EXCEPT ![t] = v]
                 /\ UNCHANGED <<txQueue, hif, where, sendQueue, overflow, refused>>
      BY <3>2 DEF FlushEndpointTX, queueVars, hifVars
    <3> QED
      BY <1>3, <3>1, <3>2 DEF SenderCall
  <2>3. \A u \in Threads \ {t} : pc'[u] = pc[u] /\ ep'[u] = ep[u]
    BY <2>1, <2>2
  <2> QED
    BY <1>1, <2>1, <2>2, <2>3, NothingMoves
<1> QED
  BY <1>2, <1>3

LEMMA HTCProcessCreditRptPlaces ==
    ASSUME PlaceInv, NEW rpt \in Reports, HTCProcessCreditRpt(rpt)
    PROVE  Placed' /\ Unrepeated' /\ OnEndpoint'
<1>1. /\ Rx \in Threads /\ pc[Rx] = "idle" /\ pc \in [Threads -> Locations]
      /\ sendQueue[Rx] = <<>>
  BY DEF Threads, HTCProcessCreditRpt, PlaceInv, TypeInv, TypeOK, Control
<1>2. /\ pc' = [pc EXCEPT ![Rx] = "check"]
      /\ UNCHANGED <<txQueue, hif, where, ep, sendQueue, overflow, refused>>
  BY DEF HTCProcessCreditRpt, queueVars, hifVars
<1>3. \A u \in Threads \ {Rx} : pc'[u] = pc[u] /\ ep'[u] = ep[u]
  BY <1>1, <1>2
<1> QED
  BY <1>1, <1>2, <1>3, NothingMoves

LEMMA CompleteSentPacketPlaces ==
    ASSUME PlaceInv, CompleteSentPacket
    PROVE  Placed' /\ Unrepeated' /\ OnEndpoint'
<1> DEFINE p == Head(hif).pkt
           done == {r \in Packets : where[r] = "done"}
<1>1. /\ TypeOK /\ Placed /\ hif \in Seq(Submissions) /\ hif # <<>>
      /\ Distinct(HifPackets) /\ hif' = Tail(hif)
      /\ UNCHANGED <<txQueue, pc, ep, sendQueue, overflow, refused>>
  BY DEF PlaceInv, TypeInv, TypeOK, Unrepeated, CompleteSentPacket, queueVars, threadVars
<1>2. PICK ps, owner :
        /\ where' = Move(ps, owner) /\ owner \in {"done", "app", "completed"}
        /\ ps = {p} \/ ps = {p} \cup done
  BY DEF CompleteSentPacket, Completed
<1>3. /\ HifPackets \in Seq(Packets) /\ HifPackets # <<>>
      /\ p = Head(HifPackets) /\ HifPackets' = Tail(HifPackets)
  BY <1>1, PacketsOfTail DEF HifPackets
<1>4. p \in Packets /\ p \in InHif /\ InHif' = InHif \ {p} /\ Distinct(HifPackets)'
  BY <1>1, <1>3, ElemsTail DEF InHif
<1>5. where[p] = "hif"
  BY <1>1, <1>4 DEF Placed
<1> HIDE DEF p
<1>6. \A r \in ps : /\ r \in Packets /\ where[r] \in {"hif", "done"}
                    /\ r # p => r \notin InHif
  BY <1>1, <1>2, <1>4, <1>5, Elsewhere
<1>7. \A r \in ps : /\ \A s \in Services : r \notin Queued(s)
                    /\ \A t \in Threads : r \notin Local(t) \cup HeldUncharged(t)
  BY <1>1, <1>6, Elsewhere
<1>8. Rx \in Threads /\ OnlyThread(Rx)
  BY <1>1 DEF Threads, OnlyThread
<1>9. /\ \A s \in Services : Queued(s)' = Queued(s)
      /\ \A t \in Threads : Local(t)' = Local(t) /\ HeldUncharged(t)' = HeldUncharged(t)
  BY <1>1 DEF Queued, Local, HeldUncharged, InPass
<1>10. InHif' = InHif \ ps
  BY <1>2, <1>4, <1>6
<1>11. Moves(Rx, ps, owner)
  BY <1>2, <1>7, <1>8, <1>9, <1>10 DEF Moves, After
<1>12. Placed'
  BY <1>1, <1>2, <1>7, <1>8, <1>11, MovePlaced
<1>13. HoldsOnce(Rx)' /\ \A s \in Services : Distinct(txQueue[s])'
  BY <1>1, <1>8 DEF PlaceInv, Unrepeated, HoldsOnce
<1>14. \A r \in Elems(sendQueue'[Rx]) \cup Elems(overflow'[Rx]) : EpOf[r] = ep'[Rx]
  BY <1>1, <1>8 DEF PlaceInv, OnEndpoint
<1> QED
  BY <1>4, <1>8, <1>12, <1>13, <1>14, ThreadPlaces

LEMMA NextPlaceInv == PlaceInv /\ [Next]_vars => PlaceInv'
<1> SUFFICES ASSUME PlaceInv, [Next]_vars PROVE PlaceInv'
  OBVIOUS
<1>1. TypeInv'
  BY NextTypeInv DEF PlaceInv
<1>2. Rx \in Threads
  BY DEF Threads
<1>3. ASSUME NEW status, TransferDone(status)
      PROVE  Placed' /\ Unrepeated' /\ OnEndpoint'
  BY <1>2, <1>3, NothingMoves DEF TransferDone, queueVars, threadVars, InPass
<1>4. ASSUME UNCHANGED vars PROVE Placed' /\ Unrepeated' /\ OnEndpoint'
  BY <1>2, <1>4, NothingMoves DEF vars, queueVars, hifVars, threadVars, InPass
<1>5. Placed' /\ Unrepeated' /\ OnEndpoint'
  BY <1>3, <1>4, ThreadStepPlaces, SenderCallPlaces, HTCProcessCreditRptPlaces,
     CompleteSentPacketPlaces
  DEF Next, HifStep
<1> QED
  BY <1>1, <1>5 DEF PlaceInv

\* Every packet is in exactly one place, the one "where" names, and no queue
\* holds it twice, however many threads send, flush and complete.
THEOREM PacketsPlacedCorrect == Spec => []PacketsPlaced
<1>1. PlaceInv => PacketsPlaced
  BY PlacedIsPacketsPlaced DEF PlaceInv
<1> QED
  BY <1>1, InitPlaceInv, NextPlaceInv, PTL DEF Spec

-----------------------------------------------------------------------------
(***************************************************************************)
(* The credits that a set of packets carries.                              *)
(***************************************************************************)
CreditsOf(C) == UNION {{p} \X (1..Cost[p]) : p \in C}

LEMMA CreditsOfType ==
    ASSUME NEW C \in SUBSET Packets
    PROVE  IsFiniteSet(CreditsOf(C)) /\ Cardinality(CreditsOf(C)) \in Nat
<1> DEFINE f == [p \in C |-> {p} \X (1..Cost[p])]
           T == {f[p] : p \in C}
<1>1. IsFiniteSet(C)
  BY SendAssumption, FS_Subset
<1>2. f \in Surjection(C, T)
  BY DEF Surjection
<1>3. IsFiniteSet(T)
  <2> HIDE DEF f, T
  <2> QED
    BY <1>1, <1>2, FS_Surjection
<1>4. ASSUME NEW p \in C PROVE IsFiniteSet(f[p])
  <2>1. IsFiniteSet({p})
    BY FS_Singleton
  <2>2. IsFiniteSet(1..Cost[p])
    BY SendAssumption, FS_Interval
  <2> QED
    BY <2>1, <2>2, FS_Product
<1>5. \A S \in T : IsFiniteSet(S)
  BY <1>4
<1>6. CreditsOf(C) = UNION T
  BY DEF CreditsOf
<1> HIDE DEF T
<1>7. IsFiniteSet(CreditsOf(C))
  BY <1>3, <1>5, <1>6, FS_UNION
<1> QED
  BY <1>7, FS_CardinalityType

LEMMA CreditsOfAdd ==
    ASSUME NEW C \in SUBSET Packets, NEW p \in Packets, p \notin C
    PROVE  Cardinality(CreditsOf(C \cup {p})) = Cardinality(CreditsOf(C)) + Cost[p]
<1> DEFINE A == CreditsOf(C)
           B == {p} \X (1..Cost[p])
<1>1. IsFiniteSet(A) /\ Cardinality(A) \in Nat
  BY CreditsOfType
<1>2. IsFiniteSet(B) /\ Cardinality(B) = Cost[p]
  <2>1. Cost[p] \in Nat \ {0}
    BY SendAssumption
  <2>2. IsFiniteSet({p}) /\ Cardinality({p}) = 1
    BY FS_Singleton
  <2>3. IsFiniteSet(1..Cost[p]) /\ Cardinality(1..Cost[p]) = Cost[p]
    BY <2>1, FS_Interval
  <2>4. IsFiniteSet(B) /\ Cardinality(B) = Cardinality({p}) * Cardinality(1..Cost[p])
    BY <2>2, <2>3, FS_Product
  <2> QED
    BY <2>1, <2>2, <2>3, <2>4
<1>3. CreditsOf(C \cup {p}) = A \cup B
  BY DEF CreditsOf
<1>4. A \cap B = {}
  <2>1. \A x \in A : x[1] \in C
    BY DEF CreditsOf
  <2>2. \A x \in B : x[1] = p
    OBVIOUS
  <2> QED
    BY <2>1, <2>2
<1> HIDE DEF A, B
<1>5. Cardinality(A \cup B) = Cardinality(A) + Cardinality(B) - Cardinality(A \cap B)
  BY <1>1, <1>2, FS_Union
<1>6. Cardinality({}) = 0
  BY FS_EmptySet
<1>7. Cost[p] \in Nat
  BY SendAssumption
<1>8. Cardinality(A \cap B) = 0
  BY <1>4, <1>6
<1>9. Cardinality(A \cup B) = Cardinality(A) + Cost[p]
  BY <1>1, <1>2, <1>5, <1>7, <1>8
<1> QED
  BY <1>3, <1>9 DEF A

LEMMA InFlightType ==
    /\ InFlight = CreditsOf(ChargedPackets)
    /\ Cardinality(InFlight) \in Nat
<1>1. InFlight = CreditsOf(ChargedPackets)
  BY DEF InFlight, CreditsOf, ChargedPackets
<1>2. ChargedPackets \in SUBSET Packets
  BY DEF ChargedPackets
<1> QED
  BY <1>1, <1>2, CreditsOfType

LEMMA CreditTermsType ==
    ASSUME NEW c \in CreditStates, NEW f \in [Services -> Nat]
    PROVE  HeldCredits(c) \in Nat /\ c.free \in Nat /\ Total(f) \in Nat
<1>1. c.free \in Nat /\ c.credits \in [Services -> Nat] /\ c.toDist \in [Services -> Nat]
  BY DEF CreditStates
<1>2. Total(c.credits) \in Nat /\ Total(c.toDist) \in Nat /\ Total(f) \in Nat
  BY <1>1, TotalType
<1> QED
  BY <1>1, <1>2 DEF HeldCredits

-----------------------------------------------------------------------------
(***************************************************************************)
(* Every step of HTC is a step of the ledger, or moves no credit at all.   *)
(***************************************************************************)
Books == <<HeldCredits(cs), ChargedPackets, atTarget>>

LEMMA SameCharged ==
    ASSUME NEW ps, NEW owner, where' = Move(ps, owner),
           \A p \in ps \cap Packets : Charged(p) <=> owner \in {"local", "hif", "lost"}
    PROVE  ChargedPackets' = ChargedPackets
<1>1. \A p \in Packets : Charged(p)' <=> Charged(p)
  BY DEF Charged, Move
<1> QED
  BY <1>1 DEF ChargedPackets

\* A packet taken off a queue is charged.
LEMMA GetHTCSendPacketLedger ==
    ASSUME PlaceInv, NEW t \in Threads, GetHTCSendPacket(t)
    PROVE  \E p \in Packets : Ledger!Charge(p)
<1> DEFINE p == Head(txQueue[ep[t]])
<1>1. TypeOK /\ ep[t] \in Services /\ txQueue[ep[t]] \in Seq(Packets)
  BY DEF PlaceInv, TypeInv, TypeOK
<1>2. /\ p \in Packets /\ txQueue[ep[t]] # <<>> /\ cs' \in CreditStates
      /\ HeldCredits(cs') = HeldCredits(cs) - Cost[p]
  BY <1>1, GetHTCSendPacketCredits
<1>3. where[p] = "queued"
  <2>1. p \in Queued(ep[t])
    BY <1>1, <1>2, ElemsNonEmpty DEF Queued
  <2> QED
    BY <1>1, <1>2, <2>1 DEF PlaceInv, Placed
<1>4. where' = Move({p}, "local") /\ atTarget' = atTarget
  BY DEF GetHTCSendPacket
<1> HIDE DEF p
<1>5. p \notin ChargedPackets /\ ChargedPackets' = ChargedPackets \cup {p}
  BY <1>2, <1>3, <1>4 DEF ChargedPackets, Charged, Move
<1>6. HeldCredits(cs) >= Cost[p]
  <2>1. cs \in CreditStates
    BY <1>1 DEF TypeOK
  <2>2. HeldCredits(cs) \in Nat /\ HeldCredits(cs') \in Nat /\ Cost[p] \in Nat
    <3> DEFINE f == [s \in Services |-> 0]
    <3>1. f \in [Services -> Nat]
      OBVIOUS
    <3> HIDE DEF f
    <3> QED
      BY <1>2, <2>1, <3>1, CreditTermsType, SendAssumption
  <2> QED
    BY <1>2, <2>2
<1> QED
  BY <1>2, <1>4, <1>5, <1>6 DEF Ledger!Charge

\* The outcome of a transfer decides who gets the credits of its packet.
LEMMA CompleteSentPacketLedger ==
    ASSUME PlaceInv, CompleteSentPacket
    PROVE  \E p \in Packets : Ledger!Arrive(p) \/ Ledger!Reclaim(p)
<1> DEFINE p == Head(hif).pkt
<1>1. TypeOK /\ hif \in Seq(Submissions)
  BY DEF PlaceInv, TypeInv, TypeOK
<1>2. /\ p \in Packets /\ hif # <<>>
      /\ \/ HeldCredits(cs') = HeldCredits(cs) + Cost[p] /\ atTarget' = atTarget
         \/ /\ HeldCredits(cs') = HeldCredits(cs)
            /\ atTarget' = [atTarget EXCEPT ![EpOf[p]] = @ + Cost[p]]
  BY <1>1, CompleteSentPacketCredits
<1>3. where[p] = "hif"
  <2>1. HifPackets \in Seq(Packets) /\ HifPackets # <<>> /\ Head(HifPackets) = p
    BY <1>1, <1>2, PacketsOfTail DEF HifPackets
  <2>2. p \in InHif
    BY <2>1, ElemsNonEmpty DEF InHif
  <2> QED
    BY <1>2, <2>2 DEF PlaceInv, Placed
<1>4. \/ where' = Move({p}, "done")
      \/ where' = Move({p} \cup {r \in Packets : where[r] = "done"}, Completed)
  BY DEF CompleteSentPacket
<1> HIDE DEF p
<1>5. p \in ChargedPackets /\ ChargedPackets' = ChargedPackets \ {p}
  BY <1>2, <1>3, <1>4 DEF ChargedPackets, Charged, Move, Completed
<1> QED
  BY <1>2, <1>5 DEF Ledger!Arrive, Ledger!Reclaim

\* A credit report is a report of the ledger.
LEMMA HTCProcessCreditRptLedger ==
    ASSUME PlaceInv, NEW rpt \in Reports, HTCProcessCreditRpt(rpt)
    PROVE  Ledger!Report
<1>1. TypeOK
  BY DEF PlaceInv, TypeInv
<1>2. /\ atTarget' \in [Services -> Nat]
      /\ \A s \in Services : atTarget'[s] <= atTarget[s]
      /\ HeldCredits(cs') + Total(atTarget') = HeldCredits(cs) + Total(atTarget)
  BY <1>1, HTCProcessCreditRptCredits
<1>3. ChargedPackets' = ChargedPackets
  BY DEF HTCProcessCreditRpt, ChargedPackets, Charged
<1> QED
  BY <1>2, <1>3 DEF Ledger!Report

\* The other steps of a thread inside HTC move no credit.
LEMMA ThreadStepLedger ==
    ASSUME PlaceInv, NEW t \in Threads, ThreadStep(t)
    PROVE  GetHTCSendPacket(t) \/ UNCHANGED Books
<1> USE DEF Books
<1>1. TypeOK /\ Placed
  BY DEF PlaceInv, TypeInv
<1>2. CASE GetHTCSendPacket(t)
  BY <1>2
<1>3. CASE EndOfPass(t)
  <2>1. HeldCredits(cs') = HeldCredits(cs)
    BY <1>1, <1>3, EndOfPassCredits
  <2>2. ChargedPackets' = ChargedPackets /\ atTarget' = atTarget
    BY <1>3 DEF EndOfPass, ChargedPackets, Charged
  <2> QED
    BY <2>1, <2>2
<1>4. CASE MeasureOverflow(t) \/ OfferOverflow(t) \/ Relock(t) \/ CheckEndpointTxQueue(t)
           \/ FlushDone(t)
  <2>1. cs' = cs /\ atTarget' = atTarget /\ where' = where
    BY <1>4 DEF MeasureOverflow, OfferOverflow, Relock, CheckEndpointTxQueue, FlushDone,
                creditVars
  <2> QED
    BY <2>1 DEF ChargedPackets, Charged
<1>5. CASE EnterTrySend(t)
  <2>1. \A p \in Elems(sendQueue[t]) \cap Packets : where[p] = "caller"
    <3>1. Elems(sendQueue[t]) \subseteq HeldUncharged(t)
      BY <1>5 DEF EnterTrySend, HeldUncharged, InPass
    <3> QED
      BY <1>1, <3>1 DEF Placed
  <2>2. where' = Move(Elems(sendQueue[t]), "queued") /\ cs' = cs /\ atTarget' = atTarget
    BY <1>5 DEF EnterTrySend, creditVars
  <2>3. ChargedPackets' = ChargedPackets
    BY <2>1, <2>2, SameCharged DEF Charged
  <2> QED
    BY <2>2, <2>3
<1>6. CASE IssueSend(t)
  <2> DEFINE p == Head(sendQueue[t])
  <2>1. /\ sendQueue[t] \in Seq(Packets) /\ sendQueue[t] # <<>> /\ InPass(t)
    BY <1>1, <1>6 DEF TypeOK, IssueSend, InPass
  <2>2. p \in Packets /\ p \in Elems(sendQueue[t])
    BY <2>1, ElemsNonEmpty
  <2>3. where[p] = "local"
    BY <1>1, <2>1, <2>2 DEF Placed, Local
  <2>4. PICK owner \in {"hif", "lost"} : where' = Move({p}, owner)
    BY <1>6 DEF IssueSend
  <2> HIDE DEF p
  <2>5. ChargedPackets' = ChargedPackets
    BY <2>3, <2>4, SameCharged DEF Charged
  <2>6. cs' = cs /\ atTarget' = atTarget
    BY <1>6 DEF IssueSend, creditVars
  <2> QED
    BY <2>5, <2>6
<1>7. CASE IssueSendBundle(t)
  <2>1. sendQueue[t] \in Seq(Packets) /\ InPass(t)
    BY <1>1, <1>7 DEF TypeOK, IssueSendBundle, InPass
  <2>2. PICK n \in 0..Len(sendQueue[t]) : where' = Move(Elems(Front(sendQueue[t], n)), "hif")
    BY <1>7, <2>1 DEF IssueSendBundle
  <2>3. Elems(Front(sendQueue[t], n)) \subseteq Local(t)
    BY <2>1, <2>2, ElemsSplit DEF Local
  <2>4. \A p \in Elems(Front(sendQueue[t], n)) \cap Packets : where[p] = "local"
    BY <1>1, <2>3 DEF Placed
  <2>5. ChargedPackets' = ChargedPackets
    BY <2>2, <2>4, SameCharged DEF Charged
  <2>6. cs' = cs /\ atTarget' = atTarget
    BY <1>7 DEF IssueSendBundle, creditVars
  <2> QED
    BY <2>5, <2>6
<1>8. CASE ReturnToCaller(t)
  <2>1. refused[t] \subseteq HeldUncharged(t)
    BY DEF HeldUncharged
  <2>2. \A p \in refused[t] \cap Packets : where[p] = "caller"
    BY <1>1, <2>1 DEF Placed
  <2>3. where' = Move(refused[t], Completed) /\ cs' = cs /\ atTarget' = atTarget
    BY <1>8 DEF ReturnToCaller, creditVars
  <2>4. ChargedPackets' = ChargedPackets
    BY <2>2, <2>3, SameCharged DEF Charged, Completed
  <2> QED
    BY <2>3, <2>4
<1>9. CASE FlushPacket(t)
  <2>1. PICK i \in ToFlush(t) : where' = Move({txQueue[ep[t]][i]}, "caller")
    BY <1>9 DEF FlushPacket
  <2>2. txQueue[ep[t]][i] \in Queued(ep[t]) /\ ep[t] \in Services
    BY <1>1 DEF ToFlush, Queued, Elems, TypeOK
  <2>3. \A p \in {txQueue[ep[t]][i]} \cap Packets : where[p] = "queued"
    BY <1>1, <2>2 DEF Placed
  <2>4. ChargedPackets' = ChargedPackets
    BY <2>1, <2>3, SameCharged DEF Charged
  <2>5. cs' = cs /\ atTarget' = atTarget
    BY <1>9 DEF FlushPacket, creditVars
  <2> QED
    BY <2>4, <2>5
<1> QED
  BY <1>2, <1>3, <1>4, <1>5, <1>6, <1>7, <1>8, <1>9 DEF ThreadStep

LEMMA SenderCallLedger ==
    ASSUME PlaceInv, NEW t \in Senders, SenderCall(t)
    PROVE  UNCHANGED Books
<1> USE DEF Books
<1>1. TypeOK
  BY DEF PlaceInv, TypeInv
<1>2. CASE SendPktsMultiple(t)
  <2>1. PICK q \in Batches : where' = Move(Elems(q), "caller")
    BY <1>2 DEF SendPktsMultiple
  <2>2. \A p \in Elems(q) : where[p] = "app"
    BY DEF Batches, Elems
  <2>3. ChargedPackets' = ChargedPackets
    BY <2>1, <2>2, SameCharged DEF Charged
  <2>4. cs' = cs /\ atTarget' = atTarget
    BY <1>2 DEF SendPktsMultiple, creditVars
  <2> QED
    BY <2>3, <2>4
<1>3. ASSUME NEW s \in Streams, NEW on \in BOOLEAN, HTCIndicateActivityChange(t, s, on)
      PROVE  UNCHANGED Books
  <2>1. HeldCredits(cs') = HeldCredits(cs)
    BY <1>1, <1>3, HTCIndicateActivityChangeCredits
  <2>2. ChargedPackets' = ChargedPackets /\ atTarget' = atTarget
    BY <1>3 DEF HTCIndicateActivityChange, ChargedPackets, Charged
  <2> QED
    BY <2>1, <2>2
<1>4. ASSUME NEW s \in UsedServices, NEW how \in FlushModes, FlushEndpointTX(t, s, how)
      PROVE  UNCHANGED Books
  BY <1>4 DEF FlushEndpointTX, creditVars, ChargedPackets, Charged
<1> QED
  BY <1>2, <1>3, <1>4 DEF SenderCall

LEMMA NextLedger == PlaceInv /\ [Next]_vars => Ledger!Next \/ UNCHANGED Books
<1> SUFFICES ASSUME PlaceInv, [Next]_vars PROVE Ledger!Next \/ UNCHANGED Books
  OBVIOUS
<1>1. ASSUME NEW t \in Threads, ThreadStep(t) PROVE Ledger!Next \/ UNCHANGED Books
  BY <1>1, ThreadStepLedger, GetHTCSendPacketLedger DEF Ledger!Next
<1>2. ASSUME NEW rpt \in Reports, HTCProcessCreditRpt(rpt) PROVE Ledger!Next
  BY <1>2, HTCProcessCreditRptLedger DEF Ledger!Next
<1>3. ASSUME CompleteSentPacket PROVE Ledger!Next
  BY <1>3, CompleteSentPacketLedger DEF Ledger!Next
<1>4. ASSUME NEW status, TransferDone(status) PROVE UNCHANGED Books
  BY <1>4 DEF TransferDone, creditVars, Books, ChargedPackets, Charged
<1>5. ASSUME UNCHANGED vars PROVE UNCHANGED Books
  BY <1>5 DEF vars, creditVars, Books, ChargedPackets, Charged
<1> QED
  BY <1>1, <1>2, <1>3, <1>4, <1>5, SenderCallLedger DEF Next, HifStep

LEMMA InitLedger == Init => Ledger!Init
<1> SUFFICES ASSUME Init PROVE Ledger!Init
  OBVIOUS
<1>1. HeldCredits(cs) = TotalCredits
  BY InitCreditsCorrect DEF Init
<1>2. ChargedPackets = {}
  BY DEF Init, ChargedPackets, Charged
<1> QED
  BY <1>1, <1>2 DEF Init, Ledger!Init

\* The transmit path implements CreditLedger: under every interleaving a
\* packet's credits are charged once and come back once.
THEOREM KeepsTheLedgerCorrect == Spec => KeepsTheLedger
<1>1. PlaceInv /\ [Next]_vars => [Ledger!Next]_(Ledger!ledgerVars)
  BY NextLedger DEF Books, Ledger!ledgerVars
<1> QED
  BY <1>1, InitLedger, InitPlaceInv, NextPlaceInv, PTL DEF Spec, KeepsTheLedger, Ledger!Spec

-----------------------------------------------------------------------------
(***************************************************************************)
(* A step of the ledger creates no credit and loses none.                  *)
(***************************************************************************)
LEMMA InitCreditConservation == Init => CreditConservation
<1> SUFFICES ASSUME Init PROVE CreditConservation
  OBVIOUS
<1>1. HeldCredits(cs) = TotalCredits
  BY InitCreditsCorrect DEF Init
<1>2. InFlight = {}
  BY DEF Init, InFlight, Charged
<1>3. TargetCredits = 0
  BY DEF Init, TargetCredits, Total, Services
<1> QED
  BY <1>1, <1>2, <1>3, FS_EmptySet, CreditAssumption DEF CreditConservation

\* The credits in flight before and after a packet joins the charged ones.
LEMMA InFlightAdd ==
    ASSUME NEW C \in SUBSET Packets, NEW p \in Packets, p \notin C
    PROVE  /\ Cardinality(CreditsOf(C)) \in Nat
           /\ Cardinality(CreditsOf(C \cup {p})) = Cardinality(CreditsOf(C)) + Cost[p]
           /\ Cost[p] \in Nat
BY CreditsOfType, CreditsOfAdd, SendAssumption

\* Adding to the account of one service adds to the total.
LEMMA TotalAdd ==
    ASSUME NEW f \in [Services -> Nat], NEW s \in Services, NEW n \in Nat
    PROVE  Total([f EXCEPT ![s] = @ + n]) = Total(f) + n
BY DEF Total, Services

LEMMA LedgerConserves ==
    ASSUME TypeOK, TypeOK', CreditConservation, Ledger!Next
    PROVE  CreditConservation'
<1>1. /\ HeldCredits(cs) \in Nat /\ Total(atTarget) \in Nat
      /\ HeldCredits(cs') \in Nat /\ Total(atTarget') \in Nat
      /\ cs.free \in Nat
  BY CreditTermsType DEF TypeOK
<1>2. /\ InFlight = CreditsOf(ChargedPackets) /\ InFlight' = CreditsOf(ChargedPackets')
      /\ ChargedPackets \in SUBSET Packets /\ ChargedPackets' \in SUBSET Packets
  BY DEF InFlight, CreditsOf, ChargedPackets
<1>3. HeldCredits(cs) + Cardinality(InFlight) + Total(atTarget) = TotalCredits
  BY DEF CreditConservation, TargetCredits
<1>4. ASSUME HeldCredits(cs') + Cardinality(InFlight') + Total(atTarget') = TotalCredits
      PROVE  CreditConservation'
  BY <1>4 DEF CreditConservation, TargetCredits
<1>5. ASSUME NEW p \in Packets, Ledger!Charge(p) PROVE CreditConservation'
  <2>1. /\ p \notin ChargedPackets /\ ChargedPackets' = ChargedPackets \cup {p}
        /\ HeldCredits(cs') = HeldCredits(cs) - Cost[p] /\ atTarget' = atTarget
    BY <1>5 DEF Ledger!Charge
  <2>2. /\ Cardinality(InFlight') = Cardinality(InFlight) + Cost[p]
        /\ Cardinality(InFlight) \in Nat /\ Cost[p] \in Nat
    BY <1>2, <2>1, InFlightAdd
  <2> QED
    BY <1>1, <1>3, <1>4, <2>1, <2>2
<1>6. ASSUME NEW p \in Packets, Ledger!Arrive(p) \/ Ledger!Reclaim(p)
      PROVE  CreditConservation'
  <2>1. p \in ChargedPackets /\ ChargedPackets' = ChargedPackets \ {p}
    BY <1>6 DEF Ledger!Arrive, Ledger!Reclaim
  <2>2. ChargedPackets = ChargedPackets' \cup {p} /\ p \notin ChargedPackets'
    BY <2>1
  <2>3. /\ Cardinality(InFlight) = Cardinality(InFlight') + Cost[p]
        /\ Cardinality(InFlight') \in Nat /\ Cost[p] \in Nat
    <3> DEFINE C == ChargedPackets'
    <3>1. C \in SUBSET Packets /\ p \notin C
      BY <1>2, <2>2
    <3>2. InFlight = CreditsOf(C \cup {p}) /\ InFlight' = CreditsOf(C)
      BY <1>2, <2>2
    <3> HIDE DEF C
    <3> QED
      BY <3>1, <3>2, InFlightAdd
  <2>4. HeldCredits(cs') + Total(atTarget') = HeldCredits(cs) + Total(atTarget) + Cost[p]
    <3>1. CASE Ledger!Reclaim(p)
      BY <1>1, <2>3, <3>1 DEF Ledger!Reclaim
    <3>2. CASE Ledger!Arrive(p)
      <4>1. EpOf[p] \in Services /\ atTarget \in [Services -> Nat]
        BY SendAssumption DEF TypeOK
      <4>2. Total([atTarget EXCEPT ![EpOf[p]] = @ + Cost[p]]) = Total(atTarget) + Cost[p]
        BY <2>3, <4>1, TotalAdd
      <4> QED
        BY <1>1, <2>3, <3>2, <4>2 DEF Ledger!Arrive
    <3> QED
      BY <1>6, <3>1, <3>2
  <2> QED
    BY <1>1, <1>3, <1>4, <2>3, <2>4
<1>7. CASE Ledger!Report
  <2>1. /\ ChargedPackets' = ChargedPackets
        /\ HeldCredits(cs') + Total(atTarget') = HeldCredits(cs) + Total(atTarget)
    BY <1>7 DEF Ledger!Report
  <2>2. InFlight' = InFlight
    BY <1>2, <2>1
  <2> QED
    BY <1>1, <1>3, <1>4, <2>1, <2>2, InFlightType
<1> QED
  BY <1>5, <1>6, <1>7 DEF Ledger!Next

LEMMA NextCreditConservation ==
    PlaceInv /\ CreditConservation /\ [Next]_vars => CreditConservation'
<1> SUFFICES ASSUME PlaceInv, CreditConservation, [Next]_vars PROVE CreditConservation'
  OBVIOUS
<1>1. TypeOK /\ TypeOK'
  BY NextTypeInv DEF PlaceInv, TypeInv
<1>2. CASE UNCHANGED Books
  <2>1. InFlight' = InFlight
    BY <1>2 DEF Books, InFlight, ChargedPackets
  <2> QED
    BY <1>2, <2>1 DEF Books, CreditConservation, TargetCredits
<1> QED
  BY <1>1, <1>2, NextLedger, LedgerConserves

\* What the host holds, what packets on their way carry and what the target
\* holds always add up to the credits the target granted.
THEOREM CreditConservationCorrect == Spec => []CreditConservation
<1> DEFINE Inv == PlaceInv /\ CreditConservation
<1>1. Init => Inv
  BY InitPlaceInv, InitCreditConservation
<1>2. Inv /\ [Next]_vars => Inv'
  BY NextPlaceInv, NextCreditConservation
<1> QED
  BY <1>1, <1>2, PTL DEF Spec

\* The free pool never holds more than the target granted: the assertions of
\* ar6000_credit_distribute never fail.
THEOREM FreeCreditsCorrect == Spec => []FreeCreditsInRange
<1>1. TypeOK /\ CreditConservation => FreeCreditsInRange
  <2> SUFFICES ASSUME TypeOK, CreditConservation PROVE FreeCreditsInRange
    OBVIOUS
  <2>1. /\ cs.free \in Nat /\ cs.credits \in [Services -> Nat]
        /\ cs.toDist \in [Services -> Nat]
    BY DEF TypeOK, CreditStates
  <2>2. Total(cs.credits) \in Nat /\ Total(cs.toDist) \in Nat
    BY <2>1, TotalType
  <2>3. TargetCredits \in Nat /\ Cardinality(InFlight) \in Nat
    BY CreditTermsType, InFlightType DEF TypeOK, TargetCredits
  <2> QED
    BY <2>1, <2>2, <2>3, CreditAssumption
    DEF CreditConservation, HeldCredits, FreeCreditsInRange
<1> QED
  BY <1>1, TypeCorrect, CreditConservationCorrect, PTL

-----------------------------------------------------------------------------
(***************************************************************************)
(* The sequence numbers.                                                   *)
(***************************************************************************)
LEMMA DivMod ==
    ASSUME NEW a \in Int, NEW n \in Nat \ {0}
    PROVE  a \div n \in Int /\ (a % n) \in 0..(n - 1) /\ a = n * (a \div n) + (a % n)
BY Z3

LEMMA ModUnique ==
    ASSUME NEW a \in Int, NEW n \in Nat \ {0}, NEW k \in Int, NEW r \in 0..(n - 1),
           a = n * k + r
    PROVE  (a % n) = r
<1> DEFINE c == a \div n
           m == a % n
<1>1. c \in Int /\ m \in 0..(n - 1) /\ a = n * c + m
  BY DivMod
<1> HIDE DEF c, m
<1>2. n * (k - c) = m - r
  BY <1>1, Z3
<1>3. k - c = 0
  <2>1. CASE k - c >= 1
    <3>1. n * (k - c) >= n
      BY <1>1, <2>1, Z3
    <3> QED
      BY <1>1, <1>2, <3>1
  <2>2. CASE k - c <= -1
    <3>1. n * (k - c) <= -n
      BY <1>1, <2>2, Z3
    <3> QED
      BY <1>1, <1>2, <3>1
  <2> QED
    BY <1>1, <2>1, <2>2
<1>4. m = r
  BY <1>1, <1>2, <1>3, Z3
<1> QED
  BY <1>4 DEF m

\* Counting one further is the same before and after the modulus.
LEMMA ModSuccessor ==
    ASSUME NEW a \in Int, NEW n \in Nat \ {0}
    PROVE  ((a + 1) % n) = ((a % n) + 1) % n
<1> DEFINE k == a \div n
           r == a % n
<1>1. k \in Int /\ r \in 0..(n - 1) /\ a = n * k + r
  BY DivMod
<1> HIDE DEF k, r
<1>2. CASE r + 1 < n
  <2>1. r + 1 \in 0..(n - 1) /\ a + 1 = n * k + (r + 1) /\ r + 1 = n * 0 + (r + 1)
    BY <1>1, <1>2, Z3
  <2>2. ((a + 1) % n) = r + 1
    BY <1>1, <2>1, ModUnique
  <2>3. ((r + 1) % n) = r + 1
    BY <1>1, <2>1, ModUnique
  <2> QED
    BY <2>2, <2>3 DEF r
<1>3. CASE ~(r + 1 < n)
  <2>1. /\ r + 1 = n * 1 + 0 /\ a + 1 = n * (k + 1) + 0
        /\ 0 \in 0..(n - 1) /\ a + 1 \in Int /\ r + 1 \in Int /\ k + 1 \in Int
    BY <1>1, <1>3, Z3
  <2>2. ((a + 1) % n) = 0
    BY <2>1, ModUnique
  <2>3. ((r + 1) % n) = 0
    BY <2>1, ModUnique
  <2> QED
    BY <2>2, <2>3 DEF r
<1> QED
  BY <1>2, <1>3

LEMMA ModSmall ==
    ASSUME NEW n \in Nat \ {0}, NEW a \in 0..(n - 1)
    PROVE  (a % n) = a
<1>1. a = n * 0 + a /\ a \in Int
  OBVIOUS
<1> QED
  BY <1>1, ModUnique

(***************************************************************************)
(* How many packets of a service HIF was handed from a position on.        *)
(***************************************************************************)
Handed(h, i, s) == {j \in i..Len(h) : EpOf[h[j].pkt] = s}

LEMMA HandedType ==
    ASSUME NEW h \in Seq(Submissions), NEW i \in Nat \ {0}, NEW s
    PROVE  /\ IsFiniteSet(Handed(h, i, s)) /\ Cardinality(Handed(h, i, s)) \in Nat
           /\ \A j \in Handed(h, i, s) :
                j \in 1..Len(h) /\ h[j] \in Submissions /\ h[j].pkt \in Packets
<1>1. Len(h) \in Nat /\ Handed(h, i, s) \in SUBSET (i..Len(h))
  BY DEF Handed
<1>2. IsFiniteSet(i..Len(h))
  BY <1>1, FS_Interval
<1>3. IsFiniteSet(Handed(h, i, s))
  BY <1>1, <1>2, FS_Subset
<1>4. \A j \in Handed(h, i, s) : j \in 1..Len(h) /\ h[j] \in Submissions
  BY <1>1
<1> QED
  BY <1>3, <1>4, FS_CardinalityType DEF Submissions

\* Submissions of another endpoint do not count.
LEMMA HandedOther ==
    ASSUME NEW h \in Seq(Submissions), NEW g \in Seq(Submissions), NEW s,
           NEW i \in Nat \ {0},
           \A j \in 1..Len(g) : EpOf[g[j].pkt] # s
    PROVE  /\ Handed(h \o g, i, s) = Handed(h, i, s)
           /\ \A j \in Handed(h, i, s) : (h \o g)[j] = h[j]
<1>1. /\ Len(h) \in Nat /\ Len(g) \in Nat /\ Len(h \o g) = Len(h) + Len(g)
      /\ \A j \in 1..Len(h) : (h \o g)[j] = h[j]
      /\ \A j \in 1..Len(g) : (h \o g)[Len(h) + j] = g[j]
  OBVIOUS
<1>2. ASSUME NEW j \in (Len(h) + 1)..(Len(h) + Len(g)) PROVE EpOf[(h \o g)[j].pkt] # s
  <2>1. j - Len(h) \in 1..Len(g) /\ Len(h) + (j - Len(h)) = j
    BY <1>1
  <2> QED
    BY <1>1, <2>1
<1> QED
  BY <1>1, <1>2 DEF Handed

\* Submissions of the endpoint all count.
LEMMA HandedMore ==
    ASSUME NEW h \in Seq(Submissions), NEW g \in Seq(Submissions), NEW s,
           \A j \in 1..Len(g) : EpOf[g[j].pkt] = s
    PROVE  /\ \A i \in 1..Len(h) :
                Cardinality(Handed(h \o g, i, s)) = Cardinality(Handed(h, i, s)) + Len(g)
           /\ \A j \in 1..Len(g) :
                Cardinality(Handed(h \o g, Len(h) + j, s)) = Len(g) + 1 - j
           /\ Handed(h \o g, 1, s) = Handed(h, 1, s) \cup ((Len(h) + 1)..(Len(h) + Len(g)))
<1> DEFINE L == Len(h)
           n == Len(g)
           new == (L + 1)..(L + n)
<1>1. /\ L \in Nat /\ n \in Nat /\ Len(h \o g) = L + n
      /\ \A j \in 1..L : (h \o g)[j] = h[j]
      /\ \A j \in 1..n : (h \o g)[L + j] = g[j]
  OBVIOUS
<1>2. ASSUME NEW j \in new PROVE EpOf[(h \o g)[j].pkt] = s
  <2>1. j - L \in 1..n /\ L + (j - L) = j
    BY <1>1
  <2> QED
    BY <1>1, <2>1
<1>3. \A i \in 1..(L + 1) : Handed(h \o g, i, s) = Handed(h, i, s) \cup new
  BY <1>1, <1>2 DEF Handed
<1>4. \A j \in 1..n : Handed(h \o g, L + j, s) = (L + j)..(L + n)
  BY <1>1, <1>2 DEF Handed
<1>5. IsFiniteSet(new) /\ Cardinality(new) = n
  <2>1. L + 1 \in Int /\ L + n \in Int
    BY <1>1
  <2>2. /\ IsFiniteSet(new)
        /\ Cardinality(new) = IF L + 1 > L + n THEN 0 ELSE (L + n) - (L + 1) + 1
    BY <2>1, FS_Interval
  <2> QED
    BY <1>1, <2>2
<1>6. ASSUME NEW i \in 1..L
      PROVE  Cardinality(Handed(h \o g, i, s)) = Cardinality(Handed(h, i, s)) + n
  <2>1. IsFiniteSet(Handed(h, i, s)) /\ Cardinality(Handed(h, i, s)) \in Nat
    BY <1>1, HandedType
  <2>2. Handed(h, i, s) \cap new = {}
    BY <1>1 DEF Handed
  <2> HIDE DEF new
  <2>3. Cardinality(Handed(h, i, s) \cup new) =
          Cardinality(Handed(h, i, s)) + Cardinality(new) - Cardinality({})
    BY <1>5, <2>1, <2>2, FS_Union
  <2>4. Handed(h \o g, i, s) = Handed(h, i, s) \cup new
    BY <1>1, <1>3 DEF new
  <2> QED
    BY <1>1, <1>5, <2>1, <2>3, <2>4, FS_EmptySet
<1>7. ASSUME NEW j \in 1..n
      PROVE  Cardinality(Handed(h \o g, L + j, s)) = n + 1 - j
  <2>1. Cardinality((L + j)..(L + n)) = IF L + j > L + n THEN 0 ELSE (L + n) - (L + j) + 1
    BY <1>1, FS_Interval
  <2> QED
    BY <1>1, <1>4, <2>1
<1>8. Handed(h \o g, 1, s) = Handed(h, 1, s) \cup new
  BY <1>1, <1>3
<1> QED
  BY <1>6, <1>7, <1>8

\* The head of the submissions goes; every other moves up one position.
LEMMA HandedTail ==
    ASSUME NEW h \in Seq(Submissions), h # <<>>, NEW s, NEW i \in Nat \ {0}
    PROVE  /\ Cardinality(Handed(Tail(h), i, s)) = Cardinality(Handed(h, i + 1, s))
           /\ \A j \in Handed(Tail(h), i, s) :
                j + 1 \in Handed(h, i + 1, s) /\ Tail(h)[j] = h[j + 1]
<1> DEFINE A == Handed(h, i + 1, s)
           B == Handed(Tail(h), i, s)
           f == [j \in A |-> j - 1]
<1>1. /\ Len(h) \in Nat /\ Len(h) >= 1 /\ Len(Tail(h)) = Len(h) - 1
      /\ \A j \in 1..(Len(h) - 1) : Tail(h)[j] = h[j + 1]
  OBVIOUS
<1>2. \A j \in A : j \in (i + 1)..Len(h) /\ j - 1 \in B
  BY <1>1 DEF Handed
<1>3. \A j \in B : j \in i..(Len(h) - 1) /\ j + 1 \in A /\ Tail(h)[j] = h[j + 1]
  BY <1>1 DEF Handed
<1>4. IsFiniteSet(A)
  BY HandedType
<1> HIDE DEF A, B
<1>5. f \in Bijection(A, B)
  <2>1. f \in [A -> B]
    BY <1>2
  <2>2. \A a, b \in A : f[a] = f[b] => a = b
    BY <1>2
  <2>3. \A b \in B : b + 1 \in A /\ f[b + 1] = b
    BY <1>3
  <2> QED
    BY <2>1, <2>2, <2>3 DEF Bijection, Injection, Surjection, IsInjective
<1>6. ExistsBijection(A, B)
  BY <1>5 DEF ExistsBijection
<1>7. Cardinality(B) = Cardinality(A)
  BY <1>4, <1>6, FS_Bijection
<1> QED
  BY <1>3, <1>7 DEF A, B

(***************************************************************************)
(* The order in which the packets of an endpoint reach HIF.  A thread      *)
(* numbers what it collects, and nobody else collects for the endpoint     *)
(* until it has submitted that: the order rests on OneDrainer, and on      *)
(* PlaceInv, by which a packet to be numbered is not in HIF or collected.  *)
(***************************************************************************)
OrderInv == PlaceInv /\ OneDrainer /\ SentInOrder

\* A packet that HIF refused stays refused.
LEMMA StaysRefused ==
    ASSUME NEW ps, NEW owner, where' = Move(ps, owner),
           \A p \in ps : where[p] # "lost"
    PROVE  NoneRefused' => NoneRefused
BY DEF NoneRefused, Move

LEMMA HandedIs == \A i, s : HandedFrom(i, s) = Handed(hif, i, s)
BY DEF HandedFrom, Handed

\* Steps that hand nothing to HIF and number nothing.
LEMMA SameNumbers ==
    ASSUME UNCHANGED <<hif, seqNo, pktSeq>>,
           NoneRefused' =>
             \A s \in Services :
               /\ \A t \in Threads : Draining(t, s)' => InSequence(s, sendQueue'[t])
               /\ (~\E t \in Threads : Draining(t, s)') => InSequence(s, <<>>)
    PROVE  SentInOrder'
<1>1. \A s, q : InSequence(s, q) =>
        /\ \A i \in HandedFrom(1, s)' :
             (pktSeq'[hif'[i].pkt] + (Cardinality(HandedFrom(i, s)') + Len(q))) % SeqModulus
               = seqNo'[s]
        /\ \A i \in DOMAIN q : (pktSeq'[q[i]] + (Len(q) + 1 - i)) % SeqModulus = seqNo'[s]
  BY DEF InSequence, CountsUp, HandedFrom
<1> QED
  BY <1>1 DEF SentInOrder, InSequence, CountsUp

LEMMA SameOrder ==
    ASSUME SentInOrder, NoneRefused' => NoneRefused,
           UNCHANGED <<hif, seqNo, pktSeq>>,
           \A t \in Threads, s \in Services : Draining(t, s)' <=> Draining(t, s),
           \A t \in Threads : InPass(t) => sendQueue'[t] = sendQueue[t]
    PROVE  SentInOrder'
<1>1. \A t \in Threads, s \in Services :
        Draining(t, s)' => Draining(t, s) /\ sendQueue'[t] = sendQueue[t]
  BY DEF Draining
<1>2. ASSUME NoneRefused, NEW s \in Services
      PROVE  /\ \A t \in Threads : Draining(t, s)' => InSequence(s, sendQueue'[t])
             /\ (~\E t \in Threads : Draining(t, s)') => InSequence(s, <<>>)
  BY <1>1, <1>2 DEF SentInOrder
<1> QED
  BY <1>2, SameNumbers

\* A thread outside a pass, and still outside.
LEMMA OutsideOrder ==
    ASSUME OrderInv, NEW t \in Threads, ~InPass(t), ~InPass(t)',
           \A u \in Threads \ {t} :
             pc'[u] = pc[u] /\ ep'[u] = ep[u] /\ sendQueue'[u] = sendQueue[u],
           UNCHANGED <<hif, seqNo, pktSeq>>,
           NoneRefused' => NoneRefused
    PROVE  SentInOrder'
<1>1. \A u \in Threads, s \in Services : Draining(u, s)' <=> Draining(u, s)
  BY DEF Draining, InPass
<1>2. \A u \in Threads : InPass(u) => sendQueue'[u] = sendQueue[u]
  OBVIOUS
<1> QED
  BY <1>1, <1>2, SameOrder DEF OrderInv

LEMMA InitOrder == Init => SentInOrder
<1> SUFFICES ASSUME Init PROVE SentInOrder
  OBVIOUS
<1>1. \A s \in Services : HandedFrom(1, s) = {}
  BY DEF Init, HandedFrom
<1>2. \A s \in Services : InSequence(s, <<>>)
  BY <1>1 DEF InSequence
<1> QED
  BY <1>2 DEF Init, SentInOrder

LEMMA EnterTrySendOrder ==
    ASSUME OrderInv, NEW t \in Threads, EnterTrySend(t)
    PROVE  SentInOrder'
<1>1. /\ TypeOK /\ Placed /\ OneDrainer /\ SentInOrder /\ ~InPass(t) /\ ep[t] \in Services
      /\ pc \in [Threads -> Locations] /\ txProcessCount \in [Services -> 0..1]
      /\ UNCHANGED <<hif, seqNo, pktSeq, ep>>
      /\ where' = Move(Elems(sendQueue[t]), "queued")
      /\ sendQueue' = [sendQueue EXCEPT ![t] = <<>>]
      /\ sendQueue \in [Threads -> Seq(Packets)]
  BY DEF OrderInv, PlaceInv, TypeInv, TypeOK, EnterTrySend, InPass, hifVars
<1>2. \A p \in Elems(sendQueue[t]) : where[p] # "lost"
  <2>1. \A p \in Elems(sendQueue[t]) : p \in Packets /\ p \in HeldUncharged(t)
    BY <1>1, PlacesType DEF HeldUncharged
  <2> QED
    BY <1>1, <2>1 DEF Placed
<1>3. NoneRefused' => NoneRefused
  BY <1>1, <1>2, StaysRefused
<1>4. CASE BeingDrained(ep[t])
  <2>1. pc' = [pc EXCEPT ![t] = AfterTrySend(t)]
    BY <1>4 DEF EnterTrySend
  <2>2. ~InPass(t)' /\ \A u \in Threads \ {t} : pc'[u] = pc[u]
    BY <1>1, <2>1, AfterTrySendType DEF InPass
  <2>3. \A u \in Threads \ {t} : ep'[u] = ep[u] /\ sendQueue'[u] = sendQueue[u]
    BY <1>1
  <2> QED
    BY <1>1, <1>3, <2>2, <2>3, OutsideOrder
<1>5. CASE ~BeingDrained(ep[t])
  <2>1. txProcessCount[ep[t]] = 0 /\ pc' = [pc EXCEPT ![t] = "drain"]
    BY <1>1, <1>5 DEF BeingDrained, EnterTrySend
  <2>2. \A u \in Threads : ~Draining(u, ep[t])
    BY <1>1, <2>1 DEF OneDrainer
  <2>3. \A u \in Threads, v \in Services :
          Draining(u, v)' <=> Draining(u, v) \/ (u = t /\ v = ep[t])
    BY <1>1, <2>1 DEF Draining, InPass
  <2>4. ASSUME NoneRefused, NEW v \in Services
        PROVE  /\ \A u \in Threads : Draining(u, v)' => InSequence(v, sendQueue'[u])
               /\ (~\E u \in Threads : Draining(u, v)') => InSequence(v, <<>>)
    <3>1. ASSUME NEW u \in Threads, Draining(u, v)' PROVE InSequence(v, sendQueue'[u])
      <4>1. CASE u = t /\ v = ep[t]
        <5>1. sendQueue'[u] = <<>>
          BY <1>1, <4>1
        <5> QED
          BY <1>1, <2>2, <2>4, <4>1, <5>1 DEF SentInOrder
      <4>2. CASE Draining(u, v)
        <5>1. u # t
          BY <1>1, <4>2 DEF Draining
        <5>2. sendQueue'[u] = sendQueue[u]
          BY <1>1, <5>1
        <5> QED
          BY <1>1, <2>4, <4>2, <5>2 DEF SentInOrder
      <4> QED
        BY <2>3, <3>1, <4>1, <4>2
    <3>2. (~\E u \in Threads : Draining(u, v)') => InSequence(v, <<>>)
      BY <1>1, <2>3, <2>4 DEF SentInOrder
    <3> QED
      BY <3>1, <3>2
  <2> QED
    BY <1>1, <1>3, <2>4, SameNumbers
<1> QED
  BY <1>4, <1>5

LEMMA EndOfPassOrder ==
    ASSUME OrderInv, NEW t \in Threads, EndOfPass(t)
    PROVE  SentInOrder'
<1>1. /\ TypeOK /\ OneDrainer /\ SentInOrder /\ InPass(t) /\ ep[t] \in Services
      /\ pc \in [Threads -> Locations]
      /\ UNCHANGED <<hif, seqNo, pktSeq, ep, sendQueue, where>>
      /\ NoneRefused' => NoneRefused
  BY DEF OrderInv, PlaceInv, TypeInv, TypeOK, EndOfPass, InPass, hifVars, NoneRefused
<1>2. CASE sendQueue[t] # <<>>
  <2>1. pc' = [pc EXCEPT ![t] = "issue"]
    BY <1>2 DEF EndOfPass
  <2>2. \A u \in Threads, v \in Services : Draining(u, v)' <=> Draining(u, v)
    BY <1>1, <2>1 DEF Draining, InPass
  <2> QED
    BY <1>1, <2>2, SameOrder
<1>3. CASE sendQueue[t] = <<>>
  <2>1. pc' = [pc EXCEPT ![t] = AfterTrySend(t)]
    BY <1>3 DEF EndOfPass
  <2>2. \A u \in Threads, v \in Services : Draining(u, v)' <=> Draining(u, v) /\ u # t
    BY <1>1, <2>1, AfterTrySendType DEF Draining, InPass
  <2>3. ASSUME NoneRefused, NEW v \in Services
        PROVE  /\ \A u \in Threads : Draining(u, v)' => InSequence(v, sendQueue'[u])
               /\ (~\E u \in Threads : Draining(u, v)') => InSequence(v, <<>>)
    <3>1. \A u \in Threads : Draining(u, v)' => InSequence(v, sendQueue'[u])
      BY <1>1, <2>2, <2>3 DEF SentInOrder
    <3>2. ASSUME ~\E u \in Threads : Draining(u, v)' PROVE InSequence(v, <<>>)
      <4>1. CASE Draining(t, v)
        BY <1>1, <1>3, <2>3, <4>1 DEF SentInOrder
      <4>2. CASE ~Draining(t, v)
        BY <1>1, <2>2, <2>3, <3>2, <4>2 DEF SentInOrder
      <4> QED
        BY <4>1, <4>2
    <3> QED
      BY <3>1, <3>2
  <2> QED
    BY <1>1, <2>3, SameNumbers
<1> QED
  BY <1>2, <1>3

\* The packets of s submitted as h, then those of q, by the numbers num.
Consecutive(h, num, s, q, next) ==
    /\ \A i \in Handed(h, 1, s) :
         (num[h[i].pkt] + (Cardinality(Handed(h, i, s)) + Len(q))) % SeqModulus = next
    /\ \A i \in DOMAIN q : (num[q[i]] + (Len(q) + 1 - i)) % SeqModulus = next

LEMMA OrderIs ==
    /\ SentInOrder <=>
         (NoneRefused => \A s \in Services :
            /\ \A t \in Threads : Draining(t, s) =>
                 Consecutive(hif, pktSeq, s, sendQueue[t], seqNo[s])
            /\ (~\E t \in Threads : Draining(t, s)) =>
                 Consecutive(hif, pktSeq, s, <<>>, seqNo[s]))
    /\ SentInOrder' <=>
         (NoneRefused' => \A s \in Services :
            /\ \A t \in Threads : Draining(t, s)' =>
                 Consecutive(hif', pktSeq', s, sendQueue'[t], seqNo'[s])
            /\ (~\E t \in Threads : Draining(t, s)') =>
                 Consecutive(hif', pktSeq', s, <<>>, seqNo'[s]))
BY DEF SentInOrder, InSequence, CountsUp, HandedFrom, Handed, Consecutive

LEMMA NumberType ==
    ASSUME TypeOK
    PROVE  /\ pktSeq \in [Packets -> Nat] /\ seqNo \in [Services -> 0..(SeqModulus - 1)]
           /\ SeqModulus \in Nat \ {0}
BY SendAssumption DEF TypeOK

\* One more packet behind a packet, and one more number given.
LEMMA CountOn ==
    ASSUME NEW a \in Nat, NEW n \in Nat, NEW s \in Services, TypeOK,
           (a + n) % SeqModulus = seqNo[s]
    PROVE  ((a + (n + 1)) % SeqModulus) = (seqNo[s] + 1) % SeqModulus
<1>1. SeqModulus \in Nat \ {0} /\ a + n \in Int /\ a + (n + 1) = (a + n) + 1
  BY NumberType
<1>2. ((a + n) + 1) % SeqModulus = (((a + n) % SeqModulus) + 1) % SeqModulus
  BY <1>1, ModSuccessor
<1> QED
  BY <1>1, <1>2

\* A packet is numbered behind all those of its endpoint.
LEMMA GetHTCSendPacketOrder ==
    ASSUME OrderInv, NEW t \in Threads, GetHTCSendPacket(t)
    PROVE  SentInOrder'
<1> DEFINE s == ep[t]
           q == sendQueue[t]
           p == Head(txQueue[s])
<1>1. /\ TypeOK /\ Placed /\ OneDrainer /\ SentInOrder /\ s \in Services
      /\ InPass(t) /\ Draining(t, s) /\ q \in Seq(Packets)
      /\ txQueue[s] \in Seq(Packets) /\ txQueue[s] # <<>>
      /\ sendQueue \in [Threads -> Seq(Packets)]
      /\ seqNo \in [Services -> 0..(SeqModulus - 1)]
      /\ pktSeq \in [Packets -> 0..(SeqModulus - 1)] /\ hif \in Seq(Submissions)
  BY DEF OrderInv, PlaceInv, TypeInv, TypeOK, GetHTCSendPacket, InPass, Draining, HeadCovered
<1>2. /\ UNCHANGED <<hif, pc, ep>>
      /\ sendQueue' = [sendQueue EXCEPT ![t] = Append(q, p)]
      /\ where' = Move({p}, "local")
      /\ pktSeq' = [pktSeq EXCEPT ![p] = seqNo[s]]
      /\ seqNo' = [seqNo EXCEPT ![s] = (seqNo[s] + 1) % SeqModulus]
  BY DEF GetHTCSendPacket, hifVars
<1>3. p \in Packets /\ p \in Queued(s)
  BY <1>1, ElemsNonEmpty DEF Queued
<1> HIDE DEF p
<1>4. where[p] = "queued"
  BY <1>1, <1>3 DEF Placed
<1>5. NoneRefused' => NoneRefused
  BY <1>2, <1>4, StaysRefused
<1>6. p \notin InHif /\ \A u \in Threads : p \notin Local(u)
  BY <1>1, <1>3, <1>4, Elsewhere
<1>7. \A v \in Services : \A i \in Handed(hif, 1, v) :
        /\ i \in 1..Len(hif) /\ hif[i].pkt \in Packets /\ hif[i].pkt # p
        /\ pktSeq'[hif[i].pkt] = pktSeq[hif[i].pkt]
  <2>1. \A v \in Services : \A i \in Handed(hif, 1, v) :
          i \in 1..Len(hif) /\ hif[i].pkt \in Packets
    <3>1. ASSUME NEW v \in Services PROVE \A i \in Handed(hif, 1, v) :
                                           i \in 1..Len(hif) /\ hif[i].pkt \in Packets
      BY <1>1, HandedType
    <3> QED
      BY <3>1
  <2>2. \A i \in 1..Len(hif) : hif[i].pkt \in InHif
    BY <1>1 DEF InHif, HifPackets, PacketsOf, Elems
  <2> QED
    BY <1>1, <1>2, <1>3, <1>6, <2>1, <2>2
<1>8. \A u \in Threads : InPass(u) =>
        \A i \in DOMAIN sendQueue[u] :
          /\ sendQueue[u][i] \in Packets /\ sendQueue[u][i] # p
          /\ pktSeq'[sendQueue[u][i]] = pktSeq[sendQueue[u][i]]
  <2>1. \A u \in Threads : InPass(u) =>
          \A i \in DOMAIN sendQueue[u] : sendQueue[u][i] \in Packets /\ sendQueue[u][i] # p
    BY <1>1, <1>6 DEF Local, Elems
  <2> QED
    BY <1>1, <1>2, <1>3, <2>1
<1>9. \A u \in Threads, v \in Services : Draining(u, v)' <=> Draining(u, v)
  BY <1>2 DEF Draining, InPass
<1>10. \A v \in Services \ {s} : seqNo'[v] = seqNo[v]
  BY <1>1, <1>2
<1>11. ASSUME NoneRefused, NEW v \in Services \ {s}, NEW u \in Threads, Draining(u, v)
       PROVE  Consecutive(hif', pktSeq', v, sendQueue'[u], seqNo'[v])
  <2>1. u # t /\ sendQueue'[u] = sendQueue[u] /\ InPass(u)
    BY <1>1, <1>2, <1>11 DEF Draining
  <2>2. Consecutive(hif, pktSeq, v, sendQueue[u], seqNo[v])
    BY <1>1, <1>11, OrderIs
  <2> QED
    BY <1>2, <1>7, <1>8, <1>10, <1>11, <2>1, <2>2 DEF Consecutive
<1>12. ASSUME NoneRefused, NEW v \in Services \ {s}, ~\E u \in Threads : Draining(u, v)
       PROVE  Consecutive(hif', pktSeq', v, <<>>, seqNo'[v])
  <2>1. Consecutive(hif, pktSeq, v, <<>>, seqNo[v])
    BY <1>1, <1>12, OrderIs
  <2> QED
    BY <1>2, <1>7, <1>10, <1>12, <2>1 DEF Consecutive
<1>13. ASSUME NoneRefused PROVE Consecutive(hif', pktSeq', s, Append(q, p), seqNo'[s])
  <2>1. Consecutive(hif, pktSeq, s, q, seqNo[s])
    BY <1>1, <1>13, OrderIs
  <2>2. seqNo'[s] = (seqNo[s] + 1) % SeqModulus /\ pktSeq'[p] = seqNo[s]
    BY <1>1, <1>2, <1>3
  <2>3. /\ Len(q) \in Nat /\ Len(Append(q, p)) = Len(q) + 1
        /\ DOMAIN Append(q, p) = 1..(Len(q) + 1) /\ DOMAIN q = 1..Len(q)
        /\ \A i \in 1..Len(q) : Append(q, p)[i] = q[i]
        /\ Append(q, p)[Len(q) + 1] = p
    <3> HIDE DEF q
    <3> QED
      BY <1>1, <1>3
  <2>4. \A i \in 1..Len(q) :
          /\ q[i] \in Packets /\ pktSeq'[q[i]] = pktSeq[q[i]]
          /\ Append(q, p)[i] = q[i]
    BY <1>1, <1>8, <2>3
  <2> HIDE DEF q, s
  <2>5. ASSUME NEW i \in Handed(hif, 1, s)
        PROVE  (pktSeq'[hif[i].pkt] + (Cardinality(Handed(hif, i, s)) + (Len(q) + 1))) % SeqModulus
                 = seqNo'[s]
    <3> DEFINE n == Cardinality(Handed(hif, i, s)) + Len(q)
               a == pktSeq[hif[i].pkt]
    <3>1. i \in Nat \ {0} /\ pktSeq'[hif[i].pkt] = a /\ hif[i].pkt \in Packets
      BY <1>1, <1>7
    <3>2. a \in Nat /\ Cardinality(Handed(hif, i, s)) \in Nat
      BY <1>1, <3>1, HandedType, NumberType
    <3>3. /\ n \in Nat /\ (a + n) % SeqModulus = seqNo[s]
          /\ Cardinality(Handed(hif, i, s)) + (Len(q) + 1) = n + 1
      BY <2>1, <2>3, <3>2 DEF Consecutive
    <3> HIDE DEF n, a
    <3>4. (a + (n + 1)) % SeqModulus = seqNo'[s]
      BY <1>1, <2>2, <3>2, <3>3, CountOn
    <3> QED
      BY <3>1, <3>3, <3>4
  <2>6. ASSUME NEW i \in 1..(Len(q) + 1)
        PROVE  (pktSeq'[Append(q, p)[i]] + (Len(q) + 1 + 1 - i)) % SeqModulus = seqNo'[s]
    <3>1. CASE i <= Len(q)
      <4> DEFINE n == Len(q) + 1 - i
                 a == pktSeq[q[i]]
      <4>1. i \in 1..Len(q)
        BY <2>3, <3>1
      <4>2. n \in Nat /\ a \in Nat /\ Len(q) + 1 + 1 - i = n + 1
        BY <1>1, <2>3, <2>4, <4>1, NumberType
      <4>3. (a + n) % SeqModulus = seqNo[s]
        BY <2>1, <2>3, <4>1 DEF Consecutive
      <4>4. pktSeq'[Append(q, p)[i]] = a
        BY <2>4, <4>1
      <4> HIDE DEF n, a
      <4>5. (a + (n + 1)) % SeqModulus = seqNo'[s]
        BY <1>1, <2>2, <4>2, <4>3, CountOn
      <4> QED
        BY <4>2, <4>4, <4>5
    <3>2. CASE ~(i <= Len(q))
      <4>1. i = Len(q) + 1 /\ Len(q) + 1 + 1 - i = 1
        BY <2>3, <3>2
      <4> QED
        BY <2>2, <2>3, <4>1
    <3> QED
      BY <3>1, <3>2
  <2> QED
    BY <1>2, <2>3, <2>5, <2>6 DEF Consecutive
<1>14. sendQueue'[t] = Append(q, p)
  BY <1>1, <1>2
<1>15. \A u \in Threads : Draining(u, s) => u = t
  BY <1>1 DEF OneDrainer
<1>16. ASSUME NoneRefused, NEW u \in Threads, NEW v \in Services, Draining(u, v)
       PROVE  Consecutive(hif', pktSeq', v, sendQueue'[u], seqNo'[v])
  <2>1. CASE v = s
    BY <1>13, <1>14, <1>15, <1>16, <2>1
  <2>2. CASE v # s
    BY <1>11, <1>16, <2>2
  <2> QED
    BY <2>1, <2>2
<1> HIDE DEF s
<1> QED
  BY <1>1, <1>5, <1>9, <1>12, <1>16, OrderIs

\* Thread t submits the first packets of its queue q as g and keeps b: what
\* was collected before is now submitted, and the count is the same.
LEMMA SubmitKeepsCount ==
    ASSUME NEW h \in Seq(Submissions), NEW g \in Seq(Submissions), NEW s, NEW num, NEW next,
           NEW q \in Seq(Packets), NEW b \in Seq(Packets),
           Len(q) = Len(g) + Len(b),
           \A i \in 1..Len(g) : g[i].pkt = q[i] /\ EpOf[q[i]] = s,
           \A i \in 1..Len(b) : b[i] = q[Len(g) + i],
           Consecutive(h, num, s, q, next)
    PROVE  Consecutive(h \o g, num, s, b, next)
<1> DEFINE L == Len(h)
           n == Len(g)
<1>1. /\ L \in Nat /\ n \in Nat /\ Len(b) \in Nat /\ Len(q) \in Nat
      /\ DOMAIN q = 1..Len(q) /\ DOMAIN b = 1..Len(b)
      /\ \A j \in 1..L : (h \o g)[j] = h[j]
      /\ \A j \in 1..n : (h \o g)[L + j] = g[j]
  OBVIOUS
<1>2. /\ \A i \in 1..L : Cardinality(Handed(h \o g, i, s)) = Cardinality(Handed(h, i, s)) + n
      /\ \A j \in 1..n : Cardinality(Handed(h \o g, L + j, s)) = n + 1 - j
      /\ Handed(h \o g, 1, s) = Handed(h, 1, s) \cup ((L + 1)..(L + n))
  <2>1. \A i \in 1..Len(g) : EpOf[g[i].pkt] = s
    OBVIOUS
  <2> QED
    BY <2>1, HandedMore
<1>3. \A i \in Handed(h, 1, s) : i \in 1..L
  BY <1>1 DEF Handed
<1> HIDE DEF L, n
<1>4. ASSUME NEW i \in Handed(h, 1, s)
      PROVE  (num[(h \o g)[i].pkt] + (Cardinality(Handed(h \o g, i, s)) + Len(b))) % SeqModulus
               = next
  <2>1. Cardinality(Handed(h, i, s)) \in Nat
    BY <1>1, <1>3, HandedType
  <2>2. Cardinality(Handed(h \o g, i, s)) + Len(b) = Cardinality(Handed(h, i, s)) + Len(q)
    BY <1>1, <1>2, <1>3, <2>1 DEF n
  <2>3. (h \o g)[i] = h[i]
    BY <1>1, <1>3
  <2> QED
    BY <2>2, <2>3 DEF Consecutive
<1>5. ASSUME NEW i \in (L + 1)..(L + n)
      PROVE  (num[(h \o g)[i].pkt] + (Cardinality(Handed(h \o g, i, s)) + Len(b))) % SeqModulus
               = next
  <2>1. PICK j \in 1..n : i = L + j
    <3>1. i - L \in 1..n /\ i = L + (i - L)
      BY <1>1
    <3> QED
      BY <3>1
  <2>2. Cardinality(Handed(h \o g, i, s)) + Len(b) = Len(q) + 1 - j
    BY <1>1, <1>2, <2>1 DEF n
  <2>3. (h \o g)[i] = g[j] /\ g[j].pkt = q[j] /\ j \in 1..Len(q)
    <3>1. j \in 1..Len(g) /\ j \in 1..Len(q)
      BY <1>1, <2>1 DEF n
    <3>2. (h \o g)[i] = g[j]
      BY <1>1, <2>1
    <3> QED
      BY <3>1, <3>2
  <2> QED
    BY <1>1, <2>2, <2>3 DEF Consecutive
<1>6. ASSUME NEW i \in 1..Len(b) PROVE (num[b[i]] + (Len(b) + 1 - i)) % SeqModulus = next
  <2>1. n + i \in 1..Len(q) /\ b[i] = q[n + i] /\ Len(b) + 1 - i = Len(q) + 1 - (n + i)
    BY <1>1 DEF n
  <2> QED
    BY <1>1, <2>1 DEF Consecutive
<1> QED
  BY <1>1, <1>2, <1>4, <1>5, <1>6 DEF Consecutive

\* The count of another endpoint is the same too.
LEMMA SubmitOtherCount ==
    ASSUME NEW h \in Seq(Submissions), NEW g \in Seq(Submissions), NEW s, NEW num, NEW next,
           NEW q,
           \A i \in 1..Len(g) : EpOf[g[i].pkt] # s,
           Consecutive(h, num, s, q, next)
    PROVE  Consecutive(h \o g, num, s, q, next)
<1>1. ASSUME NEW i \in Nat \ {0}
      PROVE  /\ Handed(h \o g, i, s) = Handed(h, i, s)
             /\ \A j \in Handed(h, i, s) : (h \o g)[j] = h[j]
  BY HandedOther
<1>2. \A i \in Handed(h, 1, s) : i \in Nat \ {0} /\ i \in Handed(h, i, s)
  BY DEF Handed
<1>3. Handed(h \o g, 1, s) = Handed(h, 1, s)
  BY <1>1
<1>4. ASSUME NEW i \in Handed(h, 1, s)
      PROVE  (num[(h \o g)[i].pkt] + (Cardinality(Handed(h \o g, i, s)) + Len(q))) % SeqModulus
               = next
  <2>1. Handed(h \o g, i, s) = Handed(h, i, s) /\ (h \o g)[i] = h[i]
    BY <1>1, <1>2
  <2> QED
    BY <2>1 DEF Consecutive
<1> QED
  BY <1>3, <1>4 DEF Consecutive

LEMMA SubmitOrder ==
    ASSUME OrderInv, NEW t \in Threads, pc[t] = "issue",
           NEW g \in Seq(Submissions), NEW b \in Seq(Packets),
           Len(sendQueue[t]) = Len(g) + Len(b),
           \A i \in 1..Len(g) : g[i].pkt = sendQueue[t][i],
           \A i \in 1..Len(b) : b[i] = sendQueue[t][Len(g) + i],
           hif' = hif \o g, sendQueue' = [sendQueue EXCEPT ![t] = b],
           UNCHANGED <<pc, ep, seqNo, pktSeq>>,
           NoneRefused' => NoneRefused
    PROVE  SentInOrder'
<1> DEFINE s == ep[t]
           q == sendQueue[t]
<1>1. /\ TypeOK /\ OneDrainer /\ SentInOrder /\ OnEndpoint /\ s \in Services
      /\ Draining(t, s) /\ q \in Seq(Packets) /\ hif \in Seq(Submissions)
      /\ sendQueue \in [Threads -> Seq(Packets)]
  BY DEF OrderInv, PlaceInv, TypeInv, TypeOK, InPass, Draining
<1>2. \A i \in 1..Len(g) : i \in DOMAIN q /\ EpOf[q[i]] = s /\ EpOf[g[i].pkt] = s
  <2>1. \A i \in 1..Len(g) : i \in DOMAIN q
    <3>1. Len(g) \in Nat /\ Len(b) \in Nat /\ DOMAIN q = 1..Len(q)
      BY <1>1
    <3> QED
      BY <3>1
  <2>2. \A i \in DOMAIN q : q[i] \in Elems(sendQueue[t])
    BY DEF Elems
  <2>3. \A p \in Elems(sendQueue[t]) : EpOf[p] = s
    BY <1>1 DEF OnEndpoint
  <2> HIDE DEF s
  <2>4. \A i \in 1..Len(g) : g[i].pkt = q[i]
    OBVIOUS
  <2> QED
    BY <2>1, <2>2, <2>3, <2>4
<1>3. \A u \in Threads, v \in Services : Draining(u, v)' <=> Draining(u, v)
  BY DEF Draining, InPass
<1>4. \A u \in Threads : Draining(u, s) => u = t
  BY <1>1 DEF OneDrainer
<1>5. sendQueue'[t] = b /\ \A u \in Threads \ {t} : sendQueue'[u] = sendQueue[u]
  BY <1>1
<1>6. \A v \in Services : Draining(t, v) => v = s
  BY DEF Draining
<1>7. ASSUME NoneRefused PROVE Consecutive(hif', pktSeq', s, b, seqNo'[s])
  <2>1. Consecutive(hif, pktSeq, s, q, seqNo[s])
    BY <1>1, <1>7, OrderIs
  <2> HIDE DEF s, q
  <2>2. Len(q) = Len(g) + Len(b)
    BY DEF q
  <2>3. \A i \in 1..Len(g) : g[i].pkt = q[i] /\ EpOf[q[i]] = s
    BY <1>2 DEF q
  <2>4. \A i \in 1..Len(b) : b[i] = q[Len(g) + i]
    BY DEF q
  <2>5. Consecutive(hif \o g, pktSeq, s, b, seqNo[s])
    BY <1>1, <2>1, <2>2, <2>3, <2>4, SubmitKeepsCount
  <2> QED
    BY <2>5
<1>8. ASSUME NEW v \in Services \ {s}, NEW r, Consecutive(hif, pktSeq, v, r, seqNo[v])
      PROVE  Consecutive(hif', pktSeq', v, r, seqNo'[v])
  <2>1. \A j \in 1..Len(g) : EpOf[g[j].pkt] # v
    BY <1>2
  <2>2. Consecutive(hif \o g, pktSeq, v, r, seqNo[v])
    BY <1>1, <1>8, <2>1, SubmitOtherCount
  <2> QED
    BY <2>2
<1>9. ASSUME NoneRefused, NEW u \in Threads, NEW v \in Services, Draining(u, v)
      PROVE  Consecutive(hif', pktSeq', v, sendQueue'[u], seqNo'[v])
  <2>1. CASE v = s
    BY <1>4, <1>5, <1>7, <1>9, <2>1
  <2>2. CASE v # s
    <3>1. Consecutive(hif, pktSeq, v, sendQueue[u], seqNo[v])
      BY <1>1, <1>9, OrderIs
    <3>2. u # t
      BY <1>6, <1>9, <2>2
    <3> QED
      BY <1>5, <1>8, <2>2, <3>1, <3>2
  <2> QED
    BY <2>1, <2>2
<1>10. ASSUME NoneRefused, NEW v \in Services, ~\E u \in Threads : Draining(u, v)
       PROVE  Consecutive(hif', pktSeq', v, <<>>, seqNo'[v])
  <2>1. Consecutive(hif, pktSeq, v, <<>>, seqNo[v])
    BY <1>1, <1>10, OrderIs
  <2>2. v # s
    BY <1>1, <1>10
  <2> QED
    BY <1>8, <2>1, <2>2
<1> HIDE DEF s
<1> QED
  BY <1>3, <1>9, <1>10, OrderIs

LEMMA IssueSendOrder ==
    ASSUME OrderInv, NEW t \in Threads, IssueSend(t)
    PROVE  SentInOrder'
<1> DEFINE q == sendQueue[t]
           p == Head(q)
           x == [pkt |-> p, kind |-> "single"]
<1>1. /\ TypeOK /\ Placed /\ q \in Seq(Packets) /\ q # <<>> /\ pc[t] = "issue" /\ InPass(t)
      /\ hif \in Seq(Submissions)
      /\ sendQueue' = [sendQueue EXCEPT ![t] = Tail(q)]
      /\ UNCHANGED <<pc, ep, seqNo, pktSeq>>
  BY DEF OrderInv, PlaceInv, TypeInv, TypeOK, IssueSend, InPass, queueVars
<1>2. p \in Packets /\ p \in Elems(q)
  BY <1>1, ElemsNonEmpty
<1>3. where[p] = "local"
  BY <1>1, <1>2 DEF Placed, Local
<1>4. \/ hif' = Append(hif, x) /\ where' = Move({p}, "hif")
      \/ where' = Move({p}, "lost")
  BY DEF IssueSend
<1>5. /\ Tail(q) \in Seq(Packets) /\ Len(q) = 1 + Len(Tail(q)) /\ q[1] = p
      /\ \A i \in 1..Len(Tail(q)) : Tail(q)[i] = q[1 + i]
  <2> HIDE DEF q
  <2>1. Len(q) \in Nat /\ Len(q) >= 1 /\ Len(Tail(q)) = Len(q) - 1 /\ Tail(q) \in Seq(Packets)
    BY <1>1
  <2> QED
    BY <1>1, <2>1
<1> HIDE DEF p
<1>6. CASE hif' = Append(hif, x) /\ where' = Move({p}, "hif")
  <2> DEFINE g == <<x>>
             b == Tail(q)
  <2>1. x \in Submissions /\ x.pkt = p
    BY <1>2 DEF Submissions
  <2> HIDE DEF x
  <2>2. g \in Seq(Submissions) /\ Len(g) = 1 /\ g[1] = x
    BY <2>1
  <2>3. hif' = hif \o g
    BY <1>1, <1>6, <2>1, AppendIsConcat
  <2>4. NoneRefused' => NoneRefused
    BY <1>3, <1>6, StaysRefused
  <2> HIDE DEF g
  <2>5. /\ Len(sendQueue[t]) = Len(g) + Len(b)
        /\ \A i \in 1..Len(g) : g[i].pkt = sendQueue[t][i]
        /\ \A i \in 1..Len(b) : b[i] = sendQueue[t][Len(g) + i]
    BY <1>5, <2>1, <2>2
  <2>6. b \in Seq(Packets) /\ sendQueue' = [sendQueue EXCEPT ![t] = b]
    BY <1>1, <1>5
  <2> HIDE DEF b
  <2> QED
    BY <1>1, <2>2, <2>3, <2>4, <2>5, <2>6, SubmitOrder
<1>7. CASE where' = Move({p}, "lost")
  <2>1. ~NoneRefused'
    BY <1>2, <1>7 DEF NoneRefused, Move
  <2> QED
    BY <2>1 DEF SentInOrder
<1> QED
  BY <1>4, <1>6, <1>7

LEMMA IssueSendBundleOrder ==
    ASSUME OrderInv, NEW t \in Threads, IssueSendBundle(t)
    PROVE  SentInOrder'
<1> DEFINE q == sendQueue[t]
<1>1. /\ TypeOK /\ Placed /\ q \in Seq(Packets) /\ pc[t] = "issue" /\ InPass(t)
      /\ UNCHANGED <<pc, ep, seqNo, pktSeq>>
  BY DEF OrderInv, PlaceInv, TypeInv, TypeOK, IssueSendBundle, InPass, queueVars
<1>2. PICK n \in 2..MaxMsgPerBundle :
        /\ n <= Len(q)
        /\ hif' = hif \o Bundle(Front(q, n))
        /\ where' = Move(Elems(Front(q, n)), "hif")
        /\ sendQueue' = [sendQueue EXCEPT ![t] = Rest(q, n)]
  BY DEF IssueSendBundle
<1>3. n \in 0..Len(q) /\ n \in Nat /\ Len(q) \in Nat
  BY <1>1, <1>2
<1> DEFINE a == Front(q, n)
           b == Rest(q, n)
           g == Bundle(a)
<1>4. a \in Seq(Packets) /\ b \in Seq(Packets) /\ Elems(q) = Elems(a) \cup Elems(b)
  BY <1>1, <1>3, ElemsSplit
<1>5. /\ Len(a) = n /\ \A i \in 1..n : a[i] = q[i]
      /\ Len(b) = Len(q) - n /\ \A i \in 1..(Len(q) - n) : b[i] = q[n + i]
  <2> HIDE DEF q
  <2> QED
    BY <1>1, <1>3 DEF Front, Rest
<1>6. hif' = hif \o g /\ where' = Move(Elems(a), "hif") /\ sendQueue' = [sendQueue EXCEPT ![t] = b]
  BY <1>2
<1> HIDE DEF a, b
<1>7. g \in Seq(Submissions) /\ Len(g) = n /\ \A i \in 1..n : g[i].pkt = q[i]
  <2>1. g \in Seq(Submissions)
    BY <1>4, BundleType
  <2>2. /\ DOMAIN g = 1..n /\ \A i \in 1..n : g[i].pkt = a[i]
    BY <1>5 DEF Bundle
  <2> HIDE DEF g
  <2>3. Len(g) = n
    BY <1>3, <2>1, <2>2
  <2> QED
    BY <1>5, <2>1, <2>2, <2>3
<1>8. \A p \in Elems(a) : where[p] # "lost"
  <2>1. \A p \in Elems(a) : p \in Packets /\ p \in Local(t)
    BY <1>1, <1>4, ElemsType DEF Local
  <2> QED
    BY <1>1, <2>1 DEF Placed
<1>9. NoneRefused' => NoneRefused
  BY <1>6, <1>8, StaysRefused
<1> HIDE DEF g
<1>10. /\ Len(sendQueue[t]) = Len(g) + Len(b)
       /\ \A i \in 1..Len(g) : g[i].pkt = sendQueue[t][i]
       /\ \A i \in 1..Len(b) : b[i] = sendQueue[t][Len(g) + i]
  BY <1>3, <1>5, <1>7
<1> QED
  BY <1>1, <1>4, <1>6, <1>7, <1>9, <1>10, SubmitOrder

\* The oldest submission completes.
LEMMA CompleteSentPacketOrder ==
    ASSUME OrderInv, CompleteSentPacket
    PROVE  SentInOrder'
<1>1. /\ TypeOK /\ Placed /\ SentInOrder /\ hif \in Seq(Submissions) /\ hif # <<>>
      /\ hif' = Tail(hif)
      /\ UNCHANGED <<seqNo, pktSeq, pc, ep, sendQueue>>
  BY DEF OrderInv, PlaceInv, TypeInv, TypeOK, CompleteSentPacket, queueVars, threadVars
<1>2. NoneRefused' => NoneRefused
  <2> DEFINE p == Head(hif).pkt
  <2>1. PICK ps, owner : where' = Move(ps, owner)
                         /\ (ps = {p} \/ ps = {p} \cup {r \in Packets : where[r] = "done"})
    BY DEF CompleteSentPacket
  <2>2. HifPackets \in Seq(Packets) /\ HifPackets # <<>> /\ p = Head(HifPackets)
    BY <1>1, PacketsOfTail DEF HifPackets
  <2>3. p \in Packets /\ p \in InHif
    BY <2>2, ElemsNonEmpty DEF InHif
  <2>4. where[p] = "hif"
    BY <1>1, <2>3 DEF Placed
  <2> HIDE DEF p
  <2>5. \A r \in ps : where[r] # "lost"
    BY <2>1, <2>4
  <2> QED
    BY <2>1, <2>5, StaysRefused
<1>3. ASSUME NEW v, NEW r, Consecutive(hif, pktSeq, v, r, seqNo[v])
      PROVE  Consecutive(hif', pktSeq', v, r, seqNo'[v])
  <2>1. \A i \in Nat \ {0} :
          /\ Cardinality(Handed(hif', i, v)) = Cardinality(Handed(hif, i + 1, v))
          /\ \A j \in Handed(hif', i, v) :
               j + 1 \in Handed(hif, i + 1, v) /\ hif'[j] = hif[j + 1]
    BY <1>1, HandedTail
  <2>2. \A i \in Handed(hif', 1, v) :
          i \in Nat \ {0} /\ i + 1 \in Handed(hif, 1, v) /\ hif'[i] = hif[i + 1]
    <3>1. \A i \in Handed(hif', 1, v) : i \in Nat \ {0}
      BY DEF Handed
    <3>2. \A i \in Handed(hif, 1 + 1, v) : i \in Handed(hif, 1, v)
      BY DEF Handed
    <3> QED
      BY <2>1, <3>1, <3>2
  <2> QED
    BY <1>1, <1>3, <2>1, <2>2 DEF Consecutive
<1>4. \A u \in Threads, v \in Services : Draining(u, v)' <=> Draining(u, v)
  BY <1>1 DEF Draining, InPass
<1>5. NoneRefused =>
        \A v \in Services :
          /\ \A u \in Threads : Draining(u, v) =>
               Consecutive(hif', pktSeq', v, sendQueue'[u], seqNo'[v])
          /\ (~\E u \in Threads : Draining(u, v)) =>
               Consecutive(hif', pktSeq', v, <<>>, seqNo'[v])
  BY <1>1, <1>3, OrderIs
<1> QED
  BY <1>2, <1>4, <1>5, OrderIs

\* What thread t moves in a step outside a pass was not refused by HIF.
LEMMA OutsideMoves ==
    ASSUME OrderInv, NEW t \in Threads, ~InPass(t), ~InPass(t)',
           \A u \in Threads \ {t} :
             pc'[u] = pc[u] /\ ep'[u] = ep[u] /\ sendQueue'[u] = sendQueue[u],
           UNCHANGED <<hif, seqNo, pktSeq>>,
           NEW ps, NEW owner, where' = Move(ps, owner),
           \A p \in ps : where[p] # "lost"
    PROVE  SentInOrder'
BY StaysRefused, OutsideOrder

LEMMA OutsideKeeps ==
    ASSUME OrderInv, NEW t \in Threads, ~InPass(t), ~InPass(t)',
           \A u \in Threads \ {t} :
             pc'[u] = pc[u] /\ ep'[u] = ep[u] /\ sendQueue'[u] = sendQueue[u],
           UNCHANGED <<hif, seqNo, pktSeq, where>>
    PROVE  SentInOrder'
<1>1. NoneRefused' => NoneRefused
  BY DEF NoneRefused
<1> QED
  BY <1>1, OutsideOrder

LEMMA ThreadStepOrder ==
    ASSUME OrderInv, NEW t \in Threads, ThreadStep(t)
    PROVE  SentInOrder'
<1>1. /\ TypeOK /\ Placed /\ SentInOrder
      /\ pc \in [Threads -> Locations] /\ ep \in [Threads -> Services]
      /\ sendQueue \in [Threads -> Seq(Packets)] /\ refused \in [Threads -> SUBSET Packets]
      /\ txQueue \in [Services -> Seq(Packets)]
  BY DEF OrderInv, PlaceInv, TypeInv, TypeOK
<1>2. CASE MeasureOverflow(t)
  <2>1. \A q, r : AfterOffers(q, r) \notin {"drain", "issue"}
    BY DEF AfterOffers
  <2>2. ~InPass(t) /\ ~InPass(t)'
    BY <1>1, <1>2, <2>1 DEF MeasureOverflow, InPass
  <2>3. \A u \in Threads \ {t} :
          pc'[u] = pc[u] /\ ep'[u] = ep[u] /\ sendQueue'[u] = sendQueue[u]
    BY <1>1, <1>2 DEF MeasureOverflow
  <2> QED
    BY <1>2, <2>2, <2>3, OutsideKeeps DEF MeasureOverflow, queueVars, hifVars
<1>3. CASE OfferOverflow(t)
  <2>1. \A q, r : AfterOffers(q, r) \notin {"drain", "issue"}
    BY DEF AfterOffers
  <2>2. ~InPass(t) /\ ~InPass(t)'
    BY <1>1, <1>3, <2>1 DEF OfferOverflow, InPass
  <2>3. \A u \in Threads \ {t} :
          pc'[u] = pc[u] /\ ep'[u] = ep[u] /\ sendQueue'[u] = sendQueue[u]
    BY <1>1, <1>3 DEF OfferOverflow
  <2> QED
    BY <1>3, <2>2, <2>3, OutsideKeeps DEF OfferOverflow, queueVars, hifVars
<1>4. CASE EnterTrySend(t)
  BY <1>4, EnterTrySendOrder
<1>5. CASE GetHTCSendPacket(t)
  BY <1>5, GetHTCSendPacketOrder
<1>6. CASE EndOfPass(t)
  BY <1>6, EndOfPassOrder
<1>7. CASE IssueSend(t)
  BY <1>7, IssueSendOrder
<1>8. CASE IssueSendBundle(t)
  BY <1>8, IssueSendBundleOrder
<1>9. CASE Relock(t)
  <2>1. \A u \in Threads, v \in Services : Draining(u, v)' <=> Draining(u, v)
    BY <1>1, <1>9 DEF Relock, Draining, InPass
  <2>2. NoneRefused' => NoneRefused
    BY <1>9 DEF Relock, NoneRefused
  <2> QED
    BY <1>1, <1>9, <2>1, <2>2, SameOrder DEF Relock, queueVars, hifVars
<1>10. CASE ReturnToCaller(t)
  <2>1. ~InPass(t) /\ ~InPass(t)'
    BY <1>1, <1>10 DEF ReturnToCaller, InPass
  <2>2. \A p \in refused[t] : where[p] # "lost"
    <3>1. \A p \in refused[t] : p \in Packets /\ p \in HeldUncharged(t)
      BY <1>1 DEF HeldUncharged
    <3> QED
      BY <1>1, <3>1 DEF Placed
  <2>3. \A u \in Threads \ {t} :
          pc'[u] = pc[u] /\ ep'[u] = ep[u] /\ sendQueue'[u] = sendQueue[u]
    BY <1>1, <1>10 DEF ReturnToCaller
  <2> QED
    BY <1>10, <2>1, <2>2, <2>3, OutsideMoves DEF ReturnToCaller, queueVars, hifVars
<1>11. CASE CheckEndpointTxQueue(t)
  <2>1. ~InPass(t) /\ ~InPass(t)'
    BY <1>1, <1>11 DEF CheckEndpointTxQueue, InPass
  <2>2. \A u \in Threads \ {t} :
          pc'[u] = pc[u] /\ ep'[u] = ep[u] /\ sendQueue'[u] = sendQueue[u]
    BY <1>1, <1>11 DEF CheckEndpointTxQueue
  <2> QED
    BY <1>11, <2>1, <2>2, OutsideKeeps DEF CheckEndpointTxQueue, queueVars, hifVars
<1>12. CASE FlushPacket(t)
  <2>1. ~InPass(t) /\ ~InPass(t)'
    BY <1>1, <1>12 DEF FlushPacket, FlushLocations, InPass
  <2>2. PICK i \in ToFlush(t) : where' = Move({txQueue[ep[t]][i]}, "caller")
    BY <1>12 DEF FlushPacket
  <2> DEFINE p == txQueue[ep[t]][i]
  <2>3. p \in Packets /\ p \in Queued(ep[t])
    BY <1>1 DEF ToFlush, Queued, Elems
  <2>4. where[p] # "lost"
    BY <1>1, <2>3 DEF Placed
  <2> HIDE DEF p
  <2>5. \A r \in {p} : where[r] # "lost"
    BY <2>4
  <2>6. \A u \in Threads \ {t} :
          pc'[u] = pc[u] /\ ep'[u] = ep[u] /\ sendQueue'[u] = sendQueue[u]
    BY <1>1, <1>12 DEF FlushPacket
  <2>7. where' = Move({p}, "caller")
    BY <2>2 DEF p
  <2> QED
    BY <1>12, <2>1, <2>5, <2>6, <2>7, OutsideMoves DEF FlushPacket, hifVars
<1>13. CASE FlushDone(t)
  <2>1. ~InPass(t) /\ ~InPass(t)'
    BY <1>1, <1>13 DEF FlushDone, FlushLocations, InPass
  <2>2. \A u \in Threads \ {t} :
          pc'[u] = pc[u] /\ ep'[u] = ep[u] /\ sendQueue'[u] = sendQueue[u]
    BY <1>1, <1>13 DEF FlushDone
  <2> QED
    BY <1>13, <2>1, <2>2, OutsideKeeps DEF FlushDone, queueVars, hifVars
<1> QED
  BY <1>2, <1>3, <1>4, <1>5, <1>6, <1>7, <1>8, <1>9, <1>10, <1>11, <1>12, <1>13
  DEF ThreadStep

LEMMA SenderCallOrder ==
    ASSUME OrderInv, NEW t \in Senders, SenderCall(t)
    PROVE  SentInOrder'
<1>1. /\ t \in Threads /\ pc \in [Threads -> Locations] /\ ep \in [Threads -> Services]
      /\ sendQueue \in [Threads -> Seq(Packets)]
  BY DEF OrderInv, PlaceInv, TypeInv, TypeOK, Threads
<1>2. CASE SendPktsMultiple(t)
  <2>1. ~InPass(t) /\ ~InPass(t)'
    BY <1>1, <1>2 DEF SendPktsMultiple, InPass
  <2>2. PICK q \in Batches : where' = Move(Elems(q), "caller")
    BY <1>2 DEF SendPktsMultiple
  <2>3. \A p \in Elems(q) : where[p] # "lost"
    BY DEF Batches, Elems
  <2>4. \A u \in Threads \ {t} :
          pc'[u] = pc[u] /\ ep'[u] = ep[u] /\ sendQueue'[u] = sendQueue[u]
    BY <1>1, <1>2 DEF SendPktsMultiple
  <2> QED
    BY <1>1, <1>2, <2>1, <2>2, <2>3, <2>4, OutsideMoves DEF SendPktsMultiple, queueVars, hifVars
<1>3. ASSUME NEW s \in Streams, NEW on \in BOOLEAN, HTCIndicateActivityChange(t, s, on)
      PROVE  SentInOrder'
  <2>1. ~InPass(t) /\ ~InPass(t)'
    BY <1>1, <1>3 DEF HTCIndicateActivityChange, InPass
  <2>2. \A u \in Threads \ {t} :
          pc'[u] = pc[u] /\ ep'[u] = ep[u] /\ sendQueue'[u] = sendQueue[u]
    BY <1>1, <1>3 DEF HTCIndicateActivityChange
  <2>3. UNCHANGED <<hif, seqNo, pktSeq, where>>
    BY <1>3 DEF HTCIndicateActivityChange, queueVars, hifVars
  <2> QED
    BY <1>1, <2>1, <2>2, <2>3, OutsideKeeps
<1>4. ASSUME NEW s \in UsedServices, NEW how \in FlushModes, FlushEndpointTX(t, s, how)
      PROVE  SentInOrder'
  <2>1. how \notin {"drain", "issue"}
    BY SendAssumption
  <2>2. ~InPass(t) /\ ~InPass(t)'
    BY <1>1, <1>4, <2>1 DEF FlushEndpointTX, InPass
  <2>3. \A u \in Threads \ {t} :
          pc'[u] = pc[u] /\ ep'[u] = ep[u] /\ sendQueue'[u] = sendQueue[u]
    BY <1>1, <1>4 DEF FlushEndpointTX
  <2>4. UNCHANGED <<hif, seqNo, pktSeq, where>>
    BY <1>4 DEF FlushEndpointTX, queueVars, hifVars
  <2> QED
    BY <1>1, <2>2, <2>3, <2>4, OutsideKeeps
<1> QED
  BY <1>2, <1>3, <1>4 DEF SenderCall

LEMMA NextOrder == OrderInv /\ [Next]_vars => SentInOrder'
<1> SUFFICES ASSUME OrderInv, [Next]_vars PROVE SentInOrder'
  OBVIOUS
<1>1. ASSUME NEW rpt \in Reports, HTCProcessCreditRpt(rpt) PROVE SentInOrder'
  <2>1. Rx \in Threads /\ pc \in [Threads -> Locations]
    BY DEF OrderInv, PlaceInv, TypeInv, TypeOK, Threads
  <2>2. ~InPass(Rx) /\ ~InPass(Rx)'
    BY <1>1, <2>1 DEF HTCProcessCreditRpt, InPass
  <2>3. \A u \in Threads \ {Rx} :
          pc'[u] = pc[u] /\ ep'[u] = ep[u] /\ sendQueue'[u] = sendQueue[u]
    BY <1>1, <2>1 DEF HTCProcessCreditRpt
  <2>4. UNCHANGED <<hif, seqNo, pktSeq, where>>
    BY <1>1 DEF HTCProcessCreditRpt, queueVars, hifVars
  <2> QED
    BY <2>1, <2>2, <2>3, <2>4, OutsideKeeps
<1>2. ASSUME UNCHANGED <<hif, queueVars, where, threadVars>> PROVE SentInOrder'
  <2>1. \A u \in Threads, v \in Services : Draining(u, v)' <=> Draining(u, v)
    BY <1>2 DEF threadVars, Draining, InPass
  <2>2. NoneRefused' => NoneRefused
    BY <1>2 DEF NoneRefused
  <2> QED
    BY <1>2, <2>1, <2>2, SameOrder DEF OrderInv, queueVars, threadVars
<1>3. ASSUME NEW status, TransferDone(status) PROVE SentInOrder'
  BY <1>2, <1>3 DEF TransferDone
<1>4. ASSUME UNCHANGED vars PROVE SentInOrder'
  BY <1>2, <1>4 DEF vars, hifVars
<1> QED
  BY <1>1, <1>3, <1>4, ThreadStepOrder, SenderCallOrder, CompleteSentPacketOrder
  DEF Next, HifStep

\* As long as HIF refused no packet, the packets of an endpoint that are in
\* HIF and then those the thread draining it has collected carry consecutive
\* sequence numbers up to the next one, modulo the width of the number.
THEOREM SentInOrderCorrect == Spec => []SentInOrder
<1>1. Init => OrderInv
  BY InitPlaceInv, InitOneDrainer, InitOrder DEF OrderInv
<1>2. OrderInv /\ [Next]_vars => OrderInv'
  BY NextPlaceInv, NextOneDrainer, NextOrder DEF OrderInv, PlaceInv, DrainInv
<1>3. OrderInv => SentInOrder
  BY DEF OrderInv
<1> QED
  BY <1>1, <1>2, <1>3, PTL DEF Spec

-----------------------------------------------------------------------------
(***************************************************************************)
(* What each service has out: the credits that its charged packets carry   *)
(* and those the target holds for it.  With that, and with the services    *)
(* that are always active, the limits of the policy are balanced.          *)
(***************************************************************************)
OutOf(C, f) ==
    [s \in Services |-> Cardinality(CreditsOf({p \in C : EpOf[p] = s})) + f[s]]

Out == OutOf(ChargedPackets, atTarget)

AlwaysActive == \A s \in {"CONTROL"} \cup LowPriority : active[s]

BalanceInv == Balanced(cs, Out) /\ AlwaysActive

\* No message costs more than the largest.
CostsFit == \A p \in Packets : Cost[p] <= PerMaxMsg

LEMMA OutType ==
    ASSUME NEW C \in SUBSET Packets, NEW f \in [Services -> Nat]
    PROVE  OutOf(C, f) \in [Services -> Nat]
<1>1. ASSUME NEW s \in Services PROVE Cardinality(CreditsOf({p \in C : EpOf[p] = s})) + f[s] \in Nat
  <2> DEFINE D == {p \in C : EpOf[p] = s}
  <2>1. D \in SUBSET Packets
    OBVIOUS
  <2> HIDE DEF D
  <2>2. Cardinality(CreditsOf(D)) \in Nat
    BY <2>1, CreditsOfType
  <2> QED BY <2>2 DEF D
<1> QED BY <1>1 DEF OutOf

LEMMA OutNow ==
    ASSUME TypeOK
    PROVE  Out \in [Services -> Nat] /\ ChargedPackets \in SUBSET Packets
<1>1. ChargedPackets \in SUBSET Packets
  BY DEF ChargedPackets
<1> QED BY <1>1, OutType DEF Out, TypeOK

LEMMA OutAdd ==
    ASSUME NEW C \in SUBSET Packets, NEW f \in [Services -> Nat], NEW p \in Packets, p \notin C
    PROVE  OutOf(C \cup {p}, f) = [OutOf(C, f) EXCEPT ![EpOf[p]] = @ + Cost[p]]
<1>1. EpOf[p] \in Services /\ Cost[p] \in Nat
  BY SendAssumption
<1>2. ASSUME NEW s \in Services
      PROVE  OutOf(C \cup {p}, f)[s] = OutOf(C, f)[s] + (IF s = EpOf[p] THEN Cost[p] ELSE 0)
  <2> DEFINE D == {q \in C : EpOf[q] = s}
             E == {q \in C \cup {p} : EpOf[q] = s}
  <2>1. D \in SUBSET Packets /\ p \notin D
    OBVIOUS
  <2>2. E = IF s = EpOf[p] THEN D \cup {p} ELSE D
    OBVIOUS
  <2>3. OutOf(C \cup {p}, f)[s] = Cardinality(CreditsOf(E)) + f[s]
        /\ OutOf(C, f)[s] = Cardinality(CreditsOf(D)) + f[s] /\ f[s] \in Nat
    BY DEF OutOf
  <2> HIDE DEF D, E
  <2>4. Cardinality(CreditsOf(D)) \in Nat
        /\ Cardinality(CreditsOf(D \cup {p})) = Cardinality(CreditsOf(D)) + Cost[p]
    BY <2>1, CreditsOfType, CreditsOfAdd
  <2>5. CASE s = EpOf[p]
    BY <1>1, <2>2, <2>3, <2>4, <2>5
  <2>6. CASE s # EpOf[p]
    BY <2>2, <2>3, <2>4, <2>6
  <2> QED BY <2>5, <2>6
<1>3. OutOf(C, f) \in [Services -> Nat] /\ OutOf(C \cup {p}, f) \in [Services -> Nat]
  <2>1. C \cup {p} \in SUBSET Packets
    OBVIOUS
  <2> QED BY <2>1, OutType
<1> DEFINE after == OutOf(C \cup {p}, f)
           before == OutOf(C, f)
<1>4. after \in [Services -> Nat] /\ before \in [Services -> Nat]
      /\ \A s \in Services : after[s] = before[s] + (IF s = EpOf[p] THEN Cost[p] ELSE 0)
  BY <1>2, <1>3
<1> HIDE DEF after, before
<1>5. after = [before EXCEPT ![EpOf[p]] = @ + Cost[p]]
  BY <1>1, <1>4
<1> QED BY <1>5 DEF after, before

\* What the target gets is out as before.
LEMMA OutArrives ==
    ASSUME NEW C \in SUBSET Packets, NEW f \in [Services -> Nat], NEW p \in Packets, p \notin C
    PROVE  OutOf(C, [f EXCEPT ![EpOf[p]] = @ + Cost[p]]) = OutOf(C \cup {p}, f)
<1>1. EpOf[p] \in Services /\ Cost[p] \in Nat
  BY SendAssumption
<1> DEFINE g == [f EXCEPT ![EpOf[p]] = @ + Cost[p]]
<1>2. g \in [Services -> Nat]
  BY <1>1
<1>3. ASSUME NEW s \in Services
      PROVE  OutOf(C, g)[s] = OutOf(C, f)[s] + (IF s = EpOf[p] THEN Cost[p] ELSE 0)
  <2> DEFINE n == Cardinality(CreditsOf({q \in C : EpOf[q] = s}))
  <2>1. OutOf(C, g)[s] = n + g[s] /\ OutOf(C, f)[s] = n + f[s]
    BY DEF OutOf
  <2>2. n \in Nat
    <3> DEFINE D == {q \in C : EpOf[q] = s}
    <3>1. D \in SUBSET Packets
      OBVIOUS
    <3> HIDE DEF D
    <3>2. Cardinality(CreditsOf(D)) \in Nat
      BY <3>1, CreditsOfType
    <3> QED BY <3>2 DEF D
  <2> HIDE DEF n
  <2>3. g[s] = f[s] + (IF s = EpOf[p] THEN Cost[p] ELSE 0) /\ f[s] \in Nat
    BY <1>1
  <2> HIDE DEF g
  <2> QED BY <1>1, <2>1, <2>2, <2>3
<1>4. OutOf(C, f) \in [Services -> Nat] /\ OutOf(C, g) \in [Services -> Nat]
  BY <1>2, OutType
<1> HIDE DEF g
<1>5. OutOf(C, g) = [OutOf(C, f) EXCEPT ![EpOf[p]] = @ + Cost[p]]
  <2> HIDE DEF OutOf
  <2> QED BY <1>1, <1>3, <1>4
<1> QED BY <1>5, OutAdd DEF g

LEMMA SeekUpToBalanced ==
    ASSUME NEW c \in CreditStates, NEW out \in [Services -> Nat], Balanced(c, out),
           NEW s \in Services, NEW n \in Nat, n <= PerMaxMsg
    PROVE  Balanced(SeekUpTo(c, s, n), out)
<1>1. c.credits[s] \in Nat /\ PerMaxMsg \in Nat
  BY NormIs DEF CreditStates
<1>2. CASE c.credits[s] < n
  <2>1. n - c.credits[s] \in Nat /\ n - c.credits[s] <= PerMaxMsg
    BY <1>1, <1>2
  <2>2. Balanced(SeekCredits(c, s, n - c.credits[s]), out)
    BY <2>1, SeekBalanced
  <2> QED BY <1>2, <2>2 DEF SeekUpTo
<1> QED BY <1>2 DEF SeekUpTo

LEMMA SpendBalanced ==
    ASSUME NEW c \in CreditStates, NEW out \in [Services -> Nat], Balanced(c, out),
           NEW s \in Services, NEW n \in Nat, n <= c.credits[s]
    PROVE  Balanced(Spend(c, s, n), [out EXCEPT ![s] = @ + n])
<1> DEFINE d == Spend(c, s, n)
           o == [out EXCEPT ![s] = @ + n]
<1>1. \A v \in Services :
        /\ d.credits[v] = IF v = s THEN c.credits[v] - n ELSE c.credits[v]
        /\ o[v] = IF v = s THEN out[v] + n ELSE out[v]
  BY DEF Spend, CreditStates
<1>2. d.assigned = c.assigned /\ d.toDist = c.toDist
  BY DEF Spend
<1> HIDE DEF d, o
<1>3. \A v \in Services : /\ c.credits[v] \in Nat /\ c.assigned[v] \in Nat /\ out[v] \in Nat /\ Slack(v) \in Nat
                          /\ c.credits[v] <= c.assigned[v]
                          /\ c.assigned[v] <= c.credits[v] + out[v] + Slack(v)
  BY NormIs DEF CreditStates, Slack, Balanced, Capped, Backed
<1>4. Capped(d) /\ Backed(d, o)
  BY <1>1, <1>2, <1>3 DEF Capped, Backed
<1>5. Settled(d) /\ Limits(d)
  BY <1>2 DEF Settled, Limits, Balanced
<1> QED BY <1>4, <1>5 DEF Balanced, d, o

LEMMA InitBalance ==
    ASSUME AmpleGrant, Init PROVE BalanceInv
<1>1. TotalCredits > 4 /\ TotalCredits \in Nat
  BY NormIs, CreditAssumption DEF AmpleGrant
<1>2. InitiallyGiven = {"CONTROL", "BE", "BK"}
  BY <1>1 DEF InitiallyGiven
<1>3. ChargedPackets = {} /\ atTarget = [s \in Services |-> 0]
  BY DEF Init, ChargedPackets, Charged
<1>4. Out \in [Services -> Nat]
  <2>1. atTarget \in [Services -> Nat] /\ {} \in SUBSET Packets
    BY <1>3
  <2> QED BY <1>3, <2>1, OutType DEF Out
<1>5. \A s \in Services :
        /\ cs.credits[s] = IF s \in InitiallyGiven THEN PerMaxMsg ELSE 0
        /\ cs.assigned[s] = cs.credits[s] /\ cs.toDist[s] = 0
  BY DEF Init, InitCredits, TxCreditsMin
<1>6. \A s \in Services : cs.credits[s] \in Nat /\ Out[s] \in Nat /\ Slack(s) \in Nat
  BY <1>4, <1>5, NormIs DEF Slack
<1>7. Settled(cs) /\ Capped(cs) /\ Backed(cs, Out)
  BY <1>5, <1>6 DEF Settled, Capped, Backed
<1>8. Limits(cs)
  BY <1>2, <1>5, NormIs DEF Limits, Services, LowPriority
<1>9. AlwaysActive
  BY <1>2 DEF Init, AlwaysActive, LowPriority, Services
<1> QED BY <1>7, <1>8, <1>9 DEF BalanceInv, Balanced

LEMMA SoughtBalanced ==
    ASSUME TypeOK, CostsFit, BalanceInv, NEW s \in Services, txQueue[s] # <<>>
    PROVE  SoughtForHead(s) \in CreditStates /\ Balanced(SoughtForHead(s), Out)
<1>1. cs \in CreditStates /\ Head(txQueue[s]) \in Packets
  BY DEF TypeOK
<1>2. Cost[Head(txQueue[s])] \in Nat /\ Cost[Head(txQueue[s])] <= PerMaxMsg
  BY <1>1, SendAssumption DEF CostsFit
<1> QED BY <1>1, <1>2, OutNow, SeekUpToCorrect, SeekUpToBalanced DEF SoughtForHead, BalanceInv

LEMMA GetHTCSendPacketBalance ==
    ASSUME PlaceInv, CostsFit, BalanceInv, NEW t \in Threads, GetHTCSendPacket(t)
    PROVE  BalanceInv'
<1> DEFINE s == ep[t]
           p == Head(txQueue[s])
           sought == SoughtForHead(s)
           spent == Spend(sought, s, Cost[p])
           out == [Out EXCEPT ![s] = @ + Cost[p]]
<1>1. TypeOK /\ s \in Services /\ txQueue[s] \in Seq(Packets) /\ txQueue[s] # <<>> /\ p \in Packets
  BY SMTT(30) DEF PlaceInv, TypeInv, TypeOK, GetHTCSendPacket, HeadCovered
<1>2. Cost[p] \in Nat /\ Cost[p] <= PerMaxMsg /\ PerMaxMsg \in Nat
  BY <1>1, SendAssumption, NormIs DEF CostsFit
<1>3. sought \in CreditStates /\ Balanced(sought, Out)
  BY <1>1, SoughtBalanced
<1>4. Cost[p] <= sought.credits[s]
  BY <1>1, <1>2, <1>3 DEF GetHTCSendPacket, HeadCovered, CreditStates
<1>5. cs' = SeekUpTo(spent, s, PerMaxMsg)
  BY DEF GetHTCSendPacket
<1>6. p \in Queued(s)
  BY <1>1, ElemsNonEmpty DEF Queued
<1> HIDE DEF sought, p
<1>7. where[p] = "queued" /\ EpOf[p] = s
  BY <1>1, <1>6 DEF PlaceInv, Placed
<1>8. ChargedPackets' = ChargedPackets \cup {p} /\ p \notin ChargedPackets /\ atTarget' = atTarget
  BY <1>1, <1>7 DEF GetHTCSendPacket, ChargedPackets, Charged, Move, p
<1>9. Out' = out
  <2>1. ChargedPackets \in SUBSET Packets /\ atTarget \in [Services -> Nat]
    BY <1>1, OutNow DEF TypeOK
  <2>2. OutOf(ChargedPackets \cup {p}, atTarget) =
          [OutOf(ChargedPackets, atTarget) EXCEPT ![EpOf[p]] = @ + Cost[p]]
    <3>1. p \in Packets /\ p \notin ChargedPackets
      BY <1>1, <1>8
    <3> DEFINE C == ChargedPackets
    <3>2. C \in SUBSET Packets /\ p \notin C
      BY <2>1, <3>1
    <3> HIDE DEF C
    <3>3. OutOf(C \cup {p}, atTarget) = [OutOf(C, atTarget) EXCEPT ![EpOf[p]] = @ + Cost[p]]
      BY <2>1, <3>1, <3>2, OutAdd
    <3> QED BY <3>3 DEF C
  <2>3. Out' = OutOf(ChargedPackets \cup {p}, atTarget)
    BY <1>8 DEF Out
  <2> HIDE DEF s
  <2> QED BY <1>7, <2>2, <2>3 DEF Out
<1>10. spent \in CreditStates /\ Balanced(spent, out)
  BY <1>1, <1>2, <1>3, <1>4, OutNow, SpendCorrect, SpendBalanced
<1>11. out \in [Services -> Nat]
  <2>1. Out \in [Services -> Nat]
    BY <1>1, OutNow
  <2> QED BY <1>1, <1>2, <2>1
<1> HIDE DEF spent, out
<1>12. Balanced(cs', out)
  BY <1>1, <1>2, <1>5, <1>10, <1>11, SeekUpToBalanced
<1>13. AlwaysActive'
  BY DEF GetHTCSendPacket, BalanceInv, AlwaysActive
<1> QED BY <1>9, <1>12, <1>13 DEF BalanceInv

\* Credits that come back are no longer out.
LEMMA OweBalance ==
    ASSUME TypeOK, BalanceInv, NEW rpt, NEW dep,
           \A s \in Services : Reported(rpt, s) \in Nat /\ Reported(rpt, s) <= Out[s]
    PROVE  Balanced(SendComplete(Owe(rpt), Idle(active, dep)),
                    [s \in Services |-> Out[s] - Reported(rpt, s)])
<1> DEFINE c == Owe(rpt)
           idle == Idle(active, dep)
<1>1. c \in CreditStates
  BY OweCorrect DEF TypeOK
<1>2. c.credits = cs.credits /\ c.assigned = cs.assigned
  BY DEF Owe
<1>3. \A s \in Services : c.toDist[s] = Reported(rpt, s)
  BY DEF Owe, BalanceInv, Balanced, Settled
<1>4. idle \cap ({"CONTROL"} \cup LowPriority) = {}
  BY DEF Idle, BalanceInv, AlwaysActive
<1> HIDE DEF c, idle
<1>5. Capped(c) /\ Backed(c, Out) /\ Limits(c)
  BY <1>2 DEF BalanceInv, Balanced, Capped, Backed, Limits
<1>6. Balanced(SendComplete(c, idle), [s \in Services |-> Out[s] - c.toDist[s]])
  BY <1>1, <1>3, <1>4, <1>5, OutNow, SendCompleteBalanced
<1>7. [s \in Services |-> Out[s] - c.toDist[s]] = [s \in Services |-> Out[s] - Reported(rpt, s)]
  BY <1>3
<1> QED BY <1>6, <1>7 DEF c, idle

LEMMA HTCProcessCreditRptBalance ==
    ASSUME PlaceInv, BalanceInv, NEW rpt \in Reports, HTCProcessCreditRpt(rpt)
    PROVE  BalanceInv'
<1>1. TypeOK /\ atTarget \in [Services -> Nat] /\ Out \in [Services -> Nat]
      /\ ChargedPackets \in SUBSET Packets
  BY OutNow DEF PlaceInv, TypeInv, TypeOK
<1>2. ChargedPackets' = ChargedPackets /\ active' = active
      /\ atTarget' = [s \in Services |-> atTarget[s] - Reported(rpt, s)]
      /\ cs' = SendComplete(Owe(rpt), Idle(active, depth'))
  BY DEF HTCProcessCreditRpt, ChargedPackets, Charged
<1>3. \A s \in Services : Reported(rpt, s) \in Nat /\ Reported(rpt, s) <= atTarget[s]
  BY <1>1, ReportedType
<1>4. ASSUME NEW s \in Services
      PROVE  Reported(rpt, s) <= Out[s] /\ Out'[s] = Out[s] - Reported(rpt, s)
  <2> DEFINE n == Cardinality(CreditsOf({p \in ChargedPackets : EpOf[p] = s}))
             D == {p \in ChargedPackets : EpOf[p] = s}
  <2>1. n \in Nat
    <3>1. D \in SUBSET Packets
      BY <1>1
    <3> HIDE DEF D
    <3>2. Cardinality(CreditsOf(D)) \in Nat
      BY <3>1, CreditsOfType
    <3> QED BY <3>2 DEF D
  <2>2. Out[s] = n + atTarget[s] /\ Out'[s] = n + atTarget'[s]
    BY <1>2 DEF Out, OutOf
  <2> HIDE DEF n
  <2>3. atTarget'[s] = atTarget[s] - Reported(rpt, s)
    BY <1>2
  <2> QED BY <1>1, <1>3, <2>1, <2>2, <2>3
<1>5. Out' = [s \in Services |-> Out[s] - Reported(rpt, s)]
  <2>1. Out' = [s \in Services |-> Out'[s]]
    BY DEF Out, OutOf
  <2> QED BY <1>4, <2>1
<1>6. Balanced(cs', Out')
  BY <1>1, <1>2, <1>3, <1>4, <1>5, OweBalance
<1>7. AlwaysActive'
  BY <1>2 DEF AlwaysActive, BalanceInv
<1> QED BY <1>6, <1>7 DEF BalanceInv

LEMMA CompleteSentPacketBalance ==
    ASSUME PlaceInv, BalanceInv, CompleteSentPacket
    PROVE  BalanceInv'
<1> DEFINE p == Head(hif).pkt
           s == EpOf[p]
           rpt == [r \in {s} |-> Cost[p]]
<1>1. TypeOK /\ hif \in Seq(Submissions) /\ hif # <<>>
  BY DEF PlaceInv, TypeInv, TypeOK, CompleteSentPacket
<1>2. p \in Packets
  BY <1>1, CompleteSentPacketCredits
<1>3. where[p] = "hif"
  <2>1. HifPackets \in Seq(Packets) /\ HifPackets # <<>> /\ Head(HifPackets) = p
    BY <1>1, PacketsOfTail DEF HifPackets
  <2>2. p \in InHif
    BY <2>1, ElemsNonEmpty DEF InHif
  <2> QED BY <1>2, <2>2 DEF PlaceInv, Placed
<1>4. \/ where' = Move({p}, "done")
      \/ where' = Move({p} \cup {r \in Packets : where[r] = "done"}, Completed)
  BY DEF CompleteSentPacket
<1>5. active' = active /\ \/ /\ cs' = SendComplete(Owe(rpt), Idle(active, depth'))
                             /\ atTarget' = atTarget
                          \/ /\ cs' = cs /\ atTarget' = [atTarget EXCEPT ![s] = @ + Cost[p]]
  BY DEF CompleteSentPacket
<1> HIDE DEF p
<1>6. p \in ChargedPackets /\ ChargedPackets' = ChargedPackets \ {p}
  BY <1>2, <1>3, <1>4 DEF ChargedPackets, Charged, Move, Completed
<1>7. s \in Services /\ Cost[p] \in Nat
  BY <1>2, SendAssumption
<1> DEFINE C == ChargedPackets \ {p}
<1>8. C \in SUBSET Packets /\ p \notin C /\ ChargedPackets = C \cup {p} /\ ChargedPackets' = C
      /\ atTarget \in [Services -> Nat]
  BY <1>1, <1>6, OutNow DEF TypeOK
<1> HIDE DEF C
<1>9. OutOf(C, atTarget) \in [Services -> Nat]
      /\ Out = [OutOf(C, atTarget) EXCEPT ![s] = @ + Cost[p]]
  BY <1>2, <1>8, OutAdd, OutType DEF Out
<1>10. AlwaysActive'
  BY <1>5 DEF AlwaysActive, BalanceInv
<1>11. CASE cs' = cs /\ atTarget' = [atTarget EXCEPT ![s] = @ + Cost[p]]
  <2>1. Out' = Out
    BY <1>2, <1>8, <1>11, OutArrives DEF Out
  <2> QED BY <1>10, <1>11, <2>1 DEF BalanceInv
<1>12. CASE cs' = SendComplete(Owe(rpt), Idle(active, depth')) /\ atTarget' = atTarget
  <2> DEFINE o == OutOf(C, atTarget)
  <2>1. Out' = o /\ o \in [Services -> Nat] /\ Out = [o EXCEPT ![s] = @ + Cost[p]]
    BY <1>8, <1>9, <1>12 DEF Out
  <2>2. \A v \in Services : Reported(rpt, v) = IF v = s THEN Cost[p] ELSE 0
    BY DEF Reported
  <2> HIDE DEF o, rpt
  <2>3. \A v \in Services : /\ Reported(rpt, v) \in Nat /\ Reported(rpt, v) <= Out[v]
                            /\ Out[v] - Reported(rpt, v) = o[v]
    BY <1>7, <2>1, <2>2
  <2>4. o = [v \in Services |-> Out[v] - Reported(rpt, v)]
    BY <2>1, <2>3
  <2>5. Balanced(cs', o)
    BY <1>1, <1>12, <2>3, <2>4, OweBalance
  <2> QED BY <1>10, <2>1, <2>5 DEF BalanceInv
<1> QED BY <1>5, <1>11, <1>12

LEMMA NextBalance ==
    ASSUME PlaceInv, CostsFit, BalanceInv, [Next]_vars PROVE BalanceInv'
<1>1. TypeOK /\ cs \in CreditStates /\ Out \in [Services -> Nat]
  BY OutNow DEF PlaceInv, TypeInv, TypeOK
<1>2. ASSUME UNCHANGED Books PROVE Out' = Out
  BY <1>2 DEF Books, Out
<1>3. ASSUME UNCHANGED Books, cs' = cs, active' = active PROVE BalanceInv'
  BY <1>2, <1>3 DEF BalanceInv, AlwaysActive
<1>4. ASSUME NEW t \in Threads, ThreadStep(t) PROVE BalanceInv'
  <2>1. CASE GetHTCSendPacket(t)
    BY <2>1, GetHTCSendPacketBalance
  <2>2. CASE EndOfPass(t)
    <3>1. UNCHANGED Books /\ active' = active
      BY <1>4, <2>2, ThreadStepLedger DEF EndOfPass, GetHTCSendPacket
    <3>2. Balanced(cs', Out)
      <4>1. ep[t] \in Services
        BY <1>1 DEF TypeOK
      <4>2. cs' = IF txQueue[ep[t]] = <<>> THEN cs ELSE SoughtForHead(ep[t])
        BY <2>2 DEF EndOfPass
      <4> QED BY <1>1, <4>1, <4>2, SoughtBalanced DEF BalanceInv
    <3> QED BY <1>2, <3>1, <3>2 DEF BalanceInv, AlwaysActive
  <2>3. CASE ~GetHTCSendPacket(t) /\ ~EndOfPass(t)
    <3>1. UNCHANGED Books
      BY <1>4, <2>3, ThreadStepLedger
    <3>2. cs' = cs /\ active' = active
      BY <1>4, <2>3 DEF ThreadStep, MeasureOverflow, OfferOverflow, EnterTrySend, IssueSend,
           IssueSendBundle, Relock, ReturnToCaller, CheckEndpointTxQueue, FlushPacket, FlushDone,
           creditVars
    <3> QED BY <1>3, <3>1, <3>2
  <2> QED BY <2>1, <2>2, <2>3
<1>5. ASSUME NEW t \in Senders, SenderCall(t) PROVE BalanceInv'
  <2>1. UNCHANGED Books
    BY <1>5, SenderCallLedger
  <2>2. CASE SendPktsMultiple(t) \/ \E s \in UsedServices, how \in FlushModes : FlushEndpointTX(t, s, how)
    BY <1>3, <2>1, <2>2 DEF SendPktsMultiple, FlushEndpointTX, creditVars
  <2>3. ASSUME NEW s \in Streams, NEW on \in BOOLEAN, HTCIndicateActivityChange(t, s, on) PROVE BalanceInv'
    <3> DEFINE act == [active EXCEPT ![s] = on]
    <3>1. cs' = RedistributeCredits(cs, act, Idle(act, depth')) /\ active' = ForceActive(act)
      BY <2>3 DEF HTCIndicateActivityChange
    <3>2. Balanced(cs', Out)
      BY <1>1, <3>1, RedistributeBalanced DEF BalanceInv
    <3>3. AlwaysActive'
      <4>1. s # "CONTROL" /\ active \in [Services -> BOOLEAN]
        BY <1>1, SendAssumption DEF TypeOK
      <4> QED BY <3>1, <4>1 DEF ForceActive, AlwaysActive, BalanceInv, Services, LowPriority
    <3> QED BY <1>2, <2>1, <3>2, <3>3 DEF BalanceInv
  <2> QED BY <1>5, <2>2, <2>3 DEF SenderCall
<1>6. ASSUME NEW status, TransferDone(status) PROVE BalanceInv'
  BY <1>3, <1>6 DEF TransferDone, creditVars, Books, ChargedPackets, Charged
<1>7. ASSUME UNCHANGED vars PROVE BalanceInv'
  BY <1>3, <1>7 DEF vars, creditVars, Books, ChargedPackets, Charged
<1> QED BY <1>4, <1>5, <1>6, <1>7, HTCProcessCreditRptBalance, CompleteSentPacketBalance
        DEF Next, HifStep

-----------------------------------------------------------------------------
(***************************************************************************)
(* A queue with packets in it is attended: a thread drains it, is on its   *)
(* way to, or has yet to visit it, or credits are out whose return makes   *)
(* HTC visit every queue.                                                  *)
(***************************************************************************)
Trying(t) == pc[t] \in {"enter", "drain", "issue"}

Attends(t, s) == (ep[t] = s /\ Trying(t)) \/ s \in toCheck[t]

Outstanding == ChargedPackets # {} \/ \E s \in Services : atTarget[s] > 0

Attended ==
    \A s \in Services : txQueue[s] # <<>> => Outstanding \/ \E t \in Threads : Attends(t, s)

\* A thread that has endpoints to visit goes on to visit them.
Visiting == \A t \in Threads : toCheck[t] # {} => pc[t] = "check" \/ Trying(t)

AttendInv == Attended /\ Visiting /\ hifStatus # "failed"

\* A thread that stays with what it attends, and fills no queue.
LEMMA StaysAttended ==
    ASSUME TypeOK, Attended, Visiting, UNCHANGED <<ChargedPackets, atTarget>>,
           NEW t \in Threads, toCheck' = toCheck,
           \A u \in Threads \ {t} : pc'[u] = pc[u] /\ ep'[u] = ep[u],
           Trying(t) => Trying(t)' /\ ep'[t] = ep[t],
           toCheck[t] # {} => pc'[t] = "check" \/ Trying(t)',
           \A s \in Services : txQueue'[s] # <<>> => txQueue[s] # <<>>
    PROVE  Attended' /\ Visiting'
<1>1. Outstanding' <=> Outstanding
  BY DEF Outstanding
<1>2. ASSUME NEW u \in Threads PROVE /\ Trying(u) => Trying(u)' /\ ep'[u] = ep[u]
                                     /\ u # t => (Trying(u)' <=> Trying(u)) /\ pc'[u] = pc[u]
  BY DEF Trying
<1>3. ASSUME NEW u \in Threads, NEW s \in Services, Attends(u, s) PROVE Attends(u, s)'
  BY <1>2, <1>3 DEF Attends
<1>4. Attended'
  <2> SUFFICES ASSUME NEW s \in Services, txQueue'[s] # <<>>
               PROVE  Outstanding' \/ \E u \in Threads : Attends(u, s)'
    BY DEF Attended
  <2> QED BY <1>1, <1>3 DEF Attended
<1>5. Visiting'
  BY <1>2 DEF Visiting
<1> QED BY <1>4, <1>5

\* Only endpoint e needs a look of its own.
LEMMA AttendedButOne ==
    ASSUME Attended, Outstanding' <=> Outstanding, NEW e,
           \A s \in Services \ {e} : txQueue'[s] # <<>> => txQueue[s] # <<>>,
           \A u \in Threads, s \in Services \ {e} : Attends(u, s) => Attends(u, s)',
           txQueue'[e] # <<>> => Outstanding \/ \E u \in Threads : Attends(u, e)'
    PROVE  Attended'
<1> SUFFICES ASSUME NEW s \in Services, txQueue'[s] # <<>>
             PROVE  Outstanding' \/ \E u \in Threads : Attends(u, s)'
  BY DEF Attended
<1>1. CASE s = e
  BY <1>1
<1>2. CASE s # e
  BY <1>2 DEF Attended
<1> QED BY <1>1, <1>2

\* With all credits at the host, the head of every queue is paid for.
LEMMA UncoveredIsOutstanding ==
    ASSUME AmpleGrant, CostsFit, PlaceInv, CreditConservation, BalanceInv,
           NEW s \in Services, txQueue[s] # <<>>, ~HeadCovered(s)
    PROVE  Outstanding
<1> SUFFICES ASSUME ~Outstanding PROVE FALSE
  OBVIOUS
<1> DEFINE n == Cost[Head(txQueue[s])]
<1>1. TypeOK /\ cs \in CreditStates /\ atTarget \in [Services -> Nat]
      /\ Head(txQueue[s]) \in Packets
  BY SMTT(30) DEF PlaceInv, TypeInv, TypeOK
<1>2. n \in Nat /\ n <= PerMaxMsg
  BY <1>1, SendAssumption DEF CostsFit
<1>3. ChargedPackets = {} /\ \A v \in Services : atTarget[v] = 0
  BY <1>1 DEF Outstanding
<1>4. CreditsOf({}) = {} /\ Cardinality({}) = 0
  BY FS_EmptySet DEF CreditsOf
<1>5. Out = [v \in Services |-> 0]
  <2>1. \A v \in Services : {p \in ChargedPackets : EpOf[p] = v} = {}
    BY <1>3
  <2>2. ASSUME NEW v \in Services
        PROVE  Cardinality(CreditsOf({p \in ChargedPackets : EpOf[p] = v})) + atTarget[v] = 0
    <3> DEFINE D == {p \in ChargedPackets : EpOf[p] = v}
    <3>1. D = {}
      BY <2>1
    <3> HIDE DEF D
    <3>2. CreditsOf(D) = {}
      BY <1>4, <3>1
    <3>3. Cardinality(CreditsOf(D)) = 0 /\ atTarget[v] = 0
      BY <1>3, <1>4, <3>2
    <3> HIDE DEF D
    <3>4. Cardinality(CreditsOf(D)) + atTarget[v] = 0
      BY <3>3
    <3> QED BY <3>4 DEF D
  <2> QED BY <2>2 DEF Out, OutOf
<1>6. HeldCredits(cs) = TotalCredits
  <2>1. Cardinality(InFlight) = 0
    BY <1>3, <1>4, InFlightType
  <2>2. TargetCredits = 0
    BY <1>3 DEF TargetCredits, Total, Services
  <2>3. HeldCredits(cs) \in Nat
    BY <1>1, CreditTermsType
  <2> QED BY <2>1, <2>2, <2>3 DEF CreditConservation
<1> HIDE DEF n
<1>7. CASE cs.credits[s] < n
  <2>1. SeekCredits(cs, s, n - cs.credits[s]).credits[s] = n
    BY <1>1, <1>2, <1>5, <1>6, <1>7, AllHomeCovers DEF BalanceInv
  <2>2. SoughtForHead(s) = SeekCredits(cs, s, n - cs.credits[s])
    BY <1>7 DEF SoughtForHead, SeekUpTo, n
  <2> QED BY <1>2, <2>1, <2>2 DEF HeadCovered, n
<1>8. CASE ~(cs.credits[s] < n)
  <2>1. SoughtForHead(s) = cs
    BY <1>8 DEF SoughtForHead, SeekUpTo, n
  <2>2. cs.credits[s] \in Nat
    BY <1>1 DEF CreditStates
  <2> QED BY <1>2, <1>8, <2>1, <2>2 DEF HeadCovered, n
<1> QED BY <1>7, <1>8

\* HTCCheckEndpointTxQueues visits every endpoint that has packets.
LEMMA UsedServicesCover ==
    ASSUME PlaceInv, NEW s \in Services, txQueue[s] # <<>>
    PROVE  s \in UsedServices
<1>1. txQueue[s] \in Seq(Packets) /\ Head(txQueue[s]) \in Packets
  BY DEF PlaceInv, TypeInv, TypeOK
<1>2. Head(txQueue[s]) \in Queued(s)
  BY <1>1, ElemsNonEmpty DEF Queued
<1>3. EpOf[Head(txQueue[s])] = s
  BY <1>1, <1>2 DEF PlaceInv, Placed
<1> QED BY <1>1, <1>3, SendAssumption

\* A thread that begins to visit the endpoints attends all of them.
LEMMA BeginsVisit ==
    ASSUME PlaceInv, Visiting, NEW t \in Threads, txQueue' = txQueue,
           toCheck' = [toCheck EXCEPT ![t] = UsedServices],
           pc' = [pc EXCEPT ![t] = "check"]
    PROVE  Attended' /\ Visiting'
<1>1. toCheck \in [Threads -> SUBSET Services] /\ pc \in [Threads -> Locations]
  BY DEF PlaceInv, TypeInv, TypeOK
<1>2. Attended'
  BY <1>1, UsedServicesCover DEF Attended, Attends
<1>3. Visiting'
  BY <1>1 DEF Visiting, Trying
<1> QED BY <1>2, <1>3

LEMMA EnterTrySendAttended ==
    ASSUME TypeOK, OneDrainer, Attended, Visiting, UNCHANGED <<ChargedPackets, atTarget>>,
           NEW t \in Threads, EnterTrySend(t)
    PROVE  Attended' /\ Visiting'
<1>0. PICK e \in Services : e = ep[t]
  BY DEF TypeOK
<1>1. txQueue \in [Services -> Seq(Packets)] /\ pc \in [Threads -> Locations]
      /\ txProcessCount[e] \in 0..1 /\ pc[t] = "enter"
  BY DEF TypeOK, EnterTrySend
<1>2. /\ ep' = ep /\ toCheck' = toCheck
      /\ \A u \in Threads \ {t} : pc'[u] = pc[u]
      /\ \A s \in Services \ {e} : txQueue'[s] = txQueue[s]
  BY <1>0, <1>1 DEF EnterTrySend
<1>3. pc'[t] = IF BeingDrained(e) THEN AfterTrySend(t) ELSE "drain"
  BY <1>0, <1>1 DEF EnterTrySend
<1>4. Outstanding' <=> Outstanding
  BY DEF Outstanding
<1>5. \E u \in Threads : Attends(u, e)'
  <2>1. CASE BeingDrained(e)
    <3>1. PICK u \in Threads : Draining(u, e)
      BY <1>1, <2>1 DEF BeingDrained, OneDrainer
    <3>2. u # t /\ ep[u] = e /\ pc[u] \in {"drain", "issue"}
      BY <1>1, <3>1 DEF Draining, InPass
    <3> QED BY <1>2, <3>2 DEF Attends, Trying
  <2>2. CASE ~BeingDrained(e)
    BY <1>0, <1>2, <1>3, <2>2 DEF Attends, Trying
  <2> QED BY <2>1, <2>2
<1>6. ASSUME NEW u \in Threads, NEW s \in Services \ {e}, Attends(u, s) PROVE Attends(u, s)'
  BY <1>0, <1>2, <1>6 DEF Attends, Trying
<1>7. Attended'
  BY <1>1, <1>2, <1>4, <1>5, <1>6, AttendedButOne
<1>8. Visiting'
  BY <1>2, <1>3 DEF Visiting, Trying, AfterTrySend
<1> QED BY <1>7, <1>8

LEMMA EndOfPassAttended ==
    ASSUME AmpleGrant, CostsFit, PlaceInv, CreditConservation, BalanceInv, Attended, Visiting,
           UNCHANGED <<ChargedPackets, atTarget>>, NEW t \in Threads, EndOfPass(t)
    PROVE  Attended' /\ Visiting'
<1> DEFINE e == ep[t]
<1>1. e \in Services /\ pc \in [Threads -> Locations] /\ ~HeadCovered(e)
  BY DEF PlaceInv, TypeInv, TypeOK, EndOfPass
<1>2. /\ ep' = ep /\ toCheck' = toCheck /\ txQueue' = txQueue
      /\ \A u \in Threads \ {t} : pc'[u] = pc[u]
      /\ (pc'[t] = "issue" \/ pc'[t] = AfterTrySend(t))
  BY <1>1 DEF EndOfPass
<1>3. Outstanding' <=> Outstanding
  BY DEF Outstanding
<1>4. txQueue[e] # <<>> => Outstanding
  BY <1>1, UncoveredIsOutstanding
<1>5. ASSUME NEW u \in Threads, NEW s \in Services \ {e}, Attends(u, s) PROVE Attends(u, s)'
  BY <1>2, <1>5 DEF Attends, Trying
<1>6. Attended'
  BY <1>1, <1>2, <1>3, <1>4, <1>5, AttendedButOne
<1>7. Visiting'
  <2>1. toCheck'[t] # {} => pc'[t] = "check" \/ Trying(t)'
    BY <1>2 DEF Trying, AfterTrySend
  <2> QED BY <1>2, <2>1 DEF Visiting, Trying
<1> QED BY <1>6, <1>7

LEMMA CheckEndpointTxQueueAttended ==
    ASSUME TypeOK, Attended, Visiting, UNCHANGED <<ChargedPackets, atTarget>>,
           NEW t \in Threads, CheckEndpointTxQueue(t)
    PROVE  Attended' /\ Visiting'
<1>1. PICK e \in toCheck[t] :
        /\ toCheck' = [toCheck EXCEPT ![t] = @ \ {e}]
        /\ \/ /\ txQueue[e] # <<>>
              /\ ep' = [ep EXCEPT ![t] = e] /\ pc' = [pc EXCEPT ![t] = "enter"]
           \/ /\ txQueue[e] = <<>> /\ ep' = ep
              /\ pc' = [pc EXCEPT ![t] = IF toCheck[t] = {e} THEN "idle" ELSE "check"]
  BY DEF CheckEndpointTxQueue
<1>2. txQueue' = txQueue /\ pc[t] = "check" /\ pc \in [Threads -> Locations]
      /\ ep \in [Threads -> Services] /\ toCheck \in [Threads -> SUBSET Services]
  BY DEF CheckEndpointTxQueue, queueVars, TypeOK
<1>3. /\ toCheck'[t] = toCheck[t] \ {e}
      /\ \A u \in Threads \ {t} : pc'[u] = pc[u] /\ ep'[u] = ep[u] /\ toCheck'[u] = toCheck[u]
  BY <1>1, <1>2
<1>4. Outstanding' <=> Outstanding
  BY DEF Outstanding
<1>5. ASSUME NEW u \in Threads, NEW s \in Services \ {e}, Attends(u, s) PROVE Attends(u, s)'
  BY <1>2, <1>3, <1>5 DEF Attends, Trying
<1>6. txQueue'[e] # <<>> => \E u \in Threads : Attends(u, e)'
  BY <1>1, <1>2 DEF Attends, Trying
<1>7. Attended'
  BY <1>1, <1>2, <1>4, <1>5, <1>6, AttendedButOne
<1>8. Visiting'
  <2>1. toCheck'[t] # {} => pc'[t] = "check" \/ Trying(t)'
    BY <1>1, <1>2, <1>3 DEF Trying
  <2> QED BY <1>3, <2>1 DEF Visiting, Trying
<1> QED BY <1>7, <1>8

LEMMA CompleteSentPacketOutstanding ==
    ASSUME PlaceInv, CompleteSentPacket, hifStatus # "failed"
    PROVE  Outstanding' /\ hifStatus' # "failed" /\ UNCHANGED <<queueVars, threadVars>>
<1> DEFINE p == Head(hif).pkt
<1>1. TypeOK /\ p \in Packets
  BY CompleteSentPacketCredits DEF PlaceInv, TypeInv
<1>2. EpOf[p] \in Services /\ Cost[p] \in Nat /\ Cost[p] > 0
  BY <1>1, SendAssumption
<1>3. atTarget' = [atTarget EXCEPT ![EpOf[p]] = @ + Cost[p]]
      /\ hifStatus' \in {hifStatus, "pending"}
      /\ UNCHANGED <<queueVars, threadVars>>
  BY DEF CompleteSentPacket
<1> HIDE DEF p
<1>4. atTarget'[EpOf[p]] > 0
  BY <1>1, <1>2, <1>3 DEF TypeOK
<1> QED BY <1>2, <1>3, <1>4 DEF Outstanding

LEMMA ThreadStepAttended ==
    ASSUME AmpleGrant, CostsFit, PlaceInv, OneDrainer, CreditConservation, BalanceInv,
           AttendInv, NEW t \in Threads, ThreadStep(t)
    PROVE  AttendInv'
<1> USE DEF AttendInv
<1>1. TypeOK /\ Control
  BY DEF PlaceInv, TypeInv
<1>2. CASE GetHTCSendPacket(t)
  <2>1. ep[t] \in Services /\ Head(txQueue[ep[t]]) \in Packets
    BY <1>1, <1>2 DEF GetHTCSendPacket, HeadCovered, TypeOK
  <2>2. where'[Head(txQueue[ep[t]])] = "local"
    BY <1>2, <2>1 DEF GetHTCSendPacket, Move
  <2>3. Outstanding'
    BY <2>1, <2>2 DEF Outstanding, ChargedPackets, Charged
  <2>4. pc' = pc /\ toCheck' = toCheck /\ hifStatus' = hifStatus
    BY <1>2 DEF GetHTCSendPacket, hifVars
  <2> QED BY <2>3, <2>4 DEF Attended, Visiting, Trying
<1>3. CASE ~GetHTCSendPacket(t)
  <2>1. UNCHANGED <<ChargedPackets, atTarget>>
    BY <1>3, ThreadStepLedger DEF Books
  <2>2. hifStatus' = hifStatus
    BY <1>3 DEF ThreadStep, MeasureOverflow, OfferOverflow, EnterTrySend, EndOfPass, IssueSend,
         IssueSendBundle, Relock, ReturnToCaller, CheckEndpointTxQueue, FlushPacket, FlushDone,
         hifVars
  <2>3. CASE EnterTrySend(t)
    BY <1>1, <2>1, <2>2, <2>3, EnterTrySendAttended
  <2>4. CASE EndOfPass(t)
    BY <2>1, <2>2, <2>4, EndOfPassAttended
  <2>5. CASE CheckEndpointTxQueue(t)
    BY <1>1, <2>1, <2>2, <2>5, CheckEndpointTxQueueAttended
  <2>6. CASE \/ MeasureOverflow(t) \/ OfferOverflow(t) \/ IssueSend(t) \/ IssueSendBundle(t)
             \/ Relock(t) \/ ReturnToCaller(t) \/ FlushPacket(t) \/ FlushDone(t)
    <3>1. toCheck' = toCheck /\ \A u \in Threads \ {t} : pc'[u] = pc[u] /\ ep'[u] = ep[u]
      BY <1>1, <2>6 DEF MeasureOverflow, OfferOverflow, IssueSend, IssueSendBundle, Relock,
           ReturnToCaller, FlushPacket, FlushDone, TypeOK
    <3>2. Trying(t) => Trying(t)' /\ ep'[t] = ep[t]
      BY <1>1, <2>6 DEF MeasureOverflow, OfferOverflow, IssueSend, IssueSendBundle, Relock,
           ReturnToCaller, FlushPacket, FlushDone, FlushLocations, TypeOK, Trying
    <3>3. toCheck[t] # {} => pc'[t] = "check" \/ Trying(t)'
      <4>1. pc[t] # "check"
        BY <2>6 DEF MeasureOverflow, OfferOverflow, IssueSend, IssueSendBundle, Relock,
             ReturnToCaller, FlushPacket, FlushDone, FlushLocations
      <4> QED BY <3>2, <4>1 DEF Visiting
    <3>4. \A s \in Services : txQueue'[s] # <<>> => txQueue[s] # <<>>
      <4>1. CASE FlushPacket(t)
        <5>1. PICK i \in ToFlush(t) : txQueue' = [txQueue EXCEPT ![ep[t]] = RemoveAt(@, i)]
          BY <4>1 DEF FlushPacket
        <5>2. txQueue[ep[t]] # <<>>
          BY <5>1 DEF ToFlush
        <5> QED BY <1>1, <5>1, <5>2 DEF TypeOK
      <4>2. CASE ~FlushPacket(t)
        <5>1. txQueue' = txQueue
          BY <2>6, <4>2 DEF MeasureOverflow, OfferOverflow, IssueSend, IssueSendBundle, Relock,
               ReturnToCaller, FlushDone, queueVars
        <5> QED BY <5>1
      <4> QED BY <4>1, <4>2
    <3> QED BY <1>1, <2>1, <2>2, <3>1, <3>2, <3>3, <3>4, StaysAttended
  <2> QED BY <1>3, <2>3, <2>4, <2>5, <2>6 DEF ThreadStep
<1> QED BY <1>2, <1>3

LEMMA SenderCallAttended ==
    ASSUME PlaceInv, AttendInv, NEW t \in Senders, SenderCall(t)
    PROVE  AttendInv'
<1> USE DEF AttendInv
<1>1. TypeOK /\ t \in Threads
  BY DEF PlaceInv, TypeInv, Threads
<1>2. UNCHANGED <<ChargedPackets, atTarget>>
  BY SenderCallLedger DEF Books
<1>3. pc[t] = "idle" /\ txQueue' = txQueue /\ hifStatus' = hifStatus
  BY DEF SenderCall, SendPktsMultiple, HTCIndicateActivityChange, FlushEndpointTX, queueVars, hifVars
<1>4. ASSUME toCheck' = toCheck, \A u \in Threads \ {t} : pc'[u] = pc[u] /\ ep'[u] = ep[u]
      PROVE  AttendInv'
  <2>1. ~Trying(t) /\ toCheck[t] = {}
    BY <1>1, <1>3 DEF Trying, Visiting
  <2> QED BY <1>1, <1>2, <1>3, <1>4, <2>1, StaysAttended
<1>5. CASE SendPktsMultiple(t)
  BY <1>1, <1>4, <1>5 DEF SendPktsMultiple, TypeOK
<1>6. ASSUME NEW s \in UsedServices, NEW how \in FlushModes, FlushEndpointTX(t, s, how)
      PROVE  AttendInv'
  BY <1>1, <1>4, <1>6 DEF FlushEndpointTX, TypeOK
<1>7. ASSUME NEW s \in Streams, NEW on \in BOOLEAN, HTCIndicateActivityChange(t, s, on)
      PROVE  AttendInv'
  <2>1. CASE on
    BY <1>1, <1>4, <1>7, <2>1 DEF HTCIndicateActivityChange
  <2>2. CASE ~on
    <3>1. toCheck' = [toCheck EXCEPT ![t] = UsedServices] /\ pc' = [pc EXCEPT ![t] = "check"]
      BY <1>7, <2>2 DEF HTCIndicateActivityChange
    <3> QED BY <1>1, <1>3, <3>1, BeginsVisit
  <2> QED BY <2>1, <2>2
<1> QED BY <1>5, <1>6, <1>7 DEF SenderCall

LEMMA NextAttended ==
    ASSUME AmpleGrant, CostsFit, ~HifMayFail, PlaceInv, OneDrainer, CreditConservation,
           BalanceInv, AttendInv, [Next]_vars
    PROVE  AttendInv'
<1>1. ASSUME NEW rpt \in Reports, HTCProcessCreditRpt(rpt) PROVE AttendInv'
  <2>1. Rx \in Threads /\ txQueue' = txQueue /\ hifStatus' = hifStatus
        /\ toCheck' = [toCheck EXCEPT ![Rx] = UsedServices] /\ pc' = [pc EXCEPT ![Rx] = "check"]
    BY <1>1 DEF HTCProcessCreditRpt, Threads, queueVars, hifVars
  <2> QED BY <2>1, BeginsVisit DEF AttendInv
<1>2. ASSUME NEW status \in {"ok", "failed"}, TransferDone(status) PROVE AttendInv'
  <2>1. ChargedPackets' = ChargedPackets /\ UNCHANGED <<atTarget, txQueue, pc, ep, toCheck>>
        /\ hifStatus' # "failed"
    BY <1>2 DEF TransferDone, creditVars, queueVars, threadVars, ChargedPackets, Charged
  <2> QED BY <2>1 DEF AttendInv, Attended, Attends, Visiting, Trying, Outstanding
<1>3. CASE CompleteSentPacket
  <2>1. Outstanding' /\ hifStatus' # "failed" /\ UNCHANGED <<queueVars, threadVars>>
    BY <1>3, CompleteSentPacketOutstanding DEF AttendInv
  <2> QED BY <2>1 DEF AttendInv, Attended, Visiting, Trying, threadVars
<1>4. CASE UNCHANGED vars
  BY <1>4 DEF vars, creditVars, queueVars, hifVars, threadVars, AttendInv, Attended, Attends,
       Visiting, Trying, Outstanding, ChargedPackets, Charged
<1> QED BY <1>1, <1>2, <1>3, <1>4, ThreadStepAttended, SenderCallAttended DEF Next, HifStep

\* No credit in all is none for any service.
LEMMA TotalZero ==
    ASSUME NEW f \in [Services -> Nat], Total(f) = 0
    PROVE  \A s \in Services : f[s] = 0
<1> DEFINE a == f["CONTROL"] b == f["VO"] c == f["VI"] d == f["BE"] g == f["BK"]
<1>1. a \in Nat /\ b \in Nat /\ c \in Nat /\ d \in Nat /\ g \in Nat
  BY DEF Services
<1>2. a + b + c + d + g = 0
  BY DEF Total
<1> HIDE DEF a, b, c, d, g
<1>3. a = 0 /\ b = 0 /\ c = 0 /\ d = 0 /\ g = 0
  BY <1>1, <1>2
<1> QED BY <1>3 DEF Services, a, b, c, d, g

\* A quiescent host that refused no packet has no credits out and no thread
\* on its way to a queue.
LEMMA AttendedIsNotStalled ==
    ASSUME PlaceInv, AttendInv, NoneRefused, Quiescent, NEW s \in Services
    PROVE  txQueue[s] = <<>>
<1>1. TypeOK /\ Placed
  BY DEF PlaceInv, TypeInv
<1>2. ~Outstanding
  <2>1. ASSUME NEW p \in Packets, Charged(p) PROVE FALSE
    <3>1. where[p] \in {"local", "hif"}
      BY <2>1 DEF Charged, NoneRefused
    <3>2. \A t \in Threads : p \notin Local(t)
      BY DEF Quiescent, Local, InPass
    <3>3. p \notin InHif
      BY DEF Quiescent, InHif, HifPackets, PacketsOf, Elems
    <3> QED BY <1>1, <3>1, <3>2, <3>3 DEF Placed
  <2>2. \A v \in Services : atTarget[v] = 0
    BY <1>1, TotalZero DEF TypeOK, Quiescent, TargetCredits
  <2> QED BY <2>1, <2>2 DEF Outstanding, ChargedPackets
<1>3. \A t \in Threads : ~Attends(t, s)
  BY DEF Attends, Trying, Quiescent, AttendInv, Visiting
<1> QED BY <1>2, <1>3 DEF AttendInv, Attended

LEMMA InitAttended == Init => AttendInv
BY DEF Init, AttendInv, Attended, Visiting

\* When the target's grant is ample, no message costs more than the largest,
\* transfers succeed and HIF refuses no packet, no queue stalls: the visits
\* that HTCTrySend and HTCCheckEndpointTxQueues make are enough, and whatever
\* the policy has left a service with covers its next packet by then.
THEOREM NoStalledQueueCorrect ==
    ASSUME AmpleGrant, CostsFit, ~HifMayFail
    PROVE  Spec => [](NoneRefused => NoStalledQueue)
<1> DEFINE Inv == PlaceInv /\ OneDrainer /\ CreditConservation /\ BalanceInv /\ AttendInv
<1>1. Init => Inv
  BY InitPlaceInv, InitOneDrainer, InitCreditConservation, InitBalance, InitAttended
<1>2. Inv /\ [Next]_vars => Inv'
  <2> SUFFICES ASSUME Inv, [Next]_vars PROVE Inv'
    OBVIOUS
  <2>1. PlaceInv' /\ OneDrainer' /\ CreditConservation'
    BY NextPlaceInv, NextOneDrainer, NextCreditConservation DEF DrainInv, PlaceInv
  <2> QED BY <2>1, NextBalance, NextAttended
<1>3. Inv => (NoneRefused => NoStalledQueue)
  BY AttendedIsNotStalled DEF NoStalledQueue
<1> QED BY <1>1, <1>2, <1>3, PTL DEF Spec
=============================================================================
