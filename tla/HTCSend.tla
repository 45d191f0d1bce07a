------------------------------ MODULE HTCSend ------------------------------
(***************************************************************************)
(* The transmit path of the Host-Target Communication layer                *)
(* (htc2/htc_send.c) with the credit policy it calls (CreditDist).         *)
(*                                                                         *)
(* A packet is queued on its endpoint, charged against the endpoint's      *)
(* credits and moved to the local queue of the one thread that drains the  *)
(* endpoint, handed to the host interface (HIF) and completed when the bus *)
(* transfer ends.  The target gives credits back in credit reports.        *)
(*                                                                         *)
(* Threads run concurrently: senders call HTCSendPktsMultiple,             *)
(* HTCIndicateActivityChange and HTCFlushEndpoint, the receive thread      *)
(* calls HTCProcessCreditRpt, and the HIF thread completes transfers.  An  *)
(* action is what a thread does between two points where others can run:   *)
(* a region under the TX lock, an iteration of a loop under the lock, or   *)
(* a step without the lock.  There is one endpoint per service.            *)
(***************************************************************************)
EXTENDS CreditDist, Queues, FiniteSets

CONSTANTS Senders,          \* threads that use the HTC send API
          Rx,               \* the thread that handles credit reports
          NoThread,         \* value of the free TX lock
          Packets,          \* HTC_PACKET objects of the layer above
          ReusePackets,     \* TRUE if a completed packet may be sent again
          UsedServices,     \* services with traffic; HTC skips the others' queues
          Streams,          \* services whose activity changes
          FlushModes,       \* kinds of flush the layer above asks for
          EpOf,             \* packet -> service whose endpoint it goes to
          Cost,             \* packet -> credits its padded length needs
          DataPackets,      \* packets tagged as data, which a tagged flush takes
          MaxTxQueueDepth,  \* MaxSendQueueDepth of the service connection
          FullActions,      \* answers EpSendFull may give: "KEEP", "DROP"
          MaxMsgPerBundle,  \* messages in a bundle, 1 when bundling is off
          BusRequests,      \* free bus requests HIFReadWrite can take
          HifMayFail,       \* TRUE if a bus transfer may fail
          SeqModulus,       \* A_UINT8 SeqNo counts modulo 256 in the code
          MaxBatch          \* bound on the packets of one send call

ASSUME SendAssumption ==
    /\ Rx \notin Senders /\ NoThread \notin Senders \cup {Rx}
    /\ IsFiniteSet(Packets)
    /\ ReusePackets \in BOOLEAN
    /\ UsedServices \subseteq Services /\ UsedServices # {}
    /\ EpOf \in [Packets -> UsedServices]
    /\ Streams \subseteq UsedServices \ {"CONTROL"}
    /\ FlushModes \subseteq {"flushAll", "flushData"}
    /\ Cost \in [Packets -> Nat \ {0}]
    /\ DataPackets \subseteq Packets
    /\ FullActions \subseteq {"KEEP", "DROP"} /\ FullActions # {}
    /\ MaxTxQueueDepth \in Nat
    /\ MaxMsgPerBundle \in Nat \ {0}
    /\ BusRequests \in Nat
    /\ HifMayFail \in BOOLEAN
    /\ SeqModulus \in Nat \ {0}
    /\ MaxBatch \in Nat \ {0}

Threads == Senders \cup {Rx}

VARIABLES
    cs,             \* credit state of the policy
    active,         \* service -> HTC_EP_ACTIVE
    depth,          \* service -> TxQueueDepth as last told to the policy
    atTarget,       \* service -> credits the target holds
    txQueue,        \* service -> packets waiting for credits
    txProcessCount, \* service -> threads draining the endpoint
    seqNo,          \* service -> next HTC sequence number
    pktSeq,         \* packet -> AsTx.SeqNo
    where,          \* packet -> who owns it
    hif,            \* packets submitted to HIF, oldest first
    hifStatus,      \* transfer at the head: "pending", or its outcome
    txLock,         \* holder of the HTC TX lock
    pc,             \* thread -> where it is
    ep,             \* thread -> endpoint it works on
    sendQueue,      \* thread -> its local send queue
    overflow,       \* thread -> packets still to be offered to EpSendFull
    refused,        \* thread -> packets it has to complete with an error
    toCheck         \* thread -> endpoints HTCCheckEndpointTxQueues has to visit

creditVars == <<cs, active, depth, atTarget>>
queueVars  == <<txQueue, txProcessCount, seqNo, pktSeq>>
hifVars    == <<hif, hifStatus>>
threadVars == <<pc, ep, sendQueue, overflow, refused, toCheck>>
vars == <<creditVars, queueVars, where, hifVars, txLock, threadVars>>

\* "app": with the layer above, to be sent; "completed": back with it;
\* "caller": held by a thread, to be queued or to be completed with an error;
\* "queued": in a TX queue; "local": charged, in a local send queue; "hif":
\* submitted; "done": completed, its bundle not yet; "lost": HIFReadWrite
\* failed at once and its status was ignored.
Owners == {"app", "completed", "caller", "queued", "local", "hif", "done", "lost"}

\* A packet sent alone uses a bus request; the packets of a bundle share one
\* scatter request and are marked "more" up to the "end".
Submissions == [pkt : Packets, kind : {"single", "more", "end"}]

Locations == {"idle", "measure", "offer", "enter", "drain", "issue", "check",
              "flushAll", "flushData", "return"}

Init ==
    /\ cs = InitCredits
    /\ active = [s \in Services |-> s \in InitiallyGiven]
    /\ depth = [s \in Services |-> 0]
    /\ atTarget = [s \in Services |-> 0]
    /\ txQueue = [s \in Services |-> <<>>]
    /\ txProcessCount = [s \in Services |-> 0]
    /\ seqNo = [s \in Services |-> 0]
    /\ pktSeq = [p \in Packets |-> 0]
    /\ where = [p \in Packets |-> "app"]
    /\ hif = <<>>
    /\ hifStatus = "pending"
    /\ txLock = NoThread
    /\ pc = [t \in Threads |-> "idle"]
    /\ ep = [t \in Threads |-> "CONTROL"]
    /\ sendQueue = [t \in Threads |-> <<>>]
    /\ overflow = [t \in Threads |-> <<>>]
    /\ refused = [t \in Threads |-> {}]
    /\ toCheck = [t \in Threads |-> {}]

Completed == IF ReusePackets THEN "app" ELSE "completed"

Move(ps, owner) == [p \in Packets |-> IF p \in ps THEN owner ELSE where[p]]

\* After HTCTrySend: on with HTCCheckEndpointTxQueues, or back to the caller.
AfterTrySend(t) ==
    IF toCheck[t] # {} THEN "check" ELSE IF refused[t] # {} THEN "return" ELSE "idle"

-----------------------------------------------------------------------------
(***************************************************************************)
(* HTCSendPktsMultiple and the head of HTCTrySend: decide, before the lock *)
(* is taken, which packets the queue still has room for.                   *)
(***************************************************************************)
Batches ==
    {q \in UNION {[1..n -> Packets] : n \in 1..MaxBatch} :
        /\ \A i \in DOMAIN q : where[q[i]] = "app" /\ EpOf[q[i]] = EpOf[q[1]]
        /\ Distinct(q)}

\* The first look at the depth: offer the whole batch if the queue is full.
SendPktsMultiple(t) ==
    /\ pc[t] = "idle" /\ t \in Senders
    /\ \E q \in Batches :
         LET s == EpOf[q[1]]
         IN  /\ ep' = [ep EXCEPT ![t] = s]
             /\ overflow' = [overflow EXCEPT ![t] = q]
             /\ where' = Move(Elems(q), "caller")
             /\ pc' = [pc EXCEPT ![t] =
                          IF Len(txQueue[s]) >= MaxTxQueueDepth THEN "offer" ELSE "measure"]
    /\ UNCHANGED <<creditVars, queueVars, hifVars, txLock, sendQueue, refused, toCheck>>

\* Packets of a batch of n that fit on top of queue s.
Room(s, n) ==
    LET free == MaxTxQueueDepth - Len(txQueue[s])
    IN  IF free <= 0 THEN 0 ELSE IF free < n THEN free ELSE n

\* HTC_SEND_QUEUE_DROP, without taking the lock, if no packet got in.
AfterOffers(toOffer, accepted) ==
    IF toOffer # <<>> THEN "offer" ELSE IF accepted = <<>> THEN "return" ELSE "enter"

\* The second look at the depth, still without the lock: accept what fits.
MeasureOverflow(t) ==
    LET q == overflow[t]
        n == Room(ep[t], Len(q))
    IN  /\ pc[t] = "measure"
        /\ sendQueue' = [sendQueue EXCEPT ![t] = Front(q, n)]
        /\ overflow' = [overflow EXCEPT ![t] = Rest(q, n)]
        /\ pc' = [pc EXCEPT ![t] = AfterOffers(Rest(q, n), Front(q, n))]
        /\ UNCHANGED <<creditVars, queueVars, where, hifVars, txLock, ep, refused,
                       toCheck>>

\* EpSendFull decides on each overflowing packet.
OfferOverflow(t) ==
    LET p == Head(overflow[t])
    IN  /\ pc[t] = "offer"
        /\ overflow' = [overflow EXCEPT ![t] = Tail(@)]
        /\ \/ /\ "KEEP" \in FullActions
              /\ sendQueue' = [sendQueue EXCEPT ![t] = Append(@, p)]
              /\ UNCHANGED refused
           \/ /\ "DROP" \in FullActions
              /\ refused' = [refused EXCEPT ![t] = @ \cup {p}]
              /\ UNCHANGED sendQueue
        /\ pc' = [pc EXCEPT ![t] = AfterOffers(overflow'[t], sendQueue'[t])]
        /\ UNCHANGED <<creditVars, queueVars, where, hifVars, txLock, ep, toCheck>>

(***************************************************************************)
(* HTCTrySend under the lock: append the accepted packets, and go on to    *)
(* drain the endpoint unless another thread already does.                  *)
(***************************************************************************)
\* Mutant: the drainers of the endpoint are not counted.
NeverDrained(s) == FALSE

BeingDrained(s) == txProcessCount[s] > 0

EnterTrySend(t) ==
    /\ pc[t] = "enter" /\ txLock = NoThread
    /\ txQueue' = [txQueue EXCEPT ![ep[t]] = @ \o sendQueue[t]]
    /\ where' = Move(Elems(sendQueue[t]), "queued")
    /\ sendQueue' = [sendQueue EXCEPT ![t] = <<>>]
    /\ IF BeingDrained(ep[t])
       THEN /\ pc' = [pc EXCEPT ![t] = AfterTrySend(t)]
            /\ UNCHANGED <<txProcessCount, txLock>>
       ELSE /\ txProcessCount' = [txProcessCount EXCEPT ![ep[t]] = @ + 1]
            /\ txLock' = t
            /\ pc' = [pc EXCEPT ![t] = "drain"]
    /\ UNCHANGED <<creditVars, seqNo, pktSeq, hifVars, ep, overflow, refused,
                   toCheck>>

(***************************************************************************)
(* GetHTCSendPackets, one packet per step with the lock held.              *)
(***************************************************************************)
\* Ask the policy for what service s lacks of n credits.
SeekUpTo(c, s, n) ==
    IF c.credits[s] < n THEN SeekCredits(c, s, n - c.credits[s]) ELSE c

Spend(c, s, n) ==
    [free     |-> c.free,
     credits  |-> [c.credits EXCEPT ![s] = @ - n],
     assigned |-> c.assigned,
     toDist   |-> c.toDist]

\* The credit state after trying to cover the packet at the head of queue s.
SoughtForHead(s) == SeekUpTo(cs, s, Cost[Head(txQueue[s])])

HeadCovered(s) ==
    /\ txQueue[s] # <<>>
    /\ SoughtForHead(s).credits[s] >= Cost[Head(txQueue[s])]

GetHTCSendPacket(t) ==
    LET s == ep[t]
        p == Head(txQueue[s])
    IN  /\ pc[t] = "drain" /\ txLock = t
        /\ HeadCovered(s)
        /\ \E spent \in {Spend(SoughtForHead(s), s, Cost[p])} :
             cs' = SeekUpTo(spent, s, PerMaxMsg)
        /\ txQueue' = [txQueue EXCEPT ![s] = Tail(@)]
        /\ sendQueue' = [sendQueue EXCEPT ![t] = Append(@, p)]
        /\ where' = Move({p}, "local")
        /\ pktSeq' = [pktSeq EXCEPT ![p] = seqNo[s]]
        /\ seqNo' = [seqNo EXCEPT ![s] = (@ + 1) % SeqModulus]
        /\ UNCHANGED <<active, depth, atTarget, txProcessCount, hifVars, txLock, pc, ep,
                       overflow, refused, toCheck>>

\* Mutants: the endpoint is given up before its packets are sent, or never.
DrainersBeforeSending(t) == 0
DrainersNotReset(t) == txProcessCount[ep[t]]

\* Drainers of the endpoint after a pass: t stays if it has packets to send.
DrainersAfterPass(t) == IF sendQueue[t] # <<>> THEN txProcessCount[ep[t]] ELSE 0

\* The end of a pass: send what was collected, or stop draining.
EndOfPass(t) ==
    LET s == ep[t]
    IN  /\ pc[t] = "drain" /\ txLock = t
        /\ ~HeadCovered(s)
        /\ cs' = IF txQueue[s] = <<>> THEN cs ELSE SoughtForHead(s)
        /\ txLock' = NoThread
        /\ pc' = [pc EXCEPT ![t] = IF sendQueue[t] # <<>> THEN "issue" ELSE AfterTrySend(t)]
        /\ txProcessCount' = [txProcessCount EXCEPT ![s] = DrainersAfterPass(t)]
        /\ UNCHANGED <<active, depth, atTarget, txQueue, seqNo, pktSeq, where, hifVars, ep,
                       sendQueue, overflow, refused, toCheck>>

(***************************************************************************)
(* The inner loop of HTCTrySend, without the lock: hand the local queue to *)
(* HIF, in bundles or one by one.  HIFReadWrite fails at once when no bus  *)
(* request is free, and HTCTrySend ignores the status.  A bus request is   *)
(* freed when its transfer ends, before the completion routine runs.       *)
(***************************************************************************)
BusRequestsInUse ==
    Cardinality({i \in DOMAIN hif : /\ hif[i].kind = "single"
                                    /\ i = 1 => hifStatus = "pending"})

IssueSend(t) ==
    /\ pc[t] = "issue" /\ sendQueue[t] # <<>>
    /\ LET p == Head(sendQueue[t])
       IN  IF BusRequestsInUse < BusRequests
           THEN /\ hif' = Append(hif, [pkt |-> p, kind |-> "single"])
                /\ where' = Move({p}, "hif")
           ELSE /\ where' = Move({p}, "lost")
                /\ UNCHANGED hif
    /\ sendQueue' = [sendQueue EXCEPT ![t] = Tail(@)]
    /\ UNCHANGED <<creditVars, queueVars, hifStatus, txLock, pc, ep, overflow,
                   refused, toCheck>>

\* A scatter request owns its bus request, so a bundle is never refused.
\* How many packets fit depends on lengths and on free scatter requests.
Bundle(q) ==
    [i \in 1..Len(q) |-> [pkt  |-> q[i],
                          kind |-> IF i < Len(q) THEN "more" ELSE "end"]]

IssueSendBundle(t) ==
    LET q == sendQueue[t]
    IN  /\ pc[t] = "issue"
        /\ \E n \in 2..MaxMsgPerBundle :
             /\ n <= Len(q)
             /\ hif' = hif \o Bundle(Front(q, n))
             /\ where' = Move(Elems(Front(q, n)), "hif")
             /\ sendQueue' = [sendQueue EXCEPT ![t] = Rest(q, n)]
        /\ UNCHANGED <<creditVars, queueVars, hifStatus, txLock, pc, ep, overflow,
                       refused, toCheck>>

\* The local queue is empty: take the lock again for the next pass.
Relock(t) ==
    /\ pc[t] = "issue" /\ sendQueue[t] = <<>> /\ txLock = NoThread
    /\ txLock' = t
    /\ pc' = [pc EXCEPT ![t] = "drain"]
    /\ UNCHANGED <<creditVars, queueVars, where, hifVars, ep, sendQueue,
                   overflow, refused, toCheck>>

\* Refused and flushed packets go back to the layer above with an error.
ReturnToCaller(t) ==
    /\ pc[t] = "return"
    /\ where' = Move(refused[t], Completed)
    /\ refused' = [refused EXCEPT ![t] = {}]
    /\ pc' = [pc EXCEPT ![t] = "idle"]
    /\ UNCHANGED <<creditVars, queueVars, hifVars, txLock, ep, sendQueue,
                   overflow, toCheck>>

-----------------------------------------------------------------------------
(***************************************************************************)
(* HTCCheckEndpointTxQueues: visit the endpoints in priority order and     *)
(* call HTCTrySend for each whose queue, read without the lock, is not     *)
(* empty.                                                                  *)
(***************************************************************************)
CheckEndpointTxQueue(t) ==
    /\ pc[t] = "check"
    /\ \E s \in toCheck[t] :
         /\ \A u \in toCheck[t] : Rank[s] <= Rank[u]
         /\ toCheck' = [toCheck EXCEPT ![t] = @ \ {s}]
         /\ IF txQueue[s] # <<>>
            THEN /\ ep' = [ep EXCEPT ![t] = s]
                 /\ pc' = [pc EXCEPT ![t] = "enter"]
            ELSE /\ pc' = [pc EXCEPT ![t] = IF toCheck[t] = {s} THEN "idle" ELSE "check"]
                 /\ UNCHANGED ep
    /\ UNCHANGED <<creditVars, queueVars, where, hifVars, txLock, sendQueue,
                   overflow, refused>>

\* Credit reports: a service in the report gets back some of its credits.
Reports ==
    {rpt \in UNION {[S -> 1..TotalCredits] :
                       S \in SUBSET {s \in Services : atTarget[s] > 0} \ {{}}} :
        \A s \in DOMAIN rpt : rpt[s] <= atTarget[s]}

\* Mutant: a service in a report gets a whole message's worth of credits.
ReportedMessage(rpt, s) == IF s \in DOMAIN rpt THEN PerMaxMsg ELSE 0

Reported(rpt, s) == IF s \in DOMAIN rpt THEN rpt[s] ELSE 0

\* Services the policy takes for inactive with nothing waiting.
Idle(act, dep) == {s \in Services : ~act[s] /\ dep[s] = 0}

\* The credit state with the credits of a report to distribute.
Owe(rpt) ==
    [free     |-> cs.free,
     credits  |-> cs.credits,
     assigned |-> cs.assigned,
     toDist   |-> [s \in Services |-> cs.toDist[s] + Reported(rpt, s)]]

HTCProcessCreditRpt(rpt) ==
    /\ pc[Rx] = "idle" /\ txLock = NoThread
    /\ atTarget' = [s \in Services |-> atTarget[s] - Reported(rpt, s)]
    /\ depth' = [s \in Services |->
                   IF s \in DOMAIN rpt THEN Len(txQueue[s]) ELSE depth[s]]
    /\ cs' = SendComplete(Owe(rpt), Idle(active, depth'))
    /\ UNCHANGED active
    /\ toCheck' = [toCheck EXCEPT ![Rx] = UsedServices]
    /\ pc' = [pc EXCEPT ![Rx] = "check"]
    /\ UNCHANGED <<queueVars, where, hifVars, txLock, ep, sendQueue, overflow,
                   refused>>

HTCIndicateActivityChange(t, s, on) ==
    /\ pc[t] = "idle" /\ t \in Senders /\ txLock = NoThread
    /\ active[s] # on
    /\ depth' = [depth EXCEPT ![s] = Len(txQueue[s])]
    /\ LET act == [active EXCEPT ![s] = on]
       IN  /\ active' = ForceActive(act)
           /\ cs' = RedistributeCredits(cs, act, Idle(act, depth'))
    /\ IF on
       THEN UNCHANGED <<toCheck, pc>>
       ELSE /\ toCheck' = [toCheck EXCEPT ![t] = UsedServices]
            /\ pc' = [pc EXCEPT ![t] = "check"]
    /\ UNCHANGED <<atTarget, queueVars, where, hifVars, txLock, ep, sendQueue,
                   overflow, refused>>

(***************************************************************************)
(* HTCFlushEndpoint: take the packets with the flush tag off the queue     *)
(* under the lock, one per step, then complete them with an error.         *)
(***************************************************************************)
FlushLocations == {"flushAll", "flushData"}

FlushEndpointTX(t, s, how) ==
    /\ pc[t] = "idle" /\ t \in Senders /\ txLock = NoThread
    /\ txLock' = t
    /\ ep' = [ep EXCEPT ![t] = s]
    /\ pc' = [pc EXCEPT ![t] = how]
    /\ UNCHANGED <<creditVars, queueVars, where, hifVars, sendQueue, overflow,
                   refused, toCheck>>

\* Positions of the packets thread t has yet to flush.
ToFlush(t) ==
    {i \in DOMAIN txQueue[ep[t]] :
        pc[t] = "flushData" => txQueue[ep[t]][i] \in DataPackets}

FlushPacket(t) ==
    /\ pc[t] \in FlushLocations /\ txLock = t
    /\ \E i \in ToFlush(t) :
         /\ \A j \in ToFlush(t) : i <= j
         /\ txQueue' = [txQueue EXCEPT ![ep[t]] = RemoveAt(@, i)]
         /\ where' = Move({txQueue[ep[t]][i]}, "caller")
         /\ refused' = [refused EXCEPT ![t] = @ \cup {txQueue[ep[t]][i]}]
    /\ UNCHANGED <<creditVars, txProcessCount, seqNo, pktSeq, hifVars, txLock, pc,
                   ep, sendQueue, overflow, toCheck>>

FlushDone(t) ==
    /\ pc[t] \in FlushLocations /\ txLock = t
    /\ ToFlush(t) = {}
    /\ txLock' = NoThread
    /\ pc' = [pc EXCEPT ![t] = "return"]
    /\ UNCHANGED <<creditVars, queueVars, where, hifVars, ep, sendQueue, overflow,
                   refused, toCheck>>

-----------------------------------------------------------------------------
(***************************************************************************)
(* The HIF thread performs the transfers one at a time.                    *)
(***************************************************************************)
TransferDone(status) ==
    /\ hif # <<>> /\ hifStatus = "pending"
    /\ status = "failed" => HifMayFail
    /\ hifStatus' = status
    /\ UNCHANGED <<creditVars, queueVars, where, hif, txLock, threadVars>>

\* CompleteSentPacket for the next packet of a finished transfer: reclaim its
\* credits if the transfer failed; otherwise they are with the target.  The
\* packets of a transfer are handed back together, after the last.
CompleteSentPacket ==
    /\ hif # <<>> /\ hifStatus # "pending"
    /\ LET p == Head(hif).pkt
           s == EpOf[p]
       IN  /\ IF hifStatus = "failed"
              THEN /\ txLock = NoThread
                   /\ depth' = [depth EXCEPT ![s] = Len(txQueue[s])]
                   /\ cs' = SendComplete(Owe([r \in {s} |-> Cost[p]]),
                                         Idle(active, depth'))
                   /\ UNCHANGED atTarget
              ELSE /\ atTarget' = [atTarget EXCEPT ![s] = @ + Cost[p]]
                   /\ UNCHANGED <<cs, depth>>
           /\ IF Head(hif).kind = "more"
              THEN /\ where' = Move({p}, "done")
                   /\ UNCHANGED hifStatus
              ELSE /\ where' = Move({p} \cup {r \in Packets : where[r] = "done"},
                                    Completed)
                   /\ hifStatus' = "pending"
    /\ hif' = Tail(hif)
    /\ UNCHANGED <<active, queueVars, txLock, threadVars>>

-----------------------------------------------------------------------------
\* A thread's steps inside a call it has begun.
ThreadStep(t) ==
    \/ MeasureOverflow(t) \/ OfferOverflow(t) \/ EnterTrySend(t)
    \/ GetHTCSendPacket(t) \/ EndOfPass(t)
    \/ IssueSend(t) \/ IssueSendBundle(t) \/ Relock(t)
    \/ ReturnToCaller(t) \/ CheckEndpointTxQueue(t)
    \/ FlushPacket(t) \/ FlushDone(t)

\* Calls into HTC from above.
SenderCall(t) ==
    \/ SendPktsMultiple(t)
    \/ \E s \in Streams, on \in BOOLEAN :
         HTCIndicateActivityChange(t, s, on)
    \/ \E s \in UsedServices, how \in FlushModes : FlushEndpointTX(t, s, how)

HifStep ==
    \/ \E status \in {"ok", "failed"} : TransferDone(status)
    \/ CompleteSentPacket

Next ==
    \/ \E t \in Threads : ThreadStep(t)
    \/ \E t \in Senders : SenderCall(t)
    \/ \E rpt \in Reports : HTCProcessCreditRpt(rpt)
    \/ HifStep

Spec == Init /\ [][Next]_vars

(***************************************************************************)
(* A thread inside HTC keeps running, the HIF thread keeps performing      *)
(* transfers, and the target, which is told when credits are low, keeps    *)
(* returning them.  Nothing obliges the layer above to call.               *)
(***************************************************************************)
Fairness ==
    /\ \A t \in Threads : WF_vars(ThreadStep(t))
    /\ WF_vars(HifStep)
    /\ WF_vars(\E rpt \in Reports : HTCProcessCreditRpt(rpt))

FairSpec == Spec /\ Fairness
-----------------------------------------------------------------------------
\* Type invariant.
TypeOK ==
    /\ cs \in CreditStates
    /\ active \in [Services -> BOOLEAN]
    /\ depth \in [Services -> Nat]
    /\ atTarget \in [Services -> Nat]
    /\ txQueue \in [Services -> Seq(Packets)]
    /\ txProcessCount \in [Services -> 0..1]
    /\ seqNo \in [Services -> 0..(SeqModulus - 1)]
    /\ pktSeq \in [Packets -> 0..(SeqModulus - 1)]
    /\ where \in [Packets -> Owners]
    /\ hif \in Seq(Submissions)
    /\ hifStatus \in {"pending", "ok", "failed"}
    /\ txLock \in Threads \cup {NoThread}
    /\ pc \in [Threads -> Locations]
    /\ ep \in [Threads -> Services]
    /\ sendQueue \in [Threads -> Seq(Packets)]
    /\ overflow \in [Threads -> Seq(Packets)]
    /\ refused \in [Threads -> SUBSET Packets]
    /\ toCheck \in [Threads -> SUBSET Services]

(***************************************************************************)
(* Every packet is in exactly one place, the one "where" names: an         *)
(* HTC_PACKET has a single list link, so a packet left in two queues       *)
(* corrupts both, and one in none is leaked.                               *)
(***************************************************************************)
PacketsOf(h) == [i \in DOMAIN h |-> h[i].pkt]

HifPackets == PacketsOf(hif)

InPass(t) == pc[t] \in {"drain", "issue"}

\* What thread t holds, and the part of it that is not charged for.
HeldBy(t) == Elems(sendQueue[t]) \cup Elems(overflow[t]) \cup refused[t]

HeldUncharged(t) ==
    (IF InPass(t) THEN {} ELSE Elems(sendQueue[t])) \cup Elems(overflow[t]) \cup refused[t]

PacketsPlaced ==
    /\ \A p \in Packets :
         /\ \A s \in Services :
              p \in Elems(txQueue[s]) <=> where[p] = "queued" /\ EpOf[p] = s
         /\ p \in Elems(HifPackets) <=> where[p] = "hif"
         /\ (\E t \in Threads : InPass(t) /\ p \in Elems(sendQueue[t])) <=> where[p] = "local"
         /\ (\E t \in Threads : p \in HeldUncharged(t)) <=> where[p] = "caller"
    /\ \A s \in Services : Distinct(txQueue[s])
    /\ Distinct(HifPackets)
    /\ \A t \in Threads :
         /\ Distinct(sendQueue[t]) /\ Distinct(overflow[t])
         /\ Elems(sendQueue[t]) \cap Elems(overflow[t]) = {}
         /\ refused[t] \cap (Elems(sendQueue[t]) \cup Elems(overflow[t])) = {}
         /\ \A u \in Threads : t # u => HeldBy(t) \cap HeldBy(u) = {}

(***************************************************************************)
(* No credit is created or lost: what the host holds, what packets on      *)
(* their way carry and what the target holds add up to what the target     *)
(* granted.                                                                *)
(***************************************************************************)
Charged(p) == where[p] \in {"local", "hif", "lost"}

\* One element per credit that a charged packet carries.
InFlight == UNION {{p} \X (1..Cost[p]) : p \in {q \in Packets : Charged(q)}}

TargetCredits == Total(atTarget)

CreditConservation ==
    HeldCredits(cs) + Cardinality(InFlight) + TargetCredits = TotalCredits

(***************************************************************************)
(* The transmit path keeps the books of credit flow control: whatever the  *)
(* threads, the bus and the policy do, the credits go round as in          *)
(* CreditLedger.  A packet is charged once, and its credits come back      *)
(* once, to the endpoint that spent them.                                  *)
(***************************************************************************)
ChargedPackets == {p \in Packets : Charged(p)}

Ledger == INSTANCE CreditLedger
              WITH held <- HeldCredits(cs), carrying <- ChargedPackets, Sum <- Total

KeepsTheLedger == Ledger!Spec

\* The assertions at the end of ar6000_credit_distribute.
FreeCreditsInRange == cs.free \in 0..TotalCredits

Draining(t, s) == ep[t] = s /\ InPass(t)

(***************************************************************************)
(* TxProcessCount says whether an endpoint is being drained, and no two    *)
(* threads drain the same one, although HTCTrySend lets go of the lock     *)
(* while it sends.                                                         *)
(***************************************************************************)
OneDrainer ==
    \A s \in Services :
      /\ txProcessCount[s] = 1 <=> \E t \in Threads : Draining(t, s)
      /\ \A t, u \in Threads : Draining(t, s) /\ Draining(u, s) => t = u

\* Where HIF holds packets of service s, from position i on.
HandedFrom(i, s) == {j \in i..Len(hif) : EpOf[hif[j].pkt] = s}

\* Counting from p on, n packets carry the numbers up to the next of s.
CountsUp(p, n, s) == (pktSeq[p] + n) % SeqModulus = seqNo[s]

\* The packets of s in HIF, followed by those in queue q.
InSequence(s, q) ==
    /\ \A i \in HandedFrom(1, s) :
         CountsUp(hif[i].pkt, Cardinality(HandedFrom(i, s)) + Len(q), s)
    /\ \A i \in DOMAIN q : CountsUp(q[i], Len(q) + 1 - i, s)

NoneRefused == \A p \in Packets : where[p] # "lost"

(***************************************************************************)
(* The packets of an endpoint reach HIF in the order of their sequence     *)
(* numbers, although several threads may try to drain the endpoint: those  *)
(* in HIF and then those in the local queue of the one draining thread     *)
(* carry consecutive numbers up to the next to be assigned.  A packet that *)
(* HIFReadWrite refuses takes its number with it, so this holds for as     *)
(* long as none was refused.                                               *)
(***************************************************************************)
SentInOrder ==
    NoneRefused =>
      \A s \in Services :
        /\ \A t \in Threads : Draining(t, s) => InSequence(s, sendQueue[t])
        /\ (~\E t \in Threads : Draining(t, s)) => InSequence(s, <<>>)

(***************************************************************************)
(* No queue stalls: when no thread is inside HTC, no transfer is under way *)
(* and the target holds no credits, nothing will make HTC look at the      *)
(* queues again, so no packet may be waiting that the policy would pay for.*)
(***************************************************************************)
Quiescent ==
    /\ \A t \in Threads : pc[t] = "idle"
    /\ hif = <<>>
    /\ TargetCredits = 0

NoStalledQueue == Quiescent => \A s \in Services : txQueue[s] = <<>>

\* Every packet in a TX queue eventually leaves it: HTCTrySend and
\* HTCCheckEndpointTxQueues never leave one behind for good.
QueuedPacketsLeave ==
    \A p \in Packets : where[p] = "queued" ~> where[p] # "queued"

-----------------------------------------------------------------------------
(***************************************************************************)
(* What comments and assertions say of this code.                          *)
(***************************************************************************)
\* RedistributeCredits: an inactive service keeps credits available for its
\* leftover packets, so they do not wait for ever.
LeftoversLeave ==
    Quiescent => \A s \in Services : ~active[s] => txQueue[s] = <<>>
=============================================================================
