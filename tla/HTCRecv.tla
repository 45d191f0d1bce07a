------------------------------ MODULE HTCRecv -------------------------------
(***************************************************************************)
(* Receiving messages: the interrupt handler of the device layer           *)
(* (htc2/AR6000/ar6k_events.c), the fetching and indication of messages    *)
(* (htc2/htc_recv.c), and the switch that blocks the receiver when an      *)
(* endpoint has no buffers (htc2/AR6000/ar6k.c).                           *)
(*                                                                         *)
(* The target keeps its messages in a mailbox.  A look-ahead, read with    *)
(* the interrupt status or found in the trailer of the last message,       *)
(* announces the next ones, all of one endpoint; the host takes a buffer   *)
(* for each and fetches them, as one bundle or one by one.                 *)
(*                                                                         *)
(* The HIF decides how interrupts are processed.  "sync": the handler, the *)
(* "dsr" thread, waits for its transfers and goes on until nothing is left *)
(* (hif.c, HIF_DEVICE_IRQ_SYNC_ONLY).  "async": it only starts a chain of  *)
(* requests, whose completions, in the contexts of the HIF, continue it;   *)
(* the interrupt stays masked until HIFAckInterrupt.  Meanwhile the "user" *)
(* of an endpoint gives its buffers back, as ar6000_raw_if.c does.         *)
(*                                                                         *)
(* Bus requests are carried out one at a time, in the order submitted.     *)
(***************************************************************************)
EXTENDS Integers, Sequences, FiniteSets, SequencesExt

CONSTANTS Eps,          \* connected endpoints
          NoEp,         \* ENDPOINT_MAX
          NumBufs,      \* endpoint -> receive buffers its user has
          MaxMsgs,      \* bound on the messages the target sends
          MaxBundle,    \* MaxMsgPerBundle
          Modes,        \* interrupt processing modes of the HIF
          Contexts,     \* contexts in which the HIF calls completion routines
          Others,       \* TRUE if interrupts other than the mailbox's occur
          MaxFaults     \* bound on failed transfers and bad messages

ASSUME RecvAssumption ==
    /\ NoEp \notin Eps /\ IsFiniteSet(Eps)
    /\ Contexts \cap {"dsr", "user", "nobody"} = {} /\ IsFiniteSet(Contexts)
    /\ NumBufs \in [Eps -> Nat \ {0}]
    /\ MaxMsgs \in Nat /\ MaxBundle \in Nat \ {0} /\ MaxFaults \in Nat
    /\ Modes \subseteq {"sync", "async"}
    /\ Others \in BOOLEAN

Handlers == {"dsr"} \cup Contexts
Threads == Handlers \cup {"user"}

VARIABLES
    mode,       \* HifIRQProcessingMode
    mbox,       \* the target's mailbox
    sent,       \* endpoint -> messages the target has sent
    other,      \* an interrupt other than the mailbox's is pending
    reg,        \* mailbox interrupt enabled, in the device
    shadow,     \* mailbox interrupt enabled, in IrqEnableRegisters
    taken,      \* the interrupt is masked until acknowledged
    acks,       \* acknowledgements since it was taken
    recheck,    \* RecheckIRQStatusCnt # 0
    bus,        \* requests queued in the HIF
    rxBuffers,  \* endpoint -> depth of RxBuffers
    withUser,   \* endpoint -> buffers its user holds
    lost,       \* endpoint -> buffers nobody holds
    waiting,    \* HTC_RECV_WAIT_BUFFERS
    waitingEp,  \* EpWaitingForBuffers
    indication, \* endpoint -> RecvIndicationQueue
    draining,   \* endpoint -> RxProcessCount # 0
    indicated,  \* endpoint -> messages indicated to its user
    faults,     \* failures so far
    pc,         \* thread -> where it is
    loc         \* thread -> its local variables

deviceVars == <<mbox, sent, other, reg>>
irqVars    == <<taken, acks, recheck>>
bufVars    == <<rxBuffers, withUser, lost, waiting, waitingEp>>
indVars    == <<indication, draining, indicated>>
vars == <<mode, deviceVars, shadow, irqVars, bus, bufVars, indVars, faults, pc, loc>>

\* Locals: la messages of endpoint ep are announced; fetch packets are to be
\* fetched, total were; done are fetched messages, of endpoint doneEp, the last
\* of which may be looked at for the next if last; other interrupts were seen;
\* async: the work was handed over; ok is the status; more messages may be
\* asked for; from is the caller of the message handler.
NoLoc == [la |-> 0, ep |-> NoEp, fetch |-> 0, total |-> 0, done |-> <<>>,
          doneEp |-> NoEp, last |-> TRUE, other |-> FALSE, async |-> FALSE,
          ok |-> TRUE, more |-> TRUE, from |-> "dsr"]

Init ==
    /\ mode \in Modes
    /\ mbox = <<>> /\ sent = [e \in Eps |-> 0] /\ other = FALSE
    /\ reg = TRUE /\ shadow = TRUE
    /\ taken = FALSE /\ acks = 0 /\ recheck = FALSE
    /\ bus = <<>>
    /\ rxBuffers = NumBufs
    /\ withUser = [e \in Eps |-> 0] /\ lost = [e \in Eps |-> 0]
    /\ waiting = FALSE /\ waitingEp = NoEp
    /\ indication = [e \in Eps |-> <<>>] /\ draining = [e \in Eps |-> FALSE]
    /\ indicated = [e \in Eps |-> <<>>]
    /\ faults = 0
    /\ pc = [t \in Threads |-> "idle"]
    /\ loc = [t \in Threads |-> NoLoc]

\* The sum of a function with finite domain and natural values: as many pairs.
Total(f) == Cardinality(UNION {{x} \X (1..f[x]) : x \in DOMAIN f})

Goto(t, where) == pc' = [pc EXCEPT ![t] = where]
At(t, where) == pc[t] = where
Set(t, l) == loc' = [loc EXCEPT ![t] = l]

\* A request of thread t, which waits for it, or of nobody.
Nobody == "nobody"
Request(op, by, ep, n, last, val) ==
    [op |-> op, by |-> by, ep |-> ep, n |-> n, last |-> last, val |-> val]
Submit(r) == bus' = Append(bus, r)

\* HIFAckInterrupt.
Ack == /\ taken' = FALSE
       /\ acks' = acks + 1

-----------------------------------------------------------------------------
(***************************************************************************)
(* The target and the bus.                                                 *)
(***************************************************************************)
TargetSends(e) ==
    /\ Total(sent) < MaxMsgs
    /\ sent' = [sent EXCEPT ![e] = @ + 1]
    /\ mbox' = Append(mbox, [ep |-> e, num |-> sent[e] + 1])
    /\ UNCHANGED <<mode, other, reg, shadow, irqVars, bus, bufVars, indVars, faults, pc, loc>>

OtherInterrupt ==
    /\ Others /\ ~other
    /\ other' = TRUE
    /\ UNCHANGED <<mode, mbox, sent, reg, shadow, irqVars, bus, bufVars, indVars, faults,
                   pc, loc>>

\* How many of the messages in q a look-ahead can announce.
Announced(q) ==
    {k \in 1..MaxBundle : k <= Len(q) /\ \A i \in 1..k : q[i].ep = q[1].ep}

\* What the host learns from a look-ahead taken when the mailbox is q.
LookAheads(q, l) ==
    IF q = <<>> THEN {[l EXCEPT !.la = 0]}
    ELSE {[l EXCEPT !.la = k, !.ep = q[1].ep] : k \in Announced(q)}

\* A trailer announces the messages behind, or says nothing.
Trailers(q, l) == LookAheads(q, l) \cup {[l EXCEPT !.la = 0]}

\* A completion routine runs in a context of its own once those of earlier
\* requests have queued their packets.
CanComplete(c) == At(c, "idle") /\ \A d \in Contexts : ~At(d, "complete")

\* The first request is carried out and completed, to the thread that waits
\* for it or in a context of the HIF.
BusStatus(t) ==
    LET r == Head(bus)
    IN  /\ bus # <<>> /\ r.op = "status"
        /\ IF r.by = Nobody THEN t \in Contexts /\ CanComplete(t) ELSE t = r.by
        /\ \E l \in LookAheads(mbox, NoLoc) : Set(t, [l EXCEPT !.other = other])
        /\ Goto(t, IF r.by = Nobody THEN "events" ELSE "pending")
        /\ bus' = Tail(bus)
        /\ UNCHANGED <<mode, deviceVars, shadow, irqVars, bufVars, indVars, faults>>

BusRead(t) ==
    LET r == Head(bus)
        before == IF r.by = Nobody THEN NoLoc ELSE loc[t]
        l == [before EXCEPT !.done = @ \o SubSeq(mbox, 1, r.n), !.doneEp = r.ep,
                            !.last = r.last]
        rest == SubSeq(mbox, r.n + 1, Len(mbox))
    IN  /\ bus # <<>> /\ r.op = "read" /\ r.n <= Len(mbox)
        /\ IF r.by = Nobody THEN t \in Contexts /\ CanComplete(t) ELSE t = r.by
        /\ mbox' = rest
        /\ \E l2 \in (IF r.last THEN Trailers(rest, l) ELSE {l}) : Set(t, l2)
        /\ Goto(t, IF r.by = Nobody THEN "complete" ELSE "fetch")
        /\ bus' = Tail(bus)
        /\ UNCHANGED <<mode, sent, other, reg, shadow, irqVars, bufVars, indVars, faults>>

\* Mutant: the packets of a bundle that failed are forgotten.
KeptIfAlone(r) == IF r.by = Nobody /\ r.n = 1 THEN 1 ELSE 0

\* The packets of a failed read that come back: one fetched alone for a
\* waiting thread is on no queue then.
Kept(r) == IF r.by = Nobody \/ r.n > 1 THEN r.n ELSE 0

\* A read fails, and the messages stay.
BusReadFails(t) ==
    LET r == Head(bus)
        before == IF r.by = Nobody THEN NoLoc ELSE loc[t]
    IN  /\ bus # <<>> /\ r.op = "read" /\ faults < MaxFaults
        /\ faults' = faults + 1
        /\ IF r.by = Nobody THEN t \in Contexts /\ CanComplete(t) ELSE t = r.by
        /\ Set(t, [before EXCEPT !.fetch = @ + Kept(r) + Len(before.done), !.done = <<>>,
                                 !.ep = r.ep, !.ok = FALSE,
                                 !.doneEp = IF r.n > 1 THEN r.ep ELSE NoEp])
        /\ lost' = [lost EXCEPT ![r.ep] = @ + r.n - Kept(r)]
        /\ Goto(t, "recycle")
        /\ bus' = Tail(bus)
        /\ UNCHANGED <<mode, deviceVars, shadow, irqVars, rxBuffers, withUser, waiting,
                       waitingEp, indVars>>

\* Where a thread goes on when the receiver has been enabled or stopped.
Enabled(t) ==
    IF t = "user" THEN "idle"
    ELSE IF t = "dsr" THEN "check"
    ELSE IF loc[t].done # <<>> THEN "complete"
    ELSE IF loc[t].doneEp = NoEp THEN "idle" ELSE "drain"

BusWrite ==
    LET r == Head(bus)
    IN  /\ bus # <<>> /\ r.op = "write"
        /\ reg' = r.val
        /\ IF r.by = Nobody THEN UNCHANGED pc
           ELSE Goto(r.by, IF r.val THEN Enabled(r.by) ELSE "return")
        /\ bus' = Tail(bus)
        /\ UNCHANGED <<mode, mbox, sent, other, shadow, irqVars, bufVars, indVars, faults, loc>>

-----------------------------------------------------------------------------
(***************************************************************************)
(* DevDoEnableDisableRecvNormal: the shadow is changed under the lock, the *)
(* device written after it, with or without waiting.                       *)
(***************************************************************************)
SetShadow(t) ==
    /\ pc[t] \in {"enable", "stop"}
    /\ shadow' = At(t, "enable")
    /\ Goto(t, IF At(t, "enable") THEN "write on" ELSE "write off")
    /\ UNCHANGED <<mode, deviceVars, irqVars, bus, bufVars, indVars, faults, loc>>

WriteEnable(t) ==
    LET on == At(t, "write on")
        waits == on \/ mode = "sync"
    IN  /\ pc[t] \in {"write on", "write off"}
        /\ Submit(Request("write", IF waits THEN t ELSE Nobody, NoEp, 0, FALSE, on))
        /\ Goto(t, IF waits THEN "waiting" ELSE "return")
        /\ UNCHANGED <<mode, deviceVars, shadow, irqVars, bufVars, indVars, faults, loc>>

-----------------------------------------------------------------------------
(***************************************************************************)
(* HTCAddReceivePktMultiple.                                               *)
(***************************************************************************)
\* Buffers n of endpoint e are stored; the receiver may have waited for them.
AddBuffers(t, e, n) ==
    /\ rxBuffers' = [rxBuffers EXCEPT ![e] = @ + n]
    /\ IF waiting /\ waitingEp = e /\ n > 0
       THEN waiting' = FALSE /\ waitingEp' = NoEp /\ Goto(t, "enable")
       ELSE UNCHANGED <<waiting, waitingEp>> /\ Goto(t, Enabled(t))

\* The user gives back buffers it is done with.
AddReceivePkts(e) ==
    /\ At("user", "idle")
    /\ \E n \in 1..withUser[e] :
         /\ AddBuffers("user", e, n)
         /\ withUser' = [withUser EXCEPT ![e] = @ - n]
    /\ UNCHANGED <<mode, deviceVars, shadow, irqVars, bus, lost, indVars, faults, loc>>

\* HTC_RECYCLE_RX_PKT, for the packets not fetched and those not indicated.
RecyclePkts(t) ==
    LET l == loc[t]
    IN  /\ At(t, "recycle")
        /\ AddBuffers(t, l.ep, l.fetch)
        /\ Set(t, [l EXCEPT !.fetch = 0])
        /\ UNCHANGED <<mode, deviceVars, shadow, irqVars, bus, withUser, lost, indVars, faults>>

-----------------------------------------------------------------------------
(***************************************************************************)
(* HTCRecvMessagePendingHandler, called with look-aheads.                  *)
(***************************************************************************)
\* Mutant: packets are counted on that are not there.
AllocatesAll(l) == l.la

Allocates(l) == IF l.la <= rxBuffers[l.ep] THEN l.la ELSE rxBuffers[l.ep]

\* AllocAndPrepareRxPackets: a packet for each message, as far as they go.
AllocPackets(t) ==
    LET l == loc[t]
        n == Allocates(l)
    IN  /\ At(t, "alloc")
        /\ rxBuffers' = [rxBuffers EXCEPT ![l.ep] = @ - n]
        /\ IF n < l.la
           THEN waiting' = TRUE /\ waitingEp' = l.ep
           ELSE UNCHANGED <<waiting, waitingEp>>
        /\ recheck' = (recheck \/ n >= 2)
        /\ Set(t, [l EXCEPT !.la = 0, !.fetch = n, !.total = @ + n])
        /\ Goto(t, "fetch")
        /\ UNCHANGED <<mode, deviceVars, shadow, taken, acks, bus, withUser, lost, indVars,
                       faults>>

\* Several packets are fetched as a bundle if there is a scatter request for
\* it; of packets fetched one by one only the last has a valid look-ahead.
FetchPackets(t) ==
    LET l == loc[t]
        by == IF mode = "sync" THEN t ELSE Nobody
    IN  /\ At(t, "fetch") /\ l.fetch > 0
        /\ \E n \in {1, l.fetch} :
             /\ Submit(Request("read", by, l.ep, n, n = l.fetch, FALSE))
             /\ Set(t, [l EXCEPT !.fetch = @ - n])
        /\ Goto(t, IF mode = "sync" THEN "waiting" ELSE "fetch")
        /\ UNCHANGED <<mode, deviceVars, shadow, irqVars, bufVars, indVars, faults>>

AllFetched(t) ==
    /\ At(t, "fetch") /\ loc[t].fetch = 0
    /\ Goto(t, IF mode = "sync" THEN "process" ELSE "check")
    /\ UNCHANGED <<mode, deviceVars, shadow, irqVars, bus, bufVars, indVars, faults, loc>>

\* The messages fetched synchronously are indicated one by one; then the
\* look-ahead of the last is followed.
IndicateSync ==
    LET l == loc["dsr"]
        m == Head(l.done)
    IN  /\ At("dsr", "process") /\ l.done # <<>>
        /\ indicated' = [indicated EXCEPT ![m.ep] = Append(@, m.num)]
        /\ withUser' = [withUser EXCEPT ![m.ep] = @ + 1]
        /\ Set("dsr", [l EXCEPT !.done = Tail(@)])
        /\ UNCHANGED <<mode, deviceVars, shadow, irqVars, bus, rxBuffers, lost, waiting,
                       waitingEp, indication, draining, faults, pc>>

\* A bad header: the packet was taken off the queue the others are on.
BadHeaderSync ==
    LET l == loc["dsr"]
        e == l.doneEp
    IN  /\ At("dsr", "process") /\ l.done # <<>> /\ faults < MaxFaults
        /\ faults' = faults + 1
        /\ lost' = [lost EXCEPT ![e] = @ + 1]
        /\ Set("dsr", [l EXCEPT !.done = <<>>, !.ep = e, !.la = 0, !.ok = FALSE,
                                !.fetch = Len(l.done) - 1])
        /\ Goto("dsr", "recycle")
        /\ UNCHANGED <<mode, deviceVars, shadow, irqVars, bus, rxBuffers, withUser, waiting,
                       waitingEp, indVars>>

FollowLookAhead ==
    /\ At("dsr", "process") /\ loc["dsr"].done = <<>>
    /\ recheck' = (recheck \/ loc["dsr"].la > 0)
    /\ Goto("dsr", IF loc["dsr"].la > 0 THEN "alloc" ELSE "check")
    /\ UNCHANGED <<mode, deviceVars, shadow, taken, acks, bus, bufVars, indVars, faults, loc>>

\* Before leaving: has the host run out of buffers?  Read without the lock.
CheckWaiting(t) ==
    /\ At(t, "check")
    /\ Goto(t, IF waiting THEN "stop" ELSE "return")
    /\ UNCHANGED <<mode, deviceVars, shadow, irqVars, bus, bufVars, indVars, faults, loc>>

-----------------------------------------------------------------------------
(***************************************************************************)
(* The completion of a read in a context of the HIF:                       *)
(* HTCRecvCompleteHandler and HTCAsyncRecvScatterCompletion.               *)
(***************************************************************************)
QueueIndication(c) ==
    LET l == loc[c]
    IN  /\ At(c, "complete")
        /\ indication' = [indication EXCEPT ![l.doneEp] = @ \o l.done]
        /\ Set(c, [l EXCEPT !.done = <<>>])
        /\ Goto(c, IF l.more THEN "more" ELSE "drain")
        /\ UNCHANGED <<mode, deviceVars, shadow, irqVars, bus, bufVars, draining, indicated,
                       faults>>

\* A packet with a bad header is recycled.  The rest of its bundle is queued,
\* but nobody looks for more messages.
BadHeader(c) ==
    LET l == loc[c]
    IN  /\ At(c, "complete") /\ faults < MaxFaults
        /\ faults' = faults + 1
        /\ \E i \in DOMAIN l.done :
             Set(c, [l EXCEPT !.done = RemoveAt(@, i), !.fetch = 1, !.ep = l.doneEp,
                              !.la = 0, !.more = FALSE,
                              !.doneEp = IF Len(l.done) > 1 THEN @ ELSE NoEp])
        /\ Goto(c, "recycle")
        /\ UNCHANGED <<mode, deviceVars, shadow, irqVars, bus, bufVars, indVars>>

\* Mutant: every message of a broken bundle asks for more.
AlwaysChecks(l) == TRUE

\* Only the last of several requests asks for more messages.
ChecksMore(l) == l.last

\* HTCAsyncRecvCheckMorePackets: follow the look-ahead, or read the status
\* again, or end the chain.
CheckMorePackets(c) ==
    LET l == loc[c]
        asks == l.la = 0 /\ ChecksMore(l)
    IN  /\ At(c, "more")
        /\ recheck' = (recheck \/ l.la > 0)
        /\ IF l.la > 0
           THEN Goto(c, "alloc") /\ Set(c, [l EXCEPT !.from = "more"])
           ELSE Goto(c, "drain") /\ UNCHANGED loc
        /\ IF asks /\ recheck
           THEN Submit(Request("status", Nobody, NoEp, 0, FALSE, FALSE))
           ELSE UNCHANGED bus
        /\ IF asks /\ ~recheck THEN Ack ELSE UNCHANGED <<taken, acks>>
        /\ UNCHANGED <<mode, deviceVars, shadow, bufVars, indVars, faults>>

\* DevGetEventAsyncHandler: the next message, or the end of the chain.
HandleEvents(c) ==
    LET l == loc[c]
        ends == l.other \/ l.la = 0 \/ ~shadow
    IN  /\ At(c, "events")
        /\ IF ends
           THEN Ack /\ Goto(c, "idle") /\ Set(c, NoLoc)
           ELSE /\ Set(c, [l EXCEPT !.from = "events"])
                /\ Goto(c, "alloc")
                /\ UNCHANGED <<taken, acks>>
        /\ UNCHANGED <<mode, deviceVars, shadow, recheck, bus, bufVars, indVars, faults>>

\* Mutant: a chain that fetched nothing is left to others.
NeverForced(l) == FALSE

\* Nothing could be fetched: the chain ends here.
ForcesAck(l) == l.total = 0

\* The message handler returns to the completion routine that called it.
ChainContinues(c) ==
    LET l == loc[c]
    IN  /\ c \in Contexts /\ At(c, "return")
        /\ IF ForcesAck(l) THEN Ack ELSE UNCHANGED <<taken, acks>>
        /\ IF l.from = "more"
           THEN Goto(c, "drain") /\ UNCHANGED loc
           ELSE Goto(c, "idle") /\ Set(c, NoLoc)
        /\ UNCHANGED <<mode, deviceVars, shadow, recheck, bus, bufVars, indVars, faults>>

\* Mutants: a second drainer is let in; the drainer leaves without looking at
\* the queue again.
LetIn(c, e) == TRUE
StopsAtOnce(c, e) == loc[c].from = "drain" \/ indication[e] = <<>>

MayDrain(c, e) == loc[c].from = "drain" \/ ~draining[e]
Drained(c, e) == indication[e] = <<>>

\* DrainRecvIndicationQueue, under the lock: one drainer takes all there is.
TakeIndications(c) ==
    LET e == loc[c].doneEp
    IN  /\ At(c, "drain")
        /\ IF MayDrain(c, e) /\ ~Drained(c, e)
           THEN /\ draining' = [draining EXCEPT ![e] = TRUE]
                /\ indication' = [indication EXCEPT ![e] = <<>>]
                /\ Set(c, [NoLoc EXCEPT !.done = indication[e], !.doneEp = e,
                                        !.from = "drain"])
                /\ Goto(c, "indicate")
           ELSE /\ draining' = [draining EXCEPT ![e] = @ /\ ~MayDrain(c, e)]
                /\ Set(c, NoLoc)
                /\ Goto(c, "idle")
                /\ UNCHANGED indication
        /\ UNCHANGED <<mode, deviceVars, shadow, irqVars, bus, bufVars, indicated, faults>>

\* DO_RCV_COMPLETION, without the lock.
Indicate(c) ==
    LET l == loc[c]
    IN  /\ At(c, "indicate")
        /\ indicated' = [indicated EXCEPT
                           ![l.doneEp] = @ \o [i \in DOMAIN l.done |-> l.done[i].num]]
        /\ withUser' = [withUser EXCEPT ![l.doneEp] = @ + Len(l.done)]
        /\ Set(c, [l EXCEPT !.done = <<>>])
        /\ Goto(c, "drain")
        /\ UNCHANGED <<mode, deviceVars, shadow, irqVars, bus, rxBuffers, lost, waiting,
                       waitingEp, indication, draining, faults>>

-----------------------------------------------------------------------------
(***************************************************************************)
(* DevDsrHandler and ProcessPendingIRQs.                                   *)
(***************************************************************************)
\* The HIF delivers the interrupt, unless the last is still unacknowledged.
TakeInterrupt ==
    /\ At("dsr", "idle") /\ ~taken
    /\ other \/ (reg /\ mbox # <<>>)
    /\ taken' = (mode = "async")
    /\ acks' = 0
    /\ recheck' = FALSE
    /\ Goto("dsr", "status")
    /\ UNCHANGED <<mode, deviceVars, shadow, bus, bufVars, indVars, faults, loc>>

ReadStatus ==
    /\ At("dsr", "status")
    /\ Submit(Request("status", "dsr", NoEp, 0, FALSE, FALSE))
    /\ Goto("dsr", "waiting")
    /\ UNCHANGED <<mode, deviceVars, shadow, irqVars, bufVars, indVars, faults, loc>>

\* Leave the handler, with or without acknowledging the interrupt.
Leave(acked) ==
    /\ IF acked THEN Ack ELSE UNCHANGED <<taken, acks>>
    /\ Goto("dsr", "idle")
    /\ Set("dsr", NoLoc)

\* The mailbox interrupt counts only while it is enabled in the shadow.
ProcessPendingIRQs ==
    LET l == loc["dsr"]
        la == IF shadow THEN l.la ELSE 0
    IN  /\ At("dsr", "pending")
        /\ IF la = 0 /\ ~l.other
           THEN Leave(TRUE)
           ELSE /\ Set("dsr", [l EXCEPT !.la = la])
                /\ Goto("dsr", IF la > 0 THEN "alloc" ELSE "others")
                /\ UNCHANGED <<taken, acks>>
        /\ UNCHANGED <<mode, deviceVars, shadow, recheck, bus, bufVars, indVars, faults>>

\* The message handler returns.  After a failure nothing is acknowledged.
MessagesHandled ==
    LET l == loc["dsr"]
    IN  /\ At("dsr", "return")
        /\ IF l.ok
           THEN /\ Set("dsr", [l EXCEPT !.async = mode = "async" /\ ~ForcesAck(l)])
                /\ Goto("dsr", "others")
                /\ UNCHANGED <<taken, acks>>
           ELSE Leave(FALSE)
        /\ recheck' = (recheck /\ ~(l.ok /\ ForcesAck(l)))
        /\ UNCHANGED <<mode, deviceVars, shadow, bus, bufVars, indVars, faults>>

\* The other interrupts are serviced; then look again, or leave.
ServiceOthers ==
    LET l == loc["dsr"]
    IN  /\ At("dsr", "others")
        /\ other' = (other /\ ~l.other)
        /\ IF ~l.async /\ recheck
           THEN /\ Goto("dsr", "status")
                /\ Set("dsr", NoLoc)
                /\ UNCHANGED <<taken, acks>>
           ELSE Leave(~l.async)
        /\ UNCHANGED <<mode, mbox, sent, reg, shadow, recheck, bus, bufVars, indVars, faults>>

-----------------------------------------------------------------------------
BusStep == BusWrite \/ \E t \in Handlers : BusStatus(t) \/ BusRead(t) \/ BusReadFails(t)

HandlerStep(t) ==
    \/ AllocPackets(t) \/ FetchPackets(t) \/ AllFetched(t) \/ RecyclePkts(t)
    \/ CheckWaiting(t) \/ SetShadow(t) \/ WriteEnable(t)

DsrStep ==
    \/ TakeInterrupt \/ ReadStatus \/ ProcessPendingIRQs \/ MessagesHandled \/ ServiceOthers
    \/ IndicateSync \/ BadHeaderSync \/ FollowLookAhead
    \/ HandlerStep("dsr")

ContextStep(c) ==
    \/ QueueIndication(c) \/ BadHeader(c) \/ CheckMorePackets(c) \/ HandleEvents(c)
    \/ ChainContinues(c) \/ TakeIndications(c) \/ Indicate(c)
    \/ HandlerStep(c)

UserStep == SetShadow("user") \/ WriteEnable("user")

Next ==
    \/ \E e \in Eps : TargetSends(e) \/ AddReceivePkts(e)
    \/ OtherInterrupt
    \/ BusStep \/ DsrStep \/ UserStep
    \/ \E c \in Contexts : ContextStep(c)

Spec == Init /\ [][Next]_vars
-----------------------------------------------------------------------------
Msgs == [ep : Eps, num : 1..MaxMsgs]

\* Type invariant.
TypeOK ==
    /\ mode \in Modes /\ mbox \in Seq(Msgs) /\ sent \in [Eps -> 0..MaxMsgs]
    /\ {other, reg, shadow, taken, recheck, waiting} \subseteq BOOLEAN
    /\ acks \in Nat /\ faults \in 0..MaxFaults
    /\ \A i \in DOMAIN bus :
         bus[i] \in [op : {"status", "read", "write"}, by : Threads \cup {Nobody},
                     ep : Eps \cup {NoEp}, n : 0..MaxBundle, last : BOOLEAN, val : BOOLEAN]
    /\ \A e \in Eps : {rxBuffers[e], withUser[e], lost[e]} \subseteq 0..NumBufs[e]
    /\ waitingEp \in Eps \cup {NoEp}
    /\ indication \in [Eps -> Seq(Msgs)] /\ draining \in [Eps -> BOOLEAN]
    /\ indicated \in [Eps -> Seq(1..MaxMsgs)]
    /\ pc \in [Threads -> {"idle", "status", "waiting", "pending", "alloc", "fetch",
                           "process", "recycle", "check", "stop", "enable", "write on",
                           "write off", "return", "others", "complete", "more", "events",
                           "drain", "indicate"}]
    /\ \A t \in Threads :
         /\ loc[t].la \in 0..MaxBundle /\ loc[t].fetch \in Nat /\ loc[t].total \in Nat
         /\ loc[t].done \in Seq(Msgs)
         /\ {loc[t].ep, loc[t].doneEp} \subseteq Eps \cup {NoEp}
         /\ {loc[t].last, loc[t].other, loc[t].async, loc[t].ok, loc[t].more} \subseteq BOOLEAN
         /\ loc[t].from \in {"dsr", "more", "events", "drain"}

(***************************************************************************)
(* The messages of an endpoint are indicated in the order the target sent  *)
(* them, whichever thread indicates them, and without failures none is     *)
(* left out.                                                               *)
(***************************************************************************)
IndicatedInOrder ==
    \A e \in Eps : \A i \in DOMAIN indicated[e] :
      /\ i > 1 => indicated[e][i - 1] < indicated[e][i]
      /\ faults = 0 => indicated[e][i] = i

(***************************************************************************)
(* What is fetched was announced: the messages asked for on the bus are    *)
(* distinct messages of the mailbox, the first ones, all of the endpoint   *)
(* whose buffers they are to fill.  Two chains of requests would ask for a *)
(* message twice.                                                          *)
(***************************************************************************)
Asked(e) == Total([i \in DOMAIN bus |->
                     IF bus[i].op = "read" /\ bus[i].ep = e THEN bus[i].n ELSE 0])

AllAsked == Total([i \in DOMAIN bus |-> IF bus[i].op = "read" THEN bus[i].n ELSE 0])

FetchesAnnounced ==
    \A i \in DOMAIN bus : bus[i].op = "read" =>
      /\ AllAsked <= Len(mbox)
      /\ \A k \in 1..AllAsked : mbox[k].ep = bus[i].ep

(***************************************************************************)
(* Every receive buffer is somewhere: free, on its way, queued, with its   *)
(* user, or, after a failure, lost.                                        *)
(***************************************************************************)
InHand(t, e) ==
    (IF loc[t].doneEp = e THEN Len(loc[t].done) ELSE 0)
      + (IF loc[t].ep = e THEN loc[t].fetch ELSE 0)

AllInHand(e) == Total([t \in Threads |-> InHand(t, e)])

BuffersAccounted ==
    \A e \in Eps :
      /\ NumBufs[e] = rxBuffers[e] + withUser[e] + lost[e] + Len(indication[e])
                       + Asked(e) + AllInHand(e)
      /\ lost[e] <= faults

(***************************************************************************)
(* An interrupt is acknowledged once, by the handler or by whatever ends   *)
(* the chain of requests it started.                                       *)
(***************************************************************************)
AckedOnce == acks <= 1

(***************************************************************************)
(* When no completion routine runs, nothing is left to indicate and nobody *)
(* is taken for a drainer: a packet queued while another context drained   *)
(* was not overlooked.                                                     *)
(***************************************************************************)
DrainedWhenQuiet ==
    (\A c \in Contexts : At(c, "idle")) =>
      \A e \in Eps : indication[e] = <<>> /\ ~draining[e]

(***************************************************************************)
(* And it is not forgotten: when the handler and the chain have come to    *)
(* their end, the interrupt they handled is acknowledged, unless something *)
(* failed.                                                                 *)
(***************************************************************************)
Quiet == bus = <<>> /\ \A t \in Handlers : At(t, "idle")

AckedWhenQuiet == Quiet /\ taken => faults > 0

(***************************************************************************)
(* HTCRecvMessagePendingHandler stops the receiver when the host has run   *)
(* out of buffers: once all threads are done, a receiver that is blocked   *)
(* waits for buffers.                                                      *)
(***************************************************************************)
StoppedOnlyWithoutBuffers ==
    (\A t \in Threads : At(t, "idle")) /\ bus = <<>> /\ ~reg => waiting
=============================================================================
