----------------------------- MODULE RxReorder ------------------------------
(***************************************************************************)
(* Reordering of received aggregates (reorder/rcv_aggr.c).                 *)
(*                                                                         *)
(* For each traffic identifier (TID) with a block-ack session, frames that *)
(* arrive after a hole wait in hold_q, a ring of twice the negotiated      *)
(* window, until the hole is filled, the window moves past it, or a timer  *)
(* finds that nothing has progressed.                                      *)
(*                                                                         *)
(* Two threads run this code: "rx", the receive thread, with the frames,   *)
(* the block-ack requests and the session events, and "timer", the handler *)
(* of the one timer of the connection.  Only the slots of hold_q and the   *)
(* window that moves with them are changed under the lock of the TID; the  *)
(* window is also read and set without it, and so are the timer's flags.   *)
(*                                                                         *)
(* The frames of a TID are numbered 0, 1, ... in the order the peer means  *)
(* them; the host sees the number modulo SeqSpace.  The peer's side is     *)
(* external: it keeps at most a window of frames outstanding, and may lose *)
(* them.                                                                   *)
(***************************************************************************)
EXTENDS Integers, Sequences, Queues

CONSTANTS NumTids,      \* NUM_OF_TIDS
          WinSz,        \* window negotiated by ADDBA
          SeqSpace,     \* IEEE80211_MAX_SEQ_NO + 1
          MaxFrames,    \* bound on the frames of a TID
          NoFrame,      \* an empty slot of hold_q
          Peers         \* what the peer, and the time, may do:
                        \*   first     sequence number of frame 0
                        \*   frames    frames the peer has for a TID
                        \*   bars      block-ack requests reach the host
                        \*   sessions  session events besides the first ADDBA, with
                        \*             "nomem" if an allocation may fail
                        \*   timer     AGGR_RX_TIMEOUT may pass

Tids == 0..(NumTids - 1)
Frames == 0..(MaxFrames - 1)

\* TID_WINDOW_SZ: the hold queue is twice the negotiated window.
HoldQSz == 2 * WinSz
Slots == 0..(HoldQSz - 1)

ASSUME ReorderAssumption ==
    /\ NumTids \in Nat \ {0} /\ WinSz \in Nat \ {0} /\ MaxFrames \in Nat \ {0}
    /\ SeqSpace \in Nat /\ SeqSpace % HoldQSz = 0 /\ SeqSpace >= 2 * HoldQSz
    /\ NoFrame \notin Frames
    /\ Peers \subseteq [first : 0..(SeqSpace - 1), frames : 1..MaxFrames, bars : BOOLEAN,
                       sessions : SUBSET {"addba", "delba", "reset", "reconnect", "nomem"},
                       timer : BOOLEAN]

Threads == {"rx", "timer"}

VARIABLES
    aggr,           \* tid -> a session is on and hold_q is allocated
    seqNext,        \* tid -> first sequence number of the window
    holdQ,          \* tid -> slot -> frame held there
    q,              \* tid -> frames released, to be dispatched
    lock,           \* tid -> holder of the lock, or "free"
    progress,       \* tid -> a frame arrived since the timer was started
    timerMon,       \* tid -> the timer runs for the sake of this TID
    timerScheduled, \* the connection's record of the timer
    timerPending,   \* the kernel's: the timer will expire
    connected,      \* dev # NULL
    delivered,      \* tid -> frames passed to the network stack, in order
    freed,          \* tid -> frames freed because nobody is connected
    peer,           \* which of Peers is at the other end
    base,           \* tid -> the peer's first outstanding frame
    arrived,        \* tid -> frames that reached the host
    pc,             \* thread -> where it is
    job,            \* thread -> arguments and locals of aggr_deque_frms
    hand,           \* thread -> frame taken off q, about to be delivered
    frame,          \* frame the receive thread works on
    event,          \* session event the receive thread works on
    visit           \* TID at which the timer's loops are

tidVars   == <<aggr, seqNext, holdQ, q, lock>>
flagVars  == <<progress, timerMon, timerScheduled, timerPending>>
outVars   == <<connected, delivered, freed>>
peerVars  == <<peer, base, arrived>>
localVars == <<pc, job, hand, frame, event, visit>>
vars == <<tidVars, flagVars, outVars, peerVars, localVars>>

Jobs == [tid : Tids, seqNo : 0..(SeqSpace - 1), order : {"ALL", "CONTIGUOUS"},
         then : {"idle", "pull", "store", "timer", "delete", "check"},
         idx : Slots, end : Slots]

NoJob == [tid |-> 0, seqNo |-> 0, order |-> "ALL", then |-> "idle", idx |-> 0, end |-> 0]

EmptyQ == [i \in Slots |-> NoFrame]

\* The connection is up and no session has been negotiated.
Init ==
    /\ aggr = [t \in Tids |-> FALSE]
    /\ seqNext = [t \in Tids |-> 0]
    /\ holdQ = [t \in Tids |-> EmptyQ]
    /\ q = [t \in Tids |-> <<>>]
    /\ lock = [t \in Tids |-> "free"]
    /\ progress = [t \in Tids |-> FALSE]
    /\ timerMon = [t \in Tids |-> FALSE]
    /\ timerScheduled = FALSE
    /\ timerPending = FALSE
    /\ connected = TRUE
    /\ delivered = [t \in Tids |-> <<>>]
    /\ freed = [t \in Tids |-> {}]
    /\ peer \in Peers
    /\ base = [t \in Tids |-> 0]
    /\ arrived = [t \in Tids |-> {}]
    /\ pc = [th \in Threads |-> "idle"]
    /\ job = [th \in Threads |-> NoJob]
    /\ hand = [th \in Threads |-> NoFrame]
    /\ frame = NoFrame
    /\ event = "none"
    /\ visit = 0

SeqNo(n) == (peer.first + n) % SeqSpace

\* Mutant: the sequence number does not wrap.
NextUnwrapped(x) == x + 1

NextSeqNo(x) == (x + 1) % SeqSpace

\* Mutant: the ring is used as if it were as large as the window.
WinIdxSingle(x) == x % WinSz

WinIdx(x) == x % HoldQSz

Goto(th, where) == pc' = [pc EXCEPT ![th] = where]

\* Call aggr_deque_frms(tid, seqNo, order), to go on with "then" afterwards.
Deque(th, t, seqNo, order, then) ==
    /\ job' = [job EXCEPT ![th] = [tid |-> t, seqNo |-> seqNo, order |-> order,
                                   then |-> then, idx |-> 0, end |-> 0]]
    /\ Goto(th, "aim")

-----------------------------------------------------------------------------
(***************************************************************************)
(* aggr_deque_frms: release the slots from the start of the window, up to  *)
(* seqNo or all the way round, into the dispatch queue.                    *)
(***************************************************************************)
\* The range of slots is computed before the lock is taken.  Without a session
\* there is no hold_q: a thread that gets here is modelled no further.
AimDeque(th) ==
    LET t == job[th].tid
        upTo == IF job[th].seqNo # 0 THEN job[th].seqNo ELSE seqNext[t]
    IN  /\ pc[th] = "aim"
        /\ aggr[t]
        /\ job' = [job EXCEPT ![th].idx = WinIdx(seqNext[t]), ![th].end = WinIdx(upTo)]
        /\ Goto(th, "release")
        /\ UNCHANGED <<tidVars, flagVars, outVars, peerVars, hand, frame, event, visit>>

\* An iteration of the loop under the lock: the window moves over one slot.
ReleaseSlot(th) ==
    LET t == job[th].tid
        i == job[th].idx
        stop == job[th].order = "CONTIGUOUS" /\ holdQ[t][i] = NoFrame
        next == WinIdx(NextSeqNo(seqNext[t]))
        last == stop \/ next = job[th].end
    IN  /\ pc[th] = "release"
        /\ aggr[t] /\ lock[t] \in {"free", th}
        /\ IF stop
           THEN UNCHANGED <<q, holdQ, seqNext, job>>
           ELSE /\ q' = IF holdQ[t][i] = NoFrame
                        THEN q ELSE [q EXCEPT ![t] = Append(@, holdQ[t][i])]
                /\ holdQ' = [holdQ EXCEPT ![t][i] = NoFrame]
                /\ seqNext' = [seqNext EXCEPT ![t] = NextSeqNo(@)]
                /\ job' = [job EXCEPT ![th].idx = next]
        /\ lock' = [lock EXCEPT ![t] = IF last THEN "free" ELSE th]
        /\ Goto(th, IF last THEN "dispatch" ELSE "release")
        /\ UNCHANGED <<aggr, flagVars, outVars, peerVars, hand, frame, event, visit>>

\* aggr_dispatch_frames, without the lock: dev is tested once.
DispatchFrames(th) ==
    /\ pc[th] = "dispatch"
    /\ Goto(th, IF connected THEN "drain" ELSE "discard")
    /\ UNCHANGED <<tidVars, flagVars, outVars, peerVars, job, hand, frame, event, visit>>

\* Mutant: a frame on its way to the stack keeps others from dispatching.
DispatchDoneOrBusy(t) == q[t] = <<>> \/ \E th \in Threads : pc[th] = "deliver"

DispatchDone(t) == q[t] = <<>>

\* Somebody was connected: a frame at a time to the stack.
DrainFrame(th) ==
    LET t == job[th].tid
    IN  /\ pc[th] = "drain"
        /\ ~DispatchDone(t)
        /\ q' = [q EXCEPT ![t] = Tail(@)]
        /\ hand' = [hand EXCEPT ![th] = Head(q[t])]
        /\ Goto(th, "deliver")
        /\ UNCHANGED <<aggr, seqNext, holdQ, lock, flagVars, outVars, peerVars, job, frame,
                       event, visit>>

\* dev is read again for each frame: a thread that finds it NULL by now is
\* modelled no further.
DeliverFrame(th) ==
    /\ pc[th] = "deliver" /\ connected
    /\ delivered' = [delivered EXCEPT ![job[th].tid] = Append(@, hand[th])]
    /\ hand' = [hand EXCEPT ![th] = NoFrame]
    /\ Goto(th, "drain")
    /\ UNCHANGED <<tidVars, flagVars, connected, freed, peerVars, job, frame, event, visit>>

\* Nobody was connected.
FreeFrame(th) ==
    LET t == job[th].tid
    IN  /\ pc[th] = "discard"
        /\ ~DispatchDone(t)
        /\ q' = [q EXCEPT ![t] = Tail(@)]
        /\ freed' = [freed EXCEPT ![t] = @ \cup {Head(q[t])}]
        /\ UNCHANGED <<aggr, seqNext, holdQ, lock, flagVars, connected, delivered, peerVars,
                       localVars>>

EndDispatch(th) ==
    /\ pc[th] \in {"drain", "discard"}
    /\ DispatchDone(job[th].tid)
    /\ Goto(th, job[th].then)
    /\ job' = [job EXCEPT ![th].seqNo = 0, ![th].idx = 0, ![th].end = 0]
    /\ UNCHANGED <<tidVars, flagVars, outVars, peerVars, hand, frame, event, visit>>

-----------------------------------------------------------------------------
(***************************************************************************)
(* aggr_process_recv_frm.                                                  *)
(***************************************************************************)
\* Mutant: a window that wraps has no outside.
OutsideNoWrap(cur, st, end) == st < end /\ (cur < st \/ cur > end)

\* Is cur outside the numbers from st to end, modulo SeqSpace?
Outside(cur, st, end) ==
    \/ st < end /\ (cur < st \/ cur > end)
    \/ st > end /\ cur > end /\ cur < st

\* Mutant: the window is one number too wide.
WindowEndPast(st) == (st + HoldQSz) % SeqSpace

WindowEnd(st) == (st + HoldQSz - 1) % SeqSpace

\* The start of the window whose last number is cur.
WindowEndingAt(cur) == (cur + SeqSpace - (HoldQSz - 1)) % SeqSpace

\* The peer's window: one frame at a time without a session.
Arrives(t, n) ==
    /\ n \in base[t]..(base[t] + (IF aggr[t] THEN WinSz ELSE 1) - 1)
    /\ n \notin arrived[t] /\ n < peer.frames

\* The frame and the check of its number against the window, which is read
\* without the lock.  Without a session the caller delivers the frame.
ReceiveFrame(t, n) ==
    LET cur == SeqNo(n)
        end == WindowEnd(seqNext[t])
        newStart == WindowEndingAt(cur)
    IN  /\ pc["rx"] = "idle" /\ connected
        /\ Arrives(t, n)
        /\ arrived' = [arrived EXCEPT ![t] = @ \cup {n}]
        /\ IF ~aggr[t]
           THEN /\ delivered' = [delivered EXCEPT ![t] = Append(@, n)]
                /\ UNCHANGED <<frame, job, pc>>
           ELSE /\ frame' = n
                /\ IF ~Outside(cur, seqNext[t], end)
                   THEN /\ Goto("rx", "store")
                        /\ job' = [job EXCEPT !["rx"].tid = t]
                   ELSE IF Outside(cur, end, WindowEnd(end))
                   THEN Deque("rx", t, 0, "ALL", "pull")
                   ELSE Deque("rx", t, newStart, "ALL", "store")
                /\ UNCHANGED delivered
        /\ event' = "frame"
        /\ UNCHANGED <<tidVars, flagVars, connected, freed, peer, base, hand, visit>>

\* A frame far outside: the window is set to end with it, without the lock.
PullWindow ==
    LET t == job["rx"].tid
    IN  /\ pc["rx"] = "pull"
        /\ seqNext' = [seqNext EXCEPT ![t] = WindowEndingAt(SeqNo(frame))]
        /\ Goto("rx", "store")
        /\ UNCHANGED <<aggr, holdQ, q, lock, flagVars, outVars, peerVars, job, hand,
                       frame, event, visit>>

\* Under the lock: whatever frame is in the slot is freed.
StoreFrame ==
    LET t == job["rx"].tid
    IN  /\ pc["rx"] = "store" /\ lock[t] = "free"
        /\ holdQ' = [holdQ EXCEPT ![t][WinIdx(SeqNo(frame))] = frame]
        /\ frame' = NoFrame
        /\ Deque("rx", t, 0, "CONTIGUOUS", "timer")
        /\ UNCHANGED <<aggr, seqNext, q, lock, flagVars, outVars, peerVars, hand, event,
                       visit>>

Holding(t) == \E i \in Slots : holdQ[t][i] # NoFrame

\* The receive thread sees to it that a timer runs while frames are held.
NoteProgress ==
    LET t == job["rx"].tid
    IN  /\ pc["rx"] = "timer"
        /\ IF timerScheduled
           THEN /\ progress' = [progress EXCEPT ![t] = TRUE]
                /\ Goto("rx", "idle")
           ELSE /\ Goto("rx", IF Holding(t) THEN "schedule" ELSE "idle")
                /\ UNCHANGED progress
        /\ UNCHANGED <<tidVars, timerMon, timerScheduled, timerPending, outVars,
                       peerVars, job, hand, frame, event, visit>>

ScheduleTimer ==
    /\ pc["rx"] = "schedule"
    /\ timerScheduled' = TRUE
    /\ Goto("rx", "arm")
    /\ UNCHANGED <<tidVars, progress, timerMon, timerPending, outVars, peerVars, job,
                   hand, frame, event, visit>>

ArmTimer ==
    /\ pc["rx"] = "arm"
    /\ timerPending' = TRUE
    /\ Goto("rx", "monitor")
    /\ UNCHANGED <<tidVars, progress, timerMon, timerScheduled, outVars, peerVars, job,
                   hand, frame, event, visit>>

MonitorTid ==
    LET t == job["rx"].tid
    IN  /\ pc["rx"] = "monitor"
        /\ progress' = [progress EXCEPT ![t] = FALSE]
        /\ timerMon' = [timerMon EXCEPT ![t] = TRUE]
        /\ Goto("rx", "idle")
        /\ UNCHANGED <<tidVars, timerScheduled, timerPending, outVars, peerVars, job,
                       hand, frame, event, visit>>

\* aggr_process_bar: the peer's window now starts at base.
ProcessBar(t) ==
    /\ pc["rx"] = "idle" /\ peer.bars /\ aggr[t]
    /\ Deque("rx", t, SeqNo(base[t]), "ALL", "idle")
    /\ event' = "bar"
    /\ UNCHANGED <<tidVars, flagVars, outVars, peerVars, hand, frame, visit>>

-----------------------------------------------------------------------------
(***************************************************************************)
(* Session events: ADDBA, DELBA and the reset on connect and disconnect.   *)
(***************************************************************************)
\* aggr_delete_tid_state first releases what is held.
DeleteTid(t) ==
    IF aggr[t]
    THEN Deque("rx", t, 0, "ALL", "delete")
    ELSE /\ job' = [job EXCEPT !["rx"].tid = t]
         /\ Goto("rx", "delete")

\* The peer negotiates with nothing outstanding.
Settled(t) == \A n \in arrived[t] : n < base[t]

RecvAddbaReq(t) ==
    /\ pc["rx"] = "idle" /\ connected /\ Settled(t)
    /\ aggr[t] => "addba" \in peer.sessions
    /\ event' = "addba"
    /\ IF aggr[t]
       THEN DeleteTid(t)
       ELSE /\ job' = [job EXCEPT !["rx"].tid = t]
            /\ Goto("rx", "install")
    /\ UNCHANGED <<tidVars, flagVars, outVars, peerVars, hand, frame, visit>>

RecvDelbaReq(t) ==
    /\ pc["rx"] = "idle" /\ connected /\ aggr[t] /\ "delba" \in peer.sessions
    /\ event' = "delba"
    /\ DeleteTid(t)
    /\ UNCHANGED <<tidVars, flagVars, outVars, peerVars, hand, frame, visit>>

\* aggr_reset_state: dev is NULL on a disconnect, and the device on a connect,
\* which may come while connected: what is held is then delivered, as by DELBA.
ResetState ==
    \E dev \in BOOLEAN :
        /\ pc["rx"] = "idle"
        /\ (IF connected /\ dev THEN "reconnect" ELSE "reset") \in peer.sessions
        /\ connected' = dev
        /\ event' = "reset"
        /\ DeleteTid(0)
        /\ UNCHANGED <<tidVars, flagVars, delivered, freed, peerVars, hand, frame, visit>>

DeleteTidState ==
    LET t == job["rx"].tid
    IN  /\ pc["rx"] = "delete"
        /\ aggr' = [aggr EXCEPT ![t] = FALSE]
        /\ progress' = [progress EXCEPT ![t] = FALSE]
        /\ timerMon' = [timerMon EXCEPT ![t] = FALSE]
        /\ seqNext' = [seqNext EXCEPT ![t] = 0]
        /\ holdQ' = [holdQ EXCEPT ![t] = EmptyQ]
        /\ IF event = "reset" /\ t + 1 \in Tids
           THEN DeleteTid(t + 1)
           ELSE /\ Goto("rx", IF event = "addba" THEN "install" ELSE "idle")
                /\ UNCHANGED job
        /\ UNCHANGED <<q, lock, timerScheduled, timerPending, outVars, peerVars, hand,
                       frame, event, visit>>

\* Without memory for hold_q the window is set all the same.
InstallTid ==
    LET t == job["rx"].tid
    IN  /\ pc["rx"] = "install"
        /\ seqNext' = [seqNext EXCEPT ![t] = SeqNo(base[t])]
        /\ holdQ' = [holdQ EXCEPT ![t] = EmptyQ]
        /\ \E ok \in (IF "nomem" \in peer.sessions THEN BOOLEAN ELSE {TRUE}) :
               aggr' = [aggr EXCEPT ![t] = ok]
        /\ Goto("rx", "idle")
        /\ UNCHANGED <<q, lock, flagVars, outVars, peerVars, job, hand, frame, event, visit>>

-----------------------------------------------------------------------------
(***************************************************************************)
(* aggr_timeout: flush the TIDs the timer was started for and that made no *)
(* progress, then start it again if frames are still held.                 *)
(***************************************************************************)
Expire ==
    /\ pc["timer"] = "idle" /\ peer.timer /\ timerPending
    /\ timerPending' = FALSE
    /\ visit' = 0
    /\ Goto("timer", "check")
    /\ UNCHANGED <<tidVars, progress, timerMon, timerScheduled, outVars, peerVars, job,
                   hand, frame, event>>

\* Mutant: a TID is flushed only if it progressed.
FlushMoving(t) == aggr[t] /\ timerMon[t] /\ progress[t]

Stuck(t) == aggr[t] /\ timerMon[t] /\ ~progress[t]

CheckTid ==
    /\ pc["timer"] = "check" /\ visit \in Tids
    /\ visit' = visit + 1
    /\ IF Stuck(visit)
       THEN Deque("timer", visit, 0, "ALL", "check")
       ELSE UNCHANGED <<job, pc>>
    /\ UNCHANGED <<tidVars, flagVars, outVars, peerVars, hand, frame, event>>

ClearScheduled ==
    /\ pc["timer"] = "check" /\ visit \notin Tids
    /\ timerScheduled' = FALSE
    /\ visit' = 0
    /\ Goto("timer", "scan")
    /\ UNCHANGED <<tidVars, progress, timerMon, timerPending, outVars, peerVars, job,
                   hand, frame, event>>

\* The slots are read without the lock, and the flags set afterwards.
ScanTid ==
    /\ pc["timer"] = "scan" /\ visit \in Tids
    /\ IF aggr[visit]
       THEN /\ Goto("timer", IF Holding(visit) THEN "keep" ELSE "forget")
            /\ UNCHANGED visit
       ELSE /\ visit' = visit + 1
            /\ UNCHANGED pc
    /\ UNCHANGED <<tidVars, flagVars, outVars, peerVars, job, hand, frame, event>>

KeepTimer ==
    /\ pc["timer"] = "keep"
    /\ timerScheduled' = TRUE
    /\ timerMon' = [timerMon EXCEPT ![visit] = TRUE]
    /\ progress' = [progress EXCEPT ![visit] = FALSE]
    /\ visit' = visit + 1
    /\ Goto("timer", "scan")
    /\ UNCHANGED <<tidVars, timerPending, outVars, peerVars, job, hand, frame, event>>

\* Mutant: a TID without frames takes the timer for unscheduled.
ForgetTimer ==
    /\ pc["timer"] = "forget"
    /\ timerMon' = [timerMon EXCEPT ![visit] = FALSE]
    /\ timerScheduled' = FALSE
    /\ visit' = visit + 1
    /\ Goto("timer", "scan")
    /\ UNCHANGED <<tidVars, progress, timerPending, outVars, peerVars, job, hand, frame,
                   event>>

ForgetTid ==
    /\ pc["timer"] = "forget"
    /\ timerMon' = [timerMon EXCEPT ![visit] = FALSE]
    /\ visit' = visit + 1
    /\ Goto("timer", "scan")
    /\ UNCHANGED <<tidVars, progress, timerScheduled, timerPending, outVars, peerVars,
                   job, hand, frame, event>>

RearmTimer ==
    /\ pc["timer"] = "scan" /\ visit \notin Tids
    /\ timerPending' = (timerPending \/ timerScheduled)
    /\ visit' = 0
    /\ Goto("timer", "idle")
    /\ UNCHANGED <<tidVars, progress, timerMon, timerScheduled, outVars, peerVars, job,
                   hand, frame, event>>

-----------------------------------------------------------------------------
(***************************************************************************)
(* The peer moves on from its first outstanding frame when that frame is   *)
(* acknowledged, or given up.                                              *)
(***************************************************************************)
PeerMovesOn(t) ==
    /\ base[t] < peer.frames
    /\ base' = [base EXCEPT ![t] = @ + 1]
    /\ UNCHANGED <<tidVars, flagVars, outVars, peer, arrived, localVars>>

DequeStep(th) ==
    \/ AimDeque(th) \/ ReleaseSlot(th)
    \/ DispatchFrames(th) \/ DrainFrame(th) \/ DeliverFrame(th) \/ FreeFrame(th)
    \/ EndDispatch(th)

RxStep ==
    \/ DequeStep("rx")
    \/ PullWindow \/ StoreFrame
    \/ NoteProgress \/ ScheduleTimer \/ ArmTimer \/ MonitorTid
    \/ DeleteTidState \/ InstallTid

TimerStep ==
    \/ Expire \/ CheckTid \/ DequeStep("timer") \/ ClearScheduled
    \/ ScanTid \/ KeepTimer \/ ForgetTid \/ RearmTimer

Indication(t) ==
    \/ \E n \in Frames : ReceiveFrame(t, n)
    \/ ProcessBar(t) \/ RecvAddbaReq(t) \/ RecvDelbaReq(t)

Next ==
    \/ RxStep \/ TimerStep
    \/ \E t \in Tids : Indication(t) \/ PeerMovesOn(t)
    \/ ResetState

Spec == Init /\ [][Next]_vars

\* A thread inside this code runs on, and a pending timer expires.
FairSpec == Spec /\ WF_vars(RxStep) /\ WF_vars(TimerStep)
-----------------------------------------------------------------------------
\* Type invariant.
TypeOK ==
    /\ aggr \in [Tids -> BOOLEAN]
    /\ seqNext \in [Tids -> 0..(SeqSpace - 1)]
    /\ holdQ \in [Tids -> [Slots -> Frames \cup {NoFrame}]]
    /\ q \in [Tids -> Seq(Frames)]
    /\ lock \in [Tids -> Threads \cup {"free"}]
    /\ progress \in [Tids -> BOOLEAN] /\ timerMon \in [Tids -> BOOLEAN]
    /\ timerScheduled \in BOOLEAN /\ timerPending \in BOOLEAN
    /\ connected \in BOOLEAN
    /\ delivered \in [Tids -> Seq(Frames)]
    /\ freed \in [Tids -> SUBSET Frames]
    /\ peer \in Peers
    /\ base \in [Tids -> 0..MaxFrames]
    /\ arrived \in [Tids -> SUBSET Frames]
    /\ pc \in [Threads -> {"idle", "aim", "release", "dispatch", "drain", "deliver",
                           "discard", "pull", "store", "timer", "schedule", "arm",
                           "monitor", "delete", "install", "check", "scan", "keep",
                           "forget"}]
    /\ job \in [Threads -> Jobs]
    /\ hand \in [Threads -> Frames \cup {NoFrame}]
    /\ frame \in Frames \cup {NoFrame}
    /\ event \in {"none", "frame", "bar", "addba", "delba", "reset"}
    /\ visit \in 0..NumTids

(***************************************************************************)
(* Frames are delivered in the order the peer numbered them, whatever is   *)
(* lost and however they arrive within its window, if nothing but the      *)
(* window decides when they leave: AGGR_RX_TIMEOUT is what may cause       *)
(* frames out of order, a block-ack request for the start of the window    *)
(* releases all that is behind it (aggr_deque_frms), and so do DELBA and a *)
(* connect event while connected.                                          *)
(* Numbers tell the frames of a window apart only if the peer does not     *)
(* give up as many frames as there are numbers.  And a window that is      *)
(* shifted to start at number 0 is released as a whole, and left with      *)
(* frames before it that are yet to arrive: those are delivered late.      *)
(***************************************************************************)
Numbered == peer.frames <= SeqSpace

ShiftsToZero == \E n \in HoldQSz..(peer.frames - 1) : WindowEndingAt(SeqNo(n)) = 0

OnlyTheWindow ==
    ~peer.timer /\ ~peer.bars /\ peer.sessions \cap {"delba", "reconnect"} = {}

DeliveredInOrder ==
    OnlyTheWindow /\ Numbered /\ ~ShiftsToZero =>
      \A t \in Tids : \A i, j \in DOMAIN delivered[t] :
        i < j => delivered[t][i] < delivered[t][j]

(***************************************************************************)
(* As long as no timeout passes, a frame that reached the host is          *)
(* somewhere: held, released, in hand or delivered, or freed after a       *)
(* disconnect.                                                             *)
(***************************************************************************)
HeldFrames(t) == {holdQ[t][i] : i \in Slots} \ {NoFrame}

InHand(t) ==
    {hand[th] : th \in {u \in Threads : job[u].tid = t}}
      \cup (IF job["rx"].tid = t THEN {frame} ELSE {})

NoFrameLost ==
    ~peer.timer /\ Numbered =>
      \A t \in Tids :
        arrived[t] \subseteq HeldFrames(t) \cup Elems(q[t]) \cup InHand(t)
                               \cup Elems(delivered[t]) \cup freed[t]

(***************************************************************************)
(* Between frames, what is held is in the slot of its number, and belongs  *)
(* to the current window, beyond its first number: that one would have     *)
(* been released.  (After a block-ack request it waits for the next frame.) *)
(***************************************************************************)
HeldInWindow ==
    pc["rx"] = "idle" /\ ~peer.timer =>
      \A t \in Tids, i \in Slots :
        holdQ[t][i] # NoFrame =>
          /\ i = WinIdx(SeqNo(holdQ[t][i]))
          /\ (SeqNo(holdQ[t][i]) - seqNext[t]) % SeqSpace \in
                 (IF peer.bars THEN 0 ELSE 1)..(HoldQSz - 1)

(***************************************************************************)
(* When neither thread is inside this code and a frame is held, the timer  *)
(* is running, although both threads set and clear its flags without a     *)
(* lock.                                                                   *)
(***************************************************************************)
HeldIsTimed ==
    (\A th \in Threads : pc[th] = "idle") /\ (\E t \in Tids : Holding(t)) =>
      timerScheduled /\ timerPending

\* aggr_timeout and the start of the timer: frames are not held for ever.
HeldFramesLeave ==
    \A t \in Tids, n \in Frames : n \in HeldFrames(t) ~> n \notin HeldFrames(t)

\* No frames are on q when a session is installed (the assertion in
\* aggr_recv_addba_req_evt), although the timer may be dispatching them.
QueueEmptyAtAddba ==
    pc["rx"] = "install" => q[job["rx"].tid] = <<>>

-----------------------------------------------------------------------------
(***************************************************************************)
(* What comments say of this code.                                         *)
(***************************************************************************)
\* aggr_process_recv_frm: "dequeue only those frames that are outside the new
\* shifted window".
OnlyOutsideDequeued ==
    [][\A t \in Tids : \A n \in HeldFrames(t) \ HeldFrames(t)' :
         pc["rx"] = "release" /\ job["rx"].then = "store" => n <= frame - HoldQSz]_vars
=============================================================================
