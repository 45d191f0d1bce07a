-------------------------- MODULE RxReorder_proofs --------------------------
(***************************************************************************)
(* Proofs about RxReorder, for any number of TIDs, any window, any peer.   *)
(***************************************************************************)
EXTENDS RxReorder, Queues_proofs

-----------------------------------------------------------------------------
(***************************************************************************)
(* The constants, and arithmetic modulo SeqSpace and HoldQSz.              *)
(***************************************************************************)
LEMMA Sizes ==
    /\ NumTids \in Nat \ {0} /\ 0 \in Tids /\ Tids \subseteq Int
    /\ HoldQSz \in Nat /\ HoldQSz >= 2 /\ 0 \in Slots
    /\ SeqSpace \in Nat /\ SeqSpace >= 2 * HoldQSz
    /\ MaxFrames \in Nat /\ NoFrame \notin Frames
  BY ReorderAssumption, Z3 DEF ReorderAssumption, Tids, HoldQSz, Slots

LEMMA ModType ==
    ASSUME NEW n \in Nat \ {0}, NEW a \in Int
    PROVE  a % n \in 0..(n - 1)
  BY Z3

LEMMA WinIdxType == ASSUME NEW x \in Int PROVE WinIdx(x) \in Slots
  BY ModType, Sizes DEF WinIdx, Slots

LEMMA PeerType ==
    ASSUME peer \in Peers
    PROVE  /\ peer.first \in 0..(SeqSpace - 1) /\ peer.frames \in 1..MaxFrames
           /\ peer.sessions \subseteq {"addba", "delba", "reset", "reconnect", "nomem"}
  BY ReorderAssumption DEF ReorderAssumption

LEMMA SeqNoType ==
    ASSUME peer \in Peers, NEW n \in Int PROVE SeqNo(n) \in 0..(SeqSpace - 1)
<1>1. peer.first + n \in Int /\ SeqSpace \in Nat \ {0}
  BY PeerType, Sizes
<1>2. (peer.first + n) % SeqSpace \in 0..(SeqSpace - 1)
  BY <1>1, ModType
<1> QED BY <1>2 DEF SeqNo

LEMMA SeqType ==
    ASSUME NEW s \in 0..(SeqSpace - 1)
    PROVE  /\ NextSeqNo(s) \in 0..(SeqSpace - 1)
           /\ WindowEnd(s) \in 0..(SeqSpace - 1)
           /\ WindowEndingAt(s) \in 0..(SeqSpace - 1)
<1>1. SeqSpace \in Nat \ {0}
  BY Sizes
<1>2. \A a \in Int : a % SeqSpace \in 0..(SeqSpace - 1)
  BY <1>1, ModType
<1>3. /\ s + 1 \in Int /\ s + HoldQSz - 1 \in Int
      /\ s + SeqSpace - (HoldQSz - 1) \in Int
  BY Sizes
<1> QED BY <1>2, <1>3 DEF NextSeqNo, WindowEnd, WindowEndingAt

-----------------------------------------------------------------------------
(***************************************************************************)
(* Types.  A frame is in hand where one is delivered or stored, and each   *)
(* thread is inside its own part of the code.                              *)
(***************************************************************************)
Dispatching == {"dispatch", "drain", "deliver", "discard"}
Dequeuing == {"aim", "release", "dispatch", "drain", "deliver", "discard"}

Dispatches(th) ==
    \/ DispatchFrames(th) \/ DrainFrame(th) \/ DeliverFrame(th) \/ FreeFrame(th)
    \/ EndDispatch(th)

Control ==
    /\ pc["timer"] \in {"idle", "check", "scan", "keep", "forget"} \cup Dequeuing
    /\ pc["timer"] \in {"keep", "forget"} => visit \in Tids
    /\ pc["timer"] \in Dequeuing => job["timer"].then = "check"
    /\ pc["rx"] \in {"idle", "pull", "store", "timer", "schedule", "arm", "monitor",
                     "delete", "install"} \cup Dequeuing
    /\ pc["rx"] \in Dequeuing =>
           job["rx"].then \in {"idle", "pull", "store", "timer", "delete"}
    /\ \/ pc["rx"] \in {"pull", "store"}
       \/ pc["rx"] \in Dequeuing /\ job["rx"].then \in {"pull", "store"}
       => frame \in Frames
    /\ \A th \in Threads : pc[th] = "deliver" => hand[th] \in Frames

TypeInv == TypeOK /\ Control

LEMMA InitTypeInv == Init => TypeInv
<1> SUFFICES ASSUME Init PROVE TypeInv
  OBVIOUS
<1>1. NoJob \in Jobs
  BY Sizes DEF NoJob, Jobs
<1>2. Control
  BY DEF Init, Control, Threads, Dequeuing
<1>3. SeqSpace - 1 \in Nat /\ 0 \in 0..(SeqSpace - 1) /\ 0 \in 0..MaxFrames /\ 0 \in 0..NumTids
  BY Sizes
<1>4. /\ seqNext \in [Tids -> 0..(SeqSpace - 1)] /\ base \in [Tids -> 0..MaxFrames]
      /\ visit \in 0..NumTids
  BY <1>3 DEF Init
<1>5. holdQ \in [Tids -> [Slots -> Frames \cup {NoFrame}]]
  BY DEF Init, EmptyQ
<1>6. TypeOK
  <2>1. /\ q \in [Tids -> Seq(Frames)] /\ delivered \in [Tids -> Seq(Frames)]
        /\ freed \in [Tids -> SUBSET Frames] /\ arrived \in [Tids -> SUBSET Frames]
    BY DEF Init
  <2>2. /\ aggr \in [Tids -> BOOLEAN] /\ progress \in [Tids -> BOOLEAN]
        /\ timerMon \in [Tids -> BOOLEAN]
    BY DEF Init
  <2> QED
    BY <1>1, <1>4, <1>5, <2>1, <2>2 DEF Init, TypeOK, Threads
<1> QED
  BY <1>2, <1>6 DEF TypeInv

\* A call of aggr_deque_frms.
LEMMA DequeType ==
    ASSUME TypeOK, NEW th \in Threads, NEW t \in Tids, NEW seqNo \in 0..(SeqSpace - 1),
           NEW order \in {"ALL", "CONTIGUOUS"},
           NEW then \in {"idle", "pull", "store", "timer", "delete", "check"},
           Deque(th, t, seqNo, order, then)
    PROVE  /\ job' \in [Threads -> Jobs]
           /\ job'[th].tid = t /\ job'[th].seqNo = seqNo
           /\ job'[th].order = order /\ job'[th].then = then
           /\ \A u \in Threads : u # th => job'[u] = job[u]
           /\ pc' = [pc EXCEPT ![th] = "aim"]
  BY Sizes DEF Deque, Goto, TypeOK, Jobs

LEMMA AimType ==
    ASSUME TypeInv, NEW th \in Threads, AimDeque(th) PROVE TypeInv'
<1> USE DEF TypeInv
<1> DEFINE t == job[th].tid
           upTo == IF job[th].seqNo # 0 THEN job[th].seqNo ELSE seqNext[t]
<1>1. job[th] \in Jobs /\ t \in Tids /\ seqNext[t] \in Int /\ upTo \in Int
  <2>1. job[th] \in Jobs /\ t \in Tids /\ job[th].seqNo \in 0..(SeqSpace - 1)
    BY DEF TypeOK, Jobs
  <2>2. seqNext[t] \in 0..(SeqSpace - 1)
    BY <2>1 DEF TypeOK
  <2> HIDE DEF t
  <2>3. \A x \in 0..(SeqSpace - 1) : x \in Int
    BY Sizes
  <2> QED BY <2>1, <2>2, <2>3
<1>2. WinIdx(seqNext[t]) \in Slots /\ WinIdx(upTo) \in Slots
  BY <1>1, WinIdxType
<1>3. /\ job' = [job EXCEPT ![th].idx = WinIdx(seqNext[t]), ![th].end = WinIdx(upTo)]
      /\ pc[th] = "aim" /\ pc' = [pc EXCEPT ![th] = "release"]
      /\ UNCHANGED <<aggr, seqNext, holdQ, q, lock, progress, timerMon, timerScheduled,
                     timerPending, connected, delivered, freed, peer, base, arrived,
                     hand, frame, event, visit>>
  BY DEF AimDeque, Goto, tidVars, flagVars, outVars, peerVars
<1> HIDE DEF upTo, t
<1>4. /\ job' \in [Threads -> Jobs] /\ \A u \in Threads : job'[u].then = job[u].then
  BY <1>1, <1>2, <1>3 DEF TypeOK, Jobs
<1>5. TypeOK'
  BY <1>3, <1>4 DEF TypeOK
<1>6. Control'
  BY <1>3, <1>4 DEF TypeOK, Control, Dequeuing, Threads
<1> QED BY <1>5, <1>6

LEMMA ReleaseType ==
    ASSUME TypeInv, NEW th \in Threads, ReleaseSlot(th) PROVE TypeInv'
<1> USE DEF TypeInv
<1> DEFINE t == job[th].tid
           i == job[th].idx
           next == WinIdx(NextSeqNo(seqNext[t]))
<1>1. /\ job[th] \in Jobs /\ t \in Tids /\ i \in Slots
      /\ holdQ[t][i] \in Frames \cup {NoFrame}
  BY DEF TypeOK, Jobs
<1>2. NextSeqNo(seqNext[t]) \in 0..(SeqSpace - 1) /\ next \in Slots
  <2>1. seqNext[t] \in 0..(SeqSpace - 1)
    BY <1>1 DEF TypeOK
  <2>2. NextSeqNo(seqNext[t]) \in 0..(SeqSpace - 1)
    BY <2>1, SeqType
  <2> QED BY <2>2, WinIdxType
<1>3. /\ pc[th] = "release" /\ pc' \in {[pc EXCEPT ![th] = "release"], [pc EXCEPT ![th] = "dispatch"]}
      /\ lock' \in {[lock EXCEPT ![t] = "free"], [lock EXCEPT ![t] = th]}
      /\ UNCHANGED <<aggr, progress, timerMon, timerScheduled, timerPending, connected,
                     delivered, freed, peer, base, arrived, hand, frame, event, visit>>
  BY DEF ReleaseSlot, Goto, flagVars, outVars, peerVars
<1>4. \/ UNCHANGED <<q, holdQ, seqNext, job>>
      \/ /\ q' = IF holdQ[t][i] = NoFrame
                 THEN q ELSE [q EXCEPT ![t] = Append(@, holdQ[t][i])]
         /\ holdQ' = [holdQ EXCEPT ![t][i] = NoFrame]
         /\ seqNext' = [seqNext EXCEPT ![t] = NextSeqNo(@)]
         /\ job' = [job EXCEPT ![th].idx = next]
  BY DEF ReleaseSlot
<1> HIDE DEF next, t, i
<1>5. /\ job' \in [Threads -> Jobs] /\ \A u \in Threads : job'[u].then = job[u].then
  <2>1. CASE job' = job
    BY <2>1 DEF TypeOK
  <2>2. CASE job' = [job EXCEPT ![th].idx = next]
    <3>1. /\ [job[th] EXCEPT !.idx = next] \in Jobs
          /\ [job[th] EXCEPT !.idx = next].then = job[th].then
      BY <1>1, <1>2 DEF Jobs
    <3> QED BY <2>2, <3>1 DEF TypeOK
  <2> QED BY <1>4, <2>1, <2>2
<1>6. seqNext' \in [Tids -> 0..(SeqSpace - 1)]
  <2>1. seqNext \in [Tids -> 0..(SeqSpace - 1)]
    BY DEF TypeOK
  <2>2. seqNext' \in {seqNext, [seqNext EXCEPT ![t] = NextSeqNo(seqNext[t])]}
    BY <1>4
  <2> QED BY <1>1, <1>2, <2>1, <2>2
<1>7. q' \in [Tids -> Seq(Frames)]
  <2>1. q \in [Tids -> Seq(Frames)] /\ q[t] \in Seq(Frames)
    BY <1>1 DEF TypeOK
  <2>2. holdQ[t][i] # NoFrame => Append(q[t], holdQ[t][i]) \in Seq(Frames)
    BY <1>1, <2>1
  <2> QED BY <1>1, <1>4, <2>1, <2>2
<1>8. holdQ' \in [Tids -> [Slots -> Frames \cup {NoFrame}]]
  <2>1. holdQ \in [Tids -> [Slots -> Frames \cup {NoFrame}]]
    BY DEF TypeOK
  <2>2. [holdQ[t] EXCEPT ![i] = NoFrame] \in [Slots -> Frames \cup {NoFrame}]
    BY <1>1, <2>1
  <2> QED BY <1>1, <1>4, <2>1, <2>2
<1>9. lock' \in [Tids -> Threads \cup {"free"}]
  BY <1>1, <1>3 DEF TypeOK
<1>10. TypeOK'
  BY <1>3, <1>5, <1>6, <1>7, <1>8, <1>9 DEF TypeOK
<1>11. Control'
  BY <1>3, <1>5 DEF TypeOK, Control, Dequeuing, Threads
<1> QED BY <1>10, <1>11

\* What a step of aggr_dispatch_frames leaves alone, and where it goes.
LEMMA DispatchEffect ==
    ASSUME TypeInv, NEW th \in Threads, Dispatches(th)
    PROVE  /\ UNCHANGED <<aggr, seqNext, holdQ, lock, progress, timerMon, timerScheduled,
                          timerPending, connected, peer, base, arrived, frame, event, visit>>
           /\ job[th].tid \in Tids /\ q[job[th].tid] \in Seq(Frames)
           /\ pc[th] \in Dispatching /\ pc' = [pc EXCEPT ![th] = pc'[th]]
           /\ \A u \in Threads : u # th => pc'[u] = pc[u] /\ hand'[u] = hand[u]
           /\ \A u \in Threads : u # th => job'[u] = job[u]
           /\ job'[th].tid = job[th].tid /\ job'[th].then = job[th].then
           /\ job' \in [Threads -> Jobs]
           /\ \/ pc'[th] \in Dispatching /\ job' = job
              \/ /\ EndDispatch(th) /\ pc[th] \in {"drain", "discard"}
                 /\ pc'[th] = job[th].then
                 /\ q[job[th].tid] = <<>> /\ UNCHANGED <<q, hand, delivered, freed>>
<1> USE DEF TypeInv
<1>1. job[th] \in Jobs /\ job[th].tid \in Tids /\ q[job[th].tid] \in Seq(Frames)
  BY DEF TypeOK, Jobs
<1>2. UNCHANGED <<aggr, seqNext, holdQ, lock, progress, timerMon, timerScheduled, timerPending,
                  connected, peer, base, arrived, frame, event, visit>>
  BY DEF Dispatches, DispatchFrames, DrainFrame, DeliverFrame, FreeFrame, EndDispatch, tidVars,
         flagVars, outVars, peerVars, localVars
<1>3. \A where : Goto(th, where) => /\ pc'[th] = where
                                    /\ pc' = [pc EXCEPT ![th] = pc'[th]]
                                    /\ \A u \in Threads : u # th => pc'[u] = pc[u]
  BY DEF Goto, TypeOK
<1>4. CASE DispatchFrames(th)
  BY <1>1, <1>2, <1>3, <1>4 DEF DispatchFrames, Dispatching, TypeOK
<1>5. CASE DrainFrame(th)
  BY <1>1, <1>2, <1>3, <1>5 DEF DrainFrame, Dispatching, TypeOK
<1>6. CASE DeliverFrame(th)
  BY <1>1, <1>2, <1>3, <1>6 DEF DeliverFrame, Dispatching, TypeOK
<1>7. CASE FreeFrame(th)
  BY <1>1, <1>2, <1>7 DEF FreeFrame, Dispatching, TypeOK, localVars
<1>8. CASE EndDispatch(th)
  <2>1. 0 \in 0..(SeqSpace - 1) /\ 0 \in Slots
    BY Sizes
  <2>2. /\ [job[th] EXCEPT !.seqNo = 0, !.idx = 0, !.end = 0] \in Jobs
        /\ [job[th] EXCEPT !.seqNo = 0, !.idx = 0, !.end = 0].then = job[th].then
        /\ [job[th] EXCEPT !.seqNo = 0, !.idx = 0, !.end = 0].tid = job[th].tid
    BY <1>1, <2>1 DEF Jobs
  <2>3. job' = [job EXCEPT ![th] = [job[th] EXCEPT !.seqNo = 0, !.idx = 0, !.end = 0]]
    BY <1>8 DEF EndDispatch, TypeOK
  <2>4. /\ pc[th] \in {"drain", "discard"} /\ Goto(th, job[th].then)
        /\ q[job[th].tid] = <<>> /\ UNCHANGED <<q, hand, delivered, freed>>
    BY <1>8 DEF EndDispatch, DispatchDone, tidVars, outVars
  <2> QED BY <1>1, <1>2, <1>3, <1>8, <2>2, <2>3, <2>4 DEF Dispatching, TypeOK
<1> QED BY <1>4, <1>5, <1>6, <1>7, <1>8 DEF Dispatches

LEMMA DispatchType ==
    ASSUME TypeInv, NEW th \in Threads, Dispatches(th)
    PROVE  TypeInv'
<1> USE DEF TypeInv
<1> DEFINE t == job[th].tid
<1>1. /\ t \in Tids /\ q[t] \in Seq(Frames)
      /\ q \in [Tids -> Seq(Frames)] /\ delivered \in [Tids -> Seq(Frames)]
      /\ freed \in [Tids -> SUBSET Frames] /\ hand \in [Threads -> Frames \cup {NoFrame}]
  BY DispatchEffect DEF TypeOK
<1>2. /\ q' \in [Tids -> Seq(Frames)] /\ delivered' \in [Tids -> Seq(Frames)]
      /\ freed' \in [Tids -> SUBSET Frames] /\ hand' \in [Threads -> Frames \cup {NoFrame}]
      /\ pc'[th] = "deliver" => hand'[th] \in Frames
  <2>1. CASE DispatchFrames(th)
    <3>1. UNCHANGED <<q, delivered, freed, hand>> /\ pc'[th] \in {"drain", "discard"}
      BY <2>1 DEF DispatchFrames, Goto, TypeOK, tidVars, outVars
    <3> QED BY <1>1, <3>1
  <2>2. CASE DrainFrame(th)
    <3>1. /\ q[t] # <<>> /\ q' = [q EXCEPT ![t] = Tail(@)]
          /\ hand' = [hand EXCEPT ![th] = Head(q[t])] /\ UNCHANGED <<delivered, freed>>
      BY <2>2 DEF DrainFrame, DispatchDone, outVars
    <3> HIDE DEF t
    <3>2. Tail(q[t]) \in Seq(Frames) /\ Head(q[t]) \in Frames
      BY <1>1, <3>1
    <3> QED BY <1>1, <3>1, <3>2
  <2>3. CASE DeliverFrame(th)
    <3>1. /\ pc[th] = "deliver" /\ pc'[th] = "drain"
          /\ delivered' = [delivered EXCEPT ![t] = Append(@, hand[th])]
          /\ hand' = [hand EXCEPT ![th] = NoFrame] /\ UNCHANGED <<q, freed>>
      BY <2>3 DEF DeliverFrame, Goto, TypeOK, tidVars
    <3> HIDE DEF t
    <3>2. hand[th] \in Frames
      BY <3>1 DEF Control
    <3> QED BY <1>1, <3>1, <3>2
  <2>4. CASE FreeFrame(th)
    <3>1. /\ q[t] # <<>> /\ q' = [q EXCEPT ![t] = Tail(@)] /\ pc[th] = "discard" /\ pc' = pc
          /\ freed' = [freed EXCEPT ![t] = @ \cup {Head(q[t])}] /\ UNCHANGED <<delivered, hand>>
      BY <2>4 DEF FreeFrame, DispatchDone, localVars
    <3> HIDE DEF t
    <3>2. Tail(q[t]) \in Seq(Frames) /\ Head(q[t]) \in Frames
      BY <1>1, <3>1
    <3> QED BY <1>1, <3>1, <3>2
  <2>5. CASE EndDispatch(th)
    <3>1. /\ UNCHANGED <<q, delivered, freed, hand>> /\ pc'[th] = job[th].then
      BY <2>5 DEF EndDispatch, Goto, TypeOK, tidVars, outVars
    <3>2. job[th].then # "deliver"
      BY <1>1 DEF TypeOK, Jobs
    <3> QED BY <1>1, <3>1, <3>2
  <2> QED BY <2>1, <2>2, <2>3, <2>4, <2>5 DEF Dispatches
<1> HIDE DEF t
<1>3. pc' \in [Threads -> {"idle", "aim", "release", "dispatch", "drain", "deliver", "discard",
                           "pull", "store", "timer", "schedule", "arm", "monitor", "delete",
                           "install", "check", "scan", "keep", "forget"}]
  <2>1. job[th].then \in {"idle", "pull", "store", "timer", "delete", "check"}
    BY DEF TypeOK, Jobs
  <2>2. pc' = [pc EXCEPT ![th] = pc'[th]] /\ pc'[th] \in Dispatching \cup {job[th].then}
    BY DispatchEffect
  <2> QED BY <2>1, <2>2 DEF TypeOK, Dispatching
<1>4. TypeOK'
  BY <1>2, <1>3, DispatchEffect DEF TypeOK
<1>5. Control'
  <2>1. \A u \in Threads : job'[u].then = job[u].then
    BY DispatchEffect
  <2>2. \A u \in Threads : u # th => pc'[u] = pc[u] /\ hand'[u] = hand[u]
    BY DispatchEffect
  <2>3. /\ pc[th] \in Dispatching /\ pc'[th] \in Dispatching \cup {job[th].then}
        /\ UNCHANGED <<frame, visit>>
    BY DispatchEffect
  <2> QED BY <1>2, <2>1, <2>2, <2>3 DEF Control, Dequeuing, Dispatching, Threads
<1> QED BY <1>4, <1>5

\* The thread's job when it calls aggr_deque_frms for a TID, or only notes it.
LEMMA NewJobType ==
    ASSUME TypeInv, NEW t \in Tids,
           \/ job' = [job EXCEPT !["rx"].tid = t]
           \/ \E seqNo \in 0..(SeqSpace - 1), order \in {"ALL", "CONTIGUOUS"},
                then \in {"idle", "pull", "store", "timer", "delete", "check"} :
                job' = [job EXCEPT !["rx"] = [tid |-> t, seqNo |-> seqNo, order |-> order,
                                              then |-> then, idx |-> 0, end |-> 0]]
    PROVE  job' \in [Threads -> Jobs] /\ job'["timer"] = job["timer"]
<1>1. job["rx"] \in Jobs /\ "rx" \in Threads
  BY DEF TypeInv, TypeOK, Threads
<1>2. CASE job' = [job EXCEPT !["rx"].tid = t]
  <2>1. [job["rx"] EXCEPT !.tid = t] \in Jobs
    BY <1>1 DEF Jobs
  <2> QED BY <1>1, <1>2, <2>1 DEF TypeInv, TypeOK, Threads
<1>3. CASE job' # [job EXCEPT !["rx"].tid = t]
  <2>1. PICK seqNo \in 0..(SeqSpace - 1), order \in {"ALL", "CONTIGUOUS"},
             then \in {"idle", "pull", "store", "timer", "delete", "check"} :
                job' = [job EXCEPT !["rx"] = [tid |-> t, seqNo |-> seqNo, order |-> order,
                                              then |-> then, idx |-> 0, end |-> 0]]
    BY <1>3
  <2>2. [tid |-> t, seqNo |-> seqNo, order |-> order,
         then |-> then, idx |-> 0, end |-> 0] \in Jobs
    BY Sizes DEF Jobs
  <2> QED BY <1>1, <2>1, <2>2 DEF TypeInv, TypeOK, Threads
<1> QED BY <1>2, <1>3

\* DeleteTid notes the TID, and calls aggr_deque_frms if it has a session.
LEMMA DeleteTidStep ==
    ASSUME TypeInv, NEW t \in Tids, DeleteTid(t)
    PROVE  /\ job' \in [Threads -> Jobs] /\ job'["timer"] = job["timer"]
           /\ job'["rx"].tid = t
           /\ aggr[t] => pc' = [pc EXCEPT !["rx"] = "aim"] /\ job'["rx"].then = "delete"
                         /\ job'["rx"].order = "ALL" /\ job'["rx"].seqNo = 0
           /\ ~aggr[t] => pc' = [pc EXCEPT !["rx"] = "delete"]
<1>1. CASE aggr[t]
  <2>1. Deque("rx", t, 0, "ALL", "delete")
    BY <1>1 DEF DeleteTid
  <2>2. 0 \in 0..(SeqSpace - 1) /\ "rx" \in Threads /\ "timer" \in Threads
    BY Sizes DEF Threads
  <2> QED BY <1>1, <2>1, <2>2, DequeType DEF TypeInv
<1>2. CASE ~aggr[t]
  <2>1. job' = [job EXCEPT !["rx"].tid = t] /\ pc' = [pc EXCEPT !["rx"] = "delete"]
    BY <1>2 DEF DeleteTid, Goto
  <2>2. job'["rx"].tid = t
    BY <2>1 DEF TypeInv, TypeOK, Jobs, Threads
  <2> QED BY <1>2, <2>1, <2>2, NewJobType
<1> QED BY <1>1, <1>2

LEMMA ReceiveFrameType ==
    ASSUME TypeInv, NEW t \in Tids, NEW n \in Frames, ReceiveFrame(t, n)
    PROVE  TypeInv'
<1> USE DEF TypeInv
<1> DEFINE cur == SeqNo(n)
           end == WindowEnd(seqNext[t])
           newStart == WindowEndingAt(cur)
<1>1. cur \in 0..(SeqSpace - 1) /\ newStart \in 0..(SeqSpace - 1) /\ 0 \in 0..(SeqSpace - 1)
  <2>1. n \in Int
    BY Sizes DEF Frames
  <2>2. cur \in 0..(SeqSpace - 1)
    BY <2>1, SeqNoType DEF TypeOK
  <2> HIDE DEF cur
  <2> QED BY <2>2, SeqType, Sizes
<1>2. /\ pc["rx"] = "idle"
      /\ arrived' = [arrived EXCEPT ![t] = @ \cup {n}] /\ event' = "frame"
      /\ UNCHANGED <<aggr, seqNext, holdQ, q, lock, progress, timerMon, timerScheduled,
                     timerPending, connected, freed, peer, base, hand, visit>>
  BY DEF ReceiveFrame, tidVars, flagVars
<1>3. \/ /\ delivered' = [delivered EXCEPT ![t] = Append(@, n)]
         /\ UNCHANGED <<frame, job, pc>>
      \/ /\ frame' = n /\ delivered' = delivered
         /\ \/ Goto("rx", "store") /\ job' = [job EXCEPT !["rx"].tid = t]
            \/ Deque("rx", t, 0, "ALL", "pull")
            \/ Deque("rx", t, newStart, "ALL", "store")
  BY DEF ReceiveFrame
<1> HIDE DEF newStart
<1>4. /\ job' \in [Threads -> Jobs] /\ job'["timer"] = job["timer"]
      /\ \/ pc' = pc /\ job' = job /\ frame' = frame
         \/ pc' = [pc EXCEPT !["rx"] = "store"] /\ frame' = n
         \/ pc' = [pc EXCEPT !["rx"] = "aim"] /\ job'["rx"].then \in {"pull", "store"} /\ frame' = n
  <2>1. CASE job' = job /\ pc' = pc /\ frame' = frame
    BY <2>1 DEF TypeOK
  <2>2. CASE Goto("rx", "store") /\ job' = [job EXCEPT !["rx"].tid = t] /\ frame' = n
    BY <2>2, NewJobType DEF Goto
  <2>3. CASE Deque("rx", t, 0, "ALL", "pull") /\ frame' = n
    <3>1. /\ job' \in [Threads -> Jobs] /\ job'["rx"].then = "pull"
          /\ \A u \in Threads : u # "rx" => job'[u] = job[u]
          /\ pc' = [pc EXCEPT !["rx"] = "aim"]
      BY <2>3, <1>1, DequeType DEF Threads
    <3> QED BY <2>3, <3>1 DEF Threads
  <2>4. CASE Deque("rx", t, newStart, "ALL", "store") /\ frame' = n
    <3>1. /\ job' \in [Threads -> Jobs] /\ job'["rx"].then = "store"
          /\ \A u \in Threads : u # "rx" => job'[u] = job[u]
          /\ pc' = [pc EXCEPT !["rx"] = "aim"]
      BY <2>4, <1>1, DequeType DEF Threads
    <3> QED BY <2>4, <3>1 DEF Threads
  <2> QED BY <1>3, <2>1, <2>2, <2>3, <2>4
<1>5. delivered' \in [Tids -> Seq(Frames)] /\ arrived' \in [Tids -> SUBSET Frames]
  <2>1. delivered \in [Tids -> Seq(Frames)] /\ arrived \in [Tids -> SUBSET Frames]
    BY DEF TypeOK
  <2>2. Append(delivered[t], n) \in Seq(Frames) /\ arrived[t] \cup {n} \in SUBSET Frames
    BY <2>1
  <2> QED BY <1>2, <1>3, <2>1, <2>2
<1>6. TypeOK'
  BY <1>2, <1>4, <1>5 DEF TypeOK
<1>7. Control'
  BY <1>2, <1>4 DEF TypeOK, Control, Dequeuing, Threads
<1> QED BY <1>6, <1>7

LEMMA StoreFrameType ==
    ASSUME TypeInv, PullWindow \/ StoreFrame PROVE TypeInv'
<1> USE DEF TypeInv
<1> DEFINE t == job["rx"].tid
           cur == SeqNo(frame)
<1>1. t \in Tids /\ frame \in Frames /\ pc["rx"] \in {"pull", "store"}
  BY DEF TypeOK, Jobs, Threads, PullWindow, StoreFrame, Control
<1>2. cur \in 0..(SeqSpace - 1) /\ cur \in Int
  <2>1. frame \in Int
    BY <1>1, Sizes DEF Frames
  <2>2. cur \in 0..(SeqSpace - 1)
    BY <2>1, SeqNoType DEF TypeOK
  <2> HIDE DEF cur
  <2> QED BY <2>2, Sizes
<1>3. WindowEndingAt(cur) \in 0..(SeqSpace - 1) /\ WinIdx(cur) \in Slots
  <2> HIDE DEF cur
  <2> QED BY <1>2, SeqType, WinIdxType
<1>4. CASE PullWindow
  <2>1. /\ seqNext' = [seqNext EXCEPT ![t] = WindowEndingAt(cur)]
        /\ pc' = [pc EXCEPT !["rx"] = "store"]
        /\ UNCHANGED <<aggr, holdQ, q, lock, progress, timerMon, timerScheduled, timerPending,
                       connected, delivered, freed, peer, base, arrived, job, hand, frame,
                       event, visit>>
    BY <1>4 DEF PullWindow, Goto, flagVars, outVars, peerVars
  <2> HIDE DEF cur, t
  <2>2. TypeOK'
    BY <1>1, <1>3, <2>1 DEF TypeOK
  <2>3. Control'
    BY <1>1, <2>1 DEF TypeOK, Control, Dequeuing, Threads
  <2> QED BY <2>2, <2>3
<1>5. CASE StoreFrame
  <2>1. /\ holdQ' = [holdQ EXCEPT ![t][WinIdx(cur)] = frame]
        /\ frame' = NoFrame
        /\ Deque("rx", t, 0, "CONTIGUOUS", "timer")
        /\ UNCHANGED <<aggr, seqNext, q, lock, progress, timerMon, timerScheduled, timerPending,
                       connected, delivered, freed, peer, base, arrived, hand, event, visit>>
    BY <1>5 DEF StoreFrame, flagVars, outVars, peerVars
  <2>2. /\ job' \in [Threads -> Jobs] /\ job'["rx"].then = "timer"
        /\ job'["timer"] = job["timer"] /\ pc' = [pc EXCEPT !["rx"] = "aim"]
    <3>1. 0 \in 0..(SeqSpace - 1) /\ "rx" \in Threads /\ "timer" \in Threads
      BY Sizes DEF Threads
    <3> QED BY <1>1, <2>1, <3>1, DequeType
  <2> HIDE DEF cur, t
  <2>3. holdQ' \in [Tids -> [Slots -> Frames \cup {NoFrame}]]
    <3>1. holdQ \in [Tids -> [Slots -> Frames \cup {NoFrame}]]
      BY DEF TypeOK
    <3>2. [holdQ[t] EXCEPT ![WinIdx(cur)] = frame] \in [Slots -> Frames \cup {NoFrame}]
      BY <1>1, <1>3, <3>1
    <3> QED BY <1>1, <2>1, <3>1, <3>2
  <2>4. TypeOK'
    BY <2>1, <2>2, <2>3 DEF TypeOK
  <2>5. Control'
    BY <1>1, <2>1, <2>2 DEF TypeOK, Control, Dequeuing, Threads
  <2> QED BY <2>4, <2>5
<1> QED BY <1>4, <1>5

LEMMA TimerOfRxType ==
    ASSUME TypeInv, NoteProgress \/ ScheduleTimer \/ ArmTimer \/ MonitorTid
    PROVE  TypeInv'
<1> USE DEF TypeInv
<1>1. /\ UNCHANGED <<aggr, seqNext, holdQ, q, lock, connected, delivered, freed, peer, base,
                     arrived, job, hand, frame, event, visit>>
      /\ pc["rx"] \in {"timer", "schedule", "arm", "monitor"}
      /\ \E where \in {"idle", "schedule", "arm", "monitor"} : pc' = [pc EXCEPT !["rx"] = where]
  BY DEF NoteProgress, ScheduleTimer, ArmTimer, MonitorTid, Goto, tidVars, outVars, peerVars
<1>2. /\ progress' \in [Tids -> BOOLEAN] /\ timerMon' \in [Tids -> BOOLEAN]
      /\ timerScheduled' \in BOOLEAN /\ timerPending' \in BOOLEAN
  <2>1. \E t \in Tids : /\ progress' \in {progress, [progress EXCEPT ![t] = TRUE],
                                           [progress EXCEPT ![t] = FALSE]}
                        /\ timerMon' \in {timerMon, [timerMon EXCEPT ![t] = TRUE]}
    BY DEF NoteProgress, ScheduleTimer, ArmTimer, MonitorTid, TypeOK, Jobs, Threads
  <2> QED BY <2>1 DEF TypeOK, NoteProgress, ScheduleTimer, ArmTimer, MonitorTid
<1>3. TypeOK'
  <2>1. pc' \in [Threads -> {"idle", "aim", "release", "dispatch", "drain", "deliver", "discard",
                               "pull", "store", "timer", "schedule", "arm", "monitor",
                               "delete", "install", "check", "scan", "keep", "forget"}]
    BY <1>1 DEF TypeOK
  <2> QED BY <1>1, <1>2, <2>1, SMTT(30) DEF TypeOK
<1>4. Control'
  BY <1>1 DEF TypeOK, Control, Dequeuing, Threads
<1> QED BY <1>3, <1>4

LEMMA SessionType ==
    ASSUME TypeInv, NEW t \in Tids,
           ProcessBar(t) \/ RecvAddbaReq(t) \/ RecvDelbaReq(t) \/ ResetState
    PROVE  TypeInv'
<1> USE DEF TypeInv
<1>1. /\ UNCHANGED <<aggr, seqNext, holdQ, q, lock, progress, timerMon, timerScheduled,
                     timerPending, delivered, freed, peer, base, arrived, hand, frame, visit>>
      /\ pc["rx"] = "idle" /\ connected' \in BOOLEAN
      /\ event' \in {"bar", "addba", "delba", "reset"}
  BY DEF ProcessBar, RecvAddbaReq, RecvDelbaReq, ResetState, tidVars, flagVars, outVars,
         peerVars, TypeOK
<1>2. /\ job' \in [Threads -> Jobs] /\ job'["timer"] = job["timer"]
      /\ \/ pc' = [pc EXCEPT !["rx"] = "aim"] /\ job'["rx"].then \in {"idle", "delete"}
         \/ pc' = [pc EXCEPT !["rx"] = "delete"] \/ pc' = [pc EXCEPT !["rx"] = "install"]
  <2>1. CASE ProcessBar(t)
    <3>1. Deque("rx", t, SeqNo(base[t]), "ALL", "idle")
      BY <2>1 DEF ProcessBar
    <3>2. SeqNo(base[t]) \in 0..(SeqSpace - 1)
      <4>1. base[t] \in Int
        BY Sizes DEF TypeOK
      <4> QED BY <4>1, SeqNoType DEF TypeOK
    <3> HIDE DEF TypeInv
    <3> QED BY <3>1, <3>2, DequeType DEF Threads, TypeInv
  <2>2. CASE \E u \in Tids : DeleteTid(u)
    BY <2>2, DeleteTidStep DEF TypeOK
  <2>3. CASE job' = [job EXCEPT !["rx"].tid = t] /\ Goto("rx", "install")
    BY <2>3, NewJobType DEF Goto
  <2> QED BY <2>1, <2>2, <2>3, Sizes DEF RecvAddbaReq, RecvDelbaReq, ResetState
<1>3. TypeOK'
  BY <1>1, <1>2 DEF TypeOK
<1>4. Control'
  BY <1>1, <1>2 DEF TypeOK, Control, Dequeuing, Threads
<1> QED BY <1>3, <1>4

LEMMA DeleteTidStateType == ASSUME TypeInv, DeleteTidState PROVE TypeInv'
<1> USE DEF TypeInv
<1> DEFINE t == job["rx"].tid
<1>1. t \in Tids
  BY DEF TypeOK, Jobs, Threads
<1>2. /\ pc["rx"] = "delete"
      /\ aggr' = [aggr EXCEPT ![t] = FALSE]
      /\ progress' = [progress EXCEPT ![t] = FALSE]
      /\ timerMon' = [timerMon EXCEPT ![t] = FALSE]
      /\ seqNext' = [seqNext EXCEPT ![t] = 0]
      /\ holdQ' = [holdQ EXCEPT ![t] = EmptyQ]
      /\ \/ t + 1 \in Tids /\ DeleteTid(t + 1)
         \/ job' = job /\ \E where \in {"install", "idle"} : pc' = [pc EXCEPT !["rx"] = where]
      /\ UNCHANGED <<q, lock, timerScheduled, timerPending, connected, delivered, freed, peer,
                     base, arrived, hand, frame, event, visit>>
  BY DEF DeleteTidState, Goto, outVars, peerVars
<1> HIDE DEF t
<1>3. /\ job' \in [Threads -> Jobs] /\ job'["timer"] = job["timer"]
      /\ \/ pc' = [pc EXCEPT !["rx"] = "aim"] /\ job'["rx"].then = "delete"
         \/ \E where \in {"delete", "install", "idle"} : pc' = [pc EXCEPT !["rx"] = where]
  <2>1. CASE job' = job /\ \E where \in {"install", "idle"} : pc' = [pc EXCEPT !["rx"] = where]
    BY <2>1 DEF TypeOK
  <2>2. CASE t + 1 \in Tids /\ DeleteTid(t + 1)
    <3> HIDE DEF TypeInv
    <3> QED BY <2>2, DeleteTidStep DEF TypeInv
  <2> QED BY <1>2, <2>1, <2>2
<1>4. /\ aggr' \in [Tids -> BOOLEAN] /\ progress' \in [Tids -> BOOLEAN]
      /\ timerMon' \in [Tids -> BOOLEAN]
  BY <1>1, <1>2 DEF TypeOK
<1>5. /\ seqNext' \in [Tids -> 0..(SeqSpace - 1)]
      /\ holdQ' \in [Tids -> [Slots -> Frames \cup {NoFrame}]]
  <2>1. 0 \in 0..(SeqSpace - 1)
    BY Sizes
  <2> QED BY <1>1, <1>2, <2>1 DEF TypeOK, EmptyQ
<1>6. TypeOK'
  <2>1. pc' \in [Threads -> {"idle", "aim", "release", "dispatch", "drain", "deliver", "discard", "pull",
                            "store", "timer", "schedule", "arm", "monitor", "delete",
                            "install", "check", "scan", "keep", "forget"}]
    BY <1>3 DEF TypeOK
  <2> QED BY <1>2, <1>3, <1>4, <1>5, <2>1 DEF TypeOK
<1>7. Control'
  BY <1>2, <1>3 DEF TypeOK, Control, Dequeuing, Threads
<1> QED BY <1>6, <1>7

LEMMA InstallTidType == ASSUME TypeInv, InstallTid PROVE TypeInv'
<1> USE DEF TypeInv
<1> DEFINE t == job["rx"].tid
<1>1. t \in Tids
  BY DEF TypeOK, Jobs, Threads
<1>2. /\ pc["rx"] = "install" /\ pc' = [pc EXCEPT !["rx"] = "idle"]
      /\ seqNext' = [seqNext EXCEPT ![t] = SeqNo(base[t])]
      /\ holdQ' = [holdQ EXCEPT ![t] = EmptyQ]
      /\ \E ok \in BOOLEAN : aggr' = [aggr EXCEPT ![t] = ok]
      /\ UNCHANGED <<q, lock, progress, timerMon, timerScheduled, timerPending, connected,
                     delivered, freed, peer, base, arrived, job, hand, frame, event, visit>>
  BY DEF InstallTid, Goto, flagVars, outVars, peerVars
<1> HIDE DEF t
<1>3. SeqNo(base[t]) \in 0..(SeqSpace - 1)
  <2>1. base[t] \in Int
    BY <1>1, Sizes DEF TypeOK
  <2> QED BY <2>1, SeqNoType DEF TypeOK
<1>4. /\ aggr' \in [Tids -> BOOLEAN] /\ seqNext' \in [Tids -> 0..(SeqSpace - 1)]
      /\ holdQ' \in [Tids -> [Slots -> Frames \cup {NoFrame}]]
  BY <1>1, <1>2, <1>3 DEF TypeOK, EmptyQ
<1>5. TypeOK'
  BY <1>2, <1>4 DEF TypeOK
<1>6. Control'
  BY <1>2 DEF TypeOK, Control, Dequeuing, Threads
<1> QED BY <1>5, <1>6

LEMMA TimeoutType ==
    ASSUME TypeInv,
           \/ Expire \/ CheckTid \/ ClearScheduled \/ ScanTid \/ KeepTimer \/ ForgetTid
           \/ RearmTimer
    PROVE  TypeInv'
<1> USE DEF TypeInv
<1>1. UNCHANGED <<aggr, seqNext, holdQ, q, lock, connected, delivered, freed, peer, base,
                  arrived, hand, frame, event>>
  BY DEF Expire, CheckTid, ClearScheduled, ScanTid, KeepTimer, ForgetTid, RearmTimer,
         tidVars, outVars, peerVars
<1>2. /\ progress' \in [Tids -> BOOLEAN] /\ timerMon' \in [Tids -> BOOLEAN]
      /\ timerScheduled' \in BOOLEAN /\ timerPending' \in BOOLEAN
  <2>1. /\ progress' \in {progress, [progress EXCEPT ![visit] = FALSE]}
        /\ timerMon' \in {timerMon, [timerMon EXCEPT ![visit] = TRUE],
                          [timerMon EXCEPT ![visit] = FALSE]}
    BY DEF Expire, CheckTid, ClearScheduled, ScanTid, KeepTimer, ForgetTid, RearmTimer,
           flagVars
  <2>2. timerScheduled' \in BOOLEAN /\ timerPending' \in BOOLEAN
    BY DEF TypeOK, Expire, CheckTid, ClearScheduled, ScanTid, KeepTimer, ForgetTid,
           RearmTimer, flagVars
  <2> QED BY <2>1, <2>2 DEF TypeOK
<1>3. visit' \in 0..NumTids
  <2>1. visit \in Tids => visit + 1 \in 0..NumTids
    BY Sizes DEF Tids
  <2>2. 0 \in 0..NumTids
    BY Sizes
  <2> QED BY <2>1, <2>2 DEF Expire, CheckTid, ClearScheduled, ScanTid, KeepTimer, ForgetTid,
                            RearmTimer, TypeOK, Control
<1>4. /\ job' \in [Threads -> Jobs] /\ job'["rx"] = job["rx"]
      /\ \/ pc' = pc /\ job' = job /\ pc["timer"] \in {"check", "scan"}
         \/ \E where \in {"idle", "check", "scan"} :
              pc' = [pc EXCEPT !["timer"] = where] /\ job' = job
         \/ \E where \in {"keep", "forget"} :
              pc' = [pc EXCEPT !["timer"] = where] /\ job' = job /\ visit \in Tids /\ visit' = visit
         \/ pc' = [pc EXCEPT !["timer"] = "aim"] /\ job'["timer"].then = "check"
  <2>1. CASE CheckTid /\ Stuck(visit)
    <3>1. Deque("timer", visit, 0, "ALL", "check") /\ visit \in Tids
      BY <2>1 DEF CheckTid
    <3>2. 0 \in 0..(SeqSpace - 1)
      BY Sizes
    <3> QED BY <3>1, <3>2, DequeType DEF Threads
  <2>2. CASE ~(CheckTid /\ Stuck(visit))
    BY <2>2 DEF Expire, CheckTid, ClearScheduled, ScanTid, KeepTimer, ForgetTid,
                RearmTimer, Goto, TypeOK
  <2> QED BY <2>1, <2>2
<1>5. TypeOK'
  <2>1. pc' \in [Threads -> {"idle", "aim", "release", "dispatch", "drain", "deliver", "discard",
                               "pull", "store", "timer", "schedule", "arm", "monitor",
                               "delete", "install", "check", "scan", "keep", "forget"}]
    BY <1>4 DEF TypeOK
  <2>2. job' \in [Threads -> Jobs]
    BY <1>4
  <2> QED BY <1>1, <1>2, <1>3, <2>1, <2>2, SMTT(30) DEF TypeOK
<1>6. Control'
  BY <1>1, <1>4 DEF TypeOK, Control, Dequeuing, Threads
<1> QED BY <1>5, <1>6

LEMMA PeerMovesOnType == ASSUME TypeInv, NEW t \in Tids, PeerMovesOn(t) PROVE TypeInv'
<1>1. /\ base[t] < peer.frames /\ base' = [base EXCEPT ![t] = @ + 1]
      /\ UNCHANGED <<aggr, seqNext, holdQ, q, lock, progress, timerMon, timerScheduled,
                     timerPending, connected, delivered, freed, peer, arrived, pc, job, hand,
                     frame, event, visit>>
  BY DEF PeerMovesOn, tidVars, flagVars, outVars, localVars
<1>2. base' \in [Tids -> 0..MaxFrames]
  <2>1. base \in [Tids -> 0..MaxFrames] /\ peer.frames \in 1..MaxFrames
    BY PeerType DEF TypeInv, TypeOK
  <2>2. base[t] + 1 \in 0..MaxFrames
    BY <1>1, <2>1, Sizes
  <2> QED BY <1>1, <2>1, <2>2
<1> QED BY <1>1, <1>2 DEF TypeInv, TypeOK, Control, Dequeuing

LEMMA NextTypeInv == TypeInv /\ [Next]_vars => TypeInv'
<1> SUFFICES ASSUME TypeInv, [Next]_vars PROVE TypeInv'
  OBVIOUS
<1>1. CASE UNCHANGED vars
  BY <1>1 DEF vars, tidVars, flagVars, outVars, peerVars, localVars, TypeInv, TypeOK, Control,
              Dequeuing
<1>2. ASSUME NEW th \in Threads, DequeStep(th) PROVE TypeInv'
  BY <1>2, AimType, ReleaseType, DispatchType DEF DequeStep, Dispatches
<1>3. CASE RxStep
  BY <1>2, <1>3, StoreFrameType, TimerOfRxType, DeleteTidStateType, InstallTidType
     DEF RxStep, Threads
<1>4. CASE TimerStep
  BY <1>2, <1>4, TimeoutType DEF TimerStep, Threads
<1>5. ASSUME NEW t \in Tids, Indication(t) \/ PeerMovesOn(t) PROVE TypeInv'
  BY <1>5, ReceiveFrameType, SessionType, PeerMovesOnType DEF Indication
<1>6. CASE ResetState
  BY <1>6, SessionType, Sizes
<1> QED BY <1>1, <1>3, <1>4, <1>5, <1>6 DEF Next

LEMMA TypeInvCorrect == Spec => []TypeInv
  BY InitTypeInv, NextTypeInv, PTL DEF Spec

\* Every variable has its type: in particular the slots and sequence numbers that
\* aggr_deque_frms and aggr_process_recv_frm compute stay within the ring and the
\* sequence space, and a thread that delivers or stores a frame has one.
THEOREM TypeCorrect == Spec => []TypeOK
<1>1. TypeInv => TypeOK
  BY DEF TypeInv
<1> QED BY <1>1, TypeInvCorrect, PTL

-----------------------------------------------------------------------------
(***************************************************************************)
(* Held frames are timed.  Between the store of a frame and the step that  *)
(* sets timerScheduled, one of the threads is on its way to notice: the    *)
(* receive thread will note its progress for the TID of the frame, or      *)
(* schedules the timer; the timer's handler has yet to scan the TID, or    *)
(* keeps the timer.  The flag alone does not start the timer: the receive  *)
(* thread that has set it is about to, and so is the handler.              *)
(***************************************************************************)
WillNote(t) ==
    /\ job["rx"].tid = t
    /\ pc["rx"] = "timer" \/ (pc["rx"] \in Dequeuing /\ job["rx"].then = "timer")

WillScan(t) ==
    \/ pc["timer"] \in {"check", "keep"} \cup Dequeuing
    \/ pc["timer"] = "scan" /\ visit <= t
    \/ pc["timer"] = "forget" /\ visit < t

Covered(t) == timerScheduled \/ WillNote(t) \/ pc["rx"] = "schedule" \/ WillScan(t)

InSession ==
    pc["rx"] \in {"pull", "store", "timer", "schedule", "arm", "monitor"} \cup Dequeuing =>
        aggr[job["rx"].tid]

TimerInv ==
    /\ InSession
    /\ \A t \in Tids : Holding(t) => aggr[t] /\ Covered(t)
    /\ pc["timer"] = "idle" /\ timerScheduled => timerPending \/ pc["rx"] = "arm"

LEMMA HoldingSame ==
    ASSUME NEW t, holdQ'[t] = holdQ[t] PROVE Holding(t)' <=> Holding(t)
  BY DEF Holding

LEMMA InitTimerInv == Init => TimerInv
<1> SUFFICES ASSUME Init PROVE TimerInv
  OBVIOUS
<1>1. \A t \in Tids : ~Holding(t)
  BY DEF Init, Holding, EmptyQ
<1> QED BY <1>1 DEF Init, TimerInv, InSession, Dequeuing, Threads

LEMMA DequeTimer ==
    ASSUME TypeInv, TimerInv, NEW th \in Threads, DequeStep(th)
    PROVE  TimerInv'
<1> DEFINE t == job[th].tid
<1>1. t \in Tids /\ job[th] \in Jobs /\ pc[th] \in Dequeuing
  BY DEF TypeInv, TypeOK, Jobs, DequeStep, AimDeque, ReleaseSlot, DispatchFrames, DrainFrame,
         DeliverFrame, FreeFrame, EndDispatch, Dequeuing, Dispatching
<1>2. /\ \A u \in Threads : /\ job'[u].tid = job[u].tid /\ job'[u].then = job[u].then
                            /\ u # th => pc'[u] = pc[u]
      /\ pc'[th] \in Dequeuing \cup {job[th].then}
      /\ UNCHANGED <<aggr, timerScheduled, timerPending, visit>>
      /\ \A u \in Tids : Holding(u)' => Holding(u)
  <2>1. CASE AimDeque(th)
    BY <2>1 DEF AimDeque, Goto, TypeInv, TypeOK, Jobs, Dequeuing, Holding, tidVars, flagVars
  <2>2. CASE ReleaseSlot(th)
    <3>1. /\ UNCHANGED <<aggr, timerScheduled, timerPending, visit>>
          /\ \A u \in Threads : job'[u].tid = job[u].tid /\ job'[u].then = job[u].then
      <4>1. job' = job \/ \E next : job' = [job EXCEPT ![th].idx = next]
        BY <2>2 DEF ReleaseSlot
      <4>2. UNCHANGED <<aggr, timerScheduled, timerPending, visit>>
        BY <2>2 DEF ReleaseSlot, flagVars
      <4>3. \A next : [job[th] EXCEPT !.idx = next].tid = job[th].tid
                     /\ [job[th] EXCEPT !.idx = next].then = job[th].then
        BY <1>1 DEF Jobs
      <4>4. \A u \in Threads : job'[u].tid = job[u].tid /\ job'[u].then = job[u].then
        <5>1. CASE job' = job
          BY <5>1
        <5>2. ASSUME NEW next, job' = [job EXCEPT ![th].idx = next]
              PROVE  \A u \in Threads : job'[u].tid = job[u].tid /\ job'[u].then = job[u].then
          BY <5>2, <4>3 DEF TypeInv, TypeOK
        <5> QED BY <4>1, <5>1, <5>2
      <4> QED BY <4>2, <4>4
    <3>2. /\ pc'[th] \in Dequeuing /\ \A u \in Threads : u # th => pc'[u] = pc[u]
      BY <2>2 DEF ReleaseSlot, Goto, TypeInv, TypeOK, Dequeuing
    <3>3. holdQ' = holdQ \/ holdQ' = [holdQ EXCEPT ![t][job[th].idx] = NoFrame]
      BY <2>2 DEF ReleaseSlot
    <3>4. holdQ \in [Tids -> [Slots -> Frames \cup {NoFrame}]]
      BY DEF TypeInv, TypeOK
    <3>5. \A u \in Tids : Holding(u)' => Holding(u)
      BY <1>1, <3>3, <3>4 DEF Holding
    <3> QED BY <3>1, <3>2, <3>5
  <2>3. CASE Dispatches(th)
    <3>1. UNCHANGED <<aggr, timerScheduled, timerPending, visit, holdQ>>
      BY <2>3, DispatchEffect
    <3>2. /\ pc'[th] \in Dequeuing \cup {job[th].then}
          /\ \A u \in Threads : u # th => pc'[u] = pc[u]
      BY <2>3, DispatchEffect DEF Dequeuing, Dispatching
    <3>3. \A u \in Threads : job'[u].tid = job[u].tid /\ job'[u].then = job[u].then
      BY <2>3, DispatchEffect
    <3> QED BY <3>1, <3>2, <3>3, HoldingSame
  <2> QED BY <2>1, <2>2, <2>3 DEF DequeStep, Dispatches
<1> HIDE DEF t
<1>3. CASE th = "rx"
  <2>1. pc'["timer"] = pc["timer"] /\ pc'["rx"] \in Dequeuing \cup {job["rx"].then}
    BY <1>2, <1>3 DEF Threads
  <2>2. job["rx"].then \in {"idle", "pull", "store", "timer", "delete"} /\ pc["rx"] \in Dequeuing
    BY <1>1, <1>3 DEF TypeInv, Control
  <2>3. InSession'
    BY <1>2, <2>1, <2>2 DEF InSession, TimerInv, Threads
  <2>4. \A u \in Tids : Covered(u) => Covered(u)'
    BY <1>2, <2>1, <2>2 DEF Covered, WillNote, WillScan, Dequeuing, Threads
  <2> QED BY <1>2, <2>1, <2>2, <2>3, <2>4 DEF TimerInv, Dequeuing
<1>4. CASE th = "timer"
  <2>1. pc'["rx"] = pc["rx"] /\ pc'["timer"] \in Dequeuing \cup {"check"} /\ pc["timer"] \in Dequeuing
    BY <1>1, <1>2, <1>4 DEF Threads, TypeInv, Control
  <2>2. InSession'
    BY <1>2, <2>1 DEF InSession, TimerInv, Threads
  <2>3. \A u \in Tids : Covered(u)'
    BY <2>1 DEF Covered, WillScan
  <2> QED BY <1>2, <2>1, <2>2, <2>3 DEF TimerInv, Dequeuing
<1> QED BY <1>3, <1>4 DEF Threads

LEMMA ReceiveTimer ==
    ASSUME TypeInv, TimerInv, NEW t \in Tids,
           \/ \E n \in Frames : ReceiveFrame(t, n)
           \/ ProcessBar(t) \/ RecvAddbaReq(t) \/ RecvDelbaReq(t) \/ ResetState
    PROVE  TimerInv'
<1>1. /\ UNCHANGED <<aggr, holdQ, timerScheduled, timerPending, visit>>
      /\ pc["rx"] = "idle"
  BY DEF ReceiveFrame, ProcessBar, RecvAddbaReq, RecvDelbaReq, ResetState, tidVars, flagVars
<1>2. /\ pc'["timer"] = pc["timer"]
      /\ \/ pc'["rx"] \in {"idle", "delete", "install"}
         \/ pc'["rx"] \in {"store", "aim"} /\ aggr[job'["rx"].tid]
  <2>1. ASSUME NEW n \in Frames, ReceiveFrame(t, n)
        PROVE  \/ pc' = pc
               \/ pc'= [pc EXCEPT !["rx"] = "store"] /\ aggr[t] /\ job'["rx"].tid = t
               \/ pc'= [pc EXCEPT !["rx"] = "aim"] /\ aggr[t] /\ job'["rx"].tid = t
    BY <2>1 DEF ReceiveFrame, Deque, Goto, TypeInv, TypeOK, Jobs, Threads
  <2>2. CASE ProcessBar(t)
    BY <2>2 DEF ProcessBar, Deque, Goto, TypeInv, TypeOK, Jobs, Threads
  <2>3. ASSUME NEW u \in Tids, DeleteTid(u)
        PROVE  \/ pc' = [pc EXCEPT !["rx"] = "delete"]
               \/ pc' = [pc EXCEPT !["rx"] = "aim"] /\ aggr[u] /\ job'["rx"].tid = u
    BY <2>3, DeleteTidStep
  <2>4. CASE ~(\E n \in Frames : ReceiveFrame(t, n)) /\ ~ProcessBar(t) /\ ~\E u \in Tids : DeleteTid(u)
    BY <2>4, Sizes DEF RecvAddbaReq, RecvDelbaReq, ResetState, Goto, TypeInv, TypeOK, Threads
  <2>5. pc \in [Threads -> {"idle", "aim", "release", "dispatch", "drain", "deliver", "discard", "pull",
                           "store", "timer", "schedule", "arm", "monitor", "delete",
                           "install", "check", "scan", "keep", "forget"}]
    BY DEF TypeInv, TypeOK
  <2> QED BY <1>1, <2>1, <2>2, <2>3, <2>4, <2>5 DEF Threads
<1>3. InSession'
  BY <1>1, <1>2 DEF InSession, Dequeuing
<1>4. \A u \in Tids : (Holding(u)' <=> Holding(u)) /\ (Covered(u) => Covered(u)')
  BY <1>1, <1>2, HoldingSame DEF Covered, WillNote, WillScan, Dequeuing
<1> QED BY <1>1, <1>2, <1>3, <1>4 DEF TimerInv

LEMMA StoreTimer ==
    ASSUME TypeInv, TimerInv, PullWindow \/ StoreFrame PROVE TimerInv'
<1> DEFINE t == job["rx"].tid
<1>1. /\ UNCHANGED <<aggr, timerScheduled, timerPending, visit>>
      /\ pc["rx"] \in {"pull", "store"} /\ t \in Tids /\ aggr[t]
      /\ pc'["timer"] = pc["timer"]
  BY DEF PullWindow, StoreFrame, Deque, Goto, TypeInv, TypeOK, Jobs, Threads, flagVars,
         TimerInv, InSession
<1>2. CASE PullWindow
  <2>1. pc'["rx"] = "store" /\ job' = job /\ holdQ' = holdQ
    BY <1>2 DEF PullWindow, Goto, TypeInv, TypeOK, Threads
  <2>2. \A u \in Tids : (Holding(u)' <=> Holding(u)) /\ (Covered(u) => Covered(u)')
    BY <1>1, <2>1, HoldingSame DEF Covered, WillNote, WillScan, Dequeuing
  <2> QED BY <1>1, <2>1, <2>2 DEF TimerInv, InSession
<1>3. CASE StoreFrame
  <2>1. /\ pc'["rx"] = "aim" /\ job'["rx"].tid = t /\ job'["rx"].then = "timer"
        /\ holdQ' = [holdQ EXCEPT ![t][WinIdx(SeqNo(frame))] = frame]
    BY <1>3 DEF StoreFrame, Deque, Goto, TypeInv, TypeOK, Threads
  <2>2. \A u \in Tids : u = t => Covered(u)'
    BY <2>1 DEF Covered, WillNote, Dequeuing
  <2> HIDE DEF t
  <2>3. \A u \in Tids \ {t} : holdQ'[u] = holdQ[u]
    BY <1>1, <2>1 DEF TypeInv, TypeOK
  <2>4. \A u \in Tids \ {t} : (Holding(u)' <=> Holding(u)) /\ (Covered(u) => Covered(u)')
    BY <1>1, <2>1, <2>3, HoldingSame DEF Covered, WillNote, WillScan, Dequeuing
  <2>5. \A u \in Tids : Holding(u)' => aggr'[u] /\ Covered(u)'
    BY <1>1, <2>2, <2>4 DEF TimerInv
  <2>6. InSession' /\ (pc["timer"] = "idle" /\ timerScheduled => timerPending \/ pc["rx"] = "arm")'
    BY <1>1, <2>1 DEF TimerInv, InSession, t
  <2> QED BY <2>5, <2>6 DEF TimerInv
<1> QED BY <1>2, <1>3

LEMMA NoteTimer ==
    ASSUME TypeInv, TimerInv, NoteProgress \/ ScheduleTimer \/ ArmTimer \/ MonitorTid
    PROVE  TimerInv'
<1> DEFINE t == job["rx"].tid
<1>1. /\ UNCHANGED <<aggr, visit, holdQ, job>>
      /\ pc'["timer"] = pc["timer"] /\ t \in Tids
      /\ pc["rx"] \in {"timer", "schedule", "arm", "monitor"}
      /\ pc'["rx"] \in {"idle", "schedule", "arm", "monitor"}
  BY DEF NoteProgress, ScheduleTimer, ArmTimer, MonitorTid, Goto, TypeInv, TypeOK, Jobs, Threads,
         tidVars
<1>2. InSession' /\ \A u \in Tids : Holding(u)' <=> Holding(u)
  BY <1>1, HoldingSame DEF TimerInv, InSession
<1>3. ASSUME NEW u \in Tids, Holding(u) PROVE Covered(u)'
  <2>1. Covered(u)
    BY <1>3 DEF TimerInv
  <2>2. CASE NoteProgress
    BY <1>1, <1>3, <2>1, <2>2 DEF NoteProgress, Goto, TypeInv, TypeOK, Threads, Covered, WillNote,
                                  WillScan, Dequeuing
  <2>3. CASE ScheduleTimer
    BY <2>3 DEF ScheduleTimer, Covered
  <2>4. CASE ArmTimer \/ MonitorTid
    BY <1>1, <2>1, <2>4 DEF ArmTimer, MonitorTid, Covered, WillNote, WillScan, Dequeuing
  <2> QED BY <2>2, <2>3, <2>4
<1>4. (pc["timer"] = "idle" /\ timerScheduled => timerPending \/ pc["rx"] = "arm")'
  BY <1>1 DEF NoteProgress, ScheduleTimer, ArmTimer, MonitorTid, Goto, TypeInv, TypeOK, Threads,
              TimerInv
<1> QED BY <1>1, <1>2, <1>3, <1>4 DEF TimerInv

LEMMA SessionTimer ==
    ASSUME TypeInv, TimerInv, DeleteTidState \/ InstallTid PROVE TimerInv'
<1> DEFINE t == job["rx"].tid
<1>1. t \in Tids
  BY DEF TypeInv, TypeOK, Jobs, Threads
<1>2. /\ UNCHANGED <<timerScheduled, timerPending, visit>>
      /\ holdQ' = [holdQ EXCEPT ![t] = EmptyQ]
      /\ \A u \in Tids \ {t} : aggr'[u] = aggr[u]
      /\ pc["rx"] \in {"delete", "install"}
  BY DEF DeleteTidState, InstallTid, flagVars, TypeInv, TypeOK
<1>3. /\ ~\E i \in Slots : holdQ'[t][i] # NoFrame
      /\ \A u \in Tids \ {t} : Holding(u)' <=> Holding(u)
  <2> HIDE DEF t
  <2>1. holdQ'[t] = EmptyQ /\ \A u \in Tids \ {t} : holdQ'[u] = holdQ[u]
    BY <1>1, <1>2 DEF TypeInv, TypeOK
  <2>2. \A i \in Slots : holdQ'[t][i] = NoFrame
    BY <2>1 DEF EmptyQ
  <2> QED BY <2>1, <2>2, HoldingSame
<1> HIDE DEF t
<1>4. /\ pc'["timer"] = pc["timer"]
      /\ \/ pc'["rx"] \in {"delete", "install", "idle"}
         \/ pc'["rx"] = "aim" /\ aggr'[job'["rx"].tid]
  <2>1. CASE InstallTid
    BY <2>1 DEF InstallTid, Goto, TypeInv, TypeOK, Threads
  <2>2. CASE DeleteTidState /\ t + 1 \in Tids /\ DeleteTid(t + 1)
    <3>1. \/ pc' = [pc EXCEPT !["rx"] = "delete"]
          \/ pc' = [pc EXCEPT !["rx"] = "aim"] /\ aggr[t + 1] /\ job'["rx"].tid = t + 1
      BY <2>2, DeleteTidStep
    <3>2. t # t + 1
      BY <1>1, Sizes DEF Tids
    <3> QED BY <1>2, <2>2, <3>1, <3>2 DEF TypeInv, TypeOK, Threads
  <2>3. CASE DeleteTidState /\ ~(t + 1 \in Tids /\ DeleteTid(t + 1))
    BY <2>3 DEF DeleteTidState, Goto, TypeInv, TypeOK, Threads, t
  <2> QED BY <2>1, <2>2, <2>3
<1>5. \A u \in Tids : Covered(u) => Covered(u)'
  BY <1>2, <1>4 DEF Covered, WillNote, WillScan, Dequeuing
<1>6. InSession'
  BY <1>4 DEF InSession, Dequeuing
<1>7. \A u \in Tids : Holding(u)' => u # t /\ Holding(u)
  BY <1>3 DEF Holding
<1> QED BY <1>2, <1>4, <1>5, <1>6, <1>7 DEF TimerInv

LEMMA TimeoutTimer ==
    ASSUME TypeInv, TimerInv,
           \/ Expire \/ CheckTid \/ ClearScheduled \/ ScanTid \/ KeepTimer \/ ForgetTid
           \/ RearmTimer
    PROVE  TimerInv'
<1>1. /\ UNCHANGED <<aggr, holdQ>> /\ pc'["rx"] = pc["rx"] /\ job'["rx"] = job["rx"]
      /\ pc \in [Threads -> {"idle", "aim", "release", "dispatch", "drain", "deliver", "discard", "pull",
                           "store", "timer", "schedule", "arm", "monitor", "delete",
                           "install", "check", "scan", "keep", "forget"}]
  BY DEF Expire, CheckTid, ClearScheduled, ScanTid, KeepTimer, ForgetTid, RearmTimer, Deque, Goto,
         TypeInv, TypeOK, Threads, tidVars
<1>2. InSession' /\ \A u \in Tids : Holding(u)' <=> Holding(u)
  BY <1>1, HoldingSame DEF TimerInv, InSession
<1>3. \A u \in Tids : WillNote(u)' <=> WillNote(u)
  BY <1>1 DEF WillNote
<1>4. ASSUME NEW u \in Tids, Holding(u) PROVE Covered(u)'
  <2>1. Covered(u) /\ aggr[u] /\ u \in Int /\ visit \in Int
    BY <1>4, Sizes DEF TimerInv, TypeInv, TypeOK
  <2>2. CASE Expire \/ CheckTid
    BY <1>1, <2>2 DEF Expire, CheckTid, Deque, Goto, Threads, Covered, WillScan, Dequeuing
  <2>3. CASE ClearScheduled
    BY <1>1, <2>3, Sizes DEF ClearScheduled, Goto, Threads, Covered, WillScan, Tids
  <2>4. CASE ScanTid
    BY <1>1, <1>3, <1>4, <2>1, <2>4 DEF ScanTid, Goto, Threads, Covered, WillScan, Dequeuing, flagVars
  <2>5. CASE KeepTimer
    BY <2>5 DEF KeepTimer, Covered
  <2>6. CASE ForgetTid
    BY <1>1, <1>3, <2>1, <2>6 DEF ForgetTid, Goto, Threads, Covered, WillScan, Dequeuing
  <2>7. CASE RearmTimer
    <3>1. ~(visit <= u)
      BY <2>7, Sizes DEF RearmTimer, Tids, TypeInv, TypeOK
    <3> QED BY <1>1, <1>3, <2>1, <2>7, <3>1 DEF RearmTimer, Goto, Threads, Covered, WillScan, Dequeuing
  <2> QED BY <2>2, <2>3, <2>4, <2>5, <2>6, <2>7
<1>5. (pc["timer"] = "idle" /\ timerScheduled => timerPending \/ pc["rx"] = "arm")'
  BY <1>1 DEF Expire, CheckTid, ClearScheduled, ScanTid, KeepTimer, ForgetTid, RearmTimer, Deque,
              Goto, Threads
<1> QED BY <1>1, <1>2, <1>4, <1>5 DEF TimerInv

LEMMA NextTimerInv == TypeInv /\ TimerInv /\ [Next]_vars => TimerInv'
<1> SUFFICES ASSUME TypeInv, TimerInv, [Next]_vars PROVE TimerInv'
  OBVIOUS
<1>1. CASE UNCHANGED vars \/ \E t \in Tids : PeerMovesOn(t)
  BY <1>1 DEF vars, tidVars, flagVars, outVars, peerVars, localVars, PeerMovesOn, TimerInv, InSession,
              Holding, Covered, WillNote, WillScan, Dequeuing
<1>2. CASE RxStep
  BY <1>2, DequeTimer, StoreTimer, NoteTimer, SessionTimer DEF RxStep, Threads
<1>3. CASE TimerStep
  BY <1>3, DequeTimer, TimeoutTimer DEF TimerStep, Threads
<1>4. ASSUME NEW t \in Tids, Indication(t) PROVE TimerInv'
  BY <1>4, ReceiveTimer DEF Indication
<1>5. CASE ResetState
  BY <1>5, ReceiveTimer, Sizes
<1> QED BY <1>1, <1>2, <1>3, <1>4, <1>5 DEF Next

LEMMA TimerInvCorrect == Spec => []TimerInv
  BY InitTimerInv, NextTimerInv, TypeInvCorrect, PTL DEF Spec

\* When no thread is inside this code and a frame is held, the timer is recorded as
\* scheduled and the kernel will run it, although aggr_process_recv_frm and
\* aggr_timeout set and clear its flags without a lock and may interleave anywhere.
THEOREM TimedCorrect == Spec => []HeldIsTimed
<1>1. TypeInv /\ TimerInv => HeldIsTimed
  BY DEF TypeInv, TimerInv, HeldIsTimed, Covered, WillNote, WillScan, Dequeuing, Dispatching, Threads
<1> QED BY <1>1, TypeInvCorrect, TimerInvCorrect, PTL

-----------------------------------------------------------------------------
(***************************************************************************)
(* Sequence numbers: how far one is beyond another, the slot of a number,  *)
(* and the windows aggr_process_recv_frm computes, modulo SeqSpace.        *)
(***************************************************************************)
SeqNos == 0..(SeqSpace - 1)

\* How far the sequence number x is beyond s.
Offset(x, s) == IF s <= x THEN x - s ELSE x - s + SeqSpace

LEMMA DivMod ==
    ASSUME NEW a \in Int, NEW n \in Nat \ {0}
    PROVE  a \div n \in Int /\ (a % n) \in 0..(n - 1) /\ a = n * (a \div n) + (a % n)
  BY Z3

LEMMA ModUnique ==
    ASSUME NEW a \in Int, NEW n \in Nat \ {0}, NEW k \in Int, NEW r \in 0..(n - 1),
           a = n * k + r
    PROVE  (a % n) = r
<1>1. /\ a \div n \in Int /\ (a % n) \in 0..(n - 1) /\ a = n * (a \div n) + (a % n)
  BY DivMod
<1> DEFINE c == a \div n
           m == a % n
<1> HIDE DEF c, m
<1>2. c \in Int /\ m \in 0..(n - 1) /\ n * k + r = n * c + m
  BY <1>1 DEF c, m
<1>3. n * (k - c) = m - r
  BY <1>2, Z3
<1>4. k - c = 0
  <2>1. CASE k - c >= 1
    <3>1. n * (k - c) >= n
      BY <1>2, <2>1, Z3
    <3> QED BY <1>2, <1>3, <3>1
  <2>2. CASE k - c <= -1
    <3>1. n * (k - c) <= -n
      BY <1>2, <2>2, Z3
    <3> QED BY <1>2, <1>3, <3>1
  <2> QED BY <1>2, <2>1, <2>2
<1>5. m = r
  BY <1>2, <1>3, <1>4, Z3
<1> QED BY <1>5 DEF m

\* A number less than one space away is reduced by one comparison.
LEMMA ModSeq ==
    ASSUME NEW a \in (-SeqSpace)..(2 * SeqSpace - 1)
    PROVE  (a % SeqSpace) = IF a < 0 THEN a + SeqSpace
                            ELSE IF a < SeqSpace THEN a ELSE a - SeqSpace
<1>1. SeqSpace \in Nat \ {0} /\ a \in Int
  BY Sizes
<1>2. CASE a < 0
  <2>1. a + SeqSpace \in 0..(SeqSpace - 1) /\ a = SeqSpace * (-1) + (a + SeqSpace)
    BY <1>1, <1>2
  <2> QED BY <1>1, <1>2, <2>1, ModUnique
<1>3. CASE a >= 0 /\ a < SeqSpace
  <2>1. a \in 0..(SeqSpace - 1) /\ a = SeqSpace * 0 + a /\ 0 \in Int
    BY <1>1, <1>3
  <2>2. (a % SeqSpace) = a
    BY <1>1, <2>1, ModUnique
  <2> QED BY <1>1, <1>3, <2>2
<1>4. CASE a >= SeqSpace
  <2>1. a - SeqSpace \in 0..(SeqSpace - 1) /\ a = SeqSpace * 1 + (a - SeqSpace) /\ 1 \in Int
    BY <1>1, <1>4
  <2>2. (a % SeqSpace) = a - SeqSpace
    BY <1>1, <2>1, ModUnique
  <2> QED BY <1>1, <1>4, <2>2
<1> QED BY <1>1, <1>2, <1>3, <1>4

LEMMA OffsetType ==
    ASSUME NEW x \in SeqNos, NEW s \in SeqNos
    PROVE  /\ x \in Int /\ s \in Int /\ Offset(x, s) \in SeqNos /\ Offset(x, s) \in Int
           /\ Offset(x, s) = 0 <=> x = s
  BY Sizes DEF Offset, SeqNos

\* The slot of a number within a ring of s.
LEMMA SlotAt ==
    ASSUME NEW x \in SeqNos, NEW s \in SeqNos, Offset(x, s) < HoldQSz
    PROVE  WinIdx(x) = IF WinIdx(s) + Offset(x, s) < HoldQSz THEN WinIdx(s) + Offset(x, s)
                       ELSE WinIdx(s) + Offset(x, s) - HoldQSz
<1> DEFINE i == s % HoldQSz
           c == s \div HoldQSz
           d == SeqSpace \div HoldQSz
           o == Offset(x, s)
<1>1. HoldQSz \in Nat \ {0} /\ SeqSpace \in Int /\ x \in Int /\ s \in Int
  BY Sizes, OffsetType
<1>2. i \in 0..(HoldQSz - 1) /\ c \in Int /\ s = HoldQSz * c + i
  BY <1>1, DivMod
<1>3. d \in Int /\ SeqSpace = HoldQSz * d
  <2>1. d \in Int /\ SeqSpace = HoldQSz * d + (SeqSpace % HoldQSz)
    BY <1>1, DivMod
  <2> HIDE DEF d
  <2> QED BY <1>1, <2>1, ReorderAssumption DEF ReorderAssumption
<1>4. o \in 0..(HoldQSz - 1) /\ (x = s + o \/ x = s + o - SeqSpace)
  BY <1>1, OffsetType, Sizes DEF Offset, SeqNos
<1> HIDE DEF i, c, d, o
<1>5. \E k \in Int : x = HoldQSz * k + (i + o)
  <2>1. s + o = HoldQSz * c + (i + o)
    BY <1>1, <1>2, <1>4
  <2>2. s + o - SeqSpace = HoldQSz * (c - d) + (i + o)
    BY <1>1, <1>2, <1>3, <1>4, Z3
  <2>3. c - d \in Int
    BY <1>2, <1>3
  <2> QED BY <1>2, <1>4, <2>1, <2>2, <2>3
<1>6. PICK k \in Int : x = HoldQSz * k + (i + o)
  BY <1>5
<1>7. CASE i + o < HoldQSz
  <2>1. i + o \in 0..(HoldQSz - 1)
    BY <1>1, <1>2, <1>4, <1>7
  <2>2. (x % HoldQSz) = i + o
    BY <1>1, <1>6, <2>1, ModUnique
  <2> QED BY <1>7, <2>2 DEF WinIdx, i, o
<1>8. CASE ~(i + o < HoldQSz)
  <2>1. i + o - HoldQSz \in 0..(HoldQSz - 1)
    BY <1>1, <1>2, <1>4, <1>8
  <2>2. x = HoldQSz * (k + 1) + (i + o - HoldQSz) /\ k + 1 \in Int
    BY <1>1, <1>2, <1>4, <1>6, Z3
  <2>3. (x % HoldQSz) = i + o - HoldQSz
    BY <1>1, <2>1, <2>2, ModUnique
  <2> QED BY <1>8, <2>3 DEF WinIdx, i, o
<1> QED BY <1>7, <1>8

LEMMA NextOffset ==
    ASSUME NEW s \in SeqNos
    PROVE  /\ NextSeqNo(s) \in SeqNos /\ Offset(NextSeqNo(s), s) = 1
           /\ \A x \in SeqNos : Offset(x, NextSeqNo(s)) =
                IF Offset(x, s) = 0 THEN SeqSpace - 1 ELSE Offset(x, s) - 1
<1>1. s + 1 \in (-SeqSpace)..(2 * SeqSpace - 1)
  BY Sizes DEF SeqNos
<1>2. NextSeqNo(s) = IF s + 1 < SeqSpace THEN s + 1 ELSE s + 1 - SeqSpace
  BY <1>1, ModSeq, Sizes DEF NextSeqNo, SeqNos
<1> QED BY <1>2, Sizes DEF Offset, SeqNos

LEMMA WindowStart ==
    ASSUME NEW x \in SeqNos
    PROVE  /\ WindowEndingAt(x) = IF x < HoldQSz - 1 THEN x + SeqSpace - (HoldQSz - 1)
                                  ELSE x - (HoldQSz - 1)
           /\ WindowEndingAt(x) \in SeqNos
<1>1. /\ x + SeqSpace - (HoldQSz - 1) \in (-SeqSpace)..(2 * SeqSpace - 1)
      /\ x + SeqSpace - (HoldQSz - 1) >= 0
  BY Sizes DEF SeqNos
<1>2. WindowEndingAt(x) = IF x < HoldQSz - 1 THEN x + SeqSpace - (HoldQSz - 1)
                          ELSE x - (HoldQSz - 1)
  BY <1>1, ModSeq, Sizes DEF WindowEndingAt, SeqNos
<1> QED BY <1>2, Sizes DEF SeqNos

\* The window of s, and the tests of aggr_process_recv_frm.
LEMMA WindowOffset ==
    ASSUME NEW x \in SeqNos, NEW s \in SeqNos
    PROVE  /\ Outside(x, s, WindowEnd(s)) <=> Offset(x, s) >= HoldQSz
           /\ Outside(x, WindowEnd(s), WindowEnd(WindowEnd(s))) <=>
                Offset(x, s) < HoldQSz - 1 \/ Offset(x, s) >= 2 * HoldQSz - 1
           /\ WindowEndingAt(x) \in SeqNos
           /\ Offset(x, WindowEndingAt(x)) = HoldQSz - 1
           /\ Offset(x, s) >= HoldQSz - 1 =>
                Offset(WindowEndingAt(x), s) = Offset(x, s) - (HoldQSz - 1)
<1>1. \A y \in SeqNos : /\ WindowEnd(y) = IF y + HoldQSz - 1 < SeqSpace THEN y + HoldQSz - 1
                                          ELSE y + HoldQSz - 1 - SeqSpace
                        /\ WindowEnd(y) \in SeqNos
  <2> TAKE y \in SeqNos
  <2>1. y + HoldQSz - 1 \in (-SeqSpace)..(2 * SeqSpace - 1) /\ y + HoldQSz - 1 >= 0
    BY Sizes DEF SeqNos
  <2>2. WindowEnd(y) = IF y + HoldQSz - 1 < SeqSpace THEN y + HoldQSz - 1
                       ELSE y + HoldQSz - 1 - SeqSpace
    BY <2>1, ModSeq, Sizes DEF WindowEnd, SeqNos
  <2> QED BY <2>2, Sizes DEF SeqNos
<1>2. /\ WindowEndingAt(x) = IF x < HoldQSz - 1 THEN x + SeqSpace - (HoldQSz - 1)
                             ELSE x - (HoldQSz - 1)
      /\ WindowEndingAt(x) \in SeqNos
  BY WindowStart
<1> DEFINE e == WindowEnd(s)
           g == WindowEnd(e)
<1>3. /\ e \in SeqNos /\ g \in SeqNos
      /\ e = IF s + HoldQSz - 1 < SeqSpace THEN s + HoldQSz - 1 ELSE s + HoldQSz - 1 - SeqSpace
      /\ g = IF e + HoldQSz - 1 < SeqSpace THEN e + HoldQSz - 1 ELSE e + HoldQSz - 1 - SeqSpace
  BY <1>1
<1> HIDE DEF e, g
<1>4. Outside(x, s, e) <=> Offset(x, s) >= HoldQSz
  BY <1>3, Sizes DEF Outside, Offset, SeqNos
<1>5. Outside(x, e, g) <=> Offset(x, s) < HoldQSz - 1 \/ Offset(x, s) >= 2 * HoldQSz - 1
  BY <1>3, Sizes DEF Outside, Offset, SeqNos
<1>6. /\ WindowEndingAt(x) \in SeqNos
      /\ Offset(x, WindowEndingAt(x)) = HoldQSz - 1
      /\ Offset(x, s) >= HoldQSz - 1 =>
                Offset(WindowEndingAt(x), s) = Offset(x, s) - (HoldQSz - 1)
  BY <1>2, Sizes DEF Offset, SeqNos
<1> QED BY <1>4, <1>5, <1>6 DEF e, g

-----------------------------------------------------------------------------
(***************************************************************************)
(* What each step of the receive thread does, field by field.              *)
(***************************************************************************)
RxPcs == {"idle", "aim", "release", "dispatch", "drain", "deliver", "discard", "pull", "store", "timer", "schedule",
          "arm", "monitor", "delete", "install"}

\* What the steps of the receive thread do, field by field.
LEMMA RxJob ==
    ASSUME TypeInv
    PROVE  /\ job["rx"].tid \in Tids /\ job["rx"].seqNo \in SeqNos
           /\ job["rx"].order \in {"ALL", "CONTIGUOUS"}
           /\ job["rx"].then \in {"idle", "pull", "store", "timer", "delete", "check"}
           /\ job["rx"].idx \in Slots /\ job["rx"].end \in Slots
           /\ pc["rx"] \in RxPcs /\ "rx" \in Threads /\ "timer" \in Threads
           /\ \A t \in Tids : seqNext[t] \in SeqNos /\ q[t] \in Seq(Frames)
                              /\ delivered[t] \in Seq(Frames)
<1>1. job["rx"] \in Jobs /\ "rx" \in Threads /\ "timer" \in Threads
  BY DEF TypeInv, TypeOK, Threads
<1>2. pc["rx"] \in RxPcs
  BY <1>1 DEF TypeInv, Control, Dequeuing, Dispatching, RxPcs
<1> QED BY <1>1, <1>2 DEF TypeInv, TypeOK, Jobs, SeqNos


LEMMA AimStep ==
    ASSUME TypeInv, AimDeque("rx"), NEW t \in Tids, t = job["rx"].tid
    PROVE  /\ pc["rx"] = "aim" /\ pc' = [pc EXCEPT !["rx"] = "release"]
           /\ pc'["rx"] = "release" /\ pc'["timer"] = pc["timer"] /\ aggr[t]
           /\ job'["rx"] = [job["rx"] EXCEPT
                  !.idx = WinIdx(seqNext[t]),
                  !.end = WinIdx(IF job["rx"].seqNo # 0 THEN job["rx"].seqNo ELSE seqNext[t])]
           /\ job'["rx"].tid = t /\ job'["rx"].seqNo = job["rx"].seqNo
           /\ job'["rx"].order = job["rx"].order /\ job'["rx"].then = job["rx"].then
           /\ job'["rx"].idx = WinIdx(seqNext[t])
           /\ job'["rx"].end =
                  WinIdx(IF job["rx"].seqNo # 0 THEN job["rx"].seqNo ELSE seqNext[t])
           /\ UNCHANGED <<aggr, seqNext, holdQ, q, connected, delivered, freed, peer, base,
                          arrived, hand, frame, event>>
<1>1. /\ pc["rx"] = "aim" /\ pc' = [pc EXCEPT !["rx"] = "release"] /\ aggr[t]
      /\ job' = [job EXCEPT !["rx"].idx = WinIdx(seqNext[t]),
                    !["rx"].end = WinIdx(IF job["rx"].seqNo # 0 THEN job["rx"].seqNo ELSE seqNext[t])]
      /\ UNCHANGED <<aggr, seqNext, holdQ, q, connected, delivered, freed, peer, base,
                     arrived, hand, frame, event>>
  BY DEF AimDeque, Goto, tidVars, outVars, peerVars
<1>2. /\ pc \in [Threads -> {"idle", "aim", "release", "dispatch", "drain", "deliver", "discard", "pull",
                           "store", "timer", "schedule", "arm", "monitor", "delete",
                           "install", "check", "scan", "keep", "forget"}]
      /\ job \in [Threads -> Jobs] /\ job["rx"] \in Jobs
  BY RxJob DEF TypeInv, TypeOK
<1>3. job'["rx"] = [job["rx"] EXCEPT
                  !.idx = WinIdx(seqNext[t]),
                  !.end = WinIdx(IF job["rx"].seqNo # 0 THEN job["rx"].seqNo ELSE seqNext[t])]
  BY <1>1, <1>2 DEF Threads
<1> QED BY <1>1, <1>2, <1>3 DEF Threads, Jobs

\* The slot at idx is released: the frame in it, if any, joins the dispatch queue.
Moved(t) ==
    LET f == holdQ[t][job["rx"].idx]
    IN  /\ q' = IF f = NoFrame THEN q ELSE [q EXCEPT ![t] = Append(@, f)]
        /\ q'[t] = IF f = NoFrame THEN q[t] ELSE Append(q[t], f)
        /\ \A u \in Tids \ {t} : q'[u] = q[u] /\ holdQ'[u] = holdQ[u] /\ seqNext'[u] = seqNext[u]
        /\ holdQ'[t][job["rx"].idx] = NoFrame
        /\ \A i \in Slots \ {job["rx"].idx} : holdQ'[t][i] = holdQ[t][i]
        /\ seqNext'[t] = NextSeqNo(seqNext[t])
        /\ job'["rx"].idx = WinIdx(NextSeqNo(seqNext[t]))
        /\ pc'["rx"] = IF job'["rx"].idx = job["rx"].end THEN "dispatch" ELSE "release"

LEMMA ReleaseStep ==
    ASSUME TypeInv, ReleaseSlot("rx"), NEW t \in Tids, t = job["rx"].tid
    PROVE  /\ pc["rx"] = "release" /\ pc'["timer"] = pc["timer"] /\ aggr[t]
           /\ job'["rx"].tid = t /\ job'["rx"].seqNo = job["rx"].seqNo
           /\ job'["rx"].order = job["rx"].order /\ job'["rx"].then = job["rx"].then
           /\ job'["rx"].end = job["rx"].end
           /\ UNCHANGED <<aggr, connected, delivered, freed, peer, base, arrived, hand, frame,
                          event>>
           /\ \/ /\ job["rx"].order = "CONTIGUOUS" /\ holdQ[t][job["rx"].idx] = NoFrame
                 /\ pc'["rx"] = "dispatch" /\ UNCHANGED <<q, holdQ, seqNext, job>>
              \/ /\ job["rx"].order = "CONTIGUOUS" => holdQ[t][job["rx"].idx] # NoFrame
                 /\ Moved(t)
<1> DEFINE i == job["rx"].idx
           stop == job["rx"].order = "CONTIGUOUS" /\ holdQ[t][i] = NoFrame
           next == WinIdx(NextSeqNo(seqNext[t]))
<1>1. /\ pc["rx"] = "release" /\ aggr[t]
      /\ pc' = [pc EXCEPT !["rx"] = IF stop \/ next = job["rx"].end THEN "dispatch" ELSE "release"]
      /\ stop => UNCHANGED <<q, holdQ, seqNext, job>>
      /\ ~stop => /\ q' = IF holdQ[t][i] = NoFrame
                          THEN q ELSE [q EXCEPT ![t] = Append(@, holdQ[t][i])]
                  /\ holdQ' = [holdQ EXCEPT ![t][i] = NoFrame]
                  /\ seqNext' = [seqNext EXCEPT ![t] = NextSeqNo(@)]
                  /\ job' = [job EXCEPT !["rx"].idx = next]
      /\ UNCHANGED <<aggr, connected, delivered, freed, peer, base, arrived, hand, frame, event>>
  BY DEF ReleaseSlot, Goto, outVars, peerVars
<1>2. /\ pc \in [Threads -> {"idle", "aim", "release", "dispatch", "drain", "deliver", "discard", "pull",
                           "store", "timer", "schedule", "arm", "monitor", "delete",
                           "install", "check", "scan", "keep", "forget"}]
      /\ job \in [Threads -> Jobs] /\ job["rx"] \in Jobs /\ i \in Slots
      /\ q \in [Tids -> Seq(Frames)] /\ seqNext \in [Tids -> 0..(SeqSpace - 1)]
      /\ holdQ \in [Tids -> [Slots -> Frames \cup {NoFrame}]]
  BY RxJob DEF TypeInv, TypeOK
<1> HIDE DEF next
<1>3. CASE stop
  BY <1>1, <1>2, <1>3 DEF Threads, i
<1>4. CASE ~stop
  <2>1. /\ job'["rx"] = [job["rx"] EXCEPT !.idx = next]
    BY <1>1, <1>2, <1>4 DEF Threads
  <2>2. /\ job'["rx"].tid = t /\ job'["rx"].seqNo = job["rx"].seqNo
        /\ job'["rx"].order = job["rx"].order /\ job'["rx"].then = job["rx"].then
        /\ job'["rx"].end = job["rx"].end /\ job'["rx"].idx = next
    BY <1>2, <2>1 DEF Jobs
  <2> HIDE DEF i
  <2>3. /\ pc'["timer"] = pc["timer"]
        /\ pc'["rx"] = IF next = job["rx"].end THEN "dispatch" ELSE "release"
    BY <1>1, <1>2, <1>4 DEF Threads
  <2>4. /\ holdQ'[t][i] = NoFrame
        /\ \A j \in Slots \ {i} : holdQ'[t][j] = holdQ[t][j]
        /\ \A u \in Tids \ {t} : holdQ'[u] = holdQ[u]
    BY <1>1, <1>2, <1>4
  <2>5. /\ q'[t] = IF holdQ[t][i] = NoFrame THEN q[t] ELSE Append(q[t], holdQ[t][i])
        /\ \A u \in Tids \ {t} : q'[u] = q[u]
    BY <1>1, <1>2, <1>4
  <2>6. /\ seqNext'[t] = NextSeqNo(seqNext[t])
        /\ \A u \in Tids \ {t} : seqNext'[u] = seqNext[u]
    BY <1>1, <1>2, <1>4
  <2>7. Moved(t)
    BY <1>1, <1>4, <2>2, <2>3, <2>4, <2>5, <2>6 DEF Moved, i, next
  <2> QED BY <1>1, <1>4, <2>2, <2>3, <2>7 DEF i
<1> QED BY <1>3, <1>4

LEMMA DispatchStep ==
    ASSUME TypeInv, Dispatches("rx"), NEW t \in Tids, t = job["rx"].tid
    PROVE  /\ pc'["timer"] = pc["timer"] /\ hand'["timer"] = hand["timer"]
           /\ job'["rx"].tid = t /\ job'["rx"].then = job["rx"].then
           /\ \A u \in Tids \ {t} : /\ q'[u] = q[u] /\ delivered'[u] = delivered[u]
                                    /\ freed'[u] = freed[u]
           /\ UNCHANGED <<aggr, seqNext, holdQ, connected, peer, base, arrived, frame, event>>
           /\ \/ /\ pc["rx"] = "dispatch"
                 /\ pc'["rx"] = (IF connected THEN "drain" ELSE "discard")
                 /\ UNCHANGED <<q, hand, delivered, freed, job>>
              \/ /\ pc["rx"] = "drain" /\ pc'["rx"] = "deliver"
                 /\ q[t] # <<>> /\ q'[t] = Tail(q[t]) /\ hand'["rx"] = Head(q[t])
                 /\ UNCHANGED <<delivered, freed, job>>
              \/ /\ pc["rx"] = "deliver" /\ pc'["rx"] = "drain" /\ connected
                 /\ delivered'[t] = Append(delivered[t], hand["rx"]) /\ hand["rx"] \in Frames
                 /\ hand'["rx"] = NoFrame /\ UNCHANGED <<q, freed, job>>
              \/ /\ pc["rx"] = "discard" /\ pc'["rx"] = "discard"
                 /\ q[t] # <<>> /\ q'[t] = Tail(q[t])
                 /\ freed'[t] = freed[t] \cup {Head(q[t])} /\ UNCHANGED <<delivered, hand, job>>
              \/ /\ pc["rx"] \in {"drain", "discard"} /\ pc'["rx"] = job["rx"].then
                 /\ q[t] = <<>> /\ UNCHANGED <<q, hand, delivered, freed>>
<1>1. /\ pc'["timer"] = pc["timer"] /\ hand'["timer"] = hand["timer"]
      /\ job'["rx"].tid = t /\ job'["rx"].then = job["rx"].then
      /\ UNCHANGED <<aggr, seqNext, holdQ, connected, peer, base, arrived, frame, event>>
  BY DispatchEffect, RxJob DEF Threads
<1>2. /\ pc \in [Threads -> {"idle", "aim", "release", "dispatch", "drain", "deliver", "discard",
                           "pull", "store", "timer", "schedule", "arm", "monitor", "delete",
                           "install", "check", "scan", "keep", "forget"}]
      /\ q \in [Tids -> Seq(Frames)] /\ freed \in [Tids -> SUBSET Frames]
      /\ delivered \in [Tids -> Seq(Frames)] /\ hand \in [Threads -> Frames \cup {NoFrame}]
      /\ "rx" \in Threads
  BY RxJob DEF TypeInv, TypeOK
<1>3. CASE DispatchFrames("rx")
  <2>1. /\ pc["rx"] = "dispatch"
        /\ pc'["rx"] = (IF connected THEN "drain" ELSE "discard")
        /\ UNCHANGED <<q, hand, delivered, freed, job>>
    BY <1>2, <1>3 DEF DispatchFrames, Goto, tidVars, outVars
  <2> QED BY <1>1, <2>1
<1>4. CASE DrainFrame("rx")
  <2>1. /\ pc["rx"] = "drain" /\ pc'["rx"] = "deliver"
        /\ q[t] # <<>> /\ q' = [q EXCEPT ![t] = Tail(@)]
        /\ hand' = [hand EXCEPT !["rx"] = Head(q[t])]
        /\ UNCHANGED <<delivered, freed, job>>
    BY <1>2, <1>4 DEF DrainFrame, DispatchDone, Goto, outVars
  <2> QED BY <1>1, <1>2, <2>1
<1>5. CASE DeliverFrame("rx")
  <2>1. /\ pc["rx"] = "deliver" /\ pc'["rx"] = "drain" /\ connected
        /\ delivered' = [delivered EXCEPT ![t] = Append(@, hand["rx"])]
        /\ hand' = [hand EXCEPT !["rx"] = NoFrame] /\ UNCHANGED <<q, freed, job>>
    BY <1>2, <1>5 DEF DeliverFrame, Goto, tidVars
  <2>2. hand["rx"] \in Frames
    BY <1>2, <2>1 DEF TypeInv, Control
  <2> QED BY <1>1, <1>2, <2>1, <2>2
<1>6. CASE FreeFrame("rx")
  <2>1. /\ pc["rx"] = "discard" /\ pc' = pc
        /\ q[t] # <<>> /\ q' = [q EXCEPT ![t] = Tail(@)]
        /\ freed' = [freed EXCEPT ![t] = @ \cup {Head(q[t])}]
        /\ UNCHANGED <<delivered, hand, job>>
    BY <1>6 DEF FreeFrame, DispatchDone, localVars
  <2> QED BY <1>1, <1>2, <2>1
<1>7. CASE EndDispatch("rx")
  <2>1. /\ pc["rx"] \in {"drain", "discard"} /\ pc'["rx"] = job["rx"].then
        /\ q[t] = <<>> /\ UNCHANGED <<q, hand, delivered, freed>>
    BY <1>2, <1>7 DEF EndDispatch, DispatchDone, Goto, tidVars, outVars
  <2> QED BY <1>1, <2>1
<1> QED BY <1>3, <1>4, <1>5, <1>6, <1>7 DEF Dispatches

LEMMA PullStep ==
    ASSUME TypeInv, PullWindow, NEW t \in Tids, t = job["rx"].tid
    PROVE  /\ pc["rx"] = "pull" /\ pc'["rx"] = "store" /\ pc'["timer"] = pc["timer"]
           /\ seqNext'[t] = WindowEndingAt(SeqNo(frame)) /\ frame \in Frames
           /\ \A u \in Tids \ {t} : seqNext'[u] = seqNext[u]
           /\ UNCHANGED <<aggr, holdQ, q, connected, delivered, freed, peer, base, arrived, job,
                          hand, frame, event>>
  BY DEF PullWindow, Goto, outVars, peerVars, TypeInv, TypeOK, Control, Threads

LEMMA StoreStep ==
    ASSUME TypeInv, StoreFrame, NEW t \in Tids, t = job["rx"].tid
    PROVE  /\ pc["rx"] = "store" /\ pc'["rx"] = "aim" /\ pc'["timer"] = pc["timer"]
           /\ frame \in Frames /\ frame' = NoFrame
           /\ WinIdx(SeqNo(frame)) \in Slots
           /\ holdQ'[t][WinIdx(SeqNo(frame))] = frame
           /\ \A i \in Slots \ {WinIdx(SeqNo(frame))} : holdQ'[t][i] = holdQ[t][i]
           /\ \A u \in Tids \ {t} : holdQ'[u] = holdQ[u]
           /\ job'["rx"].tid = t /\ job'["rx"].seqNo = 0
           /\ job'["rx"].order = "CONTIGUOUS" /\ job'["rx"].then = "timer"
           /\ UNCHANGED <<aggr, seqNext, q, connected, delivered, freed, peer, base, arrived,
                          hand, event>>
<1> DEFINE i == WinIdx(SeqNo(frame))
<1>1. /\ pc["rx"] = "store" /\ frame' = NoFrame
      /\ holdQ' = [holdQ EXCEPT ![t][i] = frame]
      /\ Deque("rx", t, 0, "CONTIGUOUS", "timer")
      /\ UNCHANGED <<aggr, seqNext, q, connected, delivered, freed, peer, base, arrived,
                          hand, event>>
  BY DEF StoreFrame, outVars, peerVars
<1>2. frame \in Frames /\ i \in Slots
  <2>1. frame \in Frames
    BY <1>1 DEF TypeInv, Control
  <2>2. frame \in Int /\ peer \in Peers
    BY <2>1, Sizes DEF Frames, TypeInv, TypeOK
  <2>3. SeqNo(frame) \in 0..(SeqSpace - 1)
    BY <2>2, SeqNoType
  <2>4. SeqNo(frame) \in Int
    BY <2>3, Sizes
  <2> QED BY <2>1, <2>4, WinIdxType
<1>3. /\ job'["rx"].tid = t /\ job'["rx"].seqNo = 0
      /\ job'["rx"].order = "CONTIGUOUS" /\ job'["rx"].then = "timer"
      /\ pc' = [pc EXCEPT !["rx"] = "aim"]
  BY <1>1, RxJob, DequeType, Sizes DEF SeqNos, TypeInv
<1> HIDE DEF i
<1>4. /\ holdQ'[t][i] = frame
      /\ \A j \in Slots \ {i} : holdQ'[t][j] = holdQ[t][j]
      /\ \A u \in Tids \ {t} : holdQ'[u] = holdQ[u]
  BY <1>1, <1>2 DEF TypeInv, TypeOK
<1>5. pc'["rx"] = "aim" /\ pc'["timer"] = pc["timer"]
  BY <1>3 DEF TypeInv, TypeOK, Threads
<1> QED BY <1>1, <1>2, <1>3, <1>4, <1>5 DEF i

LEMMA NoteStep ==
    ASSUME TypeInv, NoteProgress \/ ScheduleTimer \/ ArmTimer \/ MonitorTid
    PROVE  /\ pc["rx"] \in {"timer", "schedule", "arm", "monitor"}
           /\ pc'["rx"] \in {"idle", "schedule", "arm", "monitor"}
           /\ pc'["timer"] = pc["timer"]
           /\ UNCHANGED <<aggr, seqNext, holdQ, q, connected, delivered, freed, peer, base,
                          arrived, job, hand, frame, event>>
  BY DEF NoteProgress, ScheduleTimer, ArmTimer, MonitorTid, Goto, tidVars, outVars, peerVars,
         TypeInv, TypeOK, Threads

\* Called from an event: the thread is off to aggr_deque_frms.
Called(t, seqNo, then) ==
    /\ pc'["rx"] = "aim" /\ job'["rx"].tid = t /\ job'["rx"].seqNo = seqNo
    /\ job'["rx"].order = "ALL" /\ job'["rx"].then = then

LEMMA CallStep ==
    ASSUME TypeInv, NEW t \in Tids, NEW seqNo \in SeqNos,
           NEW then \in {"idle", "pull", "store", "timer", "delete", "check"},
           Deque("rx", t, seqNo, "ALL", then)
    PROVE  Called(t, seqNo, then) /\ pc'["timer"] = pc["timer"]
<1>1. TypeOK /\ seqNo \in 0..(SeqSpace - 1) /\ "ALL" \in {"ALL", "CONTIGUOUS"}
      /\ "rx" \in Threads
  BY RxJob DEF SeqNos, TypeInv
<1>2. /\ job'["rx"].tid = t /\ job'["rx"].seqNo = seqNo
      /\ job'["rx"].order = "ALL" /\ job'["rx"].then = then
      /\ pc' = [pc EXCEPT !["rx"] = "aim"]
  BY <1>1, DequeType
<1> QED BY <1>2 DEF Called, TypeInv, TypeOK, Threads

LEMMA ReceiveStep ==
    ASSUME TypeInv, NEW t \in Tids, NEW n \in Frames, ReceiveFrame(t, n)
    PROVE  /\ pc["rx"] = "idle" /\ connected /\ Arrives(t, n) /\ n \in Int
           /\ SeqNo(n) \in SeqNos
           /\ arrived'[t] = arrived[t] \cup {n} /\ event' = "frame"
           /\ \A u \in Tids \ {t} : arrived'[u] = arrived[u] /\ delivered'[u] = delivered[u]
           /\ UNCHANGED <<aggr, seqNext, holdQ, q, connected, freed, peer, base, hand>>
           /\ pc'["timer"] = pc["timer"]
           /\ \/ /\ ~aggr[t] /\ delivered'[t] = Append(delivered[t], n)
                 /\ UNCHANGED <<frame, job, pc>>
              \/ /\ aggr[t] /\ delivered'[t] = delivered[t] /\ frame' = n
                 /\ Offset(SeqNo(n), seqNext[t]) < HoldQSz
                 /\ pc'["rx"] = "store" /\ job'["rx"].tid = t
              \/ /\ aggr[t] /\ delivered'[t] = delivered[t] /\ frame' = n
                 /\ Offset(SeqNo(n), seqNext[t]) >= 2 * HoldQSz - 1
                 /\ Called(t, 0, "pull")
              \/ /\ aggr[t] /\ delivered'[t] = delivered[t] /\ frame' = n
                 /\ Offset(SeqNo(n), seqNext[t]) \in HoldQSz..(2 * HoldQSz - 2)
                 /\ Called(t, WindowEndingAt(SeqNo(n)), "store")
<1> DEFINE cur == SeqNo(n)
           s == seqNext[t]
           end == WindowEnd(s)
<1>1. n \in Int /\ cur \in SeqNos /\ s \in SeqNos /\ 0 \in SeqNos
  <2>1. n \in Int
    BY Sizes DEF Frames
  <2>2. cur \in SeqNos
    BY <2>1, SeqNoType DEF TypeInv, TypeOK, SeqNos
  <2> QED BY <2>1, <2>2, RxJob, Sizes DEF SeqNos
<1>2. /\ pc["rx"] = "idle" /\ connected /\ Arrives(t, n) /\ event' = "frame"
      /\ arrived' = [arrived EXCEPT ![t] = @ \cup {n}]
      /\ UNCHANGED <<aggr, seqNext, holdQ, q, connected, freed, peer, base, hand>>
  BY DEF ReceiveFrame, tidVars
<1>3. \/ /\ ~aggr[t] /\ delivered' = [delivered EXCEPT ![t] = Append(@, n)]
         /\ UNCHANGED <<frame, job, pc>>
      \/ /\ aggr[t] /\ delivered' = delivered /\ frame' = n
         /\ \/ /\ ~Outside(cur, s, end)
               /\ Goto("rx", "store") /\ job' = [job EXCEPT !["rx"].tid = t]
            \/ /\ Outside(cur, s, end) /\ Outside(cur, end, WindowEnd(end))
               /\ Deque("rx", t, 0, "ALL", "pull")
            \/ /\ Outside(cur, s, end) /\ ~Outside(cur, end, WindowEnd(end))
               /\ Deque("rx", t, WindowEndingAt(cur), "ALL", "store")
  BY DEF ReceiveFrame
<1>4. /\ arrived'[t] = arrived[t] \cup {n}
      /\ \A u \in Tids \ {t} : arrived'[u] = arrived[u] /\ delivered'[u] = delivered[u]
      /\ delivered'[t] \in {delivered[t], Append(delivered[t], n)}
  BY <1>2, <1>3 DEF TypeInv, TypeOK
<1> HIDE DEF cur, s
<1>5. /\ Outside(cur, s, end) <=> Offset(cur, s) >= HoldQSz
      /\ Outside(cur, end, WindowEnd(end)) <=>
           Offset(cur, s) < HoldQSz - 1 \/ Offset(cur, s) >= 2 * HoldQSz - 1
      /\ WindowEndingAt(cur) \in SeqNos /\ Offset(cur, s) \in Int
  BY <1>1, WindowOffset, OffsetType
<1> HIDE DEF end
<1>6. CASE ~aggr[t]
  BY <1>1, <1>2, <1>3, <1>4, <1>6 DEF cur, TypeInv, TypeOK
<1>7. CASE aggr[t] /\ ~Outside(cur, s, end)
  <2>1. Goto("rx", "store") /\ job' = [job EXCEPT !["rx"].tid = t] /\ frame' = n /\ delivered' = delivered
    BY <1>3, <1>7
  <2>2. pc'["rx"] = "store" /\ pc'["timer"] = pc["timer"]
    BY <2>1 DEF Goto, TypeInv, TypeOK, Threads
  <2>3. job'["rx"].tid = t
    BY <2>1 DEF TypeInv, TypeOK, Threads, Jobs
  <2>4. Offset(cur, s) < HoldQSz
    BY <1>5, <1>7, Sizes
  <2> QED BY <1>1, <1>2, <1>4, <1>7, <2>1, <2>2, <2>3, <2>4 DEF cur, s
<1>8. CASE aggr[t] /\ Outside(cur, s, end) /\ Outside(cur, end, WindowEnd(end))
  <2>1. Deque("rx", t, 0, "ALL", "pull") /\ frame' = n /\ delivered' = delivered
    BY <1>3, <1>8
  <2>2. Called(t, 0, "pull") /\ pc'["timer"] = pc["timer"]
    BY <1>1, <2>1, CallStep
  <2>3. Offset(cur, s) >= 2 * HoldQSz - 1
    BY <1>5, <1>8, Sizes
  <2> QED BY <1>1, <1>2, <1>4, <1>8, <2>1, <2>2, <2>3 DEF cur, s
<1>9. CASE aggr[t] /\ Outside(cur, s, end) /\ ~Outside(cur, end, WindowEnd(end))
  <2>1. Deque("rx", t, WindowEndingAt(cur), "ALL", "store") /\ frame' = n /\ delivered' = delivered
    BY <1>3, <1>9
  <2>2. Called(t, WindowEndingAt(cur), "store") /\ pc'["timer"] = pc["timer"]
    BY <1>5, <2>1, CallStep
  <2>3. Offset(cur, s) \in HoldQSz..(2 * HoldQSz - 2)
    BY <1>5, <1>9, Sizes
  <2> QED BY <1>1, <1>2, <1>4, <1>9, <2>1, <2>2, <2>3 DEF cur, s
<1> QED BY <1>6, <1>7, <1>8, <1>9

\* aggr_delete_tid_state, from the events that call it.
DeleteCalled(t) ==
    IF aggr[t] THEN Called(t, 0, "delete") ELSE pc'["rx"] = "delete" /\ job'["rx"].tid = t

LEMMA DeleteCallStep ==
    ASSUME TypeInv, NEW t \in Tids, DeleteTid(t)
    PROVE  DeleteCalled(t) /\ pc'["timer"] = pc["timer"]
<1>1. /\ job'["rx"].tid = t
      /\ aggr[t] => pc' = [pc EXCEPT !["rx"] = "aim"] /\ job'["rx"].then = "delete"
                    /\ job'["rx"].order = "ALL" /\ job'["rx"].seqNo = 0
      /\ ~aggr[t] => pc' = [pc EXCEPT !["rx"] = "delete"]
  BY DeleteTidStep
<1> QED BY <1>1 DEF DeleteCalled, Called, TypeInv, TypeOK, Threads

LEMMA EventStep ==
    ASSUME TypeInv, NEW t \in Tids,
           ProcessBar(t) \/ RecvAddbaReq(t) \/ RecvDelbaReq(t) \/ ResetState
    PROVE  /\ pc["rx"] = "idle" /\ pc'["timer"] = pc["timer"]
           /\ UNCHANGED <<aggr, seqNext, holdQ, q, delivered, freed, peer, base, arrived, hand,
                          frame>>
           /\ \/ /\ ProcessBar(t) /\ peer.bars /\ aggr[t] /\ connected' = connected
                 /\ event' = "bar"
                 /\ SeqNo(base[t]) \in SeqNos /\ Called(t, SeqNo(base[t]), "idle")
              \/ /\ connected /\ connected' = connected /\ event' = "addba" /\ Settled(t)
                 /\ IF aggr[t] THEN Called(t, 0, "delete")
                    ELSE pc'["rx"] = "install" /\ job'["rx"].tid = t
              \/ /\ aggr[t] /\ "delba" \in peer.sessions /\ connected' = connected
                 /\ event' = "delba" /\ Called(t, 0, "delete")
              \/ /\ connected' \in BOOLEAN /\ event' = "reset" /\ DeleteCalled(0)
                 /\ connected /\ connected' => "reconnect" \in peer.sessions
<1>1. /\ pc["rx"] = "idle"
      /\ UNCHANGED <<aggr, seqNext, holdQ, q, delivered, freed, peer, base, arrived, hand,
                          frame>>
  BY DEF ProcessBar, RecvAddbaReq, RecvDelbaReq, ResetState, tidVars, outVars, peerVars
<1>2. CASE ProcessBar(t)
  <2>1. SeqNo(base[t]) \in SeqNos
    <3>1. base[t] \in Int /\ peer \in Peers
      BY Sizes DEF TypeInv, TypeOK
    <3> QED BY <3>1, SeqNoType DEF SeqNos
  <2>2. /\ Deque("rx", t, SeqNo(base[t]), "ALL", "idle")
        /\ peer.bars /\ aggr[t] /\ connected' = connected /\ event' = "bar"
    BY <1>2 DEF ProcessBar, outVars
  <2> QED BY <1>1, <1>2, <2>1, <2>2, CallStep
<1>3. CASE RecvAddbaReq(t)
  <2>1. /\ connected /\ connected' = connected /\ event' = "addba" /\ Settled(t)
        /\ aggr[t] => DeleteTid(t)
        /\ ~aggr[t] => job' = [job EXCEPT !["rx"].tid = t] /\ Goto("rx", "install")
    BY <1>3 DEF RecvAddbaReq, outVars
  <2>2. CASE aggr[t]
    BY <1>1, <2>1, <2>2, DeleteCallStep DEF DeleteCalled
  <2>3. CASE ~aggr[t]
    <3>1. pc'["rx"] = "install" /\ job'["rx"].tid = t /\ pc'["timer"] = pc["timer"]
      BY <2>1, <2>3 DEF Goto, TypeInv, TypeOK, Jobs, Threads
    <3> QED BY <1>1, <2>1, <2>3, <3>1
  <2> QED BY <2>2, <2>3
<1>4. CASE RecvDelbaReq(t)
  <2>1. /\ connected' = connected /\ event' = "delba" /\ aggr[t] /\ DeleteTid(t)
        /\ "delba" \in peer.sessions
    BY <1>4 DEF RecvDelbaReq, outVars
  <2> QED BY <1>1, <2>1, DeleteCallStep DEF DeleteCalled
<1>5. CASE ResetState
  <2>1. /\ connected' \in BOOLEAN /\ event' = "reset" /\ DeleteTid(0)
        /\ connected /\ connected' => "reconnect" \in peer.sessions
    BY <1>5 DEF ResetState
  <2>2. DeleteCalled(0) /\ pc'["timer"] = pc["timer"]
    BY <2>1, DeleteCallStep, Sizes
  <2> QED BY <1>1, <2>1, <2>2
<1> QED BY <1>2, <1>3, <1>4, <1>5

LEMMA DeleteStep ==
    ASSUME TypeInv, DeleteTidState, NEW t \in Tids, t = job["rx"].tid
    PROVE  /\ pc["rx"] = "delete" /\ pc'["timer"] = pc["timer"]
           /\ ~aggr'[t] /\ \A i \in Slots : holdQ'[t][i] = NoFrame
           /\ \A u \in Tids \ {t} : /\ aggr'[u] = aggr[u] /\ holdQ'[u] = holdQ[u]
                                    /\ seqNext'[u] = seqNext[u]
           /\ UNCHANGED <<q, connected, delivered, freed, peer, base, arrived, hand, frame,
                          event>>
           /\ IF event = "reset" /\ t + 1 \in Tids THEN DeleteCalled(t + 1)
              ELSE pc'["rx"] = (IF event = "addba" THEN "install" ELSE "idle") /\ job' = job
<1>1. /\ pc["rx"] = "delete"
      /\ aggr' = [aggr EXCEPT ![t] = FALSE]
      /\ seqNext' = [seqNext EXCEPT ![t] = 0]
      /\ holdQ' = [holdQ EXCEPT ![t] = EmptyQ]
      /\ event = "reset" /\ t + 1 \in Tids => DeleteTid(t + 1)
      /\ ~(event = "reset" /\ t + 1 \in Tids) =>
             /\ pc' = [pc EXCEPT !["rx"] = IF event = "addba" THEN "install" ELSE "idle"]
             /\ job' = job
      /\ UNCHANGED <<q, connected, delivered, freed, peer, base, arrived, hand, frame,
                     event>>
  BY DEF DeleteTidState, Goto, outVars, peerVars
<1>2. /\ ~aggr'[t] /\ holdQ'[t] = EmptyQ
      /\ \A u \in Tids \ {t} : /\ aggr'[u] = aggr[u] /\ holdQ'[u] = holdQ[u]
                                    /\ seqNext'[u] = seqNext[u]
  BY <1>1 DEF TypeInv, TypeOK
<1>3. \A i \in Slots : holdQ'[t][i] = NoFrame
  BY <1>2 DEF EmptyQ
<1>4. CASE event = "reset" /\ t + 1 \in Tids
  BY <1>1, <1>2, <1>3, <1>4, DeleteCallStep
<1>5. CASE ~(event = "reset" /\ t + 1 \in Tids)
  <2>1. pc'["rx"] = (IF event = "addba" THEN "install" ELSE "idle") /\ pc'["timer"] = pc["timer"]
    BY <1>1, <1>5 DEF TypeInv, TypeOK, Threads
  <2> QED BY <1>1, <1>2, <1>3, <1>5, <2>1
<1> QED BY <1>4, <1>5

LEMMA InstallStep ==
    ASSUME TypeInv, InstallTid, NEW t \in Tids, t = job["rx"].tid
    PROVE  /\ pc["rx"] = "install" /\ pc'["rx"] = "idle" /\ pc'["timer"] = pc["timer"]
           /\ seqNext'[t] = SeqNo(base[t])
           /\ \A i \in Slots : holdQ'[t][i] = NoFrame
           /\ \A u \in Tids \ {t} : /\ aggr'[u] = aggr[u] /\ holdQ'[u] = holdQ[u]
                                    /\ seqNext'[u] = seqNext[u]
           /\ UNCHANGED <<q, connected, delivered, freed, peer, base, arrived, job, hand, frame,
                          event>>
<1>1. /\ pc["rx"] = "install" /\ pc' = [pc EXCEPT !["rx"] = "idle"]
      /\ seqNext' = [seqNext EXCEPT ![t] = SeqNo(base[t])]
      /\ holdQ' = [holdQ EXCEPT ![t] = EmptyQ]
      /\ \E ok \in BOOLEAN : aggr' = [aggr EXCEPT ![t] = ok]
      /\ UNCHANGED <<q, connected, delivered, freed, peer, base, arrived, job, hand, frame,
                     event>>
  BY DEF InstallTid, Goto, outVars, peerVars
<1>2. /\ holdQ'[t] = EmptyQ /\ seqNext'[t] = SeqNo(base[t])
      /\ \A u \in Tids \ {t} : /\ aggr'[u] = aggr[u] /\ holdQ'[u] = holdQ[u]
                                    /\ seqNext'[u] = seqNext[u]
  BY <1>1 DEF TypeInv, TypeOK
<1>3. \A i \in Slots : holdQ'[t][i] = NoFrame
  BY <1>2 DEF EmptyQ
<1> QED BY <1>1, <1>2, <1>3 DEF TypeInv, TypeOK, Threads

-----------------------------------------------------------------------------
(***************************************************************************)
(* The ring (without a timeout): what is held is in the slot of its number, *)
(* inside the window, and aggr_deque_frms visits the slots it should.      *)
(***************************************************************************)
\* SeqNo, as an operator of constants.
Num(first, n) == (first + n) % SeqSpace

\* How far a frame is beyond the start of the window.
Dist(t, f) == Offset(Num(peer.first, f), seqNext[t])

\* What is held is in the slot of its number, inside the window.
Placed(t) ==
    \A i \in Slots : holdQ[t][i] # NoFrame =>
        i = WinIdx(Num(peer.first, holdQ[t][i])) /\ Dist(t, holdQ[t][i]) < HoldQSz

\* Slots that aggr_deque_frms has yet to visit; from idx, at least one.
Remaining ==
    IF job["rx"].end > job["rx"].idx THEN job["rx"].end - job["rx"].idx
    ELSE job["rx"].end - job["rx"].idx + HoldQSz

\* The slots are released, and the thread goes on at one of these places.
Reached(places) ==
    \/ pc["rx"] \in places
    \/ pc["rx"] \in Dispatching /\ job["rx"].then \in places

CallInv ==
    pc["rx"] \in {"aim", "release"} =>
        /\ job["rx"].order = "CONTIGUOUS" <=> job["rx"].then = "timer"
        /\ job["rx"].then \in {"pull", "delete", "timer"} => job["rx"].seqNo = 0
        /\ job["rx"].then = "idle" => peer.bars

Aimed ==
    pc["rx"] = "aim" /\ job["rx"].then = "store" =>
        /\ job["rx"].seqNo = WindowEndingAt(Num(peer.first, frame))
        /\ Dist(job["rx"].tid, frame) \in HoldQSz..(2 * HoldQSz - 2)

Releasing ==
    pc["rx"] = "release" =>
        /\ job["rx"].idx = WinIdx(seqNext[job["rx"].tid])
        /\ job["rx"].seqNo = 0 =>
             \A i \in Slots : holdQ[job["rx"].tid][i] # NoFrame =>
                 Dist(job["rx"].tid, holdQ[job["rx"].tid][i]) < Remaining
        /\ job["rx"].then = "store" =>
             Dist(job["rx"].tid, frame) \in Remaining..(Remaining + HoldQSz - 1)

Released ==
    /\ Reached({"store"}) => Dist(job["rx"].tid, frame) < HoldQSz
    /\ Reached({"pull", "delete"}) => \A i \in Slots : holdQ[job["rx"].tid][i] = NoFrame
    /\ pc["rx"] = "install" => ~aggr[job["rx"].tid]

\* A frame at the start of the window is held only on the way to its release.
Settling(t) ==
    job["rx"].tid = t /\ (pc["rx"] \in {"aim", "release"} \/ Reached({"store"}))

Ahead(t) ==
    Settling(t) \/ peer.bars \/ \A i \in Slots : holdQ[t][i] # NoFrame => Dist(t, holdQ[t][i]) # 0

Ring ==
    /\ pc["timer"] = "idle"
    /\ CallInv /\ Aimed /\ Releasing /\ Released
    /\ \A t \in Tids : Placed(t) /\ Ahead(t)

LEMMA SeqNoNum == \A n : SeqNo(n) = Num(peer.first, n)
  BY DEF SeqNo, Num

LEMMA NumType ==
    ASSUME TypeInv, NEW n \in Frames PROVE Num(peer.first, n) \in SeqNos /\ n \in Int
<1>1. n \in Int /\ peer \in Peers
  BY Sizes DEF Frames, TypeInv, TypeOK
<1>2. SeqNo(n) \in 0..(SeqSpace - 1)
  BY <1>1, SeqNoType
<1> QED BY <1>1, <1>2, SeqNoNum DEF SeqNos

LEMMA DistType ==
    ASSUME TypeInv, NEW t \in Tids, NEW n \in Frames
    PROVE  /\ Dist(t, n) \in 0..(SeqSpace - 1) /\ Dist(t, n) \in Int
           /\ Dist(t, n) = 0 <=> Num(peer.first, n) = seqNext[t]
<1>1. Num(peer.first, n) \in SeqNos /\ seqNext[t] \in SeqNos
  BY NumType, RxJob
<1> QED BY <1>1, OffsetType DEF Dist, SeqNos

LEMMA HeldType ==
    ASSUME TypeInv, NEW t \in Tids, NEW i \in Slots, holdQ[t][i] # NoFrame
    PROVE  holdQ[t][i] \in Frames
  BY DEF TypeInv, TypeOK

LEMMA PlacedSame ==
    ASSUME NEW t, holdQ'[t] = holdQ[t], seqNext'[t] = seqNext[t], peer' = peer
    PROVE  /\ Placed(t)' <=> Placed(t)
           /\ \A n : Dist(t, n)' = Dist(t, n)
  BY DEF Placed, Dist

\* Nothing is held for a TID.
Bare(t) == \A i \in Slots : holdQ[t][i] = NoFrame

LEMMA InitRing == Init /\ ~peer.timer => Ring
<1> SUFFICES ASSUME Init, ~peer.timer PROVE Ring
  OBVIOUS
<1>1. \A t \in Tids, i \in Slots : holdQ[t][i] = NoFrame
  BY DEF Init, EmptyQ
<1>2. pc["timer"] = "idle" /\ pc["rx"] = "idle"
  BY DEF Init, Threads
<1> QED BY <1>1, <1>2 DEF Ring, CallInv, Aimed, Releasing, Released, Reached, Dispatching, Placed, Ahead

\* A shifted window: as many slots are released as it takes to make room for the frame.
LEMMA AimShift ==
    ASSUME TypeInv, Ring, AimDeque("rx"), NEW t \in Tids, t = job["rx"].tid,
           job["rx"].then = "store", job["rx"].seqNo # 0
    PROVE  Remaining' = Dist(t, frame) - (HoldQSz - 1)
<1> DEFINE x == Num(peer.first, frame)
           d == Dist(t, frame)
           s == seqNext[t]
           seqNo == job["rx"].seqNo
<1>1. /\ pc["rx"] = "aim" /\ job'["rx"].idx = WinIdx(s) /\ job'["rx"].end = WinIdx(seqNo)
  BY AimStep
<1>2. frame \in Frames
  BY <1>1 DEF TypeInv, Control, Dequeuing, Dispatching
<1>3. seqNo = WindowEndingAt(x) /\ d \in HoldQSz..(2 * HoldQSz - 2) /\ d = Offset(x, s)
  BY <1>1 DEF Ring, Aimed, Dist
<1>4. x \in SeqNos /\ s \in SeqNos /\ seqNo \in SeqNos /\ WinIdx(s) \in Slots
  <2>1. x \in SeqNos /\ s \in SeqNos /\ seqNo \in SeqNos
    BY <1>2, NumType, RxJob
  <2>2. s \in Int
    BY <2>1, Sizes DEF SeqNos
  <2> HIDE DEF s
  <2> QED BY <2>1, <2>2, WinIdxType
<1> HIDE DEF x, d, s
<1>5. Offset(seqNo, s) = d - (HoldQSz - 1)
  BY <1>3, <1>4, WindowOffset, Sizes
<1>6. WinIdx(seqNo) = IF WinIdx(s) + Offset(seqNo, s) < HoldQSz THEN WinIdx(s) + Offset(seqNo, s)
                      ELSE WinIdx(s) + Offset(seqNo, s) - HoldQSz
  <2>1. Offset(seqNo, s) < HoldQSz
    BY <1>3, <1>5, Sizes
  <2> QED BY <1>4, <2>1, SlotAt
<1>7. Remaining' = d - (HoldQSz - 1)
  BY <1>1, <1>3, <1>4, <1>5, <1>6, Sizes DEF Remaining, Slots
<1> QED BY <1>7 DEF d

LEMMA AimRing ==
    ASSUME TypeInv, TimerInv, Ring, AimDeque("rx") PROVE Ring'
<1> DEFINE seqNo == job["rx"].seqNo
<1>0. PICK t \in Tids : t = job["rx"].tid
  BY RxJob
<1> DEFINE s == seqNext[t]
           upTo == IF seqNo # 0 THEN seqNo ELSE s
<1>1. /\ pc["rx"] = "aim" /\ pc'["rx"] = "release" /\ pc'["timer"] = pc["timer"]
      /\ job'["rx"].tid = t /\ job'["rx"].seqNo = seqNo
      /\ job'["rx"].order = job["rx"].order /\ job'["rx"].then = job["rx"].then
      /\ job'["rx"].idx = WinIdx(s) /\ job'["rx"].end = WinIdx(upTo)
      /\ UNCHANGED <<aggr, seqNext, holdQ, peer, frame>>
  BY <1>0, AimStep
<1>2. seqNo \in SeqNos /\ s \in SeqNos /\ upTo \in SeqNos
  BY RxJob
<1>3. WinIdx(s) \in Slots /\ WinIdx(upTo) \in Slots
  <2>1. s \in Int /\ upTo \in Int
    BY <1>2, Sizes DEF SeqNos
  <2> HIDE DEF s, upTo
  <2> QED BY <2>1, WinIdxType
<1>4. /\ \A u \in Tids : (Placed(u)' <=> Placed(u)) /\ \A n : Dist(u, n)' = Dist(u, n)
  BY <1>1, PlacedSame
<1> HIDE DEF s
<1>5. seqNo = 0 => Remaining' = HoldQSz
  BY <1>1, <1>3, Sizes DEF Remaining, Slots
<1>6. job["rx"].then = "store" => Dist(t, frame) \in Remaining'..(Remaining' + HoldQSz - 1)
  <2> SUFFICES ASSUME job["rx"].then = "store"
               PROVE  Dist(t, frame) \in Remaining'..(Remaining' + HoldQSz - 1)
    OBVIOUS
  <2>1. frame \in Frames
    BY <1>1 DEF TypeInv, Control, Dequeuing, Dispatching
  <2> DEFINE x == Num(peer.first, frame)
             d == Dist(t, frame)
  <2>2. seqNo = WindowEndingAt(x) /\ d \in HoldQSz..(2 * HoldQSz - 2) /\ d = Offset(x, s)
    BY <1>0, <1>1 DEF Ring, Aimed, Dist, s
  <2> HIDE DEF x, d
  <2>4. CASE seqNo = 0
    BY <1>5, <2>2, <2>4, Sizes DEF d
  <2>5. CASE seqNo # 0
    <3>1. Remaining' = d - (HoldQSz - 1)
      BY <1>0, <2>5, AimShift DEF d
    <3> QED BY <2>2, <3>1, Sizes DEF d
  <2> QED BY <2>4, <2>5
<1>7. Releasing'
  <2>1. \A i \in Slots : holdQ[t][i] # NoFrame => Dist(t, holdQ[t][i]) < HoldQSz
    BY DEF Ring, Placed
  <2> QED BY <1>1, <1>4, <1>5, <1>6, <2>1 DEF Releasing, s
<1>8. CallInv' /\ Aimed' /\ Released'
  BY <1>0, <1>1 DEF Ring, CallInv, Aimed, Released, Reached, Dispatching
<1>9. \A u \in Tids : Ahead(u)'
  BY <1>0, <1>1, <1>4 DEF Ring, Ahead, Settling, Reached, Dispatching
<1> QED BY <1>1, <1>4, <1>7, <1>8, <1>9 DEF Ring

\* The slot at the start of the window holds the frame of its number or none; a
\* window that has moved by one still covers all the others.
LEMMA MovedDist ==
    ASSUME TypeInv, Ring, NEW t \in Tids, t = job["rx"].tid, pc["rx"] = "release",
           peer' = peer, Moved(t)
    PROVE  /\ \A f \in Frames : Dist(t, f) # 0 => Dist(t, f)' = Dist(t, f) - 1
           /\ \A i \in Slots \ {job["rx"].idx} :
                holdQ[t][i] # NoFrame => Dist(t, holdQ[t][i]) # 0
           /\ holdQ[t][job["rx"].idx] # NoFrame => Dist(t, holdQ[t][job["rx"].idx]) = 0
<1> DEFINE s == seqNext[t]
           i == job["rx"].idx
<1>1. s \in SeqNos /\ i \in Slots
  BY RxJob
<1>2. seqNext'[t] = NextSeqNo(s)
  BY DEF Moved
<1>3. \A f \in Frames : Num(peer.first, f) \in SeqNos
  BY NumType
<1>4. i = WinIdx(s)
  BY DEF Ring, Releasing
<1> HIDE DEF s, i
<1>5. ASSUME NEW f \in Frames, Dist(t, f) # 0 PROVE Dist(t, f)' = Dist(t, f) - 1
  <2>1. Offset(Num(peer.first, f), NextSeqNo(s)) = Offset(Num(peer.first, f), s) - 1
    BY <1>1, <1>3, <1>5, NextOffset DEF Dist, s
  <2> QED BY <1>2, <2>1 DEF Dist, s
<1>6. ASSUME NEW j \in Slots \ {i}, holdQ[t][j] # NoFrame PROVE Dist(t, holdQ[t][j]) # 0
  <2>1. j = WinIdx(Num(peer.first, holdQ[t][j])) /\ holdQ[t][j] \in Frames
    BY <1>6, HeldType DEF Ring, Placed
  <2> QED BY <1>4, <2>1, DistType DEF s
<1>7. ASSUME holdQ[t][i] # NoFrame PROVE Dist(t, holdQ[t][i]) = 0
  <2> DEFINE f == holdQ[t][i]
             x == Num(peer.first, f)
             d == Offset(x, s)
  <2>1. i = WinIdx(x) /\ f \in Frames /\ d < HoldQSz
    BY <1>1, <1>7, HeldType DEF Ring, Placed, Dist, s
  <2>2. x \in SeqNos
    BY <1>3, <2>1
  <2> HIDE DEF x, f
  <2>3. d \in SeqNos
    BY <1>1, <2>2, OffsetType
  <2>4. WinIdx(x) = IF WinIdx(s) + d < HoldQSz THEN WinIdx(s) + d ELSE WinIdx(s) + d - HoldQSz
    BY <1>1, <2>1, <2>2, SlotAt
  <2> HIDE DEF d
  <2>5. d = 0
    BY <1>1, <1>4, <2>1, <2>3, <2>4, Sizes DEF Slots, SeqNos
  <2> QED BY <2>5 DEF d, x, f, Dist, s
<1> QED BY <1>5, <1>6, <1>7 DEF i

LEMMA MovedRemaining ==
    ASSUME TypeInv, Ring, NEW t \in Tids, t = job["rx"].tid, pc["rx"] = "release",
           job'["rx"].end = job["rx"].end, Moved(t)
    PROVE  /\ Remaining \in 1..HoldQSz
           /\ pc'["rx"] \in {"dispatch", "release"}
           /\ pc'["rx"] = "dispatch" <=> Remaining = 1
           /\ pc'["rx"] = "release" => Remaining' = Remaining - 1
<1> DEFINE i == job["rx"].idx
           e == job["rx"].end
           s == seqNext[t]
<1>1. i \in Slots /\ e \in Slots /\ s \in SeqNos /\ i = WinIdx(s)
  BY RxJob DEF Ring, Releasing
<1>2. /\ job'["rx"].idx = WinIdx(NextSeqNo(s))
      /\ pc'["rx"] = IF job'["rx"].idx = e THEN "dispatch" ELSE "release"
  BY DEF Moved
<1>3. NextSeqNo(s) \in SeqNos /\ Offset(NextSeqNo(s), s) = 1 /\ 1 < HoldQSz
  BY <1>1, NextOffset, Sizes
<1> HIDE DEF s
<1>4. WinIdx(NextSeqNo(s)) = IF WinIdx(s) + 1 < HoldQSz THEN WinIdx(s) + 1
                             ELSE WinIdx(s) + 1 - HoldQSz
  BY <1>1, <1>3, SlotAt
<1>5. job'["rx"].idx = IF i + 1 < HoldQSz THEN i + 1 ELSE 0
  BY <1>1, <1>2, <1>4, Sizes DEF Slots
<1> DEFINE n == job'["rx"].idx
<1>6. /\ Remaining = IF e > i THEN e - i ELSE e - i + HoldQSz
      /\ Remaining' = IF e > n THEN e - n ELSE e - n + HoldQSz
  BY DEF Remaining
<1>7. n \in Slots /\ n = IF i + 1 < HoldQSz THEN i + 1 ELSE 0
  BY <1>1, <1>5, Sizes DEF Slots
<1> HIDE DEF n, i, e
<1>8. /\ Remaining \in 1..HoldQSz
      /\ n = e <=> Remaining = 1
      /\ n # e => Remaining' = Remaining - 1
  BY <1>1, <1>6, <1>7, Sizes DEF Slots
<1>9. pc'["rx"] = IF n = e THEN "dispatch" ELSE "release"
  BY <1>2 DEF n, e
<1> QED BY <1>8, <1>9

LEMMA ReleaseRing ==
    ASSUME TypeInv, TimerInv, Ring, ReleaseSlot("rx") PROVE Ring'
<1>0. PICK t \in Tids : t = job["rx"].tid
  BY RxJob
<1>1. /\ pc["rx"] = "release" /\ pc'["timer"] = pc["timer"] /\ aggr[t]
      /\ job'["rx"].tid = t /\ job'["rx"].seqNo = job["rx"].seqNo
      /\ job'["rx"].order = job["rx"].order /\ job'["rx"].then = job["rx"].then
      /\ job'["rx"].end = job["rx"].end
      /\ UNCHANGED <<aggr, peer, frame>>
  BY <1>0, ReleaseStep
<1>2. CASE /\ job["rx"].order = "CONTIGUOUS" /\ holdQ[t][job["rx"].idx] = NoFrame
           /\ pc'["rx"] = "dispatch" /\ UNCHANGED <<q, holdQ, seqNext, job>>
  <2>1. /\ \A u \in Tids : (Placed(u)' <=> Placed(u)) /\ \A n : Dist(u, n)' = Dist(u, n)
    BY <1>1, <1>2, PlacedSame
  <2>2. job["rx"].then = "timer"
    BY <1>1, <1>2 DEF Ring, CallInv
  <2>3. \A i \in Slots : holdQ[t][i] # NoFrame => Dist(t, holdQ[t][i]) # 0
    <3> SUFFICES ASSUME NEW i \in Slots, holdQ[t][i] # NoFrame, Dist(t, holdQ[t][i]) = 0
                 PROVE  FALSE
      OBVIOUS
    <3>1. Num(peer.first, holdQ[t][i]) = seqNext[t]
      BY HeldType, DistType
    <3>2. i = job["rx"].idx
      BY <1>0, <1>1, <3>1 DEF Ring, Placed, Releasing
    <3> QED BY <1>2, <3>2
  <2>4. \A u \in Tids : Ahead(u)'
    BY <1>0, <1>1, <1>2, <2>1, <2>2, <2>3 DEF Ring, Ahead, Settling, Reached, Dispatching
  <2> QED BY <1>0, <1>1, <1>2, <2>1, <2>2, <2>4
          DEF Ring, CallInv, Aimed, Releasing, Released, Reached, Dispatching
<1>3. CASE /\ job["rx"].order = "CONTIGUOUS" => holdQ[t][job["rx"].idx] # NoFrame
           /\ Moved(t)
  <2> DEFINE i == job["rx"].idx
             e == job["rx"].end
             r == Remaining
             s == seqNext[t]
  <2>1. i \in Slots /\ e \in Slots /\ s \in SeqNos /\ i = WinIdx(s)
    BY <1>0, <1>1, RxJob DEF Ring, Releasing
  <2>2. /\ \A f \in Frames : Dist(t, f) # 0 => Dist(t, f)' = Dist(t, f) - 1
        /\ \A j \in Slots \ {i} : holdQ[t][j] # NoFrame => Dist(t, holdQ[t][j]) # 0
        /\ holdQ[t][i] # NoFrame => Dist(t, holdQ[t][i]) = 0
    BY <1>0, <1>1, <1>3, MovedDist
  <2>3. /\ seqNext'[t] = NextSeqNo(s) /\ job'["rx"].idx = WinIdx(NextSeqNo(s))
        /\ holdQ'[t][i] = NoFrame
        /\ \A j \in Slots \ {i} : holdQ'[t][j] = holdQ[t][j]
        /\ \A u \in Tids \ {t} : holdQ'[u] = holdQ[u] /\ seqNext'[u] = seqNext[u]
        /\ pc'["rx"] = IF job'["rx"].idx = e THEN "dispatch" ELSE "release"
    BY <1>3 DEF Moved
  <2>5. /\ r \in 1..HoldQSz
        /\ pc'["rx"] = "dispatch" <=> r = 1
        /\ pc'["rx"] = "release" => Remaining' = r - 1
    BY <1>0, <1>1, <1>3, MovedRemaining
  <2>6. \A j \in Slots : holdQ'[t][j] # NoFrame =>
            /\ j # i /\ holdQ'[t][j] = holdQ[t][j] /\ holdQ[t][j] \in Frames
            /\ Dist(t, holdQ[t][j]) # 0
            /\ Dist(t, holdQ[t][j])' = Dist(t, holdQ[t][j]) - 1
            /\ Dist(t, holdQ[t][j]) \in Int
    BY <2>2, <2>3, HeldType, DistType
  <2>7. \A u \in Tids : Placed(u)'
    <3> SUFFICES ASSUME NEW u \in Tids PROVE Placed(u)'
      OBVIOUS
    <3>1. CASE u # t
      BY <1>1, <2>3, <3>1, PlacedSame DEF Ring
    <3>2. CASE u = t
      <4> SUFFICES ASSUME NEW j \in Slots, holdQ'[t][j] # NoFrame
                   PROVE  /\ j = WinIdx(Num(peer.first, holdQ[t][j]))
                          /\ Dist(t, holdQ[t][j])' < HoldQSz
        BY <1>1, <2>6, <3>2 DEF Placed, Dist
      <4> QED BY <2>6, Sizes DEF Ring, Placed
    <3> QED BY <3>1, <3>2
  <2> HIDE DEF r, s
  <2>8. job["rx"].seqNo = 0 =>
          \A j \in Slots : holdQ'[t][j] # NoFrame => Dist(t, holdQ[t][j])' < r - 1
    <3> SUFFICES ASSUME job["rx"].seqNo = 0, NEW j \in Slots, holdQ'[t][j] # NoFrame
                 PROVE  Dist(t, holdQ[t][j])' < r - 1
      OBVIOUS
    <3>1. Dist(t, holdQ[t][j]) < r
      BY <1>0, <1>1, <2>6 DEF Ring, Releasing, r
    <3>2. Dist(t, holdQ[t][j])' < r - 1
      BY <2>5, <2>6, <3>1
    <3> QED BY <3>2
  <2>9. job["rx"].then = "store" => Dist(t, frame)' \in (r - 1)..(r - 1 + HoldQSz - 1)
    <3> SUFFICES ASSUME job["rx"].then = "store"
                 PROVE  Dist(t, frame)' \in (r - 1)..(r - 1 + HoldQSz - 1)
      OBVIOUS
    <3>1. frame \in Frames
      BY <1>1 DEF TypeInv, Control, Dequeuing, Dispatching
    <3>2. Dist(t, frame) \in r..(r + HoldQSz - 1)
      BY <1>0, <1>1 DEF Ring, Releasing, r
    <3>3. Dist(t, frame)' = Dist(t, frame) - 1
      <4>1. Dist(t, frame) # 0
        BY <2>5, <3>2
      <4>2. \A f \in Frames : f = frame => Dist(t, f)' = Dist(t, f) - 1
        BY <2>2, <4>1
      <4> QED BY <1>1, <3>1, <4>2 DEF Dist
    <3> QED BY <2>5, <3>2, <3>3, Sizes
  <2>10. Releasing'
    BY <1>1, <2>3, <2>5, <2>8, <2>9 DEF Releasing
  <2>11. r = 1 /\ job["rx"].seqNo = 0 => \A j \in Slots : holdQ'[t][j] = NoFrame
    <3> SUFFICES ASSUME r = 1, job["rx"].seqNo = 0, NEW j \in Slots, holdQ'[t][j] # NoFrame
                 PROVE  FALSE
      OBVIOUS
    <3>1. Dist(t, holdQ[t][j]) < 1
      BY <1>0, <1>1, <2>6 DEF Ring, Releasing, r
    <3>2. Dist(t, holdQ[t][j]) >= 0
      BY <2>6, DistType, Sizes
    <3> QED BY <2>6, <3>1, <3>2
  <2>12. Released'
    <3>1. Reached({"store"})' => r = 1 /\ job["rx"].then = "store"
      BY <1>1, <2>3, <2>5 DEF Reached, Dispatching
    <3>2. Reached({"pull", "delete"})' => r = 1 /\ job["rx"].seqNo = 0
      BY <1>1, <2>3, <2>5 DEF Reached, Dispatching, Ring, CallInv
    <3>3. Reached({"store"})' => Dist(t, frame)' < HoldQSz
      BY <2>9, <3>1, Sizes DEF Dist
    <3>4. pc'["rx"] # "install"
      BY <2>3
    <3> QED BY <1>1, <2>11, <3>2, <3>3, <3>4 DEF Released, Dist
  <2>13. \A u \in Tids : Ahead(u)'
    <3> SUFFICES ASSUME NEW u \in Tids, ~peer.bars PROVE Ahead(u)'
      BY <1>1 DEF Ahead
    <3>1. CASE u # t
      <4>1. ~Settling(u)
        BY <1>0, <3>1 DEF Settling
      <4>2. \A j \in Slots : holdQ[u][j] # NoFrame => Dist(u, holdQ[u][j]) # 0
        BY <4>1 DEF Ring, Ahead
      <4> QED BY <1>1, <2>3, <3>1, <4>2 DEF Ahead, Dist
    <3>2. CASE u = t /\ pc'["rx"] = "release"
      BY <1>1, <3>2 DEF Ahead, Settling
    <3>3. CASE u = t /\ pc'["rx"] = "dispatch" /\ job["rx"].then = "store"
      BY <1>1, <3>3 DEF Ahead, Settling, Reached, Dispatching
    <3>4. CASE u = t /\ pc'["rx"] = "dispatch" /\ job["rx"].then # "store"
      <4>1. job["rx"].then \in {"pull", "delete", "timer"}
        BY <1>1, <3>4 DEF Ring, CallInv, TypeInv, Control, Dequeuing, Dispatching
      <4>2. job["rx"].seqNo = 0 /\ r = 1
        BY <1>1, <2>5, <3>4, <4>1 DEF Ring, CallInv
      <4> QED BY <2>11, <3>4, <4>2 DEF Ahead
    <3> QED BY <2>3, <3>1, <3>2, <3>3, <3>4
  <2>14. CallInv' /\ Aimed'
    BY <1>1, <2>3 DEF Ring, CallInv, Aimed
  <2> QED BY <1>1, <2>7, <2>10, <2>12, <2>13, <2>14 DEF Ring
<1>4. \/ /\ job["rx"].order = "CONTIGUOUS" /\ holdQ[t][job["rx"].idx] = NoFrame
         /\ pc'["rx"] = "dispatch" /\ UNCHANGED <<q, holdQ, seqNext, job>>
      \/ /\ job["rx"].order = "CONTIGUOUS" => holdQ[t][job["rx"].idx] # NoFrame
         /\ Moved(t)
  BY <1>0, ReleaseStep
<1> QED BY <1>2, <1>3, <1>4

\* The slots and the windows stay as they are, and the thread moves among
\* places that say nothing of them.
LEMMA QuietRing ==
    ASSUME TypeInv, Ring, pc'["timer"] = pc["timer"], UNCHANGED <<holdQ, seqNext, peer>>,
           CallInv', Aimed', Releasing', Released',
           \A t \in Tids : Settling(t) /\ ~Bare(t) => Settling(t)'
    PROVE  Ring'
<1>1. \A u \in Tids : (Placed(u)' <=> Placed(u)) /\ \A n : Dist(u, n)' = Dist(u, n)
  BY PlacedSame
<1>2. \A t \in Tids : Ahead(t)'
  BY <1>1 DEF Ring, Ahead, Bare
<1> QED BY <1>1, <1>2 DEF Ring

LEMMA DispatchRing ==
    ASSUME TypeInv, TimerInv, Ring, Dispatches("rx") PROVE Ring'
<1>0. PICK t \in Tids : t = job["rx"].tid
  BY RxJob
<1>1. /\ pc'["timer"] = pc["timer"] /\ UNCHANGED <<aggr, seqNext, holdQ, peer, frame>>
      /\ job'["rx"].tid = t /\ job'["rx"].then = job["rx"].then
      /\ pc["rx"] \in Dispatching /\ pc'["rx"] \in Dispatching \cup {job["rx"].then}
  BY <1>0, DispatchStep DEF Dispatching
<1>2. job["rx"].then \in {"idle", "pull", "store", "timer", "delete"}
  BY <1>1 DEF TypeInv, Control, Dequeuing, Dispatching
<1>3. CallInv' /\ Aimed' /\ Releasing'
  BY <1>1, <1>2 DEF CallInv, Aimed, Releasing, Dispatching
<1>4. Released'
  BY <1>0, <1>1, <1>2 DEF Ring, Released, Reached, Dispatching, Dist
<1>5. \A u \in Tids : Settling(u) => Settling(u)'
  BY <1>0, <1>1, <1>2 DEF Settling, Reached, Dispatching
<1> QED BY <1>1, <1>3, <1>4, <1>5, QuietRing

LEMMA NoteRing ==
    ASSUME TypeInv, TimerInv, Ring, NoteProgress \/ ScheduleTimer \/ ArmTimer \/ MonitorTid
    PROVE  Ring'
<1>1. /\ pc["rx"] \in {"timer", "schedule", "arm", "monitor"}
      /\ pc'["rx"] \in {"idle", "schedule", "arm", "monitor"}
      /\ pc'["timer"] = pc["timer"]
      /\ UNCHANGED <<aggr, seqNext, holdQ, peer, job, frame>>
  BY NoteStep
<1>2. CallInv' /\ Aimed' /\ Releasing' /\ Released'
  BY <1>1 DEF CallInv, Aimed, Releasing, Released, Reached, Dispatching
<1>3. \A u \in Tids : ~Settling(u)
  BY <1>1 DEF Settling, Reached, Dispatching
<1> QED BY <1>1, <1>2, <1>3, QuietRing

LEMMA PullRing ==
    ASSUME TypeInv, TimerInv, Ring, PullWindow PROVE Ring'
<1>0. PICK t \in Tids : t = job["rx"].tid
  BY RxJob
<1>1. /\ pc["rx"] = "pull" /\ pc'["rx"] = "store" /\ pc'["timer"] = pc["timer"]
      /\ seqNext'[t] = WindowEndingAt(Num(peer.first, frame)) /\ frame \in Frames
      /\ \A u \in Tids \ {t} : seqNext'[u] = seqNext[u]
      /\ UNCHANGED <<aggr, holdQ, peer, job, frame>>
  BY <1>0, PullStep, SeqNoNum
<1>2. \A i \in Slots : holdQ[t][i] = NoFrame
  BY <1>0, <1>1 DEF Ring, Released, Reached, Dispatching
<1>3. Offset(Num(peer.first, frame), WindowEndingAt(Num(peer.first, frame))) < HoldQSz
  <2>1. Num(peer.first, frame) \in SeqNos
    BY <1>1, NumType
  <2>2. Offset(Num(peer.first, frame), WindowEndingAt(Num(peer.first, frame))) = HoldQSz - 1
    BY <2>1, WindowOffset
  <2> QED BY <2>2, Sizes
<1>4. \A u \in Tids : Placed(u)'
  BY <1>1, <1>2 DEF Ring, Placed, Dist
<1>5. \A u \in Tids : Ahead(u)'
  BY <1>0, <1>1, <1>2 DEF Ring, Ahead, Settling, Reached, Dispatching, Dist
<1>6. CallInv' /\ Aimed' /\ Releasing'
  BY <1>1 DEF CallInv, Aimed, Releasing
<1>7. Released'
  BY <1>0, <1>1, <1>3 DEF Released, Reached, Dispatching, Dist
<1> QED BY <1>1, <1>4, <1>5, <1>6, <1>7 DEF Ring

LEMMA StoreRing ==
    ASSUME TypeInv, TimerInv, Ring, StoreFrame PROVE Ring'
<1>0. PICK t \in Tids : t = job["rx"].tid
  BY RxJob
<1> DEFINE i == WinIdx(Num(peer.first, frame))
<1>1. /\ pc["rx"] = "store" /\ pc'["rx"] = "aim" /\ pc'["timer"] = pc["timer"]
      /\ frame \in Frames /\ i \in Slots
      /\ holdQ'[t][i] = frame
      /\ \A j \in Slots \ {i} : holdQ'[t][j] = holdQ[t][j]
      /\ \A u \in Tids \ {t} : holdQ'[u] = holdQ[u]
      /\ job'["rx"].tid = t /\ job'["rx"].seqNo = 0
      /\ job'["rx"].order = "CONTIGUOUS" /\ job'["rx"].then = "timer"
      /\ UNCHANGED <<aggr, seqNext, peer>>
  BY <1>0, StoreStep, SeqNoNum
<1>2. Dist(t, frame) < HoldQSz
  BY <1>0, <1>1 DEF Ring, Released, Reached, Dispatching
<1>3. \A u \in Tids : Placed(u)'
  <2> SUFFICES ASSUME NEW u \in Tids PROVE Placed(u)'
    OBVIOUS
  <2>1. CASE u # t
    BY <1>1, <2>1, PlacedSame DEF Ring
  <2>2. CASE u = t
    <3>1. \A j \in Slots : holdQ'[t][j] # NoFrame =>
              /\ j = WinIdx(Num(peer.first, holdQ'[t][j]))
              /\ Offset(Num(peer.first, holdQ'[t][j]), seqNext[t]) < HoldQSz
      BY <1>1, <1>2 DEF Ring, Placed, Dist
    <3> QED BY <1>1, <2>2, <3>1 DEF Placed, Dist
  <2> QED BY <2>1, <2>2
<1>4. \A u \in Tids : Ahead(u)'
  BY <1>0, <1>1 DEF Ring, Ahead, Settling, Reached, Dispatching, Dist
<1>5. CallInv' /\ Aimed' /\ Releasing' /\ Released'
  BY <1>1 DEF CallInv, Aimed, Releasing, Released, Reached, Dispatching
<1> QED BY <1>1, <1>3, <1>4, <1>5 DEF Ring

LEMMA ReceiveRing ==
    ASSUME TypeInv, TimerInv, Ring, NEW t \in Tids, NEW n \in Frames, ReceiveFrame(t, n)
    PROVE  Ring'
<1>1. /\ pc["rx"] = "idle" /\ pc'["timer"] = pc["timer"]
      /\ UNCHANGED <<aggr, seqNext, holdQ, peer>>
  BY ReceiveStep
<1>2. \A u \in Tids : ~Settling(u)
  BY <1>1 DEF Settling, Reached, Dispatching
<1>3. \/ UNCHANGED <<frame, job, pc>>
      \/ /\ frame' = n /\ Dist(t, n) < HoldQSz
         /\ pc'["rx"] = "store" /\ job'["rx"].tid = t
      \/ frame' = n /\ Called(t, 0, "pull")
      \/ /\ frame' = n /\ Dist(t, n) \in HoldQSz..(2 * HoldQSz - 2)
         /\ Called(t, WindowEndingAt(Num(peer.first, n)), "store")
  BY ReceiveStep, SeqNoNum DEF Dist
<1>4. CallInv' /\ Aimed' /\ Releasing' /\ Released'
  <2>1. CASE UNCHANGED <<frame, job, pc>>
    BY <1>1, <2>1 DEF CallInv, Aimed, Releasing, Released, Reached, Dispatching
  <2>2. CASE frame' = n /\ Dist(t, n) < HoldQSz /\ pc'["rx"] = "store" /\ job'["rx"].tid = t
    BY <1>1, <2>2 DEF CallInv, Aimed, Releasing, Released, Reached, Dispatching, Dist
  <2>3. CASE frame' = n /\ Called(t, 0, "pull")
    BY <1>1, <2>3 DEF CallInv, Aimed, Releasing, Released, Reached, Dispatching, Called
  <2>4. CASE /\ frame' = n /\ Dist(t, n) \in HoldQSz..(2 * HoldQSz - 2)
             /\ Called(t, WindowEndingAt(Num(peer.first, n)), "store")
    BY <1>1, <2>4 DEF CallInv, Aimed, Releasing, Released, Reached, Dispatching, Called, Dist
  <2> QED BY <1>3, <2>1, <2>2, <2>3, <2>4
<1> QED BY <1>1, <1>2, <1>4, QuietRing

LEMMA DeleteCalledRing ==
    ASSUME TypeInv, TimerInv, NEW t \in Tids, DeleteCalled(t),
           aggr'[t] = aggr[t], \A i \in Slots : holdQ[t][i] # NoFrame => aggr[t],
           \A i \in Slots : holdQ'[t][i] = holdQ[t][i]
    PROVE  CallInv' /\ Aimed' /\ Releasing' /\ Released'
<1>1. CASE aggr[t]
  BY <1>1 DEF DeleteCalled, Called, CallInv, Aimed, Releasing, Released, Reached, Dispatching
<1>2. CASE ~aggr[t]
  BY <1>2 DEF DeleteCalled, CallInv, Aimed, Releasing, Released, Reached, Dispatching
<1> QED BY <1>1, <1>2

LEMMA HeldInSession ==
    ASSUME TimerInv, NEW t \in Tids PROVE \A i \in Slots : holdQ[t][i] # NoFrame => aggr[t]
  BY DEF TimerInv, Holding

LEMMA EventRing ==
    ASSUME TypeInv, TimerInv, Ring, NEW t \in Tids,
           ProcessBar(t) \/ RecvAddbaReq(t) \/ RecvDelbaReq(t) \/ ResetState
    PROVE  Ring'
<1>1. /\ pc["rx"] = "idle" /\ pc'["timer"] = pc["timer"]
      /\ UNCHANGED <<aggr, seqNext, holdQ, peer, frame>>
      /\ \/ peer.bars /\ Called(t, SeqNo(base[t]), "idle")
         \/ aggr[t] /\ Called(t, 0, "delete")
         \/ ~aggr[t] /\ pc'["rx"] = "install" /\ job'["rx"].tid = t
         \/ DeleteCalled(0)
  BY EventStep
<1>2. \A u \in Tids : ~Settling(u)
  BY <1>1 DEF Settling, Reached, Dispatching
<1>3. CallInv' /\ Aimed' /\ Releasing' /\ Released'
  <2>1. CASE peer.bars /\ Called(t, SeqNo(base[t]), "idle")
    BY <1>1, <2>1 DEF CallInv, Aimed, Releasing, Released, Reached, Dispatching, Called
  <2>2. CASE Called(t, 0, "delete")
    BY <1>1, <2>2 DEF CallInv, Aimed, Releasing, Released, Reached, Dispatching, Called
  <2>3. CASE ~aggr[t] /\ pc'["rx"] = "install" /\ job'["rx"].tid = t
    BY <1>1, <2>3 DEF CallInv, Aimed, Releasing, Released, Reached, Dispatching
  <2>4. CASE DeleteCalled(0)
    BY <1>1, <2>4, Sizes, HeldInSession, DeleteCalledRing
  <2> QED BY <1>1, <2>1, <2>2, <2>3, <2>4
<1> QED BY <1>1, <1>2, <1>3, QuietRing

LEMMA SessionRing ==
    ASSUME TypeInv, TimerInv, Ring, DeleteTidState \/ InstallTid PROVE Ring'
<1>0. PICK t \in Tids : t = job["rx"].tid
  BY RxJob
<1>1. /\ pc["rx"] \in {"delete", "install"} /\ pc'["timer"] = pc["timer"]
      /\ \A i \in Slots : holdQ'[t][i] = NoFrame
      /\ \A u \in Tids \ {t} : /\ aggr'[u] = aggr[u] /\ holdQ'[u] = holdQ[u]
                                    /\ seqNext'[u] = seqNext[u]
      /\ peer' = peer
  BY <1>0, DeleteStep, InstallStep
<1>2. \A u \in Tids : ~Settling(u)
  BY <1>1 DEF Settling, Reached, Dispatching
<1>3. \A u \in Tids : Placed(u)' /\ Ahead(u)'
  BY <1>1, <1>2 DEF Ring, Placed, Ahead, Dist
<1>4. CallInv' /\ Aimed' /\ Releasing' /\ Released'
  <2>1. CASE InstallTid
    <3>1. pc'["rx"] = "idle"
      BY <1>0, <2>1, InstallStep
    <3> QED BY <3>1 DEF CallInv, Aimed, Releasing, Released, Reached, Dispatching
  <2>2. CASE DeleteTidState /\ event = "reset" /\ t + 1 \in Tids
    <3>1. DeleteCalled(t + 1) /\ t + 1 # t
      BY <1>0, <2>2, DeleteStep, Sizes DEF Tids
    <3> QED BY <1>1, <2>2, <3>1, HeldInSession, DeleteCalledRing
  <2>3. CASE DeleteTidState /\ ~(event = "reset" /\ t + 1 \in Tids)
    <3>1. pc'["rx"] \in {"idle", "install"} /\ job' = job /\ ~aggr'[t]
      BY <1>0, <2>3, DeleteStep
    <3> QED BY <1>0, <3>1 DEF CallInv, Aimed, Releasing, Released, Reached, Dispatching
  <2> QED BY <2>1, <2>2, <2>3
<1> QED BY <1>1, <1>3, <1>4 DEF Ring

\* Without a timeout only the receive thread runs.
LEMMA NoTimerStep ==
    ASSUME TypeInv, pc["timer"] = "idle", ~peer.timer, Next
    PROVE  \/ RxStep \/ ResetState
           \/ \E t \in Tids : Indication(t) \/ PeerMovesOn(t)
<1>1. ~TimerStep
  BY DEF TimerStep, DequeStep, Expire, CheckTid, AimDeque, ReleaseSlot, DispatchFrames,
         DrainFrame, DeliverFrame, FreeFrame, EndDispatch, ClearScheduled, ScanTid, KeepTimer,
         ForgetTid, RearmTimer
<1> QED BY <1>1 DEF Next

LEMMA PeerSame == ASSUME [Next]_vars PROVE peer' = peer
<1>1. CASE UNCHANGED vars
  BY <1>1 DEF vars, peerVars
<1>2. CASE Next
  BY <1>2 DEF Next, RxStep, TimerStep, Indication, DequeStep, AimDeque, ReleaseSlot,
     DispatchFrames, DrainFrame, DeliverFrame, FreeFrame, EndDispatch, PullWindow, StoreFrame,
     NoteProgress, ScheduleTimer, ArmTimer,
     MonitorTid, DeleteTidState, InstallTid, Expire, CheckTid, ClearScheduled, ScanTid, KeepTimer,
     ForgetTid, RearmTimer, ReceiveFrame, ProcessBar, RecvAddbaReq, RecvDelbaReq, ResetState,
     PeerMovesOn, peerVars
<1> QED BY <1>1, <1>2

LEMMA NextRing ==
    TypeInv /\ TimerInv /\ (~peer.timer => Ring) /\ [Next]_vars => (~peer.timer => Ring)'
<1> SUFFICES ASSUME TypeInv, TimerInv, ~peer.timer => Ring, [Next]_vars, ~peer'.timer
             PROVE  Ring'
  OBVIOUS
<1>1. ~peer.timer /\ Ring
  BY PeerSame
<1>2. CASE UNCHANGED vars \/ \E t \in Tids : PeerMovesOn(t)
  <2>1. UNCHANGED <<pc, job, holdQ, seqNext, peer, aggr, frame>>
    BY <1>2 DEF vars, tidVars, peerVars, localVars, PeerMovesOn
  <2> QED BY <1>1, <2>1 DEF Ring, CallInv, Aimed, Releasing, Released, Reached, Dispatching, Placed, Ahead,
                         Settling, Dist, Remaining
<1>3. CASE RxStep
  BY <1>1, <1>3, AimRing, ReleaseRing, DispatchRing, NoteRing, PullRing, StoreRing, SessionRing
     DEF RxStep, DequeStep, Dispatches
<1>4. ASSUME NEW t \in Tids, Indication(t) PROVE Ring'
  BY <1>1, <1>4, ReceiveRing, EventRing DEF Indication
<1>5. CASE ResetState
  BY <1>1, <1>5, EventRing, Sizes
<1>6. Next => \/ RxStep \/ ResetState
              \/ \E t \in Tids : Indication(t) \/ PeerMovesOn(t)
  BY <1>1, NoTimerStep DEF Ring
<1> QED BY <1>2, <1>3, <1>4, <1>5, <1>6

LEMMA RingCorrect == Spec => [](~peer.timer => Ring)
  BY InitRing, NextRing, TypeInvCorrect, TimerInvCorrect, PTL DEF Spec

\* Between frames, and as long as no timeout passes, whatever is held is in the slot of
\* its number and inside the window, beyond its first number: however the window is
\* shifted, pulled or flushed, aggr_process_recv_frm and aggr_deque_frms agree on which
\* slot is whose, modulo the ring and modulo the sequence space.
THEOREM WindowCorrect == Spec => []HeldInWindow
<1>1. TypeInv /\ (~peer.timer => Ring) => HeldInWindow
  <2> SUFFICES ASSUME TypeInv, Ring, pc["rx"] = "idle", ~peer.timer, NEW t \in Tids, NEW i \in Slots,
                      holdQ[t][i] # NoFrame
               PROVE  /\ i = WinIdx(SeqNo(holdQ[t][i]))
                      /\ (SeqNo(holdQ[t][i]) - seqNext[t]) % SeqSpace \in
                             (IF peer.bars THEN 0 ELSE 1)..(HoldQSz - 1)
    BY DEF HeldInWindow
  <2> DEFINE x == SeqNo(holdQ[t][i])
             s == seqNext[t]
  <2>1. x \in SeqNos /\ s \in SeqNos /\ holdQ[t][i] \in Frames
    <3>1. holdQ[t][i] \in Frames
      BY HeldType
    <3>2. Num(peer.first, holdQ[t][i]) \in SeqNos
      BY <3>1, NumType
    <3> QED BY <3>1, <3>2, RxJob, SeqNoNum
  <2>2. i = WinIdx(x) /\ Offset(x, s) < HoldQSz
    BY SeqNoNum DEF Ring, Placed, Dist
  <2>3. peer.bars \/ Offset(x, s) # 0
    BY SeqNoNum DEF Ring, Ahead, Settling, Reached, Dispatching, Dist
  <2> HIDE DEF x, s
  <2>4. x - s \in (-SeqSpace)..(2 * SeqSpace - 1)
    BY <2>1, Sizes DEF SeqNos
  <2>5. ((x - s) % SeqSpace) = Offset(x, s)
    <3>1. ((x - s) % SeqSpace) = IF x - s < 0 THEN x - s + SeqSpace
                                 ELSE IF x - s < SeqSpace THEN x - s ELSE x - s - SeqSpace
      BY <2>4, ModSeq
    <3> HIDE DEF Offset
    <3>2. Offset(x, s) = IF x - s < 0 THEN x - s + SeqSpace ELSE x - s
      BY <2>1, Sizes DEF Offset, SeqNos
    <3>3. x - s < SeqSpace
      BY <2>1, Sizes DEF SeqNos
    <3> QED BY <3>1, <3>2, <3>3
  <2>6. Offset(x, s) \in (IF peer.bars THEN 0 ELSE 1)..(HoldQSz - 1)
    <3>1. Offset(x, s) \in 0..(SeqSpace - 1)
      BY <2>1, OffsetType DEF SeqNos
    <3>2. CASE peer.bars
      BY <2>2, <3>1, <3>2, Sizes
    <3>3. CASE ~peer.bars
      BY <2>2, <2>3, <3>1, <3>3, Sizes
    <3> QED BY <3>2, <3>3
  <2> QED BY <2>2, <2>5, <2>6 DEF x, s
<1> QED BY <1>1, TypeInvCorrect, RingCorrect, PTL

-----------------------------------------------------------------------------
(***************************************************************************)
(* The flow of the frames (without a timeout): each is in one of the places *)
(* a frame may be, and none is overwritten.                                *)
(***************************************************************************)
\* The number of one of the first SeqSpace frames.
LEMMA NumValue ==
    ASSUME NEW first \in SeqNos, NEW n \in 0..SeqSpace
    PROVE  /\ Num(first, n) = IF first + n < SeqSpace THEN first + n ELSE first + n - SeqSpace
           /\ Num(first, n) \in SeqNos /\ first \in Int /\ n \in Int
<1> DEFINE a == first + n
<1>1. a \in (-SeqSpace)..(2 * SeqSpace - 1) /\ ~(a < 0)
  BY Sizes DEF SeqNos
<1> HIDE DEF a
<1>2. (a % SeqSpace) = IF a < 0 THEN a + SeqSpace
                       ELSE IF a < SeqSpace THEN a ELSE a - SeqSpace
  BY <1>1, ModSeq
<1>3. Num(first, n) = IF a < SeqSpace THEN a ELSE a - SeqSpace
  BY <1>1, <1>2 DEF Num, a
<1>4. first \in Int /\ n \in Int
  BY Sizes DEF SeqNos
<1> QED BY <1>1, <1>3, <1>4, Sizes DEF a, SeqNos

\* Later frames have later numbers, less than SeqSpace apart.
LEMMA NumOffset ==
    ASSUME NEW first \in SeqNos, NEW n \in 0..SeqSpace, NEW u \in 0..SeqSpace,
           u <= n, n - u < SeqSpace
    PROVE  Offset(Num(first, n), Num(first, u)) = n - u
<1>1. /\ Num(first, n) = IF first + n < SeqSpace THEN first + n ELSE first + n - SeqSpace
      /\ Num(first, u) = IF first + u < SeqSpace THEN first + u ELSE first + u - SeqSpace
  BY NumValue
<1> QED BY <1>1, Sizes DEF Offset, SeqNos

LEMMA SlotOfFrame ==
    ASSUME TypeInv, NEW t \in Tids, NEW f \in Frames, NEW g \in Frames,
           Numbered, f < peer.frames, g < peer.frames,
           Dist(t, f) < HoldQSz, Dist(t, g) < HoldQSz,
           WinIdx(Num(peer.first, f)) = WinIdx(Num(peer.first, g))
    PROVE  f = g
<1> DEFINE x == Num(peer.first, f)
           y == Num(peer.first, g)
           s == seqNext[t]
<1>1. /\ x \in SeqNos /\ y \in SeqNos /\ s \in SeqNos /\ f \in Int /\ g \in Int
      /\ f \in 0..(SeqSpace - 1) /\ g \in 0..(SeqSpace - 1)
      /\ peer.first \in 0..(SeqSpace - 1)
  <2>1. f \in Int /\ g \in Int /\ f >= 0 /\ g >= 0
    BY Sizes DEF Frames
  <2>2. peer.frames \in Int /\ peer.first \in 0..(SeqSpace - 1)
    BY PeerType, Sizes DEF TypeInv, TypeOK
  <2>3. f \in 0..(SeqSpace - 1) /\ g \in 0..(SeqSpace - 1)
    BY <2>1, <2>2, Sizes DEF Numbered
  <2> QED BY <2>1, <2>2, <2>3, NumType, RxJob
<1>2. Offset(x, s) < HoldQSz /\ Offset(y, s) < HoldQSz /\ WinIdx(x) = WinIdx(y)
  BY DEF Dist
<1>3. /\ x = IF peer.first + f < SeqSpace THEN peer.first + f ELSE peer.first + f - SeqSpace
      /\ y = IF peer.first + g < SeqSpace THEN peer.first + g ELSE peer.first + g - SeqSpace
  <2>1. peer.first \in SeqNos /\ f \in 0..SeqSpace /\ g \in 0..SeqSpace
    BY <1>1, Sizes DEF SeqNos
  <2> QED BY <2>1, NumValue
<1> HIDE DEF x, y, s
<1>5. /\ WinIdx(x) = IF WinIdx(s) + Offset(x, s) < HoldQSz THEN WinIdx(s) + Offset(x, s)
                     ELSE WinIdx(s) + Offset(x, s) - HoldQSz
      /\ WinIdx(y) = IF WinIdx(s) + Offset(y, s) < HoldQSz THEN WinIdx(s) + Offset(y, s)
                     ELSE WinIdx(s) + Offset(y, s) - HoldQSz
  BY <1>1, <1>2, SlotAt
<1>6. WinIdx(s) \in Slots
  BY <1>1, WinIdxType, Sizes DEF SeqNos
<1>7. Offset(x, s) = Offset(y, s)
  <2>1. Offset(x, s) \in 0..(SeqSpace - 1) /\ Offset(y, s) \in 0..(SeqSpace - 1)
    BY <1>1, OffsetType DEF SeqNos
  <2> DEFINE o == Offset(x, s)
             p == Offset(y, s)
             w == WinIdx(s)
  <2>2. /\ o \in 0..(SeqSpace - 1) /\ p \in 0..(SeqSpace - 1) /\ w \in 0..(HoldQSz - 1)
        /\ o < HoldQSz /\ p < HoldQSz
        /\ (IF w + o < HoldQSz THEN w + o ELSE w + o - HoldQSz)
             = (IF w + p < HoldQSz THEN w + p ELSE w + p - HoldQSz)
    BY <1>2, <1>5, <1>6, <2>1 DEF Slots
  <2> HIDE DEF o, p, w
  <2>3. o = p
    BY <2>2, Sizes
  <2> QED BY <2>3 DEF o, p
<1>8. x = y
  BY <1>1, <1>7, Sizes DEF Offset, SeqNos
<1> QED BY <1>1, <1>3, <1>8, Sizes

\* Where a frame that arrived may be.
Somewhere(t, n) ==
    \/ \E i \in Slots : holdQ[t][i] = n
    \/ n \in Elems(q[t]) \cup Elems(delivered[t]) \cup freed[t]
    \/ job["rx"].tid = t /\ (n = frame \/ n = hand["rx"])

Account(t) ==
    /\ \A n \in arrived[t] : n < peer.frames
    /\ \A i \in Slots : holdQ[t][i] # NoFrame => holdQ[t][i] \in arrived[t]
    /\ Elems(q[t]) \subseteq arrived[t] /\ Elems(delivered[t]) \subseteq arrived[t]
    /\ q[t] # <<>> => job["rx"].tid = t /\ pc["rx"] \in {"release"} \cup Dispatching
    /\ Numbered => \A n \in arrived[t] : Somewhere(t, n)

\* The frame in hand is new to the TID, and not stored yet.
FrameInv ==
    frame # NoFrame =>
        /\ frame \in arrived[job["rx"].tid]
        /\ \A i \in Slots : holdQ[job["rx"].tid][i] # frame
        /\ \/ pc["rx"] \in {"aim", "release"} /\ job["rx"].then \in {"pull", "store"}
           \/ Reached({"pull", "store"})

HandInv ==
    /\ hand["timer"] = NoFrame
    /\ pc["rx"] # "deliver" => hand["rx"] = NoFrame
    /\ pc["rx"] = "deliver" => hand["rx"] \in arrived[job["rx"].tid]
    /\ pc["rx"] \in {"drain", "deliver"} => connected

Flow == FrameInv /\ HandInv /\ \A t \in Tids : Account(t)

LEMMA InitFlow == Init /\ ~peer.timer => Flow
<1> SUFFICES ASSUME Init, ~peer.timer PROVE Flow
  OBVIOUS
<1>1. \A t \in Tids : Account(t)
  BY ElemsEmpty DEF Init, Account, EmptyQ
<1>2. FrameInv /\ HandInv
  BY DEF Init, FrameInv, HandInv, Threads
<1> QED BY <1>1, <1>2 DEF Flow

LEMMA AimFlow == ASSUME TypeInv, Ring, Flow, AimDeque("rx") PROVE Flow'
<1>0. PICK t \in Tids : t = job["rx"].tid
  BY RxJob
<1>1. /\ pc["rx"] = "aim" /\ pc'["rx"] = "release" 
      /\ job'["rx"].tid = t /\ job'["rx"].then = job["rx"].then
      /\ UNCHANGED <<holdQ, q, connected, delivered, freed, peer, arrived, hand, frame>>
  BY <1>0, AimStep
<1>2. \A u \in Tids : Account(u)'
  BY <1>0, <1>1 DEF Flow, Account, Somewhere, Numbered
<1>3. FrameInv' /\ HandInv'
  BY <1>0, <1>1 DEF Flow, FrameInv, HandInv, Reached, Dispatching
<1> QED BY <1>2, <1>3 DEF Flow

LEMMA ReleaseFlow == ASSUME TypeInv, Ring, Flow, ReleaseSlot("rx") PROVE Flow'
<1>0. PICK t \in Tids : t = job["rx"].tid
  BY RxJob
<1>1. /\ pc["rx"] = "release"
      /\ job'["rx"].tid = t /\ job'["rx"].then = job["rx"].then
      /\ UNCHANGED <<connected, delivered, freed, peer, arrived, hand, frame>>
  BY <1>0, ReleaseStep
<1>2. CASE pc'["rx"] = "dispatch" /\ UNCHANGED <<q, holdQ>>
  <2>1. \A u \in Tids : Account(u)'
    BY <1>0, <1>1, <1>2 DEF Flow, Account, Dispatching, Somewhere, Numbered
  <2>2. FrameInv' /\ HandInv'
    BY <1>0, <1>1, <1>2 DEF Flow, FrameInv, HandInv, Reached, Dispatching
  <2> QED BY <2>1, <2>2 DEF Flow
<1>3. CASE Moved(t)
  <2> DEFINE i == job["rx"].idx
             f == holdQ[t][i]
  <2>1. /\ q'[t] = IF f = NoFrame THEN q[t] ELSE Append(q[t], f)
        /\ \A u \in Tids \ {t} : q'[u] = q[u] /\ holdQ'[u] = holdQ[u]
        /\ holdQ'[t][i] = NoFrame
        /\ \A j \in Slots \ {i} : holdQ'[t][j] = holdQ[t][j]
        /\ pc'["rx"] \in {"dispatch", "release"} /\ i \in Slots
    BY <1>3, RxJob DEF Moved
  <2>2. Elems(q'[t]) = Elems(q[t]) \cup ({f} \ {NoFrame})
    <3>1. CASE f = NoFrame
      BY <2>1, <3>1
    <3>2. CASE f # NoFrame
      <4>1. f \in Frames /\ q[t] \in Seq(Frames)
        BY <2>1, <3>2, HeldType, RxJob
      <4>2. Elems(Append(q[t], f)) = Elems(q[t]) \cup {f}
        BY <4>1, ElemsAppend
      <4> QED BY <2>1, <3>2, <4>2
    <3> QED BY <3>1, <3>2
  <2> HIDE DEF i
  <2>3. \A u \in Tids : Account(u)'
    <3> SUFFICES ASSUME NEW u \in Tids PROVE Account(u)'
      OBVIOUS
    <3>1. CASE u # t
      BY <1>0, <1>1, <2>1, <3>1 DEF Flow, Account, Somewhere, Numbered
    <3>2. CASE u = t
      <4>1. \A j \in Slots : holdQ'[t][j] # NoFrame => holdQ'[t][j] \in arrived'[t]
        BY <1>1, <2>1 DEF Flow, Account
      <4>2. Elems(q'[t]) \subseteq arrived'[t]
        BY <1>1, <2>1, <2>2 DEF Flow, Account
      <4>3. Numbered => \A n \in arrived[t] : Somewhere(t, n)'
        <5> SUFFICES ASSUME Numbered, NEW n \in arrived[t] PROVE Somewhere(t, n)'
          OBVIOUS
        <5>1. Somewhere(t, n) /\ n # NoFrame
          <6>1. Somewhere(t, n)
            BY DEF Flow, Account
          <6>2. arrived[t] \subseteq Frames
            BY DEF TypeInv, TypeOK
          <6> QED BY <6>1, <6>2, Sizes
        <5>2. CASE \E j \in Slots : holdQ[t][j] = n
          <6>1. PICK j \in Slots : holdQ[t][j] = n
            BY <5>2
          <6>2. CASE j = i
            BY <2>2, <5>1, <6>1, <6>2 DEF Somewhere
          <6>3. CASE j # i
            BY <2>1, <6>1, <6>3 DEF Somewhere
          <6> QED BY <6>2, <6>3
        <5>3. CASE ~\E j \in Slots : holdQ[t][j] = n
          BY <1>0, <1>1, <2>2, <5>1, <5>3 DEF Somewhere
        <5> QED BY <5>2, <5>3
      <4> QED BY <1>1, <2>1, <3>2, <4>1, <4>2, <4>3 DEF Flow, Account, Dispatching, Numbered
    <3> QED BY <3>1, <3>2
  <2>4. FrameInv' /\ HandInv'
    BY <1>0, <1>1, <2>1 DEF Flow, FrameInv, HandInv, Reached, Dispatching
  <2> QED BY <2>3, <2>4 DEF Flow
<1> QED BY <1>0, <1>2, <1>3, ReleaseStep

LEMMA DispatchFlow == ASSUME TypeInv, Ring, Flow, Dispatches("rx") PROVE Flow'
<1>0. PICK t \in Tids : t = job["rx"].tid
  BY RxJob
<1>1. /\ pc["rx"] \in Dispatching /\ hand'["timer"] = hand["timer"]
      /\ pc'["rx"] \in Dispatching \cup {job["rx"].then}
      /\ job'["rx"].tid = t /\ job'["rx"].then = job["rx"].then
      /\ \A u \in Tids \ {t} : /\ q'[u] = q[u] /\ delivered'[u] = delivered[u]
                               /\ freed'[u] = freed[u]
      /\ UNCHANGED <<holdQ, connected, peer, arrived, frame>>
  BY <1>0, DispatchStep DEF Dispatching
<1>2. job["rx"].then \in {"idle", "pull", "store", "timer", "delete"}
  BY <1>1 DEF TypeInv, Control, Dequeuing, Dispatching
<1>3. FrameInv /\ HandInv /\ Account(t)
  BY DEF Flow
<1>4. FrameInv'
  BY <1>0, <1>1, <1>2, <1>3 DEF FrameInv, Reached, Dispatching
<1>5. hand["rx"] # NoFrame => pc["rx"] = "deliver"
  BY <1>3 DEF HandInv
<1>6. NoFrame \notin arrived[t]
  BY Sizes DEF TypeInv, TypeOK
<1>7. \A u \in Tids \ {t} : Account(u)'
  BY <1>0, <1>1 DEF Flow, Account, Somewhere, Numbered
<1>8. CASE /\ pc["rx"] = "dispatch"
           /\ pc'["rx"] = (IF connected THEN "drain" ELSE "discard")
           /\ UNCHANGED <<q, hand, delivered, freed, job>>
  <2>1. Account(t)'
    BY <1>0, <1>1, <1>3, <1>8 DEF Account, Somewhere, Numbered, Dispatching
  <2>2. HandInv'
    BY <1>0, <1>1, <1>3, <1>8 DEF HandInv
  <2> QED BY <1>4, <1>7, <2>1, <2>2 DEF Flow
<1>9. CASE /\ pc["rx"] = "drain" /\ pc'["rx"] = "deliver"
           /\ q[t] # <<>> /\ q'[t] = Tail(q[t]) /\ hand'["rx"] = Head(q[t])
           /\ UNCHANGED <<delivered, freed, job>>
  <2>1. Elems(q[t]) = {Head(q[t])} \cup Elems(Tail(q[t]))
    BY <1>9, RxJob, ElemsTail
  <2>2. Numbered => \A n \in arrived[t] : Somewhere(t, n)'
    BY <1>0, <1>1, <1>3, <1>5, <1>6, <1>9, <2>1 DEF Account, Somewhere
  <2>3. Account(t)'
    BY <1>0, <1>1, <1>3, <1>9, <2>1, <2>2 DEF Account, Numbered, Dispatching
  <2>4. HandInv'
    BY <1>0, <1>1, <1>3, <1>9, <2>1 DEF HandInv, Account
  <2> QED BY <1>4, <1>7, <2>3, <2>4 DEF Flow
<1>10. CASE /\ pc["rx"] = "deliver" /\ pc'["rx"] = "drain" /\ connected
            /\ delivered'[t] = Append(delivered[t], hand["rx"]) /\ hand["rx"] \in Frames
            /\ hand'["rx"] = NoFrame /\ UNCHANGED <<q, freed, job>>
  <2>1. Elems(delivered'[t]) = Elems(delivered[t]) \cup {hand["rx"]}
    BY <1>10, RxJob, ElemsAppend
  <2>2. Account(t)'
    BY <1>0, <1>1, <1>3, <1>10, <2>1 DEF HandInv, Account, Somewhere, Numbered, Dispatching
  <2>3. HandInv'
    BY <1>0, <1>1, <1>3, <1>10 DEF HandInv
  <2> QED BY <1>4, <1>7, <2>2, <2>3 DEF Flow
<1>11. CASE /\ pc["rx"] = "discard" /\ pc'["rx"] = "discard"
            /\ q[t] # <<>> /\ q'[t] = Tail(q[t])
            /\ freed'[t] = freed[t] \cup {Head(q[t])} /\ UNCHANGED <<delivered, hand, job>>
  <2>1. Elems(q[t]) = {Head(q[t])} \cup Elems(Tail(q[t]))
    BY <1>11, RxJob, ElemsTail
  <2>2. Account(t)'
    BY <1>0, <1>1, <1>3, <1>11, <2>1 DEF Account, Somewhere, Numbered, Dispatching
  <2>3. HandInv'
    BY <1>0, <1>1, <1>3, <1>11 DEF HandInv
  <2> QED BY <1>4, <1>7, <2>2, <2>3 DEF Flow
<1>12. CASE /\ pc["rx"] \in {"drain", "discard"} /\ pc'["rx"] = job["rx"].then
            /\ q[t] = <<>> /\ UNCHANGED <<q, hand, delivered, freed>>
  <2>1. Account(t)'
    BY <1>0, <1>1, <1>3, <1>12 DEF Account, Somewhere, Numbered
  <2>2. HandInv'
    BY <1>0, <1>1, <1>2, <1>3, <1>12 DEF HandInv
  <2> QED BY <1>4, <1>7, <2>1, <2>2 DEF Flow
<1> QED BY <1>0, <1>8, <1>9, <1>10, <1>11, <1>12, DispatchStep

LEMMA StoreFlow == ASSUME TypeInv, Ring, Flow, StoreFrame PROVE Flow'
<1>0. PICK t \in Tids : t = job["rx"].tid
  BY RxJob
<1> DEFINE i == WinIdx(Num(peer.first, frame))
<1>1. /\ pc["rx"] = "store" /\ pc'["rx"] = "aim"
      /\ frame \in Frames /\ frame' = NoFrame /\ i \in Slots
      /\ holdQ'[t][i] = frame
      /\ \A j \in Slots \ {i} : holdQ'[t][j] = holdQ[t][j]
      /\ \A u \in Tids \ {t} : holdQ'[u] = holdQ[u]
      /\ job'["rx"].tid = t
      /\ UNCHANGED <<q, connected, delivered, freed, peer, arrived, hand>>
  BY <1>0, StoreStep, SeqNoNum
<1>2. FrameInv /\ HandInv /\ Account(t) /\ frame # NoFrame
  BY <1>1, Sizes DEF Flow
<1>3. Numbered => holdQ[t][i] = NoFrame
  <2> SUFFICES ASSUME Numbered, holdQ[t][i] # NoFrame PROVE FALSE
    OBVIOUS
  <2> DEFINE g == holdQ[t][i]
  <2>1. g \in Frames
    BY <1>1, HeldType
  <2>2. g \in arrived[t] /\ frame \in arrived[t] /\ g # frame
    BY <1>0, <1>1, <1>2 DEF Account, FrameInv
  <2>3. g < peer.frames /\ frame < peer.frames
    BY <1>2, <2>2 DEF Account
  <2>4. i = WinIdx(Num(peer.first, g)) /\ Dist(t, g) < HoldQSz
    BY <1>1 DEF Ring, Placed
  <2>5. Dist(t, frame) < HoldQSz
    BY <1>0, <1>1 DEF Ring, Released, Reached, Dispatching
  <2> QED BY <1>1, <2>1, <2>2, <2>3, <2>4, <2>5, SlotOfFrame
<1> HIDE DEF i
<1>4. \A u \in Tids \ {t} : Account(u)'
  BY <1>0, <1>1, <1>2 DEF Flow, Account, Somewhere, Numbered
<1>5. Account(t)'
  <2>1. \A j \in Slots : holdQ'[t][j] # NoFrame => holdQ'[t][j] \in arrived'[t]
    BY <1>0, <1>1, <1>2 DEF Account, FrameInv
  <2>2. Numbered => \A n \in arrived[t] : Somewhere(t, n)'
    <3> SUFFICES ASSUME Numbered, NEW n \in arrived[t] PROVE Somewhere(t, n)'
      OBVIOUS
    <3>1. Somewhere(t, n) /\ n # NoFrame
      BY <1>2, Sizes DEF Account, TypeInv, TypeOK
    <3>2. CASE \E j \in Slots : holdQ[t][j] = n
      <4>1. PICK j \in Slots : holdQ[t][j] = n
        BY <3>2
      <4>2. j # i
        BY <1>3, <3>1, <4>1
      <4> QED BY <1>1, <4>1, <4>2 DEF Somewhere
    <3>3. CASE n = frame
      BY <1>1, <3>3 DEF Somewhere
    <3>4. CASE n # frame /\ ~\E j \in Slots : holdQ[t][j] = n
      BY <1>0, <1>1, <3>1, <3>4 DEF Somewhere
    <3> QED BY <3>2, <3>3, <3>4
  <2> QED BY <1>0, <1>1, <1>2, <2>1, <2>2 DEF Account, Dispatching, Numbered
<1>6. FrameInv' /\ HandInv'
  BY <1>0, <1>1, <1>2 DEF FrameInv, HandInv
<1> QED BY <1>4, <1>5, <1>6 DEF Flow

LEMMA MoveOnFlow ==
    ASSUME TypeInv, Ring, Flow,
           PullWindow \/ NoteProgress \/ ScheduleTimer \/ ArmTimer \/ MonitorTid
    PROVE  Flow'
<1>1. /\ \/ pc["rx"] = "pull" /\ pc'["rx"] = "store"
         \/ /\ pc["rx"] \in {"timer", "schedule", "arm", "monitor"}
            /\ pc'["rx"] \in {"idle", "schedule", "arm", "monitor"}
      /\ UNCHANGED <<holdQ, q, connected, delivered, freed, peer, arrived, job, hand, frame>>
  BY RxJob, PullStep, NoteStep
<1>2. FrameInv' /\ HandInv'
  BY <1>1 DEF Flow, FrameInv, HandInv, Reached, Dispatching
<1>3. \A u \in Tids : Account(u)'
  BY <1>1 DEF Flow, Account, Dispatching, Somewhere, Numbered
<1> QED BY <1>2, <1>3 DEF Flow

LEMMA ReceiveFlow ==
    ASSUME TypeInv, Ring, Flow, NEW t \in Tids, NEW n \in Frames, ReceiveFrame(t, n)
    PROVE  Flow'
<1>1. /\ pc["rx"] = "idle" /\ Arrives(t, n)
      /\ arrived'[t] = arrived[t] \cup {n}
      /\ \A u \in Tids \ {t} : arrived'[u] = arrived[u] /\ delivered'[u] = delivered[u]
      /\ UNCHANGED <<holdQ, q, connected, freed, peer, hand>>
      /\ \/ delivered'[t] = Append(delivered[t], n) /\ UNCHANGED <<frame, job, pc>>
         \/ /\ delivered'[t] = delivered[t] /\ frame' = n /\ job'["rx"].tid = t
            /\ \/ pc'["rx"] = "store"
               \/ pc'["rx"] = "aim" /\ job'["rx"].then \in {"pull", "store"}
  BY ReceiveStep DEF Called
<1>2. FrameInv /\ HandInv /\ frame = NoFrame /\ hand["rx"] = NoFrame /\ hand["timer"] = NoFrame
  BY <1>1 DEF Flow, FrameInv, HandInv, Reached, Dispatching
<1>3. n < peer.frames /\ n \notin arrived[t] /\ n # NoFrame
  BY <1>1, Sizes DEF Arrives
<1>4. \A u \in Tids : q[u] = <<>> /\ \A m \in arrived[u] : m # NoFrame
  BY <1>1, Sizes DEF Flow, Account, Dispatching, TypeInv, TypeOK
<1>5. \A u \in Tids \ {t} : Account(u)'
  BY <1>1, <1>2, <1>4 DEF Flow, Account, Somewhere, Numbered
<1>6. Account(t) /\ \A i \in Slots : holdQ[t][i] # n
  BY <1>3 DEF Flow, Account
<1>7. CASE delivered'[t] = Append(delivered[t], n) /\ UNCHANGED <<frame, job, pc>>
  <2>1. Elems(delivered'[t]) = Elems(delivered[t]) \cup {n}
    BY <1>7, RxJob, ElemsAppend
  <2>2. Account(t)'
    BY <1>1, <1>2, <1>3, <1>4, <1>6, <1>7, <2>1 DEF Account, Somewhere, Numbered
  <2>3. FrameInv' /\ HandInv'
    BY <1>1, <1>2, <1>7 DEF FrameInv, HandInv
  <2> QED BY <1>5, <2>2, <2>3 DEF Flow
<1>8. CASE /\ delivered'[t] = delivered[t] /\ frame' = n /\ job'["rx"].tid = t
           /\ \/ pc'["rx"] = "store"
              \/ pc'["rx"] = "aim" /\ job'["rx"].then \in {"pull", "store"}
  <2>1. Account(t)'
    BY <1>1, <1>2, <1>3, <1>4, <1>6, <1>8 DEF Account, Somewhere, Numbered
  <2>2. FrameInv' /\ HandInv'
    BY <1>1, <1>2, <1>6, <1>8 DEF FrameInv, HandInv, Reached, Dispatching
  <2> QED BY <1>5, <2>1, <2>2 DEF Flow
<1> QED BY <1>1, <1>7, <1>8

LEMMA EventFlow ==
    ASSUME TypeInv, Ring, Flow, NEW t \in Tids,
           ProcessBar(t) \/ RecvAddbaReq(t) \/ RecvDelbaReq(t) \/ ResetState
    PROVE  Flow'
<1>1. /\ pc["rx"] = "idle" /\ pc'["rx"] \in {"aim", "delete", "install"}
      /\ UNCHANGED <<holdQ, q, delivered, freed, peer, arrived, hand, frame>>
  BY EventStep DEF Called, DeleteCalled
<1>2. FrameInv /\ HandInv /\ frame = NoFrame /\ hand["rx"] = NoFrame
  BY <1>1 DEF Flow, FrameInv, HandInv, Reached, Dispatching
<1>3. \A u \in Tids : q[u] = <<>> /\ \A m \in arrived[u] : m # NoFrame
  BY <1>1, Sizes DEF Flow, Account, Dispatching, TypeInv, TypeOK
<1>4. \A u \in Tids : Account(u)'
  BY <1>1, <1>2, <1>3 DEF Flow, Account, Somewhere, Numbered
<1>5. FrameInv' /\ HandInv'
  BY <1>1, <1>2 DEF FrameInv, HandInv
<1> QED BY <1>4, <1>5 DEF Flow

LEMMA SessionFlow ==
    ASSUME TypeInv, TimerInv, Ring, Flow, DeleteTidState \/ InstallTid PROVE Flow'
<1>0. PICK t \in Tids : t = job["rx"].tid
  BY RxJob
<1>1. /\ pc["rx"] \in {"delete", "install"}
      /\ pc'["rx"] \in {"aim", "delete", "install", "idle"}
      /\ \A i \in Slots : holdQ'[t][i] = NoFrame
      /\ \A u \in Tids \ {t} : holdQ'[u] = holdQ[u]
      /\ UNCHANGED <<q, delivered, freed, peer, arrived, hand, frame>>
  BY <1>0, DeleteStep, InstallStep DEF DeleteCalled, Called
<1>2. FrameInv /\ HandInv /\ frame = NoFrame /\ hand["rx"] = NoFrame
  BY <1>1 DEF Flow, FrameInv, HandInv, Reached, Dispatching
<1>3. \A u \in Tids : q[u] = <<>> /\ \A m \in arrived[u] : m # NoFrame
  <2>1. \A u \in Tids : q[u] = <<>>
    BY <1>1 DEF Flow, Account, Dispatching
  <2>2. \A u \in Tids : arrived[u] \subseteq Frames
    BY DEF TypeInv, TypeOK
  <2> QED BY <2>1, <2>2, Sizes
<1>4. \A i \in Slots : holdQ[t][i] = NoFrame
  BY <1>0, <1>1, HeldInSession DEF Ring, Released, Reached, Dispatching
<1>5. \A u \in Tids : Account(u)'
  BY <1>1, <1>2, <1>3, <1>4 DEF Flow, Account, Somewhere, Numbered
<1>6. FrameInv' /\ HandInv'
  BY <1>1, <1>2 DEF FrameInv, HandInv
<1> QED BY <1>5, <1>6 DEF Flow

LEMMA NextFlow ==
    TypeInv /\ TimerInv /\ (~peer.timer => Ring /\ Flow) /\ [Next]_vars => (~peer.timer => Flow)'
<1> SUFFICES ASSUME TypeInv, TimerInv, ~peer.timer => Ring /\ Flow, [Next]_vars, ~peer'.timer
             PROVE  Flow'
  OBVIOUS
<1>1. ~peer.timer /\ Ring /\ Flow
  BY PeerSame
<1>2. CASE UNCHANGED vars \/ \E t \in Tids : PeerMovesOn(t)
  <2>1. UNCHANGED <<pc, job, holdQ, q, peer, connected, delivered, freed, arrived, hand, frame>>
    BY <1>2 DEF vars, tidVars, outVars, peerVars, localVars, PeerMovesOn
  <2> QED BY <1>1, <2>1 DEF Flow, FrameInv, HandInv, Reached, Dispatching, Account, Somewhere, Numbered
<1>3. CASE RxStep
  BY <1>1, <1>3, AimFlow, ReleaseFlow, DispatchFlow, MoveOnFlow, StoreFlow, SessionFlow
     DEF RxStep, DequeStep, Dispatches
<1>4. ASSUME NEW t \in Tids, Indication(t) PROVE Flow'
  BY <1>1, <1>4, ReceiveFlow, EventFlow DEF Indication
<1>5. CASE ResetState
  BY <1>1, <1>5, EventFlow, Sizes
<1>6. Next => \/ RxStep \/ ResetState
              \/ \E t \in Tids : Indication(t) \/ PeerMovesOn(t)
  BY <1>1, NoTimerStep DEF Ring
<1> QED BY <1>2, <1>3, <1>4, <1>5, <1>6

LEMMA FlowCorrect == Spec => [](~peer.timer => Flow)
<1>1. Init => (~peer.timer => Flow)
  BY InitFlow
<1>2. /\ TypeInv /\ TimerInv /\ (~peer.timer => Ring) /\ (~peer.timer => Flow) /\ [Next]_vars
      => (~peer.timer => Flow)'
  BY NextFlow
<1> QED BY <1>1, <1>2, TypeInvCorrect, TimerInvCorrect, RingCorrect, PTL DEF Spec

\* As long as no timeout passes, aggr_process_recv_frm and aggr_deque_frms neither drop a
\* frame nor overwrite one in its slot: a frame that reached the host is held, waits to be
\* dispatched, is in hand, was delivered, or was freed because nobody is connected.
THEOREM NothingLost == Spec => []NoFrameLost
<1>1. TypeInv /\ (~peer.timer => Flow) => NoFrameLost
  <2> SUFFICES ASSUME TypeInv, Flow, Numbered, NEW t \in Tids, NEW n \in arrived[t]
               PROVE  n \in HeldFrames(t) \cup Elems(q[t]) \cup InHand(t)
                               \cup Elems(delivered[t]) \cup freed[t]
    BY DEF NoFrameLost
  <2>1. Somewhere(t, n)
    BY DEF Flow, Account
  <2>2. n # NoFrame
    BY Sizes DEF TypeInv, TypeOK
  <2> QED BY <2>1, <2>2 DEF Somewhere, HeldFrames, InHand, Threads
<1> QED BY <1>1, TypeInvCorrect, FlowCorrect, PTL

-----------------------------------------------------------------------------
(***************************************************************************)
(* The order of the frames (when only the window decides when they leave). *)
(***************************************************************************)
\* Nothing but the window decides when frames leave, and it is never shifted to 0.
Undisturbed == OnlyTheWindow /\ Numbered /\ ~ShiftsToZero

Increasing(s) == \A i, j \in DOMAIN s : i < j => s[i] < s[j]

\* Every frame from the peer's first outstanding one up to d is here.
Complete(t, d) == \A n \in base[t]..d : n \in arrived[t]

\* The thread releases what is held for t, to delete its session.
Deleting(t) ==
    /\ job["rx"].tid = t
    /\ \/ pc["rx"] \in {"aim", "release"} /\ job["rx"].then = "delete"
       \/ Reached({"delete"})

\* The window of t starts at frame u, as the peer counts them.  What was released
\* is before it, what is held is not, and nothing before it is to come; a frame in
\* hand that moves the window is as far ahead as the window will be moved.
Window(t, u) ==
    /\ seqNext[t] = Num(peer.first, u)
    /\ \A d \in Elems(delivered[t]) \cup Elems(q[t]) : d < u
    /\ job["rx"].tid = t /\ pc["rx"] = "deliver" => hand["rx"] < u
    /\ \A i \in Slots : holdQ[t][i] # NoFrame => u <= holdQ[t][i]
    /\ ~Deleting(t) => Complete(t, u - 1)
    /\ job["rx"].tid = t /\ frame # NoFrame =>
         /\ u <= frame
         /\ pc["rx"] = "aim" /\ job["rx"].then = "pull" => u + 2 * HoldQSz - 1 <= frame
         /\ pc["rx"] = "release" => u + Remaining + HoldQSz - 1 <= frame
         /\ Reached({"pull"}) => u + HoldQSz - 1 <= frame

\* Frames leave in order, after all that the peer may still send.
Leaving(t) ==
    /\ Increasing(delivered[t]) /\ Increasing(q[t])
    /\ \A d \in Elems(delivered[t]), e \in Elems(q[t]) : d < e
    /\ job["rx"].tid = t /\ pc["rx"] = "deliver" =>
         /\ \A d \in Elems(delivered[t]) : d < hand["rx"]
         /\ \A e \in Elems(q[t]) : hand["rx"] < e
         /\ Complete(t, hand["rx"])
    /\ \A d \in Elems(delivered[t]) : Complete(t, d)
    /\ connected => \A e \in Elems(q[t]) : Complete(t, e)

\* Sessions are deleted with nothing outstanding, or with nobody connected.
Sessions ==
    /\ \A t \in Tids : ~connected /\ aggr[t] =>
         event = "reset" /\ Deleting(job["rx"].tid) /\ job["rx"].tid <= t
    /\ Deleting(job["rx"].tid) =>
         \/ event = "reset" /\ (connected => \A t \in Tids : ~aggr[t])
         \/ event = "addba" /\ connected /\ Settled(job["rx"].tid)
    /\ pc["rx"] = "install" => connected /\ Settled(job["rx"].tid)

Order ==
    /\ Sessions
    /\ frame # NoFrame => frame < base[job["rx"].tid] + WinSz
    /\ \A t \in Tids : Leaving(t) /\ (aggr[t] => \E u \in Nat : Window(t, u))

LEMMA IncreasingAppend ==
    ASSUME NEW s \in Seq(Frames), NEW x \in Frames, Increasing(s), \A d \in Elems(s) : d < x
    PROVE  Increasing(Append(s, x))
<1>1. /\ Len(s) \in Nat /\ DOMAIN Append(s, x) = 1..(Len(s) + 1) /\ DOMAIN s = 1..Len(s)
      /\ Append(s, x)[Len(s) + 1] = x
      /\ \A i \in 1..Len(s) : Append(s, x)[i] = s[i]
  OBVIOUS
<1> QED BY <1>1 DEF Increasing, Elems

LEMMA IncreasingTail ==
    ASSUME NEW s \in Seq(Frames), s # <<>>, Increasing(s)
    PROVE  Increasing(Tail(s)) /\ \A e \in Elems(Tail(s)) : Head(s) < e
<1>1. /\ Len(s) \in Nat /\ Len(s) >= 1 /\ DOMAIN s = 1..Len(s)
      /\ DOMAIN Tail(s) = 1..(Len(s) - 1) /\ Head(s) = s[1]
      /\ \A i \in 1..(Len(s) - 1) : Tail(s)[i] = s[i + 1]
  OBVIOUS
<1> QED BY <1>1 DEF Increasing, Elems

\* The number after that of a frame is that of the next one.
LEMMA NextNum ==
    ASSUME NEW first \in SeqNos, NEW u \in Nat
    PROVE  NextSeqNo(Num(first, u)) = Num(first, u + 1)
<1> DEFINE a == first + u
           k == a \div SeqSpace
           r == a % SeqSpace
<1>1. SeqSpace \in Nat \ {0} /\ a \in Int /\ SeqSpace >= 2 /\ first + (u + 1) = a + 1
  BY Sizes DEF SeqNos
<1>2. k \in Int /\ r \in 0..(SeqSpace - 1) /\ a = SeqSpace * k + r
  <2> HIDE DEF a
  <2> QED BY <1>1, DivMod
<1>3. Num(first, u) = r
  BY DEF Num
<1> HIDE DEF k, r, a
<1>4. CASE r + 1 < SeqSpace
  <2>1. r + 1 \in 0..(SeqSpace - 1) /\ a + 1 = SeqSpace * k + (r + 1) /\ a + 1 \in Int
    BY <1>1, <1>2, <1>4, Z3
  <2>2. ((a + 1) % SeqSpace) = r + 1
    BY <1>1, <1>2, <2>1, ModUnique
  <2>3. ((r + 1) % SeqSpace) = r + 1
    <3>1. r + 1 = SeqSpace * 0 + (r + 1) /\ r + 1 \in Int /\ 0 \in Int
      BY <1>1, <1>2
    <3> QED BY <1>1, <2>1, <3>1, ModUnique
  <2> QED BY <1>1, <1>3, <2>2, <2>3 DEF Num, NextSeqNo
<1>5. CASE ~(r + 1 < SeqSpace)
  <2>1. r + 1 = SeqSpace
    BY <1>1, <1>2, <1>5
  <2>2. a + 1 = SeqSpace * (k + 1) + 0 /\ 0 \in 0..(SeqSpace - 1) /\ a + 1 \in Int /\ k + 1 \in Int
    BY <1>1, <1>2, <2>1, Z3
  <2>3. ((a + 1) % SeqSpace) = 0
    BY <1>1, <2>2, ModUnique
  <2>4. ((r + 1) % SeqSpace) = 0
    <3>1. r + 1 = SeqSpace * 1 + 0 /\ r + 1 \in Int /\ 1 \in Int
      BY <1>1, <2>1
    <3> QED BY <1>1, <2>2, <3>1, ModUnique
  <2> QED BY <1>1, <1>3, <2>3, <2>4 DEF Num, NextSeqNo
<1> QED BY <1>4, <1>5

\* The window that ends with a frame starts with the one WindowEndingAt says.
LEMMA StartNum ==
    ASSUME NEW first \in SeqNos, NEW n \in (HoldQSz - 1)..SeqSpace
    PROVE  WindowEndingAt(Num(first, n)) = Num(first, n - (HoldQSz - 1))
<1> DEFINE m == n - (HoldQSz - 1)
           x == Num(first, n)
<1>1. n \in 0..SeqSpace /\ m \in 0..SeqSpace
  BY Sizes
<1>2. /\ x = IF first + n < SeqSpace THEN first + n ELSE first + n - SeqSpace
      /\ x \in SeqNos
  BY <1>1, NumValue
<1>3. Num(first, m) = IF first + m < SeqSpace THEN first + m ELSE first + m - SeqSpace
  <2> HIDE DEF m
  <2> QED BY <1>1, NumValue
<1>4. WindowEndingAt(x) = IF x < HoldQSz - 1 THEN x + SeqSpace - (HoldQSz - 1)
                          ELSE x - (HoldQSz - 1)
  <2> HIDE DEF x
  <2> QED BY <1>2, WindowStart
<1> HIDE DEF x
<1>5. WindowEndingAt(x) = Num(first, m)
  BY <1>2, <1>3, <1>4, Sizes DEF SeqNos
<1> QED BY <1>5 DEF x

\* The peer's numbers, with their bounds.
LEMMA PeerFacts ==
    ASSUME TypeInv, Undisturbed
    PROVE  /\ peer.first \in SeqNos /\ peer.frames \in Int /\ peer.frames <= SeqSpace
           /\ ~peer.bars /\ ~peer.timer /\ "delba" \notin peer.sessions
           /\ "reconnect" \notin peer.sessions
           /\ \A t \in Tids : base[t] \in Nat
           /\ \A n \in Frames : n \in Nat
           /\ WinSz \in Nat /\ HoldQSz = 2 * WinSz /\ HoldQSz >= 2
<1>1. peer.first \in 0..(SeqSpace - 1) /\ peer.frames \in 1..MaxFrames
  BY PeerType DEF TypeInv, TypeOK
<1>2. WinSz \in Nat /\ HoldQSz = 2 * WinSz
  BY ReorderAssumption DEF ReorderAssumption, HoldQSz
<1> QED BY <1>1, <1>2, Sizes DEF Undisturbed, Numbered, OnlyTheWindow, SeqNos, Frames, TypeInv, TypeOK

\* How far a frame is beyond the start of the window is how many frames lie between.
LEMMA DistNum ==
    ASSUME TypeInv, Undisturbed, NEW t \in Tids, NEW u \in Nat, NEW n \in Frames,
           seqNext[t] = Num(peer.first, u), u <= n, n < peer.frames
    PROVE  Dist(t, n) = n - u
<1>1. n \in 0..SeqSpace /\ u \in 0..SeqSpace /\ n - u < SeqSpace /\ peer.first \in SeqNos
  BY PeerFacts, Sizes
<1>2. Offset(Num(peer.first, n), Num(peer.first, u)) = n - u
  BY <1>1, NumOffset
<1> QED BY <1>2 DEF Dist

LEMMA InitOrder == Init /\ Undisturbed => Order
<1> SUFFICES ASSUME Init, Undisturbed PROVE Order
  OBVIOUS
<1>1. \A t \in Tids : Leaving(t) /\ ~aggr[t]
  BY ElemsEmpty DEF Init, Leaving, Increasing, Threads
<1>2. Sessions /\ frame = NoFrame
  BY DEF Init, Sessions, Deleting, Reached, Dispatching, Threads
<1> QED BY <1>1, <1>2 DEF Order

Orderly(t) == Leaving(t) /\ (aggr[t] => \E u \in Nat : Window(t, u))

\* A TID that keeps its frames and its window, with no frame of it in hand afterwards.
LEMMA OtherOrder ==
    ASSUME NEW t \in Tids, Orderly(t),
           aggr'[t] = aggr[t], seqNext'[t] = seqNext[t], holdQ'[t] = holdQ[t], q'[t] = q[t],
           delivered'[t] = delivered[t], arrived[t] \subseteq arrived'[t], base' = base,
           peer' = peer, connected' = connected \/ q[t] = <<>>,
           job'["rx"].tid = t => frame' = NoFrame /\ pc'["rx"] # "deliver",
           ~Deleting(t) \/ Deleting(t)'
    PROVE  Orderly(t)'
<1>1. \A d : Complete(t, d) => Complete(t, d)'
  BY DEF Complete
<1>2. Leaving(t)'
  BY <1>1, ElemsEmpty DEF Orderly, Leaving
<1>3. \A u : Window(t, u) => Window(t, u)'
  BY <1>1 DEF Window
<1> QED BY <1>2, <1>3 DEF Orderly

\* The peer moves on: what was complete stays so.
LEMMA MovesOnOrder ==
    ASSUME TypeInv, Undisturbed, Order, NEW t \in Tids, PeerMovesOn(t) PROVE Order'
<1>1. /\ base'[t] = base[t] + 1 /\ \A v \in Tids \ {t} : base'[v] = base[v]
      /\ \A v \in Tids : base[v] \in Nat
      /\ UNCHANGED <<aggr, seqNext, holdQ, q, connected, delivered, peer, arrived, pc, job, hand,
                     frame, event>>
  BY PeerFacts DEF PeerMovesOn, tidVars, outVars, localVars, TypeInv, TypeOK
<1>2. \A v \in Tids : base'[v] \in Nat /\ base'[v] >= base[v]
  BY <1>1
<1>3. job["rx"].tid \in Tids /\ arrived \in [Tids -> SUBSET Frames] /\ Frames \subseteq Nat
  BY RxJob, PeerFacts DEF TypeInv, TypeOK
<1>4. ASSUME NEW v \in Tids, NEW d \in Int, Complete(v, d) PROVE Complete(v, d)'
  BY <1>1, <1>2, <1>4 DEF Complete
<1>5. \A v \in Tids : Settled(v) => Settled(v)'
  BY <1>1, <1>2, <1>3 DEF Settled
<1>6. Sessions'
  BY <1>1, <1>3, <1>5 DEF Order, Sessions, Deleting, Reached, Dispatching
<1>7. frame' # NoFrame => frame' < base'[job'["rx"].tid] + WinSz
  <2> SUFFICES ASSUME frame # NoFrame PROVE frame < base'[job["rx"].tid] + WinSz
    BY <1>1
  <2>1. frame \in Nat /\ WinSz \in Nat
    BY PeerFacts DEF TypeInv, TypeOK
  <2>2. frame < base[job["rx"].tid] + WinSz
    BY DEF Order
  <2> QED BY <1>1, <1>2, <1>3, <2>1, <2>2
<1>8. ASSUME NEW v \in Tids PROVE Orderly(v)'
  <2>1. Orderly(v)
    BY DEF Order, Orderly
  <2>2. Elems(q[v]) \subseteq Int /\ Elems(delivered[v]) \subseteq Int
    BY RxJob, PeerFacts DEF Elems
  <2>3. pc["rx"] = "deliver" => hand["rx"] \in Int
    BY RxJob, PeerFacts DEF TypeInv, Control
  <2>4. Leaving(v)'
    BY <1>1, <1>4, <2>1, <2>2, <2>3 DEF Orderly, Leaving
  <2>5. \A u \in Nat : Window(v, u) => Window(v, u)'
    <3> SUFFICES ASSUME NEW u \in Nat, Window(v, u) PROVE Window(v, u)'
      OBVIOUS
    <3>1. u - 1 \in Int
      OBVIOUS
    <3>2. Deleting(v)' <=> Deleting(v)
      BY <1>1 DEF Deleting, Reached, Dispatching
    <3>3. Remaining' = Remaining
      BY <1>1 DEF Remaining
    <3> QED BY <1>1, <1>4, <3>1, <3>2, <3>3 DEF Window, Reached, Dispatching
  <2> QED BY <1>1, <2>1, <2>4, <2>5 DEF Orderly
<1> QED BY <1>6, <1>7, <1>8 DEF Order, Orderly

LEMMA AimOrder ==
    ASSUME TypeInv, Undisturbed, Ring, Flow, Order, AimDeque("rx") PROVE Order'
<1>0. PICK t \in Tids : t = job["rx"].tid
  BY RxJob
<1>1. /\ pc["rx"] = "aim" /\ pc'["rx"] = "release" /\ aggr[t]
      /\ job'["rx"].tid = t /\ job'["rx"].then = job["rx"].then
      /\ job'["rx"].idx = WinIdx(seqNext[t])
      /\ job["rx"].seqNo = 0 => job'["rx"].end = WinIdx(seqNext[t])
      /\ UNCHANGED <<aggr, seqNext, holdQ, q, connected, delivered, peer, base, arrived, hand,
                     frame, event>>
  BY <1>0, AimStep
<1>2. Sessions'
  BY <1>0, <1>1 DEF Order, Sessions, Deleting, Reached, Dispatching, Settled
<1>3. \A v \in Tids \ {t} : Orderly(v)'
  <2> TAKE v \in Tids \ {t}
  <2>1. Orderly(v)
    BY DEF Order, Orderly
  <2> QED BY <1>0, <1>1, <2>1, OtherOrder DEF Deleting
<1>4. Leaving(t)'
  BY <1>1 DEF Order, Leaving, Complete
<1>5. PICK u \in Nat : Window(t, u)
  BY <1>1 DEF Order
<1>6. frame # NoFrame => u + Remaining' + HoldQSz - 1 <= frame
  <2> SUFFICES ASSUME frame # NoFrame PROVE u + Remaining' + HoldQSz - 1 <= frame
    OBVIOUS
  <2>1. job["rx"].then \in {"pull", "store"} /\ frame \in arrived[t]
    BY <1>0, <1>1 DEF Flow, FrameInv, Reached, Dispatching
  <2>2. frame \in Frames /\ frame < peer.frames /\ frame \in Nat
    BY <2>1, PeerFacts DEF Flow, Account, TypeInv, TypeOK
  <2>3. CASE job["rx"].then = "pull"
    <3>1. job["rx"].seqNo = 0
      BY <1>1, <2>3 DEF Ring, CallInv
    <3>2. seqNext[t] \in Int /\ WinIdx(seqNext[t]) \in Slots
      <4>1. seqNext[t] \in Int
        BY RxJob, Sizes DEF SeqNos
      <4> QED BY <4>1, WinIdxType
    <3>3. Remaining' = HoldQSz
      BY <1>1, <3>1, <3>2, Sizes DEF Remaining, Slots
    <3>4. u + 2 * HoldQSz - 1 <= frame
      BY <1>0, <1>1, <1>5, <2>3 DEF Window
    <3> QED BY <2>2, <3>3, <3>4, Sizes
  <2>4. CASE job["rx"].then = "store"
    <3>1. /\ job["rx"].seqNo = WindowEndingAt(Num(peer.first, frame))
          /\ Dist(t, frame) \in HoldQSz..(2 * HoldQSz - 2)
      BY <1>0, <1>1, <2>4 DEF Ring, Aimed
    <3>2. seqNext[t] = Num(peer.first, u) /\ u <= frame
      BY <1>0, <1>5 DEF Window
    <3>3. Dist(t, frame) = frame - u
      BY <2>2, <3>2, DistNum
    <3>4. frame \in HoldQSz..(peer.frames - 1)
      BY <2>2, <3>1, <3>3, PeerFacts, Sizes
    <3>5. job["rx"].seqNo # 0
      BY <3>1, <3>4, SeqNoNum DEF Undisturbed, ShiftsToZero
    <3>6. Remaining' = Dist(t, frame) - (HoldQSz - 1)
      BY <1>0, <2>4, <3>5, AimShift
    <3> QED BY <2>2, <3>3, <3>6, Sizes
  <2> QED BY <2>1, <2>3, <2>4
<1>7. Window(t, u)'
  <2>1. Deleting(t)' <=> Deleting(t)
    BY <1>0, <1>1 DEF Deleting, Reached, Dispatching
  <2>2. frame' # NoFrame => /\ u <= frame' /\ u + Remaining' + HoldQSz - 1 <= frame'
    BY <1>0, <1>1, <1>5, <1>6 DEF Window
  <2> QED BY <1>0, <1>1, <1>5, <2>1, <2>2 DEF Window, Complete, Reached, Dispatching
<1>8. Orderly(t)'
  BY <1>4, <1>7 DEF Orderly
<1> QED BY <1>0, <1>1, <1>2, <1>3, <1>8 DEF Order, Orderly

LEMMA PullOrder ==
    ASSUME TypeInv, Undisturbed, TimerInv, Ring, Flow, Order, PullWindow PROVE Order'
<1>0. PICK t \in Tids : t = job["rx"].tid
  BY RxJob
<1>1. /\ pc["rx"] = "pull" /\ pc'["rx"] = "store"
      /\ seqNext'[t] = WindowEndingAt(Num(peer.first, frame)) /\ frame \in Frames
      /\ \A u \in Tids \ {t} : seqNext'[u] = seqNext[u]
      /\ UNCHANGED <<aggr, holdQ, q, connected, delivered, peer, base, arrived, job, hand,
                     frame, event>>
  BY <1>0, PullStep, SeqNoNum
<1>a. aggr[t]
  BY <1>0, <1>1 DEF TimerInv, InSession, TypeInv, Control
<1>2. Sessions'
  BY <1>0, <1>1 DEF Order, Sessions, Deleting, Reached, Dispatching, Settled
<1>3. \A v \in Tids \ {t} : Orderly(v)'
  <2> TAKE v \in Tids \ {t}
  <2>1. Orderly(v)
    BY DEF Order, Orderly
  <2> QED BY <1>0, <1>1, <2>1, OtherOrder DEF Deleting
<1>4. Leaving(t)'
  BY <1>1 DEF Order, Leaving, Complete
<1>5. PICK u \in Nat : Window(t, u)
  BY <1>a DEF Order
<1>6. frame # NoFrame /\ frame \in Nat /\ frame \in arrived[t] /\ frame < peer.frames
  <2>1. frame # NoFrame /\ frame \in Nat
    BY <1>1, Sizes, PeerFacts
  <2> QED BY <1>0, <2>1 DEF Flow, FrameInv, Account
<1>7. u + HoldQSz - 1 <= frame /\ frame < base[t] + WinSz
  BY <1>0, <1>1, <1>5, <1>6 DEF Window, Reached, Dispatching, Order
<1>b. PICK w \in Nat : w = frame - (HoldQSz - 1)
  <2>1. frame - (HoldQSz - 1) \in Nat
    BY <1>6, <1>7, Sizes
  <2> QED BY <2>1
<1>8. u <= w /\ w <= frame /\ w - 1 < base[t] /\ base[t] \in Nat
  BY <1>b, <1>6, <1>7, PeerFacts, Sizes
<1>9. seqNext'[t] = Num(peer.first, w)
  <2>1. frame \in (HoldQSz - 1)..SeqSpace
    BY <1>6, <1>7, PeerFacts, Sizes
  <2>2. WindowEndingAt(Num(peer.first, frame)) = Num(peer.first, frame - (HoldQSz - 1))
    BY <2>1, PeerFacts, StartNum
  <2> QED BY <1>1, <1>b, <2>2
<1>10. \A i \in Slots : holdQ[t][i] = NoFrame
  BY <1>0, <1>1 DEF Ring, Released, Reached, Dispatching
<1>11. \A d \in Elems(delivered[t]) \cup Elems(q[t]) : d < w
  <2> TAKE d \in Elems(delivered[t]) \cup Elems(q[t])
  <2>1. d < u /\ d \in Nat
    BY <1>5, RxJob, PeerFacts DEF Window, Elems
  <2> QED BY <1>8, <2>1
<1>12. Window(t, w)'
  <2>1. Complete(t, w - 1)'
    BY <1>1, <1>8 DEF Complete
  <2> QED BY <1>0, <1>1, <1>8, <1>9, <1>10, <1>11, <2>1 DEF Window, Reached, Dispatching
<1>13. Orderly(t)'
  BY <1>4, <1>12 DEF Orderly
<1> QED BY <1>0, <1>1, <1>2, <1>3, <1>7, <1>13 DEF Order, Orderly

LEMMA ReleaseOrder ==
    ASSUME TypeInv, Undisturbed, Ring, Flow, Order, ReleaseSlot("rx") PROVE Order'
<1>0. PICK t \in Tids : t = job["rx"].tid
  BY RxJob
<1>1. /\ pc["rx"] = "release" /\ aggr[t]
      /\ job'["rx"].tid = t /\ job'["rx"].seqNo = job["rx"].seqNo
      /\ job'["rx"].order = job["rx"].order /\ job'["rx"].then = job["rx"].then
      /\ job'["rx"].end = job["rx"].end
      /\ UNCHANGED <<aggr, connected, delivered, peer, base, arrived, hand, frame, event>>
  BY <1>0, ReleaseStep
<1>2. PICK u \in Nat : Window(t, u)
  BY <1>1 DEF Order
<1>3. /\ job["rx"].then \in {"pull", "store", "timer", "delete"}
      /\ pc'["rx"] \in {"release", "dispatch"}
  <2>1. job["rx"].then # "idle"
    BY <1>1, PeerFacts DEF Ring, CallInv
  <2>2. pc'["rx"] \in {"release", "dispatch"}
    BY <1>0, ReleaseStep DEF Moved
  <2> QED BY <1>1, <2>1, <2>2 DEF TypeInv, Control, Dequeuing, Dispatching
<1>4. Deleting(t)' <=> Deleting(t)
  BY <1>0, <1>1, <1>3 DEF Deleting, Reached, Dispatching
<1>5. Sessions'
  BY <1>0, <1>1, <1>3, <1>4 DEF Order, Sessions, Settled
<1>6. frame # NoFrame => job["rx"].then \in {"pull", "store"} /\ frame \in Nat
                         /\ u + Remaining + HoldQSz - 1 <= frame /\ frame < base[t] + WinSz
  <2>1. frame # NoFrame => job["rx"].then \in {"pull", "store"}
    BY <1>1 DEF Flow, FrameInv, Reached, Dispatching
  <2>2. frame # NoFrame => u + Remaining + HoldQSz - 1 <= frame
    BY <1>0, <1>1, <1>2 DEF Window
  <2> QED BY <1>0, <2>1, <2>2, PeerFacts DEF Order, TypeInv, TypeOK
<1>7. CASE /\ job["rx"].order = "CONTIGUOUS"
           /\ pc'["rx"] = "dispatch" /\ UNCHANGED <<q, holdQ, seqNext, job>>
  <2>1. frame = NoFrame
    BY <1>1, <1>6, <1>7 DEF Ring, CallInv
  <2>2. ASSUME NEW v \in Tids PROVE Orderly(v)'
    <3>1. Orderly(v)
      BY DEF Order, Orderly
    <3>2. ~Deleting(v) \/ Deleting(v)'
      BY <1>0, <1>4 DEF Deleting
    <3> QED BY <1>1, <1>7, <2>1, <3>1, <3>2, OtherOrder
  <2> QED BY <1>1, <1>5, <2>1, <2>2 DEF Order, Orderly
<1>8. CASE /\ job["rx"].order = "CONTIGUOUS" => holdQ[t][job["rx"].idx] # NoFrame
           /\ Moved(t)
  <2>0. PICK i \in Slots : i = job["rx"].idx
    BY RxJob
  <2>1. PICK f \in Frames \cup {NoFrame} : f = holdQ[t][i]
    BY DEF TypeInv, TypeOK
  <2>2. /\ q'[t] = IF f = NoFrame THEN q[t] ELSE Append(q[t], f)
        /\ \A v \in Tids \ {t} : q'[v] = q[v] /\ holdQ'[v] = holdQ[v] /\ seqNext'[v] = seqNext[v]
        /\ holdQ'[t][i] = NoFrame
        /\ \A j \in Slots \ {i} : holdQ'[t][j] = holdQ[t][j]
        /\ seqNext'[t] = NextSeqNo(seqNext[t])
    BY <1>8, <2>0, <2>1 DEF Moved
  <2>3. \A v \in Tids \ {t} : Orderly(v)'
    <3> TAKE v \in Tids \ {t}
    <3>1. Orderly(v)
      BY DEF Order, Orderly
    <3> QED BY <1>0, <1>1, <2>2, <3>1, OtherOrder DEF Deleting
  <2>4. /\ Remaining \in 1..HoldQSz
        /\ pc'["rx"] = "dispatch" <=> Remaining = 1
        /\ pc'["rx"] = "release" => Remaining' = Remaining - 1
    BY <1>0, <1>1, <1>8, MovedRemaining
  <2>5. seqNext[t] = Num(peer.first, u) /\ seqNext'[t] = Num(peer.first, u + 1)
    BY <1>2, <2>2, NextNum, PeerFacts DEF Window
  <2>6. /\ \A j \in Slots \ {i} : holdQ[t][j] # NoFrame => Dist(t, holdQ[t][j]) # 0
        /\ f # NoFrame => Dist(t, f) = 0
    BY <1>0, <1>1, <1>8, <2>0, <2>1, MovedDist
  \* The frames held count from the start of the window.
  <2>7. \A j \in Slots : holdQ[t][j] # NoFrame =>
            /\ holdQ[t][j] \in Frames /\ holdQ[t][j] \in Nat /\ u <= holdQ[t][j]
            /\ holdQ[t][j] \in arrived[t] /\ Dist(t, holdQ[t][j]) = holdQ[t][j] - u
    <3> TAKE j \in Slots
    <3> HAVE holdQ[t][j] # NoFrame
    <3>1. holdQ[t][j] \in Frames /\ holdQ[t][j] \in Nat
      BY HeldType, PeerFacts
    <3>2. u <= holdQ[t][j] /\ holdQ[t][j] \in arrived[t] /\ holdQ[t][j] < peer.frames
      BY <1>2 DEF Window, Flow, Account
    <3> QED BY <2>5, <3>1, <3>2, DistNum
  <2>8. f # NoFrame => f = u /\ f \in Frames /\ f \in arrived[t]
    <3> HAVE f # NoFrame
    <3>1. f \in Frames /\ f \in Nat /\ u <= f /\ f \in arrived[t] /\ Dist(t, f) = f - u
      BY <2>1, <2>7
    <3> QED BY <2>6, <3>1
  <2>9. \A j \in Slots : holdQ'[t][j] # NoFrame => u + 1 <= holdQ'[t][j]
    <3> TAKE j \in Slots
    <3> HAVE holdQ'[t][j] # NoFrame
    <3>1. j # i /\ holdQ'[t][j] = holdQ[t][j]
      BY <2>2
    <3>2. holdQ[t][j] # NoFrame /\ Dist(t, holdQ[t][j]) # 0
      BY <2>6, <3>1
    <3> QED BY <2>7, <3>1, <3>2
  <2>10. ~Deleting(t) => Complete(t, u)
    <3> HAVE ~Deleting(t)
    <3>1. CASE job["rx"].then = "timer"
      <4>1. u \in arrived[t]
        BY <1>1, <1>8, <2>0, <2>1, <2>8, <3>1 DEF Ring, CallInv
      <4>2. Complete(t, u - 1)
        BY <1>2 DEF Window
      <4>3. \A n \in base[t]..u : n \in base[t]..(u - 1) \/ n = u
        BY PeerFacts
      <4> QED BY <4>1, <4>2, <4>3 DEF Complete
    <3>2. CASE job["rx"].then \in {"pull", "store"}
      <4>1. frame # NoFrame
        BY <1>1, <3>2, PeerFacts, Sizes DEF TypeInv, Control, Dequeuing, Dispatching
      <4>2. u < base[t]
        BY <1>6, <2>4, <4>1, PeerFacts, Sizes
      <4>3. base[t]..u = {}
        BY <4>2, PeerFacts
      <4> QED BY <4>3 DEF Complete
    <3>3. job["rx"].then # "delete"
      BY <1>0, <1>1 DEF Deleting
    <3> QED BY <1>3, <3>1, <3>2, <3>3
  <2>11. connected /\ f # NoFrame => Complete(t, u)
    <3> HAVE connected /\ f # NoFrame
    <3>1. CASE ~Deleting(t)
      BY <2>10, <3>1
    <3>2. CASE Deleting(t)
      <4>1. Settled(t)
        BY <1>0, <1>1, <3>2 DEF Order, Sessions
      <4>2. u < base[t]
        BY <2>8, <4>1 DEF Settled
      <4>3. base[t]..u = {}
        BY <4>2, PeerFacts
      <4> QED BY <4>3 DEF Complete
    <3> QED BY <3>1, <3>2
  <2>12. Elems(q'[t]) = Elems(q[t]) \cup ({f} \ {NoFrame})
    <3>1. CASE f = NoFrame
      BY <2>2, <3>1
    <3>2. CASE f # NoFrame
      <4>1. Elems(Append(q[t], f)) = Elems(q[t]) \cup {f}
        BY <2>8, <3>2, RxJob, ElemsAppend
      <4> QED BY <2>2, <3>2, <4>1
    <3> QED BY <3>1, <3>2
  <2>13. \A d \in Elems(delivered[t]) \cup Elems(q[t]) : d < u /\ d \in Nat
    BY <1>2, RxJob, PeerFacts DEF Window, Elems
  <2>14. Leaving(t) /\ Leaving(t)'
    <3>1. Leaving(t)
      BY DEF Order
    <3>2. Increasing(q'[t])
      <4>1. f # NoFrame => Increasing(Append(q[t], f))
        <5> HAVE f # NoFrame
        <5>1. f \in Frames /\ q[t] \in Seq(Frames) /\ \A d \in Elems(q[t]) : d < f
          BY <2>8, <2>13, RxJob
        <5> QED BY <3>1, <5>1, IncreasingAppend DEF Leaving
      <4> QED BY <2>2, <3>1, <4>1 DEF Leaving
    <3>3. pc'["rx"] # "deliver" /\ UNCHANGED <<delivered, base, arrived, connected>>
      BY <1>1, <1>3
    <3>4. \A d : Complete(t, d)' <=> Complete(t, d)
      BY <3>3 DEF Complete
    <3> QED BY <2>8, <2>11, <2>12, <2>13, <3>1, <3>2, <3>3, <3>4 DEF Leaving
  <2>15. Window(t, u + 1)'
    <3>1. \A d \in Elems(delivered'[t]) \cup Elems(q'[t]) : d < u + 1
      BY <1>1, <2>8, <2>12, <2>13
    <3>2. ~Deleting(t)' => Complete(t, u + 1 - 1)'
      <4>1. u + 1 - 1 = u
        OBVIOUS
      <4>2. Complete(t, u) => Complete(t, u)'
        BY <1>1 DEF Complete
      <4> QED BY <1>4, <2>10, <4>1, <4>2
    <3>3. frame # NoFrame => /\ u + 1 <= frame
                             /\ pc'["rx"] = "release" => u + 1 + Remaining' + HoldQSz - 1 <= frame
                             /\ pc'["rx"] = "dispatch" => u + 1 + HoldQSz - 1 <= frame
      BY <1>6, <2>4, Sizes
    <3> QED BY <1>0, <1>1, <1>3, <2>5, <2>9, <3>1, <3>2, <3>3 DEF Window, Reached, Dispatching
  <2>16. Orderly(t)'
    BY <2>14, <2>15 DEF Orderly
  <2> QED BY <1>0, <1>1, <1>5, <2>3, <2>16 DEF Order, Orderly
<1> QED BY <1>0, <1>7, <1>8, ReleaseStep

LEMMA DispatchOrder ==
    ASSUME TypeInv, TimerInv, Undisturbed, Ring, Flow, Order, Dispatches("rx") PROVE Order'
<1>0. PICK t \in Tids : t = job["rx"].tid
  BY RxJob
<1>1. /\ pc["rx"] \in Dispatching /\ pc'["rx"] \in Dispatching \cup {job["rx"].then}
      /\ job'["rx"].tid = t /\ job'["rx"].then = job["rx"].then
      /\ \A u \in Tids \ {t} : q'[u] = q[u] /\ delivered'[u] = delivered[u]
      /\ UNCHANGED <<aggr, seqNext, holdQ, connected, peer, base, arrived, frame, event>>
  BY <1>0, DispatchStep DEF Dispatching
<1>2. job["rx"].then \in {"idle", "pull", "store", "timer", "delete"} /\ aggr[t]
  BY <1>0, <1>1 DEF TypeInv, TimerInv, InSession, Control, Dequeuing, Dispatching
<1>3. Deleting(t)' <=> Deleting(t)
  BY <1>0, <1>1, <1>2 DEF Deleting, Reached, Dispatching
<1>4. Sessions'
  BY <1>0, <1>1, <1>2, <1>3 DEF Order, Sessions, Settled, Dispatching
<1>5. \A v \in Tids \ {t} : Orderly(v)'
  <2> TAKE v \in Tids \ {t}
  <2>1. Orderly(v)
    BY DEF Order, Orderly
  <2> QED BY <1>0, <1>1, <2>1, OtherOrder DEF Deleting
<1>6. PICK u \in Nat : Window(t, u)
  BY <1>2 DEF Order
<1>7. Leaving(t) /\ \A d : Complete(t, d)' <=> Complete(t, d)
  BY <1>1 DEF Order, Complete
<1>8. /\ Leaving(t)'
      /\ Elems(q'[t]) \subseteq Elems(q[t])
      /\ Elems(delivered'[t]) \subseteq Elems(delivered[t]) \cup
                                       (IF pc["rx"] = "deliver" THEN {hand["rx"]} ELSE {})
      /\ pc'["rx"] = "deliver" => hand'["rx"] \in Elems(q[t])
  <2>1. CASE /\ UNCHANGED <<q, delivered>>
             /\ pc["rx"] # "deliver" /\ pc'["rx"] # "deliver"
    BY <1>0, <1>1, <1>7, <2>1 DEF Leaving
  <2>2. CASE /\ pc["rx"] = "drain" /\ pc'["rx"] = "deliver" /\ connected
             /\ q[t] # <<>> /\ q'[t] = Tail(q[t]) /\ hand'["rx"] = Head(q[t])
             /\ UNCHANGED delivered
    <3>1. /\ Elems(q[t]) = {Head(q[t])} \cup Elems(Tail(q[t]))
          /\ Increasing(Tail(q[t])) /\ \A e \in Elems(Tail(q[t])) : Head(q[t]) < e
      BY <1>7, <2>2, RxJob, ElemsTail, IncreasingTail DEF Leaving
    <3> QED BY <1>1, <1>7, <2>2, <3>1 DEF Leaving
  <2>3. CASE /\ pc["rx"] = "deliver" /\ pc'["rx"] = "drain"
             /\ delivered'[t] = Append(delivered[t], hand["rx"]) /\ hand["rx"] \in Frames
             /\ UNCHANGED q
    <3>1. Elems(delivered'[t]) = Elems(delivered[t]) \cup {hand["rx"]}
      BY <2>3, RxJob, ElemsAppend
    <3>2. Increasing(delivered'[t])
      BY <1>0, <1>1, <1>7, <2>3, RxJob, IncreasingAppend DEF Leaving
    <3> QED BY <1>0, <1>1, <1>7, <2>3, <3>1, <3>2 DEF Leaving
  <2>4. CASE /\ pc["rx"] = "discard" /\ pc'["rx"] = "discard"
             /\ q[t] # <<>> /\ q'[t] = Tail(q[t]) /\ UNCHANGED delivered
    <3>1. /\ Elems(q[t]) = {Head(q[t])} \cup Elems(Tail(q[t])) /\ Increasing(Tail(q[t]))
      BY <1>7, <2>4, RxJob, ElemsTail, IncreasingTail DEF Leaving
    <3> QED BY <1>1, <1>7, <2>4, <3>1 DEF Leaving
  <2>5. pc["rx"] = "drain" => connected
    BY DEF Flow, HandInv
  <2> QED BY <1>0, <1>2, <2>1, <2>2, <2>3, <2>4, <2>5, DispatchStep
<1>9. Window(t, u)'
  <2>1. pc'["rx"] # "aim" /\ pc'["rx"] # "release"
    BY <1>1, <1>2 DEF Dispatching
  <2> QED BY <1>0, <1>1, <1>2, <1>3, <1>6, <1>7, <1>8, <2>1 DEF Window, Reached, Dispatching
<1>10. Orderly(t)'
  BY <1>8, <1>9 DEF Orderly
<1> QED BY <1>0, <1>1, <1>4, <1>5, <1>10 DEF Order, Orderly

LEMMA StoreOrder ==
    ASSUME TypeInv, TimerInv, Undisturbed, Flow, Order, StoreFrame PROVE Order'
<1>0. PICK t \in Tids : t = job["rx"].tid
  BY RxJob
<1> DEFINE i == WinIdx(Num(peer.first, frame))
<1>1. /\ pc["rx"] = "store" /\ pc'["rx"] = "aim"
      /\ frame \in Frames /\ frame' = NoFrame /\ i \in Slots
      /\ holdQ'[t][i] = frame
      /\ \A j \in Slots \ {i} : holdQ'[t][j] = holdQ[t][j]
      /\ \A u \in Tids \ {t} : holdQ'[u] = holdQ[u]
      /\ job'["rx"].tid = t /\ job'["rx"].then = "timer"
      /\ UNCHANGED <<aggr, seqNext, q, connected, delivered, peer, base, arrived, event>>
  BY <1>0, StoreStep, SeqNoNum
<1>2. aggr[t] /\ frame # NoFrame
  BY <1>0, <1>1, Sizes DEF TimerInv, InSession
<1> HIDE DEF i
<1>3. ~Deleting(t) /\ ~Deleting(t)'
  BY <1>0, <1>1 DEF Deleting, Reached, Dispatching
<1>4. Sessions'
  BY <1>0, <1>1, <1>3 DEF Order, Sessions, Settled
<1>5. \A v \in Tids \ {t} : Orderly(v)'
  <2> TAKE v \in Tids \ {t}
  <2>1. Orderly(v)
    BY DEF Order, Orderly
  <2> QED BY <1>0, <1>1, <2>1, OtherOrder DEF Deleting
<1>6. PICK u \in Nat : Window(t, u)
  BY <1>2 DEF Order
<1>7. Leaving(t) /\ \A d : Complete(t, d)' <=> Complete(t, d)
  BY <1>1 DEF Order, Complete
<1>8. Leaving(t)'
  BY <1>0, <1>1, <1>7 DEF Leaving
<1>9. \A j \in Slots : holdQ'[t][j] # NoFrame => u <= holdQ'[t][j]
  BY <1>0, <1>1, <1>2, <1>6 DEF Window
<1>10. Window(t, u)'
  BY <1>0, <1>1, <1>3, <1>6, <1>7, <1>9 DEF Window
<1>11. Orderly(t)'
  BY <1>8, <1>10 DEF Orderly
<1> QED BY <1>0, <1>1, <1>4, <1>5, <1>11 DEF Order, Orderly

LEMMA NoteOrder ==
    ASSUME TypeInv, Undisturbed, Flow, Order,
           NoteProgress \/ ScheduleTimer \/ ArmTimer \/ MonitorTid
    PROVE  Order'
<1>1. /\ pc["rx"] \in {"timer", "schedule", "arm", "monitor"}
      /\ pc'["rx"] \in {"idle", "schedule", "arm", "monitor"}
      /\ UNCHANGED <<aggr, seqNext, holdQ, q, connected, delivered, peer, base, arrived, job,
                     frame, event>>
  BY NoteStep
<1>2. frame = NoFrame
  BY <1>1 DEF Flow, FrameInv, Reached, Dispatching
<1>3. \A t \in Tids : ~Deleting(t) /\ ~Deleting(t)'
  BY <1>1 DEF Deleting, Reached, Dispatching
<1>4. job["rx"].tid \in Tids
  BY RxJob
<1>5. Sessions'
  BY <1>1, <1>3, <1>4 DEF Order, Sessions
<1>6. ASSUME NEW t \in Tids PROVE Orderly(t)'
  <2>1. Orderly(t)
    BY DEF Order, Orderly
  <2> QED BY <1>1, <1>2, <1>3, <2>1, OtherOrder
<1> QED BY <1>1, <1>2, <1>5, <1>6 DEF Order, Orderly

LEMMA ReceiveOrder ==
    ASSUME TypeInv, Undisturbed, Flow, Order, NEW t \in Tids, NEW n \in Frames, ReceiveFrame(t, n)
    PROVE  Order'
<1>1. /\ pc["rx"] = "idle" /\ connected /\ Arrives(t, n) /\ n \in Nat
      /\ arrived'[t] = arrived[t] \cup {n}
      /\ \A v \in Tids \ {t} : arrived'[v] = arrived[v] /\ delivered'[v] = delivered[v]
      /\ UNCHANGED <<aggr, seqNext, holdQ, q, connected, peer, base>>
      /\ \/ /\ ~aggr[t] /\ delivered'[t] = Append(delivered[t], n)
            /\ UNCHANGED <<frame, job, pc>>
         \/ /\ aggr[t] /\ delivered'[t] = delivered[t] /\ frame' = n /\ job'["rx"].tid = t
            /\ \/ pc'["rx"] = "store"
               \/ /\ pc'["rx"] = "aim" /\ job'["rx"].then = "pull"
                  /\ Dist(t, n) >= 2 * HoldQSz - 1
               \/ pc'["rx"] = "aim" /\ job'["rx"].then = "store"
  BY ReceiveStep, PeerFacts, SeqNoNum DEF Called, Dist
<1>2. frame = NoFrame /\ \A v \in Tids : q[v] = <<>>
  BY <1>1 DEF Flow, FrameInv, Account, Reached, Dispatching
<1>3. \A v \in Tids : ~Deleting(v) /\ ~Deleting(v)'
  BY <1>1 DEF Deleting, Reached, Dispatching
<1>4. job'["rx"].tid \in Tids
  BY <1>1, RxJob
<1>5. Sessions'
  BY <1>1, <1>3, <1>4 DEF Order, Sessions
<1>6. \A v \in Tids \ {t} : Orderly(v)'
  <2> TAKE v \in Tids \ {t}
  <2>1. Orderly(v)
    BY DEF Order, Orderly
  <2>2. job'["rx"].tid = v => frame' = NoFrame /\ pc'["rx"] # "deliver"
    BY <1>1, <1>2
  <2> QED BY <1>1, <1>2, <1>3, <2>1, <2>2, OtherOrder
<1>7. n >= base[t] /\ n \notin arrived[t] /\ n < peer.frames /\ base[t] \in Nat
      /\ (~aggr[t] => n = base[t]) /\ (aggr[t] => n < base[t] + WinSz)
  BY <1>1, PeerFacts DEF Arrives
<1>8. Leaving(t) /\ \A d : Complete(t, d) => Complete(t, d)'
  BY <1>1 DEF Order, Complete
<1>9. \A d \in Int : Complete(t, d) => d < n
  <2> TAKE d \in Int
  <2> HAVE Complete(t, d)
  <2>1. d >= n => n \in base[t]..d
    BY <1>1, <1>7
  <2> QED BY <1>1, <1>7, <2>1 DEF Complete
<1>10. pc'["rx"] # "deliver" /\ q'[t] = <<>> /\ Increasing(<<>>)
  BY <1>1, <1>2 DEF Increasing
<1>11. CASE ~aggr[t] /\ delivered'[t] = Append(delivered[t], n) /\ UNCHANGED <<frame, job, pc>>
  <2>1. \A d \in Elems(delivered[t]) : d < n
    <3> TAKE d \in Elems(delivered[t])
    <3>1. d \in Int /\ Complete(t, d)
      BY <1>8, RxJob, PeerFacts DEF Leaving, Elems
    <3> QED BY <1>9, <3>1
  <2>2. Elems(delivered'[t]) = Elems(delivered[t]) \cup {n}
    BY <1>11, RxJob, ElemsAppend
  <2>3. Increasing(delivered'[t])
    BY <1>8, <1>11, <2>1, RxJob, IncreasingAppend DEF Leaving
  <2>4. Complete(t, n)'
    BY <1>1, <1>7, <1>11 DEF Complete
  <2>5. Leaving(t)'
    BY <1>8, <1>10, <2>2, <2>3, <2>4, ElemsEmpty DEF Leaving
  <2>6. Orderly(t)'
    BY <1>1, <1>11, <2>5 DEF Orderly
  <2> QED BY <1>2, <1>5, <1>6, <1>11, <2>6 DEF Order, Orderly
<1>12. CASE /\ aggr[t] /\ delivered'[t] = delivered[t] /\ frame' = n /\ job'["rx"].tid = t
            /\ \/ pc'["rx"] = "store"
               \/ /\ pc'["rx"] = "aim" /\ job'["rx"].then = "pull"
                  /\ Dist(t, n) >= 2 * HoldQSz - 1
               \/ pc'["rx"] = "aim" /\ job'["rx"].then = "store"
  <2>1. PICK u \in Nat : Window(t, u)
    BY <1>12 DEF Order
  <2>2. u <= n
    <3>1. Complete(t, u - 1) /\ u - 1 \in Int
      BY <1>3, <2>1 DEF Window
    <3>2. u - 1 < n
      BY <1>9, <3>1
    <3> QED BY <1>1, <3>2
  <2>3. pc'["rx"] = "aim" /\ job'["rx"].then = "pull" => u + 2 * HoldQSz - 1 <= n
    <3> HAVE pc'["rx"] = "aim" /\ job'["rx"].then = "pull"
    <3>1. Dist(t, n) >= 2 * HoldQSz - 1
      BY <1>12
    <3>2. Dist(t, n) = n - u
      BY <1>7, <2>1, <2>2, DistNum DEF Window
    <3> QED BY <1>1, <3>1, <3>2, Sizes
  <2>4. Leaving(t)'
    BY <1>1, <1>8, <1>10, <1>12, ElemsEmpty DEF Leaving
  <2>5. Window(t, u)'
    BY <1>1, <1>3, <1>8, <1>10, <1>12, <2>1, <2>2, <2>3 DEF Window, Reached, Dispatching
  <2>6. Orderly(t)'
    BY <2>4, <2>5 DEF Orderly
  <2>7. frame' < base'[job'["rx"].tid] + WinSz
    BY <1>1, <1>7, <1>12
  <2> QED BY <1>5, <1>6, <2>6, <2>7 DEF Order, Orderly
<1> QED BY <1>1, <1>11, <1>12

LEMMA EventOrder ==
    ASSUME TypeInv, Undisturbed, Flow, Order, NEW t \in Tids,
           ProcessBar(t) \/ RecvAddbaReq(t) \/ RecvDelbaReq(t) \/ ResetState
    PROVE  Order'
<1>1. /\ pc["rx"] = "idle"
      /\ UNCHANGED <<aggr, seqNext, holdQ, q, delivered, peer, base, arrived, frame>>
      /\ \/ /\ connected /\ connected' = connected /\ event' = "addba" /\ Settled(t)
            /\ IF aggr[t] THEN Called(t, 0, "delete")
               ELSE pc'["rx"] = "install" /\ job'["rx"].tid = t
         \/ /\ connected' \in BOOLEAN /\ ~(connected /\ connected')
            /\ event' = "reset" /\ DeleteCalled(0)
  BY EventStep, PeerFacts
<1>2. frame = NoFrame /\ \A v \in Tids : q[v] = <<>> /\ ~Deleting(v)
  BY <1>1 DEF Flow, FrameInv, Account, Reached, Dispatching, Deleting
<1>3. ~connected => \A v \in Tids : ~aggr[v]
  BY <1>2, RxJob DEF Order, Sessions
<1>4. pc'["rx"] # "deliver"
  BY <1>1 DEF Called, DeleteCalled
<1>5. ASSUME NEW v \in Tids PROVE Orderly(v)'
  <2>1. Orderly(v)
    BY DEF Order, Orderly
  <2> QED BY <1>1, <1>2, <1>4, <2>1, OtherOrder
<1>6. Sessions'
  <2>1. CASE connected /\ connected' = connected /\ event' = "addba" /\ Settled(t)
             /\ aggr[t] /\ Called(t, 0, "delete")
    BY <1>1, <2>1 DEF Sessions, Called, Settled
  <2>2. CASE connected /\ connected' = connected /\ event' = "addba" /\ Settled(t)
             /\ pc'["rx"] = "install" /\ job'["rx"].tid = t
    BY <1>1, <2>2 DEF Sessions, Settled, Deleting, Reached, Dispatching
  <2>3. CASE ~(connected /\ connected') /\ event' = "reset" /\ DeleteCalled(0)
    <3>1. Deleting(0)' /\ job'["rx"].tid = 0 /\ pc'["rx"] # "install"
      BY <2>3 DEF DeleteCalled, Called, Deleting, Reached, Dispatching
    <3>2. \A v \in Tids : 0 <= v
      BY Sizes DEF Tids
    <3> QED BY <1>1, <1>3, <2>3, <3>1, <3>2 DEF Sessions
  <2> QED BY <1>1, <2>1, <2>2, <2>3
<1> QED BY <1>1, <1>2, <1>5, <1>6 DEF Order, Orderly

LEMMA DeleteOrder ==
    ASSUME TypeInv, TimerInv, Undisturbed, Flow, Order, DeleteTidState PROVE Order'
<1>0. PICK t \in Tids : t = job["rx"].tid
  BY RxJob
<1>1. /\ pc["rx"] = "delete" /\ ~aggr'[t]
      /\ \A u \in Tids \ {t} : /\ aggr'[u] = aggr[u] /\ holdQ'[u] = holdQ[u]
                               /\ seqNext'[u] = seqNext[u]
      /\ UNCHANGED <<q, connected, delivered, peer, base, arrived, frame, event>>
      /\ IF event = "reset" /\ t + 1 \in Tids THEN DeleteCalled(t + 1)
         ELSE pc'["rx"] = (IF event = "addba" THEN "install" ELSE "idle") /\ job' = job
  BY <1>0, DeleteStep
<1>2. frame = NoFrame /\ \A v \in Tids : q[v] = <<>>
  BY <1>1 DEF Flow, FrameInv, Account, Reached, Dispatching
<1>3. Deleting(t) /\ Deleting(job["rx"].tid)
  BY <1>0, <1>1 DEF Deleting, Reached, Dispatching
<1>4. pc'["rx"] # "deliver"
  BY <1>1 DEF Called, DeleteCalled
<1>5. ASSUME NEW v \in Tids PROVE Orderly(v)'
  <2>1. Orderly(v)
    BY DEF Order, Orderly
  <2>2. CASE v # t
    <3>1. ~Deleting(v)
      BY <1>0, <2>2 DEF Deleting
    <3> QED BY <1>1, <1>2, <1>4, <2>1, <2>2, <3>1, OtherOrder
  <2>3. CASE v = t
    <3>1. Leaving(t)'
      BY <1>1, <1>4, <2>1, <2>3 DEF Orderly, Leaving, Complete
    <3> QED BY <1>1, <2>3, <3>1 DEF Orderly
  <2> QED BY <2>2, <2>3
<1>6. Sessions'
  <2>1. CASE event = "reset" /\ t + 1 \in Tids
    <3>1. Deleting(t + 1)' /\ job'["rx"].tid = t + 1 /\ pc'["rx"] # "install"
      BY <1>1, <2>1 DEF DeleteCalled, Called, Deleting, Reached, Dispatching
    <3>2. connected => \A v \in Tids : ~aggr'[v]
      BY <1>1, <1>3, <2>1 DEF Order, Sessions
    <3>3. \A v \in Tids : ~connected /\ aggr'[v] => t + 1 <= v
      <4> TAKE v \in Tids
      <4> HAVE ~connected /\ aggr'[v]
      <4>1. v # t /\ t <= v
        BY <1>0, <1>1 DEF Order, Sessions
      <4> QED BY <4>1, Sizes
    <3> QED BY <1>1, <2>1, <3>1, <3>2, <3>3 DEF Sessions
  <2>2. CASE event = "reset" /\ t + 1 \notin Tids
    <3>1. pc'["rx"] = "idle"
      BY <1>1, <2>2
    <3>2. \A v \in Tids : ~(~connected /\ aggr'[v])
      <4> SUFFICES ASSUME NEW v \in Tids, ~connected, aggr'[v] PROVE FALSE
        OBVIOUS
      <4>1. v # t /\ t <= v
        BY <1>0, <1>1 DEF Order, Sessions
      <4> QED BY <2>2, <4>1, Sizes DEF Tids
    <3> QED BY <1>1, <3>1, <3>2 DEF Sessions, Deleting, Reached, Dispatching
  <2>3. CASE event = "addba"
    <3>1. pc'["rx"] = "install" /\ job' = job
      BY <1>1, <2>3
    <3>2. connected /\ Settled(t)
      BY <1>0, <1>3, <2>3 DEF Order, Sessions
    <3> QED BY <1>0, <1>1, <3>1, <3>2 DEF Sessions, Deleting, Reached, Dispatching, Settled
  <2> QED BY <1>3, <2>1, <2>2, <2>3 DEF Order, Sessions
<1> QED BY <1>1, <1>2, <1>5, <1>6 DEF Order, Orderly

LEMMA InstallOrder ==
    ASSUME TypeInv, TimerInv, Undisturbed, Flow, Order, InstallTid PROVE Order'
<1>0. PICK t \in Tids : t = job["rx"].tid
  BY RxJob
<1>1. /\ pc["rx"] = "install" /\ pc'["rx"] = "idle"
      /\ seqNext'[t] = Num(peer.first, base[t])
      /\ \A i \in Slots : holdQ'[t][i] = NoFrame
      /\ \A u \in Tids \ {t} : /\ aggr'[u] = aggr[u] /\ holdQ'[u] = holdQ[u]
                               /\ seqNext'[u] = seqNext[u]
      /\ UNCHANGED <<q, connected, delivered, peer, base, arrived, job, frame, event>>
  BY <1>0, InstallStep, SeqNoNum
<1>2. frame = NoFrame /\ \A v \in Tids : q[v] = <<>> /\ ~Deleting(v) /\ ~Deleting(v)'
  BY <1>1 DEF Flow, FrameInv, Account, Reached, Dispatching, Deleting
<1>3. connected /\ Settled(t)
  BY <1>0, <1>1 DEF Order, Sessions
<1>4. Sessions'
  BY <1>0, <1>1, <1>2, <1>3 DEF Sessions
<1>5. \A v \in Tids \ {t} : Orderly(v)'
  <2> TAKE v \in Tids \ {t}
  <2>1. Orderly(v)
    BY DEF Order, Orderly
  <2> QED BY <1>0, <1>1, <1>2, <2>1, OtherOrder
<1>6. Leaving(t)'
  BY <1>1 DEF Order, Leaving, Complete
<1>7. PICK u \in Nat : u = base[t]
  BY PeerFacts
<1>8. \A d \in Elems(delivered[t]) \cup Elems(q[t]) : d < u
  BY <1>2, <1>3, <1>7, ElemsEmpty DEF Flow, Account, Settled
<1>9. Complete(t, u - 1)'
  BY <1>1, <1>7 DEF Complete
<1>10. Window(t, u)'
  BY <1>1, <1>2, <1>7, <1>8, <1>9 DEF Window
<1>11. Orderly(t)'
  BY <1>6, <1>10 DEF Orderly
<1> QED BY <1>1, <1>2, <1>4, <1>5, <1>11 DEF Order, Orderly

LEMMA NextOrder ==
    /\ TypeInv /\ TimerInv /\ (~peer.timer => Ring) /\ (~peer.timer => Flow)
    /\ (Undisturbed => Order) /\ [Next]_vars
    => (Undisturbed => Order)'
<1> SUFFICES ASSUME TypeInv, TimerInv, ~peer.timer => Ring, ~peer.timer => Flow,
                    Undisturbed => Order, [Next]_vars, Undisturbed'
             PROVE  Order'
  OBVIOUS
<1>1. Undisturbed /\ Order /\ ~peer.timer /\ Ring /\ Flow
  BY PeerSame DEF Undisturbed, OnlyTheWindow, Numbered, ShiftsToZero, SeqNo
<1>2. CASE UNCHANGED vars
  <2>1. UNCHANGED <<aggr, seqNext, holdQ, q, connected, delivered, peer, base, arrived, pc, job,
                    hand, frame, event>>
    BY <1>2 DEF vars, tidVars, outVars, peerVars, localVars
  <2>2. Sessions'
    BY <1>1, <2>1 DEF Order, Sessions, Deleting, Reached, Dispatching, Settled
  <2>3. ASSUME NEW t \in Tids PROVE Orderly(t)'
    <3>1. Leaving(t)'
      BY <1>1, <2>1 DEF Order, Leaving, Complete
    <3>2. \A u \in Nat : Window(t, u) => Window(t, u)'
      BY <2>1 DEF Window, Complete, Deleting, Reached, Dispatching, Remaining
    <3> QED BY <1>1, <2>1, <3>1, <3>2 DEF Order, Orderly
  <2> QED BY <1>1, <2>1, <2>2, <2>3 DEF Order, Orderly
<1>3. CASE RxStep
  BY <1>1, <1>3, AimOrder, ReleaseOrder, DispatchOrder, PullOrder, StoreOrder,
     NoteOrder, DeleteOrder, InstallOrder DEF RxStep, DequeStep, Dispatches
<1>4. ASSUME NEW t \in Tids, Indication(t) PROVE Order'
  BY <1>1, <1>4, ReceiveOrder, EventOrder DEF Indication
<1>5. CASE ResetState
  BY <1>1, <1>5, EventOrder, Sizes
<1>6. ASSUME NEW t \in Tids, PeerMovesOn(t) PROVE Order'
  BY <1>1, <1>6, MovesOnOrder
<1>7. Next => \/ RxStep \/ ResetState
              \/ \E t \in Tids : Indication(t) \/ PeerMovesOn(t)
  BY <1>1, NoTimerStep DEF Ring
<1> QED BY <1>2, <1>3, <1>4, <1>5, <1>6, <1>7

LEMMA OrderCorrect == Spec => [](Undisturbed => Order)
<1>1. Init => (Undisturbed => Order)
  BY InitOrder
<1> QED BY <1>1, NextOrder, TypeInvCorrect, TimerInvCorrect, RingCorrect, FlowCorrect, PTL DEF Spec

\* The stack gets the frames of a TID in the order of their numbers, whatever the peer loses,
\* gives up or sends out of order within its window, through sessions negotiated anew and
\* resets, for every size of the window and of the sequence space: as long as only the window
\* decides when a frame leaves (no timeout, block-ack request, DELBA or connect event while
\* connected), its numbers are not used twice, and the window is never shifted to start at
\* number 0.
THEOREM OrderKept == Spec => []DeliveredInOrder
<1>1. (Undisturbed => Order) => DeliveredInOrder
  BY DEF DeliveredInOrder, Undisturbed, Order, Leaving, Increasing
<1> QED BY <1>1, OrderCorrect, PTL
-----------------------------------------------------------------------------
(***************************************************************************)
(* The dispatch queue when a session is installed.  Not inductive: whether *)
(* q is empty depends on who emptied the ring.  Deleting a session calls   *)
(* aggr_deque_frms for the whole ring, but the timer may hold the lock of  *)
(* the same TID half way round, with an end of the range computed before   *)
(* the receive thread moved the window.  Race says, for either thread at   *)
(* any place of the walk, which slots may still hold a frame: those the    *)
(* receive thread has yet to visit, or the one the timer visits next.  It  *)
(* holds because every call by the timer, and the one that deletes, is for *)
(* the whole ring with every slot released (Whole), and one that waits     *)
(* for the lock is at its first slot (Waiting).                            *)
(***************************************************************************)

\* The slot of the start of the window; the next slot; how far i is beyond s in the ring.
Pos(t) == WinIdx(seqNext[t])
Succ(i) == IF i + 1 < HoldQSz THEN i + 1 ELSE 0
Turn(i, s) == IF s <= i THEN i - s ELSE i - s + HoldQSz

\* Will slot i be visited, up to e, by a thread that is at the start s of the window under
\* the lock, or that takes the lock and starts with e?
ToVisit(i, s, e) == Turn(i, s) < Turn(e, s)
ToTake(i, s, e) == i = e \/ ToVisit(i, Succ(s), e)

\* What is held when the session is deleted is in the slots that the receive thread has
\* yet to visit, or in the one that the timer visits next.
Swept(t) ==
    \A i \in Slots : holdQ[t][i] # NoFrame =>
        \/ lock[t] = "rx" /\ ToVisit(i, Pos(t), job["rx"].end)
        \/ lock[t] # "rx" /\ ToTake(i, Pos(t), job["rx"].end)
        \/ lock[t] = "timer" /\ i = Pos(t)

Locked ==
    \A t \in Tids, th \in Threads : lock[t] = th => pc[th] = "release" /\ job[th].tid = t

Whole(th) ==
    pc[th] \in {"aim", "release"} => job[th].order = "ALL" /\ job[th].seqNo = 0

\* A thread that waits for the lock starts with the slot it will end before.
Waiting(th) == pc[th] = "release" /\ lock[job[th].tid] # th => job[th].idx = job[th].end

Sweeping(t) ==
    /\ lock[t] = "rx" => job["rx"].idx = Pos(t) /\ Pos(t) # job["rx"].end
    /\ Swept(t)

\* The timer's part, except where the receive thread is about to store a frame.
Halfway(t) ==
    \/ pc["rx"] = "store" /\ job["rx"].tid = t
    \/ Bare(t)
    \/ /\ job["timer"].idx = Pos(t) /\ Pos(t) # job["timer"].end
       /\ holdQ[t][job["timer"].end] = NoFrame

Emptied ==
    /\ \A t \in Tids : ~aggr[t] => q[t] = <<>>
    /\ Reached({"delete"}) => Bare(job["rx"].tid)
    /\ pc["rx"] = "delete" => q[job["rx"].tid] = <<>>
    /\ pc["rx"] = "install" => ~aggr[job["rx"].tid]

DeleteCall == job["rx"].then = "delete" => Whole("rx") /\ Waiting("rx")

Race ==
    /\ Locked /\ Whole("timer") /\ Waiting("timer") /\ DeleteCall
    /\ pc["rx"] = "release" /\ job["rx"].then = "delete" => Sweeping(job["rx"].tid)
    /\ \A t \in Tids : lock[t] = "timer" => Halfway(t)
    /\ Emptied

LEMMA SlotSteps ==
    ASSUME NEW i \in Slots, NEW s \in Slots, NEW e \in Slots
    PROVE  /\ Succ(s) \in Slots
           /\ ToTake(i, s, s)
           /\ ~ToVisit(i, e, e)
           /\ ToVisit(i, s, e) /\ i # s => Succ(s) # e /\ ToVisit(i, Succ(s), e)
           /\ ToTake(i, s, e) => ToTake(i, Succ(s), e) \/ i = Succ(s)
  BY Sizes DEF Slots, Succ, Turn, ToVisit, ToTake

LEMMA PosStep ==
    ASSUME TypeInv, NEW t \in Tids
    PROVE  Pos(t) \in Slots /\ WinIdx(NextSeqNo(seqNext[t])) = Succ(Pos(t))
<1> DEFINE s == seqNext[t]
<1>1. s \in SeqNos /\ s \in Int
  BY RxJob, Sizes DEF SeqNos
<1>2. NextSeqNo(s) \in SeqNos /\ Offset(NextSeqNo(s), s) = 1 /\ 1 < HoldQSz
  BY <1>1, NextOffset, Sizes
<1> HIDE DEF s
<1>3. WinIdx(NextSeqNo(s)) = IF WinIdx(s) + 1 < HoldQSz THEN WinIdx(s) + 1
                             ELSE WinIdx(s) + 1 - HoldQSz
  BY <1>1, <1>2, SlotAt
<1>4. WinIdx(s) \in Slots
  BY <1>1, WinIdxType
<1>5. WinIdx(NextSeqNo(s)) = Succ(WinIdx(s))
  BY <1>3, <1>4, Sizes DEF Succ, Slots
<1> QED BY <1>4, <1>5 DEF Pos, s

\* An iteration of aggr_deque_frms in either thread.
LEMMA VisitStep ==
    ASSUME TypeInv, NEW th \in Threads, ReleaseSlot(th), NEW t \in Tids, t = job[th].tid
    PROVE  /\ pc[th] = "release" /\ aggr[t] /\ lock[t] \in {"free", th} /\ job[th].idx \in Slots
           /\ job'[th].tid = t /\ job'[th].then = job[th].then /\ job'[th].end = job[th].end
           /\ job'[th].order = job[th].order /\ job'[th].seqNo = job[th].seqNo
           /\ \A u \in Threads \ {th} : job'[u] = job[u] /\ pc'[u] = pc[u]
           /\ \A u \in Tids \ {t} : /\ lock'[u] = lock[u] /\ holdQ'[u] = holdQ[u]
                                    /\ seqNext'[u] = seqNext[u] /\ q'[u] = q[u]
           /\ UNCHANGED aggr
           /\ \/ /\ job[th].order = "CONTIGUOUS" /\ lock'[t] = "free" /\ pc'[th] = "dispatch"
                 /\ UNCHANGED <<holdQ, seqNext, q, job>>
              \/ /\ holdQ'[t][job[th].idx] = NoFrame
                 /\ \A i \in Slots \ {job[th].idx} : holdQ'[t][i] = holdQ[t][i]
                 /\ holdQ[t][job[th].idx] = NoFrame => q'[t] = q[t]
                 /\ Pos(t)' = Succ(Pos(t)) /\ job'[th].idx = Succ(Pos(t))
                 /\ IF Succ(Pos(t)) = job[th].end
                    THEN lock'[t] = "free" /\ pc'[th] = "dispatch"
                    ELSE lock'[t] = th /\ pc'[th] = "release"
<1> DEFINE i == job[th].idx
           stop == job[th].order = "CONTIGUOUS" /\ holdQ[t][i] = NoFrame
           next == WinIdx(NextSeqNo(seqNext[t]))
           last == stop \/ next = job[th].end
<1>1. /\ pc[th] = "release" /\ aggr[t] /\ lock[t] \in {"free", th}
      /\ pc' = [pc EXCEPT ![th] = IF last THEN "dispatch" ELSE "release"]
      /\ lock' = [lock EXCEPT ![t] = IF last THEN "free" ELSE th]
      /\ stop => UNCHANGED <<q, holdQ, seqNext, job>>
      /\ ~stop => /\ q' = IF holdQ[t][i] = NoFrame
                          THEN q ELSE [q EXCEPT ![t] = Append(@, holdQ[t][i])]
                  /\ holdQ' = [holdQ EXCEPT ![t][i] = NoFrame]
                  /\ seqNext' = [seqNext EXCEPT ![t] = NextSeqNo(@)]
                  /\ job' = [job EXCEPT ![th].idx = next]
      /\ UNCHANGED aggr
  BY DEF ReleaseSlot, Goto
<1>2. /\ pc \in [Threads -> {"idle", "aim", "release", "dispatch", "drain", "deliver", "discard", "pull",
                           "store", "timer", "schedule", "arm", "monitor", "delete",
                           "install", "check", "scan", "keep", "forget"}]
      /\ job \in [Threads -> Jobs] /\ job[th] \in Jobs /\ i \in Slots
      /\ q \in [Tids -> Seq(Frames)] /\ seqNext \in [Tids -> 0..(SeqSpace - 1)]
      /\ holdQ \in [Tids -> [Slots -> Frames \cup {NoFrame}]]
      /\ lock \in [Tids -> Threads \cup {"free"}]
  BY DEF TypeInv, TypeOK, Jobs
<1>3. next = Succ(Pos(t))
  BY PosStep
<1> HIDE DEF next
<1>4. CASE stop
  BY <1>1, <1>2, <1>4
<1>5. CASE ~stop
  <2>1. /\ job'[th] = [job[th] EXCEPT !.idx = next]
        /\ \A u \in Threads \ {th} : job'[u] = job[u]
    BY <1>1, <1>2, <1>5
  <2>2. /\ job'[th].tid = t /\ job'[th].seqNo = job[th].seqNo
        /\ job'[th].order = job[th].order /\ job'[th].then = job[th].then
        /\ job'[th].end = job[th].end /\ job'[th].idx = next
    BY <1>2, <2>1 DEF Jobs
  <2>3. seqNext'[t] = NextSeqNo(seqNext[t]) /\ \A u \in Tids \ {t} : seqNext'[u] = seqNext[u]
    BY <1>1, <1>2, <1>5
  <2>4. Pos(t)' = next
    BY <2>3 DEF Pos, next
  <2> HIDE DEF i
  <2>5. /\ holdQ'[t][i] = NoFrame
        /\ \A j \in Slots \ {i} : holdQ'[t][j] = holdQ[t][j]
        /\ \A u \in Tids \ {t} : holdQ'[u] = holdQ[u]
    BY <1>1, <1>2, <1>5
  <2>6. /\ holdQ[t][i] = NoFrame => q'[t] = q[t]
        /\ \A u \in Tids \ {t} : q'[u] = q[u]
    BY <1>1, <1>2, <1>5
  <2>7. /\ \A u \in Threads \ {th} : pc'[u] = pc[u]
        /\ \A u \in Tids \ {t} : lock'[u] = lock[u]
        /\ IF next = job[th].end
           THEN lock'[t] = "free" /\ pc'[th] = "dispatch"
           ELSE lock'[t] = th /\ pc'[th] = "release"
    BY <1>1, <1>2, <1>5
  <2> QED BY <1>1, <1>2, <1>3, <2>1, <2>2, <2>3, <2>4, <2>5, <2>6, <2>7 DEF i
<1> QED BY <1>4, <1>5

LEMMA RxVisitRace ==
    ASSUME TypeInv, TimerInv, Race, ReleaseSlot("rx") PROVE Race'
<1>0. PICK t \in Tids : t = job["rx"].tid
  BY RxJob
<1> DEFINE e == job["rx"].end
<1>1. /\ pc["rx"] = "release" /\ aggr[t] /\ lock[t] \in {"free", "rx"} /\ job["rx"].idx \in Slots
      /\ job'["rx"].tid = t /\ job'["rx"].then = job["rx"].then /\ job'["rx"].end = e
      /\ job'["rx"].order = job["rx"].order /\ job'["rx"].seqNo = job["rx"].seqNo
      /\ job'["timer"] = job["timer"] /\ pc'["timer"] = pc["timer"]
      /\ \A u \in Tids \ {t} : /\ lock'[u] = lock[u] /\ holdQ'[u] = holdQ[u]
                               /\ seqNext'[u] = seqNext[u] /\ q'[u] = q[u]
      /\ UNCHANGED aggr
      /\ \/ /\ job["rx"].order = "CONTIGUOUS" /\ lock'[t] = "free" /\ pc'["rx"] = "dispatch"
            /\ UNCHANGED <<holdQ, seqNext, q, job>>
         \/ /\ holdQ'[t][job["rx"].idx] = NoFrame
            /\ \A i \in Slots \ {job["rx"].idx} : holdQ'[t][i] = holdQ[t][i]
            /\ Pos(t)' = Succ(Pos(t)) /\ job'["rx"].idx = Succ(Pos(t))
            /\ IF Succ(Pos(t)) = e
               THEN lock'[t] = "free" /\ pc'["rx"] = "dispatch"
               ELSE lock'[t] = "rx" /\ pc'["rx"] = "release"
  BY <1>0, VisitStep DEF Threads
<1> HIDE DEF e
<1>2. Locked'
  BY <1>0, <1>1 DEF Race, Locked, Threads
<1>3. Whole("timer")' /\ Waiting("timer")' /\ DeleteCall'
  <2>1. job["timer"].tid \in Tids
    BY DEF TypeInv, TypeOK, Jobs, Threads
  <2>2. Whole("timer")' /\ Waiting("timer")'
    BY <1>1, <2>1 DEF Race, Whole, Waiting
  <2>3. DeleteCall'
    BY <1>1 DEF Race, Whole, Waiting, DeleteCall
  <2> QED BY <2>2, <2>3
<1>4. \A u \in Tids : lock'[u] = "timer" => Halfway(u)'
  BY <1>1 DEF Race, Halfway, Bare, Pos
<1>5. ASSUME job["rx"].then = "delete", NEW i \in Slots, holdQ'[t][i] # NoFrame
      PROVE  Succ(Pos(t)) # e /\ ToVisit(i, Succ(Pos(t)), e)
  <2>1. Pos(t) \in Slots /\ e \in Slots
    BY RxJob, PosStep DEF e
  <2>2. job["rx"].order = "ALL"
    BY <1>1, <1>5 DEF Race, DeleteCall, Whole
  <2>3. i # job["rx"].idx /\ holdQ[t][i] # NoFrame
    BY <1>1, <1>5, <2>2
  <2>4. CASE lock[t] = "rx"
    <3>1. job["rx"].idx = Pos(t) /\ ToVisit(i, Pos(t), e)
      BY <1>0, <1>1, <1>5, <2>3, <2>4 DEF Race, Sweeping, Swept, e
    <3> QED BY <2>1, <2>3, <3>1, SlotSteps
  <2>5. CASE lock[t] = "free"
    <3>1. job["rx"].idx = e /\ ToTake(i, Pos(t), e)
      BY <1>0, <1>1, <1>5, <2>3, <2>5 DEF Race, Sweeping, Swept, DeleteCall, Waiting, e
    <3>2. ToVisit(i, Succ(Pos(t)), e)
      BY <2>3, <3>1 DEF ToTake
    <3> QED BY <2>1, <3>2, SlotSteps
  <2> QED BY <1>1, <2>4, <2>5
<1>6. pc'["rx"] = "release" /\ job'["rx"].then = "delete" => Sweeping(t)'
  <2> SUFFICES ASSUME pc'["rx"] = "release", job'["rx"].then = "delete" PROVE Sweeping(t)'
    OBVIOUS
  <2>1. lock'[t] = "rx" /\ Pos(t)' = Succ(Pos(t)) /\ job'["rx"].idx = Pos(t)' /\ Pos(t)' # e
    BY <1>1
  <2>2. Swept(t)'
    BY <1>1, <1>5, <2>1 DEF Swept
  <2> QED BY <1>1, <2>1, <2>2 DEF Sweeping
<1>7. Emptied'
  <2>1. pc'["rx"] \in {"release", "dispatch"}
    BY <1>1
  <2>2. pc'["rx"] = "dispatch" /\ job["rx"].then = "delete" => Bare(t)'
    <3> SUFFICES ASSUME pc'["rx"] = "dispatch", job["rx"].then = "delete" PROVE Bare(t)'
      OBVIOUS
    <3>1. Succ(Pos(t)) = e
      BY <1>1 DEF Race, DeleteCall, Whole
    <3> QED BY <1>5, <3>1 DEF Bare
  <2> QED BY <1>1, <2>1, <2>2 DEF Race, Emptied, Reached, Dispatching
<1> QED BY <1>1, <1>2, <1>3, <1>4, <1>6, <1>7 DEF Race

LEMMA TimerVisitRace ==
    ASSUME TypeInv, TimerInv, Race, ReleaseSlot("timer") PROVE Race'
<1>0. PICK t \in Tids : t = job["timer"].tid
  BY DEF TypeInv, TypeOK, Jobs, Threads
<1>a. PICK r \in Tids : r = job["rx"].tid
  BY RxJob
<1>b. PICK e \in Slots : e = job["timer"].end
  BY DEF TypeInv, TypeOK, Jobs, Threads
<1>1. /\ pc["timer"] = "release" /\ aggr[t] /\ lock[t] \in {"free", "timer"}
      /\ job["timer"].idx \in Slots
      /\ job'["timer"].tid = t /\ job'["timer"].end = e
      /\ job'["timer"].order = job["timer"].order /\ job'["timer"].seqNo = job["timer"].seqNo
      /\ job'["rx"] = job["rx"] /\ pc'["rx"] = pc["rx"]
      /\ \A u \in Tids \ {t} : /\ lock'[u] = lock[u] /\ holdQ'[u] = holdQ[u]
                               /\ seqNext'[u] = seqNext[u] /\ q'[u] = q[u]
      /\ UNCHANGED aggr
      /\ holdQ'[t][job["timer"].idx] = NoFrame
      /\ \A i \in Slots \ {job["timer"].idx} : holdQ'[t][i] = holdQ[t][i]
      /\ holdQ[t][job["timer"].idx] = NoFrame => q'[t] = q[t]
      /\ Pos(t)' = Succ(Pos(t)) /\ job'["timer"].idx = Succ(Pos(t))
      /\ IF Succ(Pos(t)) = e
         THEN lock'[t] = "free" /\ pc'["timer"] = "dispatch"
         ELSE lock'[t] = "timer" /\ pc'["timer"] = "release"
  <2>1. pc["timer"] = "release" /\ job["timer"].order # "CONTIGUOUS"
    BY DEF ReleaseSlot, Race, Whole
  <2> QED BY <1>0, <1>b, <2>1, VisitStep DEF Threads
<1>2. Locked'
  BY <1>0, <1>1 DEF Race, Locked, Threads
<1>3. Whole("timer")' /\ Waiting("timer")' /\ DeleteCall'
  BY <1>0, <1>1, <1>a DEF Race, Whole, Waiting, DeleteCall, Locked, Threads
\* The slot the timer visits when it takes the lock is the one it will end before.
<1>4. (pc["rx"] = "store" /\ r = t) \/ holdQ'[t][e] = NoFrame \/ Bare(t)
  BY <1>0, <1>1, <1>a, <1>b DEF Race, Halfway, Waiting
<1>5. \A u \in Tids : lock'[u] = "timer" => Halfway(u)'
  <2> SUFFICES ASSUME NEW u \in Tids, lock'[u] = "timer" PROVE Halfway(u)'
    OBVIOUS
  <2>1. CASE u # t
    BY <1>0, <1>1, <2>1 DEF Race, Locked, Threads
  <2>2. CASE u = t
    <3>1. Bare(t) => Bare(t)'
      BY <1>1 DEF Bare
    <3> QED BY <1>1, <1>4, <1>a, <2>2, <3>1 DEF Halfway
  <2> QED BY <2>1, <2>2
<1>6. pc["rx"] = "release" /\ job["rx"].then = "delete" => Sweeping(r)'
  <2> SUFFICES ASSUME pc["rx"] = "release", job["rx"].then = "delete" PROVE Sweeping(r)'
    OBVIOUS
  <2>0. Sweeping(r)
    BY <1>a DEF Race
  <2>1. CASE r # t
    BY <1>1, <2>0, <2>1 DEF Sweeping, Swept, Pos
  <2>2. CASE r = t
    <3>1. ASSUME NEW i \in Slots, holdQ'[t][i] # NoFrame
          PROVE  \/ ToTake(i, Succ(Pos(t)), job["rx"].end)
                 \/ i = Succ(Pos(t)) /\ lock'[t] = "timer"
      <4>1. i # job["timer"].idx /\ holdQ[t][i] # NoFrame /\ ~Bare(t)
        BY <1>1, <3>1 DEF Bare
      <4>2. lock[t] = "timer" => job["timer"].idx = Pos(t)
        BY <4>1 DEF Race, Halfway
      <4>3. ToTake(i, Pos(t), job["rx"].end)
        BY <1>1, <2>0, <2>2, <4>1, <4>2 DEF Sweeping, Swept
      <4>4. ToTake(i, Succ(Pos(t)), job["rx"].end) \/ i = Succ(Pos(t))
        BY <4>3, PosStep, RxJob, SlotSteps
      <4>5. i = Succ(Pos(t)) => Succ(Pos(t)) # e
        BY <1>4, <3>1, <4>1
      <4> QED BY <1>1, <4>4, <4>5
    <3>2. Swept(t)'
      BY <1>1, <3>1 DEF Swept
    <3> QED BY <1>1, <2>2, <3>2 DEF Sweeping
  <2> QED BY <2>1, <2>2
<1>7. Emptied'
  <2>1. Bare(r) => Bare(r)' /\ q'[r] = q[r]
    BY <1>1 DEF Bare
  <2>2. pc["rx"] = "delete" => Reached({"delete"})
    BY DEF Reached, Dispatching
  <2> QED BY <1>1, <1>a, <2>1, <2>2 DEF Race, Emptied, Reached, Dispatching
<1> QED BY <1>1, <1>2, <1>3, <1>5, <1>6, <1>7, <1>a DEF Race

\* The other steps of aggr_deque_frms leave the ring and its lock alone.
LEMMA AsideStep ==
    ASSUME TypeInv, NEW th \in Threads, AimDeque(th) \/ Dispatches(th),
           NEW t \in Tids, t = job[th].tid
    PROVE  /\ UNCHANGED <<aggr, seqNext, holdQ, lock>>
           /\ job'[th].tid = t /\ job'[th].then = job[th].then
           /\ \A u \in Threads \ {th} : job'[u] = job[u] /\ pc'[u] = pc[u]
           /\ \A u \in Tids : q[u] = <<>> => q'[u] = <<>>
           /\ \/ /\ pc[th] = "aim" /\ pc'[th] = "release" /\ q' = q
                 /\ job'[th].order = job[th].order /\ job'[th].seqNo = job[th].seqNo
                 /\ job[th].seqNo = 0 => job'[th].idx = Pos(t) /\ job'[th].end = Pos(t)
              \/ pc[th] \in Dispatching /\ pc'[th] \in Dispatching
              \/ pc[th] \in Dispatching /\ pc'[th] = job[th].then /\ q'[t] = <<>>
<1>1. /\ pc \in [Threads -> {"idle", "aim", "release", "dispatch", "drain", "deliver", "discard", "pull",
                           "store", "timer", "schedule", "arm", "monitor", "delete",
                           "install", "check", "scan", "keep", "forget"}]
      /\ job \in [Threads -> Jobs] /\ job[th] \in Jobs /\ q \in [Tids -> Seq(Frames)]
  BY DEF TypeInv, TypeOK
<1>2. CASE AimDeque(th)
  <2>1. /\ pc[th] = "aim" /\ pc' = [pc EXCEPT ![th] = "release"]
        /\ job' = [job EXCEPT ![th].idx = WinIdx(seqNext[t]),
                      ![th].end = WinIdx(IF job[th].seqNo # 0 THEN job[th].seqNo ELSE seqNext[t])]
        /\ UNCHANGED <<aggr, seqNext, holdQ, q, lock>>
    BY <1>2 DEF AimDeque, Goto, tidVars
  <2>2. /\ job'[th] = [job[th] EXCEPT
              !.idx = WinIdx(seqNext[t]),
              !.end = WinIdx(IF job[th].seqNo # 0 THEN job[th].seqNo ELSE seqNext[t])]
        /\ \A u \in Threads \ {th} : job'[u] = job[u]
    BY <1>1, <2>1
  <2>3. /\ job'[th].tid = t /\ job'[th].then = job[th].then
        /\ job'[th].order = job[th].order /\ job'[th].seqNo = job[th].seqNo
        /\ job[th].seqNo = 0 => job'[th].idx = Pos(t) /\ job'[th].end = Pos(t)
    BY <1>1, <2>2 DEF Jobs, Pos
  <2> QED BY <1>1, <2>1, <2>2, <2>3
<1>3. CASE Dispatches(th)
  <2>1. \A u \in Tids : q[u] = <<>> => q'[u] = <<>>
    <3>1. /\ \/ q' = q
             \/ q[t] # <<>> /\ q' = [q EXCEPT ![t] = Tail(@)]
      BY <1>3 DEF Dispatches, DispatchFrames, DrainFrame, DeliverFrame, FreeFrame, EndDispatch,
                  DispatchDone, tidVars
    <3> QED BY <1>1, <3>1
  <2> QED BY <1>3, <2>1, DispatchEffect
<1> QED BY <1>2, <1>3

LEMMA RxAsideRace ==
    ASSUME TypeInv, TimerInv, Race, AimDeque("rx") \/ Dispatches("rx")
    PROVE  Race'
<1>0. PICK t \in Tids : t = job["rx"].tid
  BY RxJob
<1>1. /\ UNCHANGED <<aggr, seqNext, holdQ, lock>>
      /\ job'["rx"].tid = t /\ job'["rx"].then = job["rx"].then
      /\ job'["timer"] = job["timer"] /\ pc'["timer"] = pc["timer"]
      /\ \A u \in Tids : q[u] = <<>> => q'[u] = <<>>
      /\ \/ /\ pc["rx"] = "aim" /\ pc'["rx"] = "release" /\ q' = q
            /\ job'["rx"].order = job["rx"].order /\ job'["rx"].seqNo = job["rx"].seqNo
            /\ job["rx"].seqNo = 0 => job'["rx"].idx = Pos(t) /\ job'["rx"].end = Pos(t)
         \/ pc["rx"] \in Dispatching /\ pc'["rx"] \in Dispatching
         \/ pc["rx"] \in Dispatching /\ pc'["rx"] = job["rx"].then /\ q'[t] = <<>>
  BY <1>0, AsideStep DEF Threads
<1>2. /\ pc["rx"] \in {"aim"} \cup Dispatching
      /\ job["rx"].then \in {"idle", "pull", "store", "timer", "delete"}
      /\ \A u \in Tids : lock[u] # "rx"
  BY <1>1 DEF TypeInv, Control, Dequeuing, Dispatching, Race, Locked, Threads
<1>3. Locked' /\ Whole("timer")' /\ Waiting("timer")'
  BY <1>1, <1>2 DEF Race, Locked, Whole, Waiting, Threads
<1>4. DeleteCall'
  BY <1>1, <1>2 DEF Race, DeleteCall, Whole, Waiting, Dispatching
<1>5. pc'["rx"] = "release" /\ job["rx"].then = "delete" => Sweeping(t)'
  <2> SUFFICES ASSUME pc'["rx"] = "release", job["rx"].then = "delete" PROVE Sweeping(t)'
    OBVIOUS
  <2>1. job["rx"].seqNo = 0 /\ job'["rx"].end = Pos(t)
    BY <1>1, <1>2 DEF Race, DeleteCall, Whole, Dispatching
  <2>2. \A i \in Slots : ToTake(i, Pos(t), Pos(t))
    BY PosStep, SlotSteps
  <2> QED BY <1>1, <1>2, <2>1, <2>2 DEF Sweeping, Swept, Pos
<1>6. \A u \in Tids : lock'[u] = "timer" => Halfway(u)'
  BY <1>1, <1>2 DEF Race, Halfway, Dispatching, Bare, Pos
<1>7. Emptied'
  BY <1>0, <1>1, <1>2 DEF Race, Emptied, Reached, Dispatching, Bare
<1> QED BY <1>1, <1>3, <1>4, <1>5, <1>6, <1>7 DEF Race

LEMMA TimerAsideRace ==
    ASSUME TypeInv, TimerInv, Race,
           AimDeque("timer") \/ Dispatches("timer")
    PROVE  Race'
<1>0. PICK t \in Tids : t = job["timer"].tid
  BY DEF TypeInv, TypeOK, Jobs, Threads
<1>1. /\ UNCHANGED <<aggr, seqNext, holdQ, lock>>
      /\ job'["timer"].tid = t /\ job'["timer"].then = job["timer"].then
      /\ job'["rx"] = job["rx"] /\ pc'["rx"] = pc["rx"]
      /\ \A u \in Tids : q[u] = <<>> => q'[u] = <<>>
      /\ \/ /\ pc["timer"] = "aim" /\ pc'["timer"] = "release"
            /\ job'["timer"].order = job["timer"].order /\ job'["timer"].seqNo = job["timer"].seqNo
            /\ job["timer"].seqNo = 0 => job'["timer"].idx = Pos(t) /\ job'["timer"].end = Pos(t)
         \/ pc["timer"] \in Dispatching /\ pc'["timer"] \in Dispatching \cup {job["timer"].then}
  BY <1>0, AsideStep DEF Threads
<1>2. /\ pc["timer"] \in {"aim"} \cup Dispatching /\ job["timer"].then = "check"
      /\ \A u \in Tids : lock[u] # "timer"
  BY <1>1 DEF TypeInv, Control, Dequeuing, Dispatching, Race, Locked, Threads
<1>3. Locked' /\ Whole("timer")' /\ Waiting("timer")'
  BY <1>1, <1>2 DEF Race, Locked, Whole, Waiting, Dispatching, Threads
<1>4. DeleteCall'
  BY <1>1 DEF Race, DeleteCall, Whole, Waiting
<1>5. \A u \in Tids : (Sweeping(u)' <=> Sweeping(u)) /\ (Bare(u)' <=> Bare(u))
  BY <1>1 DEF Sweeping, Swept, Bare, Pos
<1>6. Emptied'
  BY <1>1, <1>5, RxJob DEF Race, Emptied, Reached, Dispatching
<1> QED BY <1>1, <1>2, <1>3, <1>4, <1>5, <1>6, RxJob DEF Race

\* What the steps of the receive thread outside aggr_deque_frms leave alone.
LEMMA OutsideStep ==
    ASSUME TypeInv,
           \/ PullWindow \/ StoreFrame \/ NoteProgress \/ ScheduleTimer \/ ArmTimer \/ MonitorTid
           \/ DeleteTidState \/ InstallTid \/ ResetState \/ \E t \in Tids : Indication(t)
    PROVE  UNCHANGED <<q, lock>> /\ job'["timer"] = job["timer"]
<1>1. UNCHANGED <<q, lock>>
  BY DEF PullWindow, StoreFrame, NoteProgress, ScheduleTimer, ArmTimer, MonitorTid, DeleteTidState,
         InstallTid, ResetState, Indication, ReceiveFrame, ProcessBar, RecvAddbaReq, RecvDelbaReq,
         tidVars
<1>2. /\ job \in [Threads -> Jobs] /\ "timer" \in Threads
      /\ \A t, seqNo, order, then :
           Deque("rx", t, seqNo, order, then) => job'["timer"] = job["timer"]
      /\ \A t : job' = [job EXCEPT !["rx"].tid = t] => job'["timer"] = job["timer"]
  BY DEF Deque, TypeInv, TypeOK, Threads
<1>3. \A t : DeleteTid(t) => job'["timer"] = job["timer"]
  BY <1>2 DEF DeleteTid
<1>4. CASE PullWindow \/ NoteProgress \/ ScheduleTimer \/ ArmTimer \/ MonitorTid \/ InstallTid
  BY <1>1, <1>4 DEF PullWindow, NoteProgress, ScheduleTimer, ArmTimer, MonitorTid, InstallTid, tidVars
<1>5. CASE StoreFrame
  BY <1>1, <1>2, <1>5 DEF StoreFrame
<1>6. CASE DeleteTidState \/ ResetState
  BY <1>1, <1>3, <1>6 DEF DeleteTidState, ResetState
<1>7. ASSUME NEW t \in Tids, Indication(t) PROVE job'["timer"] = job["timer"]
  <2>1. CASE \E n \in Frames : ReceiveFrame(t, n)
    BY <1>2, <2>1 DEF ReceiveFrame
  <2>2. CASE ProcessBar(t) \/ RecvAddbaReq(t) \/ RecvDelbaReq(t)
    BY <1>2, <1>3, <2>2 DEF ProcessBar, RecvAddbaReq, RecvDelbaReq
  <2> QED BY <1>7, <2>1, <2>2 DEF Indication
<1> QED BY <1>1, <1>4, <1>5, <1>6, <1>7

LEMMA OutsideRace ==
    ASSUME TypeInv, Race, UNCHANGED <<q, lock>>, job'["timer"] = job["timer"],
           pc'["timer"] = pc["timer"], pc["rx"] # "release", pc'["rx"] # "release",
           DeleteCall', Emptied', \A t \in Tids : lock[t] = "timer" => Halfway(t)'
    PROVE  Race'
<1>1. Locked'
  BY DEF Race, Locked, Threads
<1>2. Whole("timer")' /\ Waiting("timer")'
  BY DEF Race, Whole, Waiting
<1> QED BY <1>1, <1>2 DEF Race

LEMMA NoteRace ==
    ASSUME TypeInv, Race, NoteProgress \/ ScheduleTimer \/ ArmTimer \/ MonitorTid PROVE Race'
<1>1. /\ pc["rx"] \in {"timer", "schedule", "arm", "monitor"}
      /\ pc'["rx"] \in {"idle", "schedule", "arm", "monitor"}
      /\ pc'["timer"] = pc["timer"]
      /\ UNCHANGED <<aggr, seqNext, holdQ, q, job, lock>>
  BY NoteStep, OutsideStep
<1>2. DeleteCall' /\ Emptied'
  BY <1>1 DEF Race, DeleteCall, Whole, Waiting, Emptied, Reached, Dispatching
<1>3. \A t \in Tids : lock[t] = "timer" => Halfway(t)'
  BY <1>1 DEF Race, Halfway, Bare, Pos
<1> QED BY <1>1, <1>2, <1>3, OutsideRace

LEMMA PullRace == ASSUME TypeInv, Race, PullWindow PROVE Race'
<1>0. PICK r \in Tids : r = job["rx"].tid
  BY RxJob
<1>1. /\ pc["rx"] = "pull" /\ pc'["rx"] = "store" /\ pc'["timer"] = pc["timer"]
      /\ \A u \in Tids \ {r} : seqNext'[u] = seqNext[u]
      /\ UNCHANGED <<aggr, holdQ, q, job, lock>>
  BY <1>0, PullStep, OutsideStep
<1>2. DeleteCall' /\ Emptied'
  BY <1>1 DEF Race, DeleteCall, Whole, Waiting, Emptied, Reached, Dispatching
<1>3. \A t \in Tids : lock[t] = "timer" => Halfway(t)'
  BY <1>0, <1>1 DEF Race, Halfway, Bare, Pos
<1> QED BY <1>1, <1>2, <1>3, OutsideRace

LEMMA StoreRace == ASSUME TypeInv, Race, StoreFrame PROVE Race'
<1>0. PICK r \in Tids : r = job["rx"].tid
  BY RxJob
<1>1. /\ pc["rx"] = "store" /\ pc'["rx"] = "aim" /\ pc'["timer"] = pc["timer"]
      /\ \A u \in Tids \ {r} : holdQ'[u] = holdQ[u]
      /\ job'["rx"].then = "timer"
      /\ UNCHANGED <<aggr, seqNext, q, lock>> /\ job'["timer"] = job["timer"]
  BY <1>0, StoreStep, OutsideStep
<1>2. lock[r] = "free"
  BY <1>0 DEF StoreFrame
<1>3. DeleteCall' /\ Emptied'
  BY <1>1 DEF Race, DeleteCall, Emptied, Reached, Dispatching
<1>4. \A t \in Tids : lock[t] = "timer" => Halfway(t)'
  BY <1>0, <1>1, <1>2 DEF Race, Halfway, Bare, Pos
<1> QED BY <1>1, <1>3, <1>4, OutsideRace

LEMMA ReceiveRace ==
    ASSUME TypeInv, Race, NEW t \in Tids, NEW n \in Frames, ReceiveFrame(t, n) PROVE Race'
<1>1. /\ pc["rx"] = "idle" /\ pc'["timer"] = pc["timer"]
      /\ UNCHANGED <<aggr, seqNext, holdQ, q, lock>> /\ job'["timer"] = job["timer"]
      /\ \/ UNCHANGED <<job, pc>>
         \/ pc'["rx"] = "store"
         \/ pc'["rx"] = "aim" /\ job'["rx"].then \in {"pull", "store"}
  <2>1. UNCHANGED <<q, lock>> /\ job'["timer"] = job["timer"]
    BY OutsideStep DEF Indication
  <2> QED BY <2>1, ReceiveStep DEF Called
<1>2. DeleteCall' /\ Emptied'
  BY <1>1 DEF Race, DeleteCall, Whole, Waiting, Emptied, Reached, Dispatching
<1>3. \A u \in Tids : lock[u] = "timer" => Halfway(u)'
  BY <1>1 DEF Race, Halfway, Bare, Pos
<1> QED BY <1>1, <1>2, <1>3, OutsideRace

LEMMA DeleteCalledRace ==
    ASSUME TypeInv, TimerInv, NEW t \in Tids, DeleteCalled(t), aggr'[t] = aggr[t],
           holdQ'[t] = holdQ[t], q' = q, \A u \in Tids : ~aggr'[u] => q[u] = <<>>
    PROVE  DeleteCall' /\ Emptied'
<1>1. CASE aggr[t]
  BY <1>1 DEF DeleteCalled, Called, DeleteCall, Whole, Waiting, Emptied, Reached, Dispatching
<1>2. CASE ~aggr[t]
  <2>1. Bare(t)' /\ q[t] = <<>>
    BY <1>2, HeldInSession DEF Bare
  <2> QED BY <1>2, <2>1 DEF DeleteCalled, DeleteCall, Whole, Waiting, Emptied, Reached, Dispatching
<1> QED BY <1>1, <1>2

LEMMA EventRace ==
    ASSUME TypeInv, TimerInv, Race, NEW t \in Tids,
           ProcessBar(t) \/ RecvAddbaReq(t) \/ RecvDelbaReq(t) \/ ResetState
    PROVE  Race'
<1>1. /\ pc["rx"] = "idle" /\ pc'["timer"] = pc["timer"]
      /\ UNCHANGED <<aggr, seqNext, holdQ, q, lock>> /\ job'["timer"] = job["timer"]
      /\ \/ \E seqNo : Called(t, seqNo, "idle")
         \/ aggr[t] /\ DeleteCalled(t)
         \/ ~aggr[t] /\ pc'["rx"] = "install" /\ job'["rx"].tid = t
         \/ DeleteCalled(0)
  <2>1. UNCHANGED <<q, lock>> /\ job'["timer"] = job["timer"]
    BY OutsideStep DEF Indication
  <2> QED BY <2>1, EventStep DEF DeleteCalled
<1>2. \A u \in Tids : ~aggr'[u] => q[u] = <<>>
  BY <1>1 DEF Race, Emptied
<1>3. DeleteCall' /\ Emptied' /\ pc'["rx"] # "release"
  <2>1. CASE \E seqNo : Called(t, seqNo, "idle")
    BY <1>1, <1>2, <2>1 DEF Called, DeleteCall, Emptied, Reached, Dispatching
  <2>2. CASE DeleteCalled(t) \/ DeleteCalled(0)
    <3>1. pc'["rx"] # "release"
      BY <2>2 DEF DeleteCalled, Called
    <3> QED BY <1>1, <1>2, <2>2, <3>1, DeleteCalledRace, Sizes
  <2>3. CASE ~aggr[t] /\ pc'["rx"] = "install" /\ job'["rx"].tid = t
    BY <1>1, <1>2, <2>3 DEF DeleteCall, Whole, Waiting, Emptied, Reached, Dispatching
  <2> QED BY <1>1, <2>1, <2>2, <2>3
<1>4. \A u \in Tids : lock[u] = "timer" => Halfway(u)'
  BY <1>1 DEF Race, Halfway, Bare, Pos
<1> QED BY <1>1, <1>3, <1>4, OutsideRace

LEMMA SessionRace ==
    ASSUME TypeInv, TimerInv, Race, DeleteTidState \/ InstallTid PROVE Race'
<1>0. PICK t \in Tids : t = job["rx"].tid
  BY RxJob
<1>1. /\ pc["rx"] \in {"delete", "install"} /\ pc'["timer"] = pc["timer"]
      /\ Bare(t)'
      /\ \A u \in Tids \ {t} : /\ aggr'[u] = aggr[u] /\ holdQ'[u] = holdQ[u]
                               /\ seqNext'[u] = seqNext[u]
      /\ UNCHANGED <<q, lock>> /\ job'["timer"] = job["timer"]
  BY <1>0, DeleteStep, InstallStep, OutsideStep DEF Bare
<1>2. \A u \in Tids : lock[u] = "timer" => Halfway(u)'
  BY <1>1 DEF Race, Halfway, Bare, Pos
<1>3. q[t] = <<>> /\ \A u \in Tids : ~aggr'[u] => q[u] = <<>>
  BY <1>0, <1>1 DEF Race, Emptied
<1>4. DeleteCall' /\ Emptied' /\ pc'["rx"] # "release"
  <2>1. CASE InstallTid
    <3>1. pc'["rx"] = "idle"
      BY <1>0, <2>1, InstallStep
    <3> QED BY <1>1, <1>3, <3>1 DEF DeleteCall, Whole, Waiting, Emptied, Reached, Dispatching
  <2>2. CASE DeleteTidState /\ event = "reset" /\ t + 1 \in Tids
    <3>1. DeleteCalled(t + 1) /\ t + 1 # t
      BY <1>0, <2>2, DeleteStep, Sizes DEF Tids
    <3>2. pc'["rx"] # "release"
      BY <3>1 DEF DeleteCalled, Called
    <3> QED BY <1>1, <1>3, <2>2, <3>1, <3>2, DeleteCalledRace
  <2>3. CASE DeleteTidState /\ ~(event = "reset" /\ t + 1 \in Tids)
    <3>1. pc'["rx"] \in {"idle", "install"} /\ job' = job /\ ~aggr'[t]
      BY <1>0, <2>3, DeleteStep
    <3> QED BY <1>0, <1>1, <1>3, <3>1 DEF DeleteCall, Whole, Waiting, Emptied, Reached, Dispatching
  <2> QED BY <2>1, <2>2, <2>3
<1> QED BY <1>1, <1>2, <1>4, OutsideRace

\* The handler of the timer, outside aggr_deque_frms.
LEMMA TimeoutRace ==
    ASSUME TypeInv, Race,
           \/ Expire \/ CheckTid \/ ClearScheduled \/ ScanTid \/ KeepTimer \/ ForgetTid
           \/ RearmTimer
    PROVE  Race'
<1>1. /\ UNCHANGED <<aggr, seqNext, holdQ, q, lock>> /\ pc["timer"] # "release"
  BY DEF Expire, CheckTid, ClearScheduled, ScanTid, KeepTimer, ForgetTid, RearmTimer, tidVars
<1>2. /\ pc'["rx"] = pc["rx"] /\ job'["rx"] = job["rx"]
      /\ \/ pc'["timer"] \notin {"aim", "release"}
         \/ /\ pc'["timer"] = "aim"
            /\ job'["timer"].order = "ALL" /\ job'["timer"].seqNo = 0
  <2>1. CASE CheckTid /\ Stuck(visit)
    <3>1. Deque("timer", visit, 0, "ALL", "check") /\ visit \in Tids
      BY <2>1 DEF CheckTid
    <3>2. TypeOK /\ 0 \in 0..(SeqSpace - 1) /\ "ALL" \in {"ALL", "CONTIGUOUS"} /\ "timer" \in Threads
          /\ "rx" \in Threads
      BY RxJob, Sizes DEF TypeInv
    <3>3. /\ job'["timer"].order = "ALL" /\ job'["timer"].seqNo = 0
          /\ job'["rx"] = job["rx"] /\ pc' = [pc EXCEPT !["timer"] = "aim"]
      BY <3>1, <3>2, DequeType
    <3> QED BY <3>3 DEF TypeInv, TypeOK, Threads
  <2>2. CASE CheckTid /\ ~Stuck(visit)
    <3>1. UNCHANGED <<job, pc>> /\ pc["timer"] = "check"
      BY <2>2 DEF CheckTid
    <3> QED BY <3>1
  <2>3. CASE Expire \/ ClearScheduled \/ ScanTid \/ KeepTimer \/ ForgetTid \/ RearmTimer
    BY <2>3 DEF Expire, ClearScheduled, ScanTid, KeepTimer, ForgetTid, RearmTimer, Goto,
                TypeInv, TypeOK, Threads
  <2> QED BY <2>1, <2>2, <2>3
<1>3. \A u \in Tids : lock[u] # "timer"
  BY <1>1 DEF Race, Locked, Threads
<1>4. Locked' /\ Whole("timer")' /\ Waiting("timer")' /\ DeleteCall'
  BY <1>1, <1>2, <1>3 DEF Race, Locked, Whole, Waiting, DeleteCall, Threads
<1>5. \A u \in Tids : (Sweeping(u)' <=> Sweeping(u)) /\ (Bare(u)' <=> Bare(u))
  BY <1>1, <1>2 DEF Sweeping, Swept, Bare, Pos
<1>6. Emptied'
  BY <1>1, <1>2, <1>5, RxJob DEF Race, Emptied, Reached, Dispatching
<1> QED BY <1>1, <1>2, <1>3, <1>4, <1>5, <1>6, RxJob DEF Race

LEMMA InitRace == Init => Race
<1> SUFFICES ASSUME Init PROVE Race
  OBVIOUS
<1>1. pc["rx"] = "idle" /\ pc["timer"] = "idle" /\ \A t \in Tids : lock[t] = "free" /\ q[t] = <<>>
  BY DEF Init, Threads
<1>2. Locked /\ Whole("timer") /\ Waiting("timer") /\ DeleteCall /\ Emptied
  BY <1>1 DEF Locked, Whole, Waiting, DeleteCall, Emptied, Reached, Dispatching, Threads
<1> QED BY <1>1, <1>2 DEF Race

LEMMA NextRace == TypeInv /\ TimerInv /\ Race /\ [Next]_vars => Race'
<1> SUFFICES ASSUME TypeInv, TimerInv, Race, [Next]_vars PROVE Race'
  OBVIOUS
<1>1. CASE UNCHANGED vars \/ \E t \in Tids : PeerMovesOn(t)
  <2>1. UNCHANGED <<pc, job, holdQ, seqNext, q, lock, aggr>>
    BY <1>1 DEF vars, tidVars, localVars, PeerMovesOn
  <2> QED BY <2>1 DEF Race, Locked, Whole, Waiting, DeleteCall, Sweeping, Swept, Halfway, Emptied,
                      Reached, Dispatching, Bare, Pos
<1>2. CASE RxStep
  BY <1>2, RxVisitRace, RxAsideRace, NoteRace, PullRace, StoreRace, SessionRace
     DEF RxStep, DequeStep, Dispatches
<1>3. CASE TimerStep
  BY <1>3, TimerVisitRace, TimerAsideRace, TimeoutRace DEF TimerStep, DequeStep, Dispatches
<1>4. ASSUME NEW t \in Tids, Indication(t) PROVE Race'
  BY <1>4, ReceiveRace, EventRace DEF Indication
<1>5. CASE ResetState
  BY <1>5, EventRace, Sizes
<1> QED BY <1>1, <1>2, <1>3, <1>4, <1>5 DEF Next

LEMMA RaceCorrect == Spec => []Race
  BY InitRace, NextRace, TypeInvCorrect, TimerInvCorrect, PTL DEF Spec

\* The assertion of aggr_recv_addba_req_evt holds: the dispatch queue is empty when a session
\* is installed, although the timer's handler may be inside aggr_deque_frms for the same TID,
\* with a range of slots it computed before the receive thread moved the window.
THEOREM InstalledEmpty == Spec => []QueueEmptyAtAddba
<1>1. TypeInv /\ Race => QueueEmptyAtAddba
  BY RxJob DEF Race, Emptied, QueueEmptyAtAddba
<1> QED BY <1>1, TypeInvCorrect, RaceCorrect, PTL
=============================================================================
