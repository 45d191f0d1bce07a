------------------------ MODULE HTCRecvData_proofs -------------------------
(***************************************************************************)
(* Proofs about HTCRecv, continued: where its buffers and messages are.    *)
(*                                                                         *)
(* No message is among those of another endpoint (Contents), and each      *)
(* buffer is in one place (BuffersAccounted), so that none is counted      *)
(* twice and every count has its type.  At most one completion routine     *)
(* has messages to queue (Carriers), and the messages of an endpoint are   *)
(* in one line, from its user back to the mailbox (Lined).                 *)
(***************************************************************************)
EXTENDS HTCRecv_proofs, WellFoundedInduction



(***************************************************************************)
(* Messages are kept with those of their endpoint.                         *)
(***************************************************************************)
Sorted(q, e) == \A i \in DOMAIN q : q[i].ep = e

Contents ==
    /\ \A t \in Threads : Sorted(loc[t].done, loc[t].doneEp)
    /\ \A e \in Eps : Sorted(indication[e], e)
    /\ mode = "sync" => \A e \in Eps : indication[e] = <<>>

LEMMA ContentsMove ==
    ASSUME Contents, NEW t \in Threads, NEW w, NEW l, Moved(t, w, l), mode' = mode,
           Sorted(l.done, l.doneEp), indication' = indication
    PROVE  Contents'
<1>1. \A u \in Threads : Sorted(loc'[u].done, loc'[u].doneEp)
  BY DEF Moved, Contents
<1> QED BY <1>1 DEF Contents

LEMMA SortedEmpty == \A e : Sorted(<<>>, e)
  BY DEF Sorted

LEMMA SortedTail ==
    ASSUME NEW q \in Seq(Messages), NEW e, Sorted(q, e), q # <<>>
    PROVE  Sorted(Tail(q), e) /\ Head(q).ep = e /\ Len(Tail(q)) = Len(q) - 1 /\ Head(q) \in Messages
<1>1. \A i \in DOMAIN Tail(q) : i + 1 \in DOMAIN q /\ Tail(q)[i] = q[i + 1]
  OBVIOUS
<1>2. Head(q) = q[1] /\ 1 \in DOMAIN q /\ Head(q) \in Messages /\ Len(Tail(q)) = Len(q) - 1
  OBVIOUS
<1> QED BY <1>1, <1>2 DEF Sorted

LEMMA SortedConcat ==
    ASSUME NEW p \in Seq(Messages), NEW q \in Seq(Messages), NEW e, Sorted(p, e), Sorted(q, e)
    PROVE  Sorted(p \o q, e) /\ Len(p \o q) = Len(p) + Len(q)
<1>1. /\ Len(p \o q) = Len(p) + Len(q) /\ DOMAIN (p \o q) = 1..(Len(p) + Len(q))
      /\ \A i \in 1..(Len(p) + Len(q)) : (p \o q)[i] = IF i <= Len(p) THEN p[i] ELSE q[i - Len(p)]
  OBVIOUS
<1>2. ASSUME NEW i \in DOMAIN (p \o q) PROVE (p \o q)[i].ep = e
  <2>1. i \in 1..(Len(p) + Len(q)) /\ i \in Nat /\ Len(p) \in Nat /\ Len(q) \in Nat
    BY <1>1
  <2>2. CASE i <= Len(p)
    <3>1. i \in DOMAIN p /\ (p \o q)[i] = p[i]
      BY <1>1, <2>1, <2>2
    <3> QED BY <3>1 DEF Sorted
  <2>3. CASE ~(i <= Len(p))
    <3>1. i - Len(p) \in DOMAIN q /\ (p \o q)[i] = q[i - Len(p)]
      BY <1>1, <2>1, <2>3
    <3> QED BY <3>1 DEF Sorted
  <2> QED BY <2>2, <2>3
<1> QED BY <1>1, <1>2 DEF Sorted

LEMMA SortedRemove ==
    ASSUME NEW q \in Seq(Messages), NEW e, Sorted(q, e), NEW i \in DOMAIN q
    PROVE  /\ Sorted(RemoveAt(q, i), e) /\ Len(RemoveAt(q, i)) = Len(q) - 1
           /\ Len(q) = 1 => RemoveAt(q, i) = <<>>
           /\ \A j \in DOMAIN RemoveAt(q, i) : /\ j + 1 \in DOMAIN q /\ j \in DOMAIN q
                                                /\ RemoveAt(q, i)[j] = q[IF j < i THEN j ELSE j + 1]
<1>1. RemoveAt(q, i) = SubSeq(q, 1, i - 1) \o SubSeq(q, i + 1, Len(q))
  BY DEF RemoveAt
<1>2. PICK a \in Seq(Messages) : a = SubSeq(q, 1, i - 1)
  <2>1. SubSeq(q, 1, i - 1) \in Seq(Messages)
    OBVIOUS
  <2> QED BY <2>1
<1>3. PICK b \in Seq(Messages) : b = SubSeq(q, i + 1, Len(q))
  <2>1. SubSeq(q, i + 1, Len(q)) \in Seq(Messages)
    OBVIOUS
  <2> QED BY <2>1
<1>4. /\ Len(a) = i - 1 /\ \A k \in 1..(i - 1) : a[k] = q[k]
      /\ Len(b) = Len(q) - i /\ \A k \in 1..(Len(q) - i) : b[k] = q[k + i]
      /\ i \in 1..Len(q) /\ Len(q) \in Nat
  <2>1. i \in 1..Len(q) /\ Len(q) \in Nat /\ i \in Nat /\ i - 1 \in Nat /\ Len(q) - i \in Nat
    OBVIOUS
  <2>2. Len(a) = i - 1 /\ \A k \in 1..(i - 1) : a[k] = q[k]
    BY <1>2, <2>1
  <2>3. PICK j \in Nat : j = i + 1
    BY <2>1
  <2>4. Len(b) = Len(q) - j + 1 /\ \A k \in 1..(Len(q) - j + 1) : b[k] = q[j + k - 1]
    BY <1>3, <2>1, <2>3
  <2>5. PICK n \in Nat : n = Len(q)
    BY <2>1
  <2>8. PICK x \in Nat : x = i
    BY <2>1
  <2>9. j = x + 1
    BY <2>3, <2>8
  <2>10. n - j + 1 = n - x /\ \A k \in 1..(n - x) : j + k - 1 = k + x
    BY <2>9
  <2>6. n - j + 1 = n - i /\ \A k \in 1..(n - i) : j + k - 1 = k + i
    BY <2>8, <2>10
  <2>7. Len(b) = n - i /\ \A k \in 1..(n - i) : b[k] = q[k + i]
    BY <2>4, <2>5, <2>6
  <2> QED BY <2>1, <2>2, <2>5, <2>7
<1>5. PICK d \in Seq(Messages) : d = a \o b
  <2>1. a \o b \in Seq(Messages)
    OBVIOUS
  <2> QED BY <2>1
<1>6. /\ Len(d) = Len(a) + Len(b) /\ DOMAIN d = 1..(Len(a) + Len(b))
      /\ \A k \in 1..(Len(a) + Len(b)) : d[k] = IF k <= Len(a) THEN a[k] ELSE b[k - Len(a)]
  BY <1>5
<1>7. Len(d) = Len(q) - 1 /\ DOMAIN d = 1..(Len(q) - 1)
  BY <1>4, <1>6
<1>8. ASSUME NEW k \in DOMAIN d
      PROVE  k + 1 \in DOMAIN q /\ k \in DOMAIN q /\ d[k] = q[IF k < i THEN k ELSE k + 1]
  <2>1. k \in 1..(Len(q) - 1) /\ k \in 1..(Len(a) + Len(b)) /\ k + 1 \in DOMAIN q /\ k \in DOMAIN q
    BY <1>4, <1>6, <1>7
  <2>2. CASE k < i
    BY <1>4, <1>6, <2>1, <2>2, SMTT(30)
  <2>3. CASE ~(k < i)
    <3>0. Len(a) = i - 1 /\ i \in Nat /\ Len(q) \in Nat /\ k \in Nat /\ k <= Len(q) - 1 /\ i <= k
      <4>1. PICK n \in Nat : n = Len(q)
        BY <1>4
      <4>2. k \in 1..(n - 1) /\ i \in 1..n
        BY <1>4, <2>1, <4>1
      <4>3. i \in Nat /\ k \in Nat /\ k <= n - 1 /\ i <= k
        BY <2>3, <4>2
      <4> QED BY <1>4, <4>1, <4>3
    <3>1. ~(k <= Len(a)) /\ k - Len(a) \in 1..(Len(q) - i) /\ (k - Len(a)) + i = k + 1
      BY <3>0
    <3> QED BY <1>4, <1>6, <2>1, <2>3, <3>1
  <2> QED BY <2>2, <2>3
<1>9. d = RemoveAt(q, i)
  BY <1>1, <1>2, <1>3, <1>5
<1>10. ASSUME Len(q) = 1 PROVE d = <<>>
  BY <1>7, <1>10
<1>11. Sorted(d, e)
  <2>1. ASSUME NEW k \in DOMAIN d PROVE d[k].ep = e
    <3>1. \E j \in DOMAIN q : d[k] = q[j]
      BY <1>8
    <3> QED BY <3>1 DEF Sorted
  <2> QED BY <2>1 DEF Sorted
<1> QED BY <1>7, <1>8, <1>9, <1>10, <1>11

LEMMA ContentsStill ==
    ASSUME Contents, Still
    PROVE  Contents'
  BY DEF Contents, Still, Untouched

LEMMA ContentsCalm ==
    ASSUME Contents, NEW t \in Threads, NEW w, NEW l, Calm(t, w, l)
    PROVE  Contents'
<1>1. Moved(t, w, l) /\ mode' = mode /\ indication' = indication /\ Carried(t, l)
  BY DEF Calm, Untouched
<1>2. Sorted(l.done, l.doneEp)
  BY <1>1, SortedEmpty DEF Carried, NoLoc, Contents
<1> QED BY <1>1, <1>2, ContentsMove

\* The messages read are those of the endpoint asked for.
LEMMA ReadSorted ==
    ASSUME Base, Base', Reading, bus # <<>>, bus' = Tail(bus), Head(bus).op = "read", Head(bus).n <= Len(mbox)
    PROVE  /\ Sorted(SubSeq(mbox, 1, Head(bus).n), Head(bus).ep) /\ SubSeq(mbox, 1, Head(bus).n) \in Seq(Messages)
           /\ Len(SubSeq(mbox, 1, Head(bus).n)) = Head(bus).n
           /\ \A i \in 1..Head(bus).n : SubSeq(mbox, 1, Head(bus).n)[i] = mbox[i]
<1>1. /\ Head(bus).n \in Nat /\ AllAsked \in Nat /\ AllAsked' \in Nat /\ AllAsked = AllAsked' + Head(bus).n
      /\ Ahead(mbox, AllAsked, Head(bus).ep)
  BY HeadRead
<1>2. mbox \in Seq(Messages)
  BY DEF Base, Types
<1>3. PICK n \in Nat : n = Head(bus).n
  BY <1>1
<1>4. PICK m \in Nat : m = AllAsked
  BY <1>1
<1>5. n <= m /\ n <= Len(mbox)
  <2>1. PICK k \in Nat : k = AllAsked'
    BY <1>1
  <2>2. m = k + n
    BY <1>1, <1>3, <1>4, <2>1
  <2> QED BY <1>3, <2>2
<1>6. \A i \in 1..n : mbox[i].ep = Head(bus).ep
  BY <1>1, <1>4, <1>5 DEF Ahead
<1>7. PICK d \in Seq(Messages) : d = SubSeq(mbox, 1, n)
  <2>1. SubSeq(mbox, 1, n) \in Seq(Messages)
    BY <1>2, <1>5
  <2> QED BY <2>1
<1>8. Len(d) = n /\ DOMAIN d = 1..n /\ \A i \in 1..n : d[i] = mbox[i]
  BY <1>2, <1>5, <1>7
<1> QED BY <1>3, <1>6, <1>7, <1>8 DEF Sorted

LEMMA ContentsBusy ==
    ASSUME Base, Base', Chain, Hands, Reading, Contents, Busy
    PROVE  Contents'
<1>0. mode' = mode /\ \A t \in Threads : loc[t] \in LocalVars /\ loc[t].done \in Seq(Messages)
  <2>1. mode' = mode
    BY DEF Busy, TargetSends, AddReceivePkts, BusStatus, BusRead, BusReadFails, RecyclePkts, AllocPackets,
           FetchPackets, IndicateSync, BadHeaderSync, QueueIndication, BadHeader, TakesAll, TakeIndications, Indicate
  <2>2. \A t \in Threads : loc[t] \in LocalVars
    BY ThreadIs
  <2> QED BY <2>1, <2>2 DEF LocalVars
<1>1. ASSUME NEW e \in Eps, TargetSends(e) PROVE Contents'
  <2>1. UNCHANGED <<loc, indication>>
    BY <1>1 DEF TargetSends, indVars
  <2> QED BY <1>0, <2>1 DEF Contents
<1>2. ASSUME NEW e \in Eps, AddReceivePkts(e) PROVE Contents'
  <2>1. UNCHANGED <<loc, indication>>
    BY <1>2 DEF AddReceivePkts, indVars
  <2> QED BY <1>0, <2>1 DEF Contents
<1>3. ASSUME NEW t \in Handlers, BusStatus(t) PROVE Contents'
  <2>1. PICK w, l : Moved(t, w, l) /\ SameBut(l, [NoLoc EXCEPT !.other = other])
    BY <1>3, BusStatusBase
  <2>2. l.done = <<>>
    BY <2>1 DEF SameBut, NoLoc
  <2> QED BY <1>0, <1>3, <2>1, <2>2, ContentsMove, SortedEmpty, ThreadsAre DEF BusStatus, indVars
<1>4. ASSUME NEW t \in Handlers, BusRead(t) PROVE Contents'
  <2>0. bus # <<>> /\ bus' = Tail(bus) /\ Head(bus).op = "read" /\ Head(bus).n \in 1..Len(mbox) /\ t \in Threads
    BY <1>4, BusReadBase
  <2>1. PICK w, l :
           /\ Moved(t, w, l) /\ l.doneEp = Head(bus).ep
           /\ \/ /\ t = "dsr" /\ mode = "sync" /\ w = "fetch" /\ pc[t] = "waiting"
                 /\ SameBut(l, [loc[t] EXCEPT !.done = @ \o SubSeq(mbox, 1, Head(bus).n),
                                              !.doneEp = Head(bus).ep, !.last = Head(bus).last])
              \/ SameBut(l, [NoLoc EXCEPT !.done = SubSeq(mbox, 1, Head(bus).n),
                                          !.doneEp = Head(bus).ep, !.last = Head(bus).last])
    BY <1>4, BusReadBase
  <2>2. PICK d \in Seq(Messages) : d = SubSeq(mbox, 1, Head(bus).n) /\ Sorted(d, Head(bus).ep)
    <3>1. Head(bus).n <= Len(mbox)
      <4>1. Len(mbox) \in Nat
        BY DEF Base, Types
      <4> QED BY <2>0, <4>1
    <3> QED BY <2>0, <3>1, ReadSorted
  <2>3. Sorted(l.done, l.doneEp)
    <3>1. CASE SameBut(l, [NoLoc EXCEPT !.done = SubSeq(mbox, 1, Head(bus).n),
                                          !.doneEp = Head(bus).ep, !.last = Head(bus).last])
      BY <2>1, <2>2, <3>1 DEF SameBut, NoLoc
    <3>2. CASE /\ t = "dsr" /\ mode = "sync"
               /\ SameBut(l, [loc[t] EXCEPT !.done = @ \o SubSeq(mbox, 1, Head(bus).n),
                                              !.doneEp = Head(bus).ep, !.last = Head(bus).last])
      <4>1. l.done = loc[t].done \o d
        BY <1>0, <2>0, <2>2, <3>2 DEF SameBut, LocalVars
      <4>2. loc[t].done # <<>> => loc[t].doneEp = Head(bus).ep
        <5>1. Head(bus) = bus[1] /\ 1 \in DOMAIN bus /\ Head(bus).by = "dsr"
          BY <2>0, <3>2, HeadRead
        <5> QED BY <2>0, <3>2, <5>1 DEF Reading, Fetching
      <4>3. Sorted(loc[t].done, Head(bus).ep)
        BY <2>0, <4>2, SortedEmpty DEF Contents
      <4> QED BY <1>0, <2>0, <2>1, <2>2, <4>1, <4>3, SortedConcat
    <3> QED BY <2>1, <3>1, <3>2
  <2>4. indication' = indication
    BY <1>4 DEF BusRead, indVars
  <2> QED BY <1>0, <2>0, <2>1, <2>3, <2>4, ContentsMove
<1>5. ASSUME NEW t \in Handlers, BusReadFails(t) PROVE Contents'
  <2>1. PICK l : Moved(t, "recycle", l) /\ l.done = <<>>
    BY <1>5, BusReadFailsBase
  <2> QED BY <1>0, <1>5, <2>1, ContentsMove, SortedEmpty, ThreadsAre DEF BusReadFails, indVars
<1>6. ASSUME NEW t \in Threads, NEW w, NEW l, Moved(t, w, l), l.done = loc[t].done, l.doneEp = loc[t].doneEp,
             indication' = indication
      PROVE  Contents'
  <2>1. Sorted(l.done, l.doneEp)
    BY <1>6 DEF Contents
  <2> QED BY <1>0, <1>6, <2>1, ContentsMove
<1>7. ASSUME NEW t \in Handlers, RecyclePkts(t) PROVE Contents'
  <2>0. t \in Threads
    BY ThreadsAre
  <2>1. PICK w, l : Moved(t, w, l) /\ l = [loc[t] EXCEPT !.fetch = 0]
    BY <1>7, <2>0, RecyclePktsBase
  <2>2. l.done = loc[t].done /\ l.doneEp = loc[t].doneEp
    BY <1>0, <2>0, <2>1 DEF LocalVars
  <2> QED BY <1>6, <1>7, <2>0, <2>1, <2>2 DEF RecyclePkts, indVars
<1>8. ASSUME NEW t \in Handlers, AllocPackets(t) PROVE Contents'
  <2>0. t \in Threads
    BY ThreadsAre
  <2>1. PICK l : Moved(t, "fetch", l) /\ l = [loc[t] EXCEPT !.la = 0, !.fetch = Allocates(loc[t]),
                                                            !.total = @ + Allocates(loc[t])]
    BY <1>8, <2>0, AllocPacketsBase
  <2>2. l.done = loc[t].done /\ l.doneEp = loc[t].doneEp
    BY <1>0, <2>0, <2>1 DEF LocalVars
  <2> QED BY <1>6, <1>8, <2>0, <2>1, <2>2 DEF AllocPackets, indVars
<1>9. ASSUME NEW t \in Handlers, FetchPackets(t) PROVE Contents'
  <2>0. t \in Threads
    BY ThreadsAre
  <2>1. PICK n : Moved(t, IF mode = "sync" THEN "waiting" ELSE "fetch", [loc[t] EXCEPT !.fetch = @ - n])
    BY <1>9, <2>0, FetchPacketsBase
  <2>2. PICK w, l : Moved(t, w, l) /\ l = [loc[t] EXCEPT !.fetch = @ - n]
    BY <2>1
  <2>3. l.done = loc[t].done /\ l.doneEp = loc[t].doneEp
    BY <1>0, <2>0, <2>2 DEF LocalVars
  <2> QED BY <1>6, <1>9, <2>0, <2>2, <2>3 DEF FetchPackets, indVars
<1>10. CASE IndicateSync
  <2>0. "dsr" \in Threads
    BY ThreadsAre
  <2>1. PICK l : Moved("dsr", "process", l) /\ l = [loc["dsr"] EXCEPT !.done = Tail(@)] /\ loc["dsr"].done # <<>>
    BY <1>10, IndicateSyncBase
  <2>2. l.done = Tail(loc["dsr"].done) /\ l.doneEp = loc["dsr"].doneEp
    BY <1>0, <2>0, <2>1 DEF LocalVars
  <2>3. Sorted(l.done, l.doneEp)
    BY <1>0, <2>0, <2>1, <2>2, SortedTail DEF Contents
  <2> QED BY <1>0, <1>10, <2>0, <2>1, <2>3, ContentsMove DEF IndicateSync
<1>11. CASE BadHeaderSync
  <2>0. "dsr" \in Threads
    BY ThreadsAre
  <2>1. PICK l : Moved("dsr", "recycle", l)
                 /\ l = [loc["dsr"] EXCEPT !.done = <<>>, !.ep = loc["dsr"].doneEp, !.la = 0, !.ok = FALSE,
                                           !.fetch = Len(loc["dsr"].done) - 1]
    BY <1>11, BadHeaderSyncBase
  <2>2. l.done = <<>>
    BY <1>0, <2>0, <2>1 DEF LocalVars
  <2> QED BY <1>0, <1>11, <2>0, <2>1, <2>2, ContentsMove, SortedEmpty DEF BadHeaderSync, indVars
<1>12. ASSUME NEW c \in Contexts, QueueIndication(c) \/ BadHeader(c) \/ TakesAll(c) \/ Indicate(c)
       PROVE  Contents'
  <2>0. pc[c] # "idle"
    BY <1>12 DEF QueueIndication, BadHeader, TakesAll, TakeIndications, Indicate, At
  <2>1. mode = "async" /\ c \in Threads /\ mode' # "sync"
    BY <1>0, <2>0, ContextIs
  <2>2. ASSUME NEW w, NEW l, Moved(c, w, l), Sorted(l.done, l.doneEp), \A e \in Eps : Sorted(indication'[e], e)
        PROVE  Contents'
    <3>1. \A u \in Threads : Sorted(loc'[u].done, loc'[u].doneEp)
      BY <2>2 DEF Moved, Contents
    <3> QED BY <2>1, <2>2, <3>1 DEF Contents
  <2>3. CASE QueueIndication(c)
    <3>1. PICK w : w = IF loc[c].more THEN "more" ELSE "drain"
      OBVIOUS
    <3>2. PICK l : Moved(c, w, l) /\ l = [loc[c] EXCEPT !.done = <<>>]
      BY <2>3, <3>1, QueueIndicationBase
    <3>3. l.done = <<>>
      BY <1>0, <2>1, <3>2 DEF LocalVars
    <3>4. indication' = [indication EXCEPT ![loc[c].doneEp] = @ \o loc[c].done]
      BY <2>3 DEF QueueIndication
    <3>5. indication \in [Eps -> Seq(Messages)]
      BY DEF Base, Types
    <3>6. ASSUME NEW e \in Eps PROVE Sorted(indication'[e], e)
      <4>1. Sorted(indication[e], e) /\ Sorted(loc[c].done, loc[c].doneEp)
        BY <2>1 DEF Contents
      <4>2. CASE e = loc[c].doneEp
        <5>1. indication'[e] = indication[e] \o loc[c].done
          BY <3>4, <3>5, <4>2
        <5> QED BY <1>0, <2>1, <3>5, <4>1, <4>2, <5>1, SortedConcat
      <4>3. CASE e # loc[c].doneEp
        BY <3>4, <3>5, <4>1, <4>3
      <4> QED BY <4>2, <4>3
    <3> QED BY <2>2, <3>2, <3>3, <3>6, SortedEmpty
  <2>4. CASE BadHeader(c)
    <3>1. PICK i \in DOMAIN loc[c].done :
            Moved(c, "recycle",
                      [loc[c] EXCEPT !.done = RemoveAt(@, i), !.fetch = 1, !.ep = loc[c].doneEp,
                                     !.la = 0, !.more = FALSE,
                                     !.doneEp = IF Len(loc[c].done) > 1 THEN @ ELSE NoEp])
      BY <2>4, BadHeaderBase
    <3>2. PICK l : /\ Moved(c, "recycle", l)
                   /\ l = [loc[c] EXCEPT !.done = RemoveAt(@, i), !.fetch = 1, !.ep = loc[c].doneEp,
                                     !.la = 0, !.more = FALSE,
                                     !.doneEp = IF Len(loc[c].done) > 1 THEN @ ELSE NoEp]
      BY <3>1
    <3>3. l.done = RemoveAt(loc[c].done, i) /\ l.doneEp = IF Len(loc[c].done) > 1 THEN loc[c].doneEp ELSE NoEp
      BY <1>0, <2>1, <3>2 DEF LocalVars
    <3>4. /\ Sorted(RemoveAt(loc[c].done, i), loc[c].doneEp)
          /\ Len(loc[c].done) = 1 => RemoveAt(loc[c].done, i) = <<>>
      BY <1>0, <2>1, SortedRemove DEF Contents
    <3>5. Len(loc[c].done) \in Nat /\ Len(loc[c].done) > 0
      BY <1>0, <2>1, <3>1
    <3>6. Sorted(l.done, l.doneEp)
      <4>1. CASE Len(loc[c].done) = 1
        BY <3>3, <3>4, <4>1, SortedEmpty
      <4>2. CASE Len(loc[c].done) # 1
        <5>1. Len(loc[c].done) > 1
          <6>1. PICK n \in Nat : n = Len(loc[c].done)
            BY <3>5
          <6>2. n > 0 /\ n # 1
            BY <3>5, <4>2, <6>1
          <6>3. n > 1
            BY <6>2
          <6> QED BY <6>1, <6>3
        <5> QED BY <3>3, <3>4, <5>1
      <4> QED BY <4>1, <4>2
    <3>7. indication' = indication
      BY <2>4 DEF BadHeader, indVars
    <3> QED BY <1>0, <2>1, <3>2, <3>6, <3>7, ContentsMove
  <2>5. CASE TakesAll(c)
    <3>1. PICK l : /\ Moved(c, "indicate", l)
                   /\ l = [NoLoc EXCEPT !.done = indication[loc[c].doneEp],
                                                      !.doneEp = loc[c].doneEp, !.from = "drain"]
      BY <2>5, TakeIndicationsBase DEF TakesAll
    <3>2. l.done = indication[loc[c].doneEp] /\ l.doneEp = loc[c].doneEp /\ loc[c].doneEp \in Eps
      BY <2>5, <3>1, TakeIndicationsBase DEF NoLoc, TakesAll
    <3>3. indication' = [indication EXCEPT ![loc[c].doneEp] = <<>>]
      BY <2>5 DEF TakesAll, TakeIndications, Drained
    <3>4. indication \in [Eps -> Seq(Messages)]
      BY DEF Base, Types
    <3>5. ASSUME NEW e \in Eps PROVE Sorted(indication'[e], e)
      BY <3>3, <3>4, SortedEmpty DEF Contents
    <3>6. Sorted(l.done, l.doneEp)
      BY <3>2 DEF Contents
    <3> QED BY <2>2, <3>1, <3>5, <3>6
  <2>6. CASE Indicate(c)
    <3>1. PICK l : Moved(c, "drain", l) /\ l = [loc[c] EXCEPT !.done = <<>>]
      BY <2>6, IndicateBase
    <3>2. l.done = <<>>
      BY <1>0, <2>1, <3>1 DEF LocalVars
    <3> QED BY <1>0, <2>1, <2>6, <3>1, <3>2, ContentsMove, SortedEmpty DEF Indicate
  <2> QED BY <1>12, <2>3, <2>4, <2>5, <2>6
<1> QED BY <1>1, <1>2, <1>3, <1>4, <1>5, <1>7, <1>8, <1>9, <1>10, <1>11, <1>12 DEF Busy

LEMMA NextContents ==
    ASSUME Base, Base', Chain, Hands, Reading, Contents, [Next]_vars
    PROVE  Contents'
  BY NextIs, ContentsStill, ContentsCalm, ContentsBusy

LEMMA InitContents == Init => Contents
  BY DEF Init, Contents, Sorted, NoLoc

-----------------------------------------------------------------------------
(***************************************************************************)
(* A buffer goes from hand to hand.                                        *)
(***************************************************************************)
\* The buffers of e in locals l; those in no thread's hands and not asked for.
Hand(l, e) == (IF l.doneEp = e THEN Len(l.done) ELSE 0) + (IF l.ep = e THEN l.fetch ELSE 0)

Spare(e) == rxBuffers[e] + withUser[e] + lost[e] + Len(indication[e])

LEMMA HandType == ASSUME NEW l \in LocalVars, NEW e PROVE Hand(l, e) \in Nat
<1>1. Len(l.done) \in Nat /\ l.fetch \in Nat
  BY DEF LocalVars
<1> QED BY <1>1 DEF Hand

LEMMA EmptyHand == ASSUME NEW l, l.done = <<>>, l.fetch = 0, NEW e PROVE Hand(l, e) = 0
  BY DEF Hand

LEMMA SpareType ==
    ASSUME Base, NEW e \in Eps
    PROVE  /\ Spare(e) \in Nat /\ rxBuffers[e] \in Nat /\ withUser[e] \in Nat /\ lost[e] \in Nat
           /\ indication[e] \in Seq(Messages) /\ Len(indication[e]) \in Nat
<1>1. /\ rxBuffers[e] \in Nat /\ withUser[e] \in Nat /\ lost[e] \in Nat /\ indication[e] \in Seq(Messages)
  BY DEF Base, Types
<1>2. Len(indication[e]) \in Nat
  BY <1>1
<1> QED BY <1>1, <1>2, SMTT(30) DEF Spare

LEMMA SpareTypeNext ==
    ASSUME Base', NEW e \in Eps
    PROVE  /\ Spare(e)' \in Nat /\ rxBuffers'[e] \in Nat /\ withUser'[e] \in Nat /\ lost'[e] \in Nat
           /\ indication'[e] \in Seq(Messages) /\ Len(indication'[e]) \in Nat
<1>1. /\ rxBuffers'[e] \in Nat /\ withUser'[e] \in Nat /\ lost'[e] \in Nat /\ indication'[e] \in Seq(Messages)
  BY DEF Base, Types
<1>2. Len(indication'[e]) \in Nat
  BY <1>1
<1> QED BY <1>1, <1>2, SMTT(30) DEF Spare

LEMMA ThreadsFinite == IsFiniteSet(Threads)
<1>1. IsFiniteSet({"user"}) /\ IsFiniteSet({"dsr"}) /\ IsFiniteSet(Contexts)
  BY RecvAssumption, FS_Singleton
<1>2. IsFiniteSet({"dsr"} \cup Contexts)
  BY <1>1, FS_Union
<1> QED BY <1>1, <1>2, FS_Union DEF Threads, Handlers

LEMMA HandStep ==
    ASSUME Base, Base', NEW t \in Threads, NEW w, NEW l, Moved(t, w, l), NEW e \in Eps
    PROVE  /\ AllInHand(e)' = AllInHand(e) - Hand(loc[t], e) + Hand(l, e)
           /\ AllInHand(e) \in Nat /\ AllInHand(e)' \in Nat /\ Hand(loc[t], e) \in Nat /\ Hand(l, e) \in Nat
           /\ Hand(loc[t], e) <= AllInHand(e)
<1> DEFINE f == [u \in Threads |-> Hand(loc[u], e)]
           g == [u \in Threads |-> Hand(loc'[u], e)]
<1>1. IsFiniteSet(Threads)
  BY ThreadsFinite
<1>2. loc \in [Threads -> LocalVars] /\ loc' \in [Threads -> LocalVars]
  BY DEF Base, Types
<1>3. f \in [Threads -> Nat] /\ g \in [Threads -> Nat]
  BY <1>2, HandType
<1>4. loc'[t] = l /\ \A u \in Threads : u # t => loc'[u] = loc[u]
  BY DEF Moved
<1>5. \A u \in Threads : u # t => g[u] = f[u]
  BY <1>4
<1>6. AllInHand(e) = Total(f) /\ AllInHand(e)' = Total(g) /\ f[t] = Hand(loc[t], e) /\ g[t] = Hand(l, e)
  BY <1>4 DEF AllInHand, InHand, Hand
<1>7. f[t] \in Nat /\ g[t] \in Nat
  BY <1>3
<1> HIDE DEF f, g
<1>8. /\ Total(g) = Total(f) - f[t] + g[t] /\ Total(f) \in Nat /\ Total(g) \in Nat
      /\ f[t] <= Total(f)
  BY <1>1, <1>3, <1>5, TotalStep
<1> QED BY <1>6, <1>7, <1>8

\* What leaves one place comes to another.
LEMMA AccountsMove ==
    ASSUME Base, Base', BuffersAccounted, NEW t \in Threads, NEW w, NEW l, Moved(t, w, l),
           \A e \in Eps : Spare(e)' + Asked(e)' + Hand(l, e) = Spare(e) + Asked(e) + Hand(loc[t], e),
           \A e \in Eps : lost'[e] <= faults'
    PROVE  BuffersAccounted'
<1> SUFFICES ASSUME NEW e \in Eps
             PROVE  /\ NumBufs[e] = rxBuffers'[e] + withUser'[e] + lost'[e] + Len(indication'[e])
                                    + Asked(e)' + AllInHand(e)'
                    /\ lost'[e] <= faults'
  BY DEF BuffersAccounted
<1>1. NumBufs[e] = Spare(e) + Asked(e) + AllInHand(e)
  BY DEF BuffersAccounted, Spare
<1>2. PICK s \in Nat : s = Spare(e)
  BY SpareType
<1>3. PICK a \in Nat : a = Asked(e)
  BY AskedAre
<1>4. PICK h \in Nat : h = AllInHand(e)
  BY HandStep
<1>5. PICK s2 \in Nat : s2 = Spare(e)'
  BY SpareTypeNext
<1>6. PICK a2 \in Nat : a2 = Asked(e)'
  BY AskedAreNext
<1>7. PICK h2 \in Nat : h2 = AllInHand(e)'
  BY HandStep
<1>8. PICK x \in Nat : x = Hand(loc[t], e)
  BY HandStep
<1>9. PICK y \in Nat : y = Hand(l, e)
  BY HandStep
<1>10. h2 = h - x + y /\ x <= h
  BY <1>4, <1>7, <1>8, <1>9, HandStep
<1>11. s2 + a2 + y = s + a + x
  BY <1>2, <1>3, <1>5, <1>6, <1>8, <1>9
<1>12. s2 + a2 + h2 = s + a + h
  BY <1>10, <1>11
<1>13. NumBufs[e] = Spare(e)' + Asked(e)' + AllInHand(e)'
  BY <1>1, <1>2, <1>3, <1>4, <1>5, <1>6, <1>7, <1>12
<1> QED BY <1>13 DEF Spare

LEMMA AccountsStill ==
    ASSUME Base, Base', BuffersAccounted, Still
    PROVE  BuffersAccounted'
<1>1. UNCHANGED <<rxBuffers, withUser, lost, indication, loc, faults>>
  BY DEF Still, Untouched
<1>2. \A e \in Eps : Asked(e)' = Asked(e)
  BY QuietAsked DEF Still
<1>3. \A e \in Eps : AllInHand(e)' = AllInHand(e)
  BY <1>1 DEF AllInHand, InHand
<1> QED BY <1>1, <1>2, <1>3 DEF BuffersAccounted

LEMMA AccountsCalm ==
    ASSUME Base, Base', Hands, BuffersAccounted, NEW t \in Threads, NEW w, NEW l, Calm(t, w, l)
    PROVE  BuffersAccounted'
<1>1. /\ Moved(t, w, l) /\ UNCHANGED <<rxBuffers, withUser, lost, indication, faults>>
      /\ Carried(t, l) /\ QuietBus(t)
  BY DEF Calm, Untouched
<1>2. Good(t, pc[t], loc[t])
  BY ThreadIs
<1>3. ASSUME NEW e \in Eps PROVE Hand(l, e) = Hand(loc[t], e)
  <2>1. CASE l.done = loc[t].done /\ l.doneEp = loc[t].doneEp /\ l.fetch = loc[t].fetch /\ l.ep = loc[t].ep
    BY <2>1 DEF Hand
  <2>2. CASE l = NoLoc /\ pc[t] \in {"pending", "return", "others", "events", "drain"}
    <3>1. l.done = <<>> /\ l.fetch = 0
      BY <2>2 DEF NoLoc
    <3>2. CASE t \in Contexts
      <4>1. HoldingContext(pc[t], loc[t]) /\ MayBe(t, pc[t])
        BY <1>2, <3>2 DEF Good
      <4>2. loc[t].fetch = 0
        BY <2>2, <4>1 DEF HoldingContext
      <4>3. loc[t].done = <<>>
        BY <2>2, <3>2, <4>1 DEF HoldingContext, Handling, MayBe, ContextPlaces
      <4> QED BY <3>1, <4>2, <4>3, EmptyHand
    <3>3. CASE t = "user"
      BY <3>1, <3>3, EmptyHand DEF Hands
    <3>4. CASE t = "dsr"
      <4>1. ~WaitsForRead(t)
        BY <2>2 DEF WaitsForRead
      <4>2. loc[t].done = <<>> /\ ~(loc[t].fetch > 0)
        BY <2>2, <3>4, <4>1 DEF Hands
      <4>3. loc[t].fetch \in Nat
        BY ThreadIs DEF LocalVars
      <4>4. loc[t].fetch = 0
        BY <4>2, <4>3
      <4> QED BY <3>1, <4>2, <4>4, EmptyHand
    <3> QED BY <3>2, <3>3, <3>4, ThreadsAre
  <2> QED BY <1>1, <2>1, <2>2 DEF Carried
<1>4. \A e \in Eps : Asked(e)' = Asked(e) /\ Spare(e)' = Spare(e)
  BY <1>1, QuietAsked DEF Spare
<1>5. \A e \in Eps : lost'[e] <= faults'
  BY <1>1 DEF BuffersAccounted
<1> QED BY <1>1, <1>3, <1>4, <1>5, AccountsMove

\* Who is not at it has nothing in hand.
LEMMA EmptyHanded ==
    ASSUME Base, Hands, NEW t \in Handlers,
           \/ t \in Contexts /\ pc[t] \in {"idle", "alloc", "drain", "more"}
           \/ t = "dsr" /\ pc[t] \notin {"fetch", "process", "recycle"} /\ ~WaitsForRead(t)
    PROVE  loc[t].done = <<>> /\ loc[t].fetch = 0 /\ \A e : Hand(loc[t], e) = 0
<1>1. t \in Threads /\ Good(t, pc[t], loc[t]) /\ loc[t].fetch \in Nat
  BY ThreadIs, ThreadsAre DEF LocalVars
<1>2. loc[t].done = <<>> /\ loc[t].fetch = 0
  <2>1. CASE t \in Contexts
    <3>1. HoldingContext(pc[t], loc[t]) /\ pc[t] \in {"idle", "alloc", "drain", "more"}
      BY <1>1, <2>1, ThreadsAre DEF Good
    <3>2. loc[t].fetch = 0
      BY <3>1 DEF HoldingContext
    <3>3. loc[t].done = <<>>
      BY <2>1, <3>1 DEF HoldingContext, Handling, Hands
    <3> QED BY <3>2, <3>3
  <2>2. CASE t = "dsr"
    <3>1. loc[t].done = <<>> /\ ~(loc[t].fetch > 0)
      BY <2>2, ThreadsAre DEF Hands
    <3> QED BY <1>1, <3>1
  <2> QED BY <2>1, <2>2, ThreadsAre
<1> QED BY <1>2, EmptyHand

\* What stays of the buffers where one term of an endpoint changes.
LEMMA AccountsStatus ==
    ASSUME Base, Base', Hands, BuffersAccounted, NEW t \in Handlers, BusStatus(t)
    PROVE  BuffersAccounted'
<1>1. /\ t \in Threads /\ bus # <<>> /\ bus' = Tail(bus) /\ Head(bus).op = "status"
      /\ UNCHANGED <<rxBuffers, withUser, lost, indication, faults>>
  BY BusStatusBase DEF BusStatus, bufVars, indVars
<1>2. PICK w, l : /\ Moved(t, w, l) /\ SameBut(l, [NoLoc EXCEPT !.other = other])
                  /\ t = "dsr" => Head(bus).by = "dsr"
                  /\ t # "dsr" => t \in Contexts /\ pc[t] = "idle"
  BY BusStatusBase
<1>3. \A e : Hand(l, e) = 0
  <2>1. l.done = <<>> /\ l.fetch = 0
    BY <1>2 DEF SameBut, NoLoc
  <2> QED BY <2>1, EmptyHand
<1>4. \A e : Hand(loc[t], e) = 0
  <2>1. CASE t = "dsr"
    <3>1. Head(bus) = bus[1] /\ 1 \in DOMAIN bus
      BY <1>1, AskedTail
    <3>2. pc[t] = "waiting"
      BY <1>1, <1>2, <2>1, <3>1 DEF Base, Requests
    <3>3. ~WaitsForRead(t)
      BY <1>1, <1>2, <2>1, WaitsOnce DEF WaitsForRead
    <3> QED BY <2>1, <3>2, <3>3, EmptyHanded
  <2>2. CASE t # "dsr"
    BY <1>2, <2>2, EmptyHanded
  <2> QED BY <2>1, <2>2
<1>5. \A e \in Eps : Asked(e)' = Asked(e)
  <2>1. \A e \in Eps : Asked(e) = Asked(e)' + 0 /\ Asked(e)' \in Nat
    BY <1>1, AskedTail, AskedAreNext
  <2> QED BY <2>1
<1>6. \A e \in Eps : Spare(e)' = Spare(e) /\ lost'[e] <= faults'
  BY <1>1 DEF Spare, BuffersAccounted
<1> QED BY <1>1, <1>2, <1>3, <1>4, <1>5, <1>6, AccountsMove

LEMMA AccountsRead ==
    ASSUME Base, Base', Hands, Reading, BuffersAccounted, NEW t \in Handlers, BusRead(t)
    PROVE  BuffersAccounted'
<1>1. /\ t \in Threads /\ bus # <<>> /\ bus' = Tail(bus) /\ Head(bus).op = "read"
      /\ UNCHANGED <<rxBuffers, withUser, lost, indication, faults>> /\ Head(bus).n \in 1..Len(mbox)
  BY BusReadBase DEF BusRead, bufVars, indVars
<1>2. PICK w, l :
         /\ Moved(t, w, l) /\ l.doneEp = Head(bus).ep
         /\ ~Head(bus).last /\ t = "dsr" => l.la = loc[t].la /\ l.ep = loc[t].ep
         /\ \/ /\ t = "dsr" /\ mode = "sync"
               /\ SameBut(l, [loc[t] EXCEPT !.done = @ \o SubSeq(mbox, 1, Head(bus).n),
                                            !.doneEp = Head(bus).ep, !.last = Head(bus).last])
            \/ /\ t \in Contexts /\ pc[t] = "idle"
               /\ SameBut(l, [NoLoc EXCEPT !.done = SubSeq(mbox, 1, Head(bus).n),
                                           !.doneEp = Head(bus).ep, !.last = Head(bus).last])
  BY BusReadBase
<1>3. /\ Head(bus) = bus[1] /\ 1 \in DOMAIN bus /\ Head(bus).ep \in Eps
      /\ Head(bus).by = IF mode = "sync" THEN "dsr" ELSE Nobody
  BY <1>1, HeadRead
<1>4. PICK n \in Nat : n = Head(bus).n
  BY <1>1, HeadRead
<1>5. PICK d \in Seq(Messages) : d = SubSeq(mbox, 1, Head(bus).n) /\ Len(d) = n
  <2>1. Len(mbox) \in Nat
    BY DEF Base, Types
  <2>2. Head(bus).n <= Len(mbox)
    BY <1>1, <2>1
  <2> QED BY <1>1, <1>4, <2>2, ReadSorted
<1>6. ASSUME NEW e \in Eps PROVE Hand(l, e) = Hand(loc[t], e) + (IF Head(bus).ep = e THEN n ELSE 0)
  <2>1. CASE t \in Contexts
    <3>1. Hand(loc[t], e) = 0
      BY <1>2, <2>1, ThreadsAre, EmptyHanded
    <3>2. l.done = d /\ l.fetch = 0
      BY <1>2, <1>5, <2>1, ThreadsAre DEF SameBut, NoLoc
    <3> QED BY <1>2, <1>4, <1>5, <3>1, <3>2 DEF Hand
  <2>2. CASE t = "dsr"
    <3>0. loc[t] \in LocalVars /\ loc[t].done \in Seq(Messages) /\ loc[t].fetch \in Nat
      BY <1>1, ThreadIs DEF LocalVars
    <3>1. l.done = loc[t].done \o d /\ l.fetch = loc[t].fetch
      BY <1>2, <1>5, <2>2, <3>0, ThreadsAre DEF SameBut, LocalVars
    <3>2. mode = "sync"
      BY <1>2, <2>2, ThreadsAre
    <3>3. /\ loc[t].ep = Head(bus).ep /\ (Head(bus).last <=> loc[t].fetch = 0)
          /\ loc[t].done # <<>> => loc[t].doneEp = loc[t].ep
      BY <1>1, <1>3, <2>2, <3>2 DEF Reading, Fetching
    <3>4. l.ep = loc[t].ep \/ l.fetch = 0
      BY <1>2, <2>2, <3>1, <3>3
    <3>5. PICK k \in Nat : k = Len(loc[t].done)
      BY <3>0
    <3>6. Len(l.done) = k + n
      <4>1. PICK p \in Seq(Messages) : p = loc[t].done
        BY <3>0
      <4>2. Len(p \o d) = Len(p) + Len(d)
        OBVIOUS
      <4> QED BY <1>5, <3>1, <3>5, <4>1, <4>2
    <3>7. (loc[t].doneEp # e \/ Head(bus).ep # e) => (loc[t].doneEp = e => k = 0) /\ (Head(bus).ep = e => k = 0)
      <4>1. loc[t].done = <<>> => k = 0
        BY <3>5
      <4> QED BY <3>3, <4>1
    <3>8. PICK h \in Nat : h = IF l.ep = e THEN l.fetch ELSE 0
      BY <3>0, <3>1
    <3>9. h = IF loc[t].ep = e THEN loc[t].fetch ELSE 0
      BY <3>1, <3>4, <3>8
    <3>10. Hand(l, e) = (IF Head(bus).ep = e THEN k + n ELSE 0) + h
      BY <1>2, <3>6, <3>8 DEF Hand
    <3>11. Hand(loc[t], e) = (IF loc[t].doneEp = e THEN k ELSE 0) + h
      BY <3>5, <3>9 DEF Hand
    <3> QED BY <3>7, <3>10, <3>11
  <2> QED BY <2>1, <2>2, ThreadsAre
<1>7. ASSUME NEW e \in Eps
      PROVE  /\ Spare(e)' + Asked(e)' + Hand(l, e) = Spare(e) + Asked(e) + Hand(loc[t], e)
             /\ lost'[e] <= faults'
  <2>1. Asked(e) = Asked(e)' + (IF Head(bus).ep = e THEN n ELSE 0)
    BY <1>1, <1>3, <1>4, AskedTail
  <2>2. PICK a \in Nat : a = Asked(e)'
    BY AskedAreNext
  <2>3. PICK x \in Nat : x = Hand(loc[t], e)
    BY HandStep, <1>1, <1>2
  <2>4. Spare(e)' = Spare(e) /\ Spare(e) \in Nat
    BY <1>1, SpareType DEF Spare
  <2>5. PICK m \in Nat : m = IF Head(bus).ep = e THEN n ELSE 0
    OBVIOUS
  <2>6. Asked(e) = a + m /\ Hand(l, e) = x + m
    BY <1>6, <2>1, <2>2, <2>3, <2>5
  <2>7. lost'[e] <= faults'
    BY <1>1 DEF BuffersAccounted
  <2> QED BY <2>2, <2>3, <2>4, <2>6, <2>7
<1> QED BY <1>1, <1>2, <1>7, AccountsMove

LEMMA AccountsReadFails ==
    ASSUME Base, Base', Hands, Reading, BuffersAccounted, NEW t \in Handlers, BusReadFails(t)
    PROVE  BuffersAccounted'
<1>1. /\ t \in Threads /\ bus # <<>> /\ bus' = Tail(bus) /\ Head(bus).op = "read"
      /\ UNCHANGED <<rxBuffers, withUser, indication>> /\ faults' = faults + 1
      /\ lost' = [lost EXCEPT ![Head(bus).ep] = @ + Head(bus).n - Kept(Head(bus))]
  BY BusReadFailsBase DEF BusReadFails, indVars
<1>2. PICK l :
         /\ Moved(t, "recycle", l) /\ l.done = <<>> /\ l.ep = Head(bus).ep
         /\ \/ /\ t = "dsr" /\ mode = "sync" /\ pc[t] = "waiting"
               /\ l.fetch = loc[t].fetch + (IF Head(bus).n > 1 THEN Head(bus).n ELSE 0) + Len(loc[t].done)
            \/ t \in Contexts /\ mode = "async" /\ pc[t] = "idle" /\ l.fetch = Head(bus).n
  BY BusReadFailsBase
<1>3. /\ Head(bus) = bus[1] /\ 1 \in DOMAIN bus /\ Head(bus).ep \in Eps
      /\ Head(bus).by = IF mode = "sync" THEN "dsr" ELSE Nobody
  BY <1>1, HeadRead
<1>4. PICK n \in Nat : n = Head(bus).n /\ n > 0
  BY <1>1, HeadRead
<1>5. PICK k \in Nat : /\ k = IF t = "dsr" /\ ~(n > 1) THEN 0 ELSE n
                       /\ k = Kept(Head(bus))
  <2>1. t \in Contexts => t # "dsr"
    BY ThreadsAre
  <2>2. Nobody # "dsr"
    BY DEF Nobody
  <2>3. Kept(Head(bus)) = IF t = "dsr" /\ ~(n > 1) THEN 0 ELSE n
    BY <1>2, <1>3, <1>4, <2>1, <2>2 DEF Kept
  <2> QED BY <1>4, <2>3
<1>6. ASSUME NEW e \in Eps PROVE Hand(l, e) = Hand(loc[t], e) + (IF Head(bus).ep = e THEN k ELSE 0)
  <2>0. Hand(l, e) = IF Head(bus).ep = e THEN l.fetch ELSE 0
    <3>1. CASE l.ep = e
      <4>1. Hand(l, e) = 0 + l.fetch /\ l.fetch \in Nat
        <5>1. l \in LocalVars /\ Len(l.done) = 0
          BY <1>1, <1>2 DEF Moved, Base, Types
        <5> QED BY <3>1, <5>1 DEF Hand, LocalVars
      <4> QED BY <1>2, <3>1, <4>1
    <3>2. CASE l.ep # e
      <4>1. Hand(l, e) = 0
        BY <1>2, <3>2 DEF Hand
      <4> QED BY <1>2, <3>2, <4>1
    <3> QED BY <3>1, <3>2
  <2>1. CASE t \in Contexts
    <3>1. Hand(loc[t], e) = 0
      BY <1>2, <2>1, ThreadsAre, EmptyHanded
    <3>2. t # "dsr"
      BY <2>1, ThreadsAre
    <3> QED BY <1>2, <1>4, <1>5, <2>0, <3>1, <3>2
  <2>2. CASE t = "dsr"
    <3>0. loc[t] \in LocalVars /\ loc[t].done \in Seq(Messages) /\ loc[t].fetch \in Nat
      BY <1>1, ThreadIs DEF LocalVars
    <3>2. mode = "sync"
      BY <1>2, <2>2, ThreadsAre
    <3>3. loc[t].ep = Head(bus).ep /\ (loc[t].done # <<>> => loc[t].doneEp = loc[t].ep)
      BY <1>1, <1>3, <2>2, <3>2 DEF Reading, Fetching
    <3>4. PICK m \in Nat : m = Len(loc[t].done)
      BY <3>0
    <3>5. PICK f \in Nat : f = loc[t].fetch
      BY <3>0
    <3>6. l.fetch = f + k + m
      <4>1. l.fetch = f + (IF n > 1 THEN n ELSE 0) + m
        BY <1>2, <1>4, <2>2, <3>4, <3>5, ThreadsAre
      <4> QED BY <1>5, <2>2, <4>1
    <3>7. Hand(loc[t], e) = (IF loc[t].doneEp = e THEN m ELSE 0) + (IF Head(bus).ep = e THEN f ELSE 0)
      BY <3>3, <3>4, <3>5 DEF Hand
    <3>8. m # 0 => loc[t].doneEp = Head(bus).ep
      <4>1. loc[t].done = <<>> => m = 0
        BY <3>4
      <4> QED BY <3>3, <4>1
    <3> QED BY <2>0, <3>6, <3>7, <3>8
  <2> QED BY <2>1, <2>2, ThreadsAre
<1>7. ASSUME NEW e \in Eps
      PROVE  /\ Spare(e)' + Asked(e)' + Hand(l, e) = Spare(e) + Asked(e) + Hand(loc[t], e)
             /\ lost'[e] <= faults'
  <2>1. Asked(e) = Asked(e)' + (IF Head(bus).ep = e THEN n ELSE 0)
    BY <1>1, <1>3, <1>4, AskedTail
  <2>2. PICK a \in Nat : a = Asked(e)'
    BY AskedAreNext
  <2>3. PICK x \in Nat : x = Hand(loc[t], e)
    BY HandStep, <1>1, <1>2
  <2>4. PICK m \in Nat : m = IF Head(bus).ep = e THEN n ELSE 0
    OBVIOUS
  <2>5. PICK j \in Nat : j = IF Head(bus).ep = e THEN k ELSE 0
    OBVIOUS
  <2>6. Asked(e) = a + m /\ Hand(l, e) = x + j /\ j <= m /\ m <= j + 1
    BY <1>4, <1>5, <1>6, <2>1, <2>2, <2>3, <2>4, <2>5
  <2>7. lost \in [Eps -> Nat] /\ faults \in Nat /\ lost[e] <= faults
    <3>1. faults \in 0..MaxFaults /\ lost \in [Eps -> Nat]
      BY DEF Base, Types
    <3> QED BY <3>1, Bounds DEF BuffersAccounted
  <2>8. PICK o \in Nat : o = lost[e]
    BY <2>7
  <2>9. lost'[e] = o + m - j
    <3>1. CASE Head(bus).ep = e
      BY <1>1, <1>4, <1>5, <2>4, <2>5, <2>7, <2>8, <3>1
    <3>2. CASE Head(bus).ep # e
      BY <1>1, <2>4, <2>5, <2>7, <2>8, <3>2
    <3> QED BY <3>1, <3>2
  <2>10. PICK r \in Nat : r = rxBuffers[e]
    BY SpareType
  <2>11. PICK u \in Nat : u = withUser[e]
    BY SpareType
  <2>12. PICK i \in Nat : i = Len(indication[e])
    BY SpareType
  <2>13. Spare(e) = r + u + o + i /\ Spare(e)' = r + u + (o + m - j) + i
    BY <1>1, <2>8, <2>9, <2>10, <2>11, <2>12 DEF Spare
  <2>14. Spare(e)' + a + (x + j) = Spare(e) + (a + m) + x
    BY <2>6, <2>13
  <2>15. lost'[e] <= faults'
    BY <1>1, <2>6, <2>7, <2>8, <2>9
  <2> QED BY <2>2, <2>3, <2>6, <2>14, <2>15
<1> QED BY <1>1, <1>2, <1>7, AccountsMove

\* A thread at e changes what it has in hand by as much as changes elsewhere.
LEMMA AccountsPlain ==
    ASSUME Base, Base', BuffersAccounted, NEW t \in Threads, NEW w, NEW l, Moved(t, w, l), NEW x \in Eps,
           NEW old \in Nat, NEW new \in Nat, Spare(x)' + new = Spare(x) + old,
           Hand(l, x) + old = Hand(loc[t], x) + new,
           \A e \in Eps : e # x => Hand(l, e) = Hand(loc[t], e) /\ Spare(e)' = Spare(e),
           \A e \in Eps : Asked(e)' = Asked(e) /\ lost'[e] <= faults'
    PROVE  BuffersAccounted'
<1>1. ASSUME NEW e \in Eps PROVE Spare(e)' + Asked(e)' + Hand(l, e) = Spare(e) + Asked(e) + Hand(loc[t], e)
  <2>1. CASE e = x
    <3>1. PICK a \in Nat : a = Asked(e)
      BY AskedAre
    <3>2. PICK h \in Nat : h = Hand(loc[t], e)
      BY HandStep
    <3>3. PICK k \in Nat : k = Hand(l, e)
      BY HandStep
    <3>4. PICK s \in Nat : s = Spare(e)
      BY SpareType
    <3>5. PICK r \in Nat : r = Spare(e)'
      BY SpareTypeNext
    <3>6. r + new = s + old /\ k + old = h + new
      BY <2>1, <3>2, <3>3, <3>4, <3>5
    <3>7. r + a + k = s + a + h
      BY <3>6
    <3> QED BY <3>1, <3>2, <3>3, <3>4, <3>5, <3>7
  <2>2. CASE e # x
    BY <2>2
  <2> QED BY <2>1, <2>2
<1> QED BY <1>1, AccountsMove

LEMMA LostFew ==
    ASSUME Base, BuffersAccounted, lost' = lost, faults' = faults \/ faults' = faults + 1
    PROVE  \A e \in Eps : lost'[e] <= faults'
<1>1. faults \in 0..MaxFaults /\ lost \in [Eps -> Nat]
  BY DEF Base, Types
<1>2. faults \in Nat
  BY <1>1, Bounds
<1> QED BY <1>1, <1>2 DEF BuffersAccounted

\* What is in a hand, by the locals that count.
LEMMA HandIs ==
    ASSUME NEW l \in LocalVars, NEW e
    PROVE  /\ Len(l.done) \in Nat /\ l.fetch \in Nat /\ l.done \in Seq(Messages)
           /\ l.done = <<>> => Len(l.done) = 0
           /\ l.doneEp = e /\ l.ep = e => Hand(l, e) = Len(l.done) + l.fetch
           /\ l.doneEp = e /\ (l.ep # e \/ l.fetch = 0) => Hand(l, e) = Len(l.done)
           /\ (l.doneEp # e \/ l.done = <<>>) /\ l.ep = e => Hand(l, e) = l.fetch
           /\ (l.doneEp # e \/ l.done = <<>>) /\ (l.ep # e \/ l.fetch = 0) => Hand(l, e) = 0
<1>1. l.done \in Seq(Messages) /\ l.fetch \in Nat
  BY DEF LocalVars
<1>2. Len(l.done) \in Nat /\ (l.done = <<>> => Len(l.done) = 0)
  BY <1>1
<1> QED BY <1>1, <1>2 DEF Hand

LEMMA MovedType ==
    ASSUME Base', NEW t \in Threads, NEW w, NEW l, Moved(t, w, l)
    PROVE  l \in LocalVars
  BY DEF Base, Types, Moved

LEMMA AccountsRecycle ==
    ASSUME Base, Base', BuffersAccounted, NEW t \in Handlers, RecyclePkts(t)
    PROVE  BuffersAccounted'
<1>1. t \in Threads /\ loc[t] \in LocalVars /\ Good(t, pc[t], loc[t])
  BY ThreadIs, ThreadsAre
<1>2. PICK w, l : Moved(t, w, l) /\ l = [loc[t] EXCEPT !.fetch = 0]
  BY <1>1, RecyclePktsBase
<1>3. l.done = loc[t].done /\ l.doneEp = loc[t].doneEp /\ l.ep = loc[t].ep /\ l.fetch = 0 /\ l \in LocalVars
  BY <1>1, <1>2, MovedType DEF LocalVars
<1>4. pc[t] = "recycle"
  BY <1>1, RecyclePktsBase
<1>5. loc[t].ep \in Eps
  BY <1>1, <1>4 DEF Good, Holding
<1>0. PICK x \in Eps : x = loc[t].ep
  BY <1>4, <1>5
<1>6. PICK f \in Nat : f = loc[t].fetch
  BY <1>1 DEF LocalVars
<1>7. /\ UNCHANGED <<bus, withUser, lost, indication, faults>>
      /\ rxBuffers' = [rxBuffers EXCEPT ![loc[t].ep] = @ + loc[t].fetch]
  BY DEF RecyclePkts, AddBuffers, indVars
<1>8. \A e \in Eps : Asked(e)' = Asked(e) /\ lost'[e] <= faults'
  BY <1>7, LostFew DEF Asked
<1>9. rxBuffers \in [Eps -> Nat]
  BY DEF Base, Types
<1>10. Spare(x)' + 0 = Spare(x) + f
  <2>2. rxBuffers'[x] = rxBuffers[x] + f
    BY <1>0, <1>6, <1>7, <1>9
  <2>3. Spare(x)' = rxBuffers'[x] + withUser[x] + lost[x] + Len(indication[x])
    BY <1>7 DEF Spare
  <2>4. PICK r \in Nat : r = rxBuffers[x]
    BY SpareType
  <2>5. PICK u \in Nat : u = withUser[x]
    BY SpareType
  <2>6. PICK o \in Nat : o = lost[x]
    BY SpareType
  <2>7. PICK i \in Nat : i = Len(indication[x])
    BY SpareType
  <2>8. Spare(x) = r + u + o + i /\ Spare(x)' = (r + f) + u + o + i
    BY <2>2, <2>3, <2>4, <2>5, <2>6, <2>7 DEF Spare
  <2>9. Spare(x)' + 0 = Spare(x) + f
    BY <2>8
  <2> QED BY <2>9
<1>11. \A e \in Eps : e # x => Hand(l, e) = Hand(loc[t], e) /\ Spare(e)' = Spare(e)
  BY <1>0, <1>3, <1>7, <1>9 DEF Hand, Spare
<1>12. Hand(l, x) + f = Hand(loc[t], x) + 0
  <2>1. PICK n \in Nat : n = Len(loc[t].done)
    BY <1>1, HandIs
  <2> QED BY <1>0, <1>3, <1>6, <2>1 DEF Hand
<1> QED BY <1>1, <1>2, <1>8, <1>10, <1>11, <1>12, AccountsPlain

LEMMA AccountsAlloc ==
    ASSUME Base, Base', Hands, BuffersAccounted, NEW t \in Handlers, AllocPackets(t)
    PROVE  BuffersAccounted'
<1>1. t \in Threads /\ loc[t] \in LocalVars /\ Good(t, pc[t], loc[t])
  BY ThreadIs, ThreadsAre
<1>2. PICK l : Moved(t, "fetch", l) /\ l = [loc[t] EXCEPT !.la = 0, !.fetch = Allocates(loc[t]),
                                                         !.total = @ + Allocates(loc[t])]
  BY <1>1, AllocPacketsBase
<1>3. l.done = loc[t].done /\ l.doneEp = loc[t].doneEp /\ l.ep = loc[t].ep /\ l.fetch = Allocates(loc[t])
  BY <1>1, <1>2 DEF LocalVars
<1>4. pc[t] = "alloc" /\ loc[t].ep \in Eps
  BY <1>1, AllocPacketsBase
<1>5. loc[t].done = <<>> /\ loc[t].fetch = 0
  <2>1. t = "dsr" => ~WaitsForRead(t)
    BY <1>4 DEF WaitsForRead
  <2> QED BY <1>4, <2>1, EmptyHanded, ThreadsAre
<1>0. PICK x \in Eps : x = loc[t].ep
  BY <1>4, <1>5
<1>6. PICK f \in Nat : f = Allocates(loc[t])
  BY <1>1, AllocPacketsBase
<1>7. /\ UNCHANGED <<bus, withUser, lost, indication, faults>>
      /\ rxBuffers' = [rxBuffers EXCEPT ![loc[t].ep] = @ - Allocates(loc[t])]
  BY DEF AllocPackets, indVars
<1>8. \A e \in Eps : Asked(e)' = Asked(e) /\ lost'[e] <= faults'
  BY <1>7, LostFew DEF Asked
<1>9. rxBuffers \in [Eps -> Nat]
  BY DEF Base, Types
<1>10. Spare(x)' + f = Spare(x) + 0
  <2>2. rxBuffers'[x] = rxBuffers[x] - f
    BY <1>0, <1>6, <1>7, <1>9
  <2>3. Spare(x)' = rxBuffers'[x] + withUser[x] + lost[x] + Len(indication[x])
    BY <1>7 DEF Spare
  <2>4. PICK r \in Nat : r = rxBuffers[x]
    BY SpareType
  <2>5. PICK u \in Nat : u = withUser[x]
    BY SpareType
  <2>6. PICK o \in Nat : o = lost[x]
    BY SpareType
  <2>7. PICK i \in Nat : i = Len(indication[x])
    BY SpareType
  <2>8. Spare(x) = r + u + o + i /\ Spare(x)' = (r - f) + u + o + i
    BY <2>2, <2>3, <2>4, <2>5, <2>6, <2>7 DEF Spare
  <2>9. Spare(x)' + f = Spare(x) + 0
    BY <2>8
  <2> QED BY <2>9
<1>11. \A e \in Eps : e # x => Hand(l, e) = Hand(loc[t], e) /\ Spare(e)' = Spare(e)
  BY <1>0, <1>3, <1>7, <1>9 DEF Hand, Spare
<1>12. Hand(l, x) + 0 = Hand(loc[t], x) + f
  <2>1. Hand(loc[t], x) = 0
    BY <1>5, EmptyHand
  <2>2. Hand(l, x) = f
    <3>1. l \in LocalVars
      BY <1>1, <1>2, MovedType
    <3> QED BY <1>0, <1>3, <1>5, <1>6, <3>1, HandIs
  <2> QED BY <2>1, <2>2
<1> QED BY <1>1, <1>2, <1>8, <1>10, <1>11, <1>12, AccountsPlain

LEMMA AccountsFetch ==
    ASSUME Base, Base', BuffersAccounted, NEW t \in Handlers, FetchPackets(t)
    PROVE  BuffersAccounted'
<1>1. t \in Threads /\ loc[t] \in LocalVars
  BY ThreadIs, ThreadsAre
<1>2. PICK n \in {1, loc[t].fetch} :
        /\ Moved(t, IF mode = "sync" THEN "waiting" ELSE "fetch", [loc[t] EXCEPT !.fetch = @ - n])
        /\ bus' = Append(bus, Request("read", IF mode = "sync" THEN t ELSE Nobody, loc[t].ep,
                                              n, n = loc[t].fetch, FALSE))
  BY <1>1, FetchPacketsBase
<1>3. PICK w : w = IF mode = "sync" THEN "waiting" ELSE "fetch"
  OBVIOUS
<1>4. PICK l : Moved(t, w, l) /\ l = [loc[t] EXCEPT !.fetch = @ - n]
  BY <1>2, <1>3
<1>5. loc[t].fetch > 0 /\ loc[t].ep \in Eps /\ loc[t].fetch \in Nat
  BY <1>1, FetchPacketsBase DEF LocalVars
<1>6. n \in Nat /\ n <= loc[t].fetch /\ l.fetch = loc[t].fetch - n
      /\ l.done = loc[t].done /\ l.doneEp = loc[t].doneEp /\ l.ep = loc[t].ep
  BY <1>1, <1>4, <1>5 DEF LocalVars
<1>7. UNCHANGED <<rxBuffers, withUser, lost, indication, faults>>
  BY DEF FetchPackets, bufVars, indVars
<1>8. ASSUME NEW e \in Eps
      PROVE  /\ Spare(e)' + Asked(e)' + Hand(l, e) = Spare(e) + Asked(e) + Hand(loc[t], e)
             /\ lost'[e] <= faults'
  <2>1. PICK m \in Nat : m = IF loc[t].ep = e THEN n ELSE 0
    BY <1>6
  <2>2. Asked(e)' = Asked(e) + m
    <3>1. PICK r : r = Request("read", IF mode = "sync" THEN t ELSE Nobody, loc[t].ep, n, n = loc[t].fetch, FALSE)
      OBVIOUS
    <3>2. r.op = "read" /\ r.ep = loc[t].ep /\ r.n = n /\ bus' = Append(bus, r)
      BY <1>2, <3>1 DEF Request
    <3> QED BY <2>1, <3>2, AskedAppend
  <2>3. PICK a \in Nat : a = Asked(e)
    BY AskedAre
  <2>4. PICK s \in Nat : s = Spare(e) /\ s = Spare(e)'
    BY <1>7, SpareType DEF Spare
  <2>5. PICK x \in Nat : x = Hand(loc[t], e)
    BY <1>1, <1>4, HandStep
  <2>6. PICK y \in Nat : y = Hand(l, e)
    BY <1>1, <1>4, HandStep
  <2>7. y + m = x
    <3>1. PICK j \in Nat : j = IF loc[t].doneEp = e THEN Len(loc[t].done) ELSE 0
      BY <1>1, HandIs
    <3>2. PICK f \in Nat : f = loc[t].fetch
      BY <1>5
    <3>3. x = j + (IF loc[t].ep = e THEN f ELSE 0)
      BY <2>5, <3>1, <3>2 DEF Hand
    <3>4. y = j + (IF loc[t].ep = e THEN f - n ELSE 0)
      BY <1>6, <2>6, <3>1, <3>2 DEF Hand
    <3> QED BY <1>6, <2>1, <3>2, <3>3, <3>4
  <2>8. s + (a + m) + y = s + a + x
    BY <2>7
  <2>9. lost'[e] <= faults'
    BY <1>7, LostFew
  <2> QED BY <2>2, <2>3, <2>4, <2>5, <2>6, <2>8, <2>9
<1> QED BY <1>1, <1>4, <1>8, AccountsMove

LEMMA SpareChange ==
    ASSUME Base, Base', NEW x \in Eps, NEW old \in Nat, NEW new \in Nat,
           rxBuffers'[x] = rxBuffers[x],
           \/ /\ withUser'[x] + new = withUser[x] + old
              /\ lost'[x] = lost[x] /\ Len(indication'[x]) = Len(indication[x])
           \/ /\ lost'[x] + new = lost[x] + old
              /\ withUser'[x] = withUser[x] /\ Len(indication'[x]) = Len(indication[x])
           \/ /\ Len(indication'[x]) + new = Len(indication[x]) + old
              /\ withUser'[x] = withUser[x] /\ lost'[x] = lost[x]
    PROVE  Spare(x)' + new = Spare(x) + old
<1>1. PICK r \in Nat : r = rxBuffers[x]
  BY SpareType
<1>2. PICK u \in Nat : u = withUser[x]
  BY SpareType
<1>3. PICK o \in Nat : o = lost[x]
  BY SpareType
<1>4. PICK i \in Nat : i = Len(indication[x])
  BY SpareType
<1>5. PICK v \in Nat : v = withUser'[x]
  BY SpareTypeNext
<1>6. PICK p \in Nat : p = lost'[x]
  BY SpareTypeNext
<1>7. PICK j \in Nat : j = Len(indication'[x])
  BY SpareTypeNext
<1>8. Spare(x) = r + u + o + i /\ Spare(x)' = r + v + p + j
  BY <1>1, <1>2, <1>3, <1>4, <1>5, <1>6, <1>7 DEF Spare
<1>10. \/ v + new = u + old /\ p = o /\ j = i
       \/ p + new = o + old /\ v = u /\ j = i
       \/ j + new = i + old /\ v = u /\ p = o
  BY <1>2, <1>3, <1>4, <1>5, <1>6, <1>7
<1>9. (r + v + p + j) + new = (r + u + o + i) + old
  BY <1>10
<1> QED BY <1>8, <1>9

LEMMA AccountsIndicateSync ==
    ASSUME Base, Base', Contents, BuffersAccounted, IndicateSync
    PROVE  BuffersAccounted'
<1> DEFINE t == "dsr"
<1>1. t \in Threads /\ loc[t] \in LocalVars /\ loc[t].done \in Seq(Messages)
  BY ThreadIs, ThreadsAre DEF LocalVars
<1>2. PICK l : Moved(t, "process", l) /\ l = [loc[t] EXCEPT !.done = Tail(@)] /\ loc[t].done # <<>>
  BY IndicateSyncBase
<1>3. l.done = Tail(loc[t].done) /\ l.doneEp = loc[t].doneEp /\ l.ep = loc[t].ep /\ l.fetch = loc[t].fetch
      /\ l \in LocalVars
  BY <1>1, <1>2, MovedType DEF LocalVars
<1>4. Head(loc[t].done).ep = loc[t].doneEp /\ Head(loc[t].done) \in Messages
      /\ Len(Tail(loc[t].done)) = Len(loc[t].done) - 1
  BY <1>1, <1>2, SortedTail DEF Contents
<1>5. PICK x \in Eps : x = loc[t].doneEp
  BY <1>4 DEF Messages
<1>6. /\ UNCHANGED <<bus, rxBuffers, lost, indication, faults>>
      /\ withUser' = [withUser EXCEPT ![x] = @ + 1]
  BY <1>4, <1>5 DEF IndicateSync
<1>7. \A e \in Eps : Asked(e)' = Asked(e) /\ lost'[e] <= faults'
  BY <1>6, LostFew DEF Asked
<1>8. withUser \in [Eps -> Nat]
  BY DEF Base, Types
<1>9. Spare(x)' + 0 = Spare(x) + 1
  <2>1. withUser'[x] + 0 = withUser[x] + 1
    BY <1>6, <1>8
  <2> QED BY <1>6, <2>1, SpareChange
<1>10. \A e \in Eps : e # x => Hand(l, e) = Hand(loc[t], e) /\ Spare(e)' = Spare(e)
  BY <1>3, <1>5, <1>6, <1>8 DEF Hand, Spare
<1>11. Hand(l, x) + 1 = Hand(loc[t], x) + 0
  <2>1. PICK n \in Nat : n = Len(loc[t].done)
    BY <1>1, HandIs
  <2>2. PICK f \in Nat : f = IF l.ep = x THEN l.fetch ELSE 0
    BY <1>3, HandIs
  <2> QED BY <1>3, <1>4, <1>5, <2>1, <2>2 DEF Hand
<1> HIDE DEF t
<1>12. Moved(t, "process", l)
  BY <1>2
<1> QED BY <1>1, <1>7, <1>9, <1>10, <1>11, <1>12, AccountsPlain

LEMMA AccountsBadHeaderSync ==
    ASSUME Base, Base', Hands, BuffersAccounted, BadHeaderSync
    PROVE  BuffersAccounted'
<1> DEFINE t == "dsr"
<1>1. t \in Threads /\ loc[t] \in LocalVars /\ loc[t].done \in Seq(Messages)
  BY ThreadIs, ThreadsAre DEF LocalVars
<1>2. PICK l : /\ Moved(t, "recycle", l)
               /\ l = [loc[t] EXCEPT !.done = <<>>, !.ep = loc[t].doneEp, !.la = 0, !.ok = FALSE,
                                     !.fetch = Len(loc[t].done) - 1]
  BY BadHeaderSyncBase
<1>3. l.done = <<>> /\ l.ep = loc[t].doneEp /\ l.fetch = Len(loc[t].done) - 1 /\ l \in LocalVars
      /\ pc[t] = "process"
  BY <1>1, <1>2, MovedType, BadHeaderSyncBase DEF LocalVars
<1>4. loc[t].fetch = 0
  <2>1. ~(loc[t].fetch > 0)
    BY <1>3 DEF Hands, WaitsForRead
  <2> QED BY <1>1, <2>1 DEF LocalVars
<1>5. PICK x \in Eps : x = loc[t].doneEp
  BY BadHeaderSyncBase
<1>6. /\ UNCHANGED <<bus, rxBuffers, withUser, indication>> /\ faults' = faults + 1
      /\ lost' = [lost EXCEPT ![x] = @ + 1]
  BY <1>5 DEF BadHeaderSync, indVars
<1>7. lost \in [Eps -> Nat] /\ faults \in Nat
  <2>1. lost \in [Eps -> Nat] /\ faults \in 0..MaxFaults
    BY DEF Base, Types
  <2> QED BY <2>1, Bounds
<1>8. \A e \in Eps : Asked(e)' = Asked(e) /\ lost'[e] <= faults'
  <2>1. \A e \in Eps : lost[e] <= faults
    BY DEF BuffersAccounted
  <2> QED BY <1>6, <1>7, <2>1 DEF Asked
<1>9. Spare(x)' + 0 = Spare(x) + 1
  <2>1. lost'[x] + 0 = lost[x] + 1
    BY <1>6, <1>7
  <2> QED BY <1>6, <2>1, SpareChange
<1>10. \A e \in Eps : e # x => Hand(l, e) = Hand(loc[t], e) /\ Spare(e)' = Spare(e)
  <2>1. \A e \in Eps : e # x => Hand(l, e) = 0 /\ Hand(loc[t], e) = 0
    BY <1>1, <1>3, <1>4, <1>5, HandIs
  <2> QED BY <1>6, <1>7, <2>1 DEF Spare
<1>11. Hand(l, x) + 1 = Hand(loc[t], x) + 0
  <2>1. PICK n \in Nat : n = Len(loc[t].done)
    BY <1>1, HandIs
  <2>2. Hand(l, x) = n - 1 /\ Hand(loc[t], x) = n
    BY <1>1, <1>3, <1>4, <1>5, <2>1, HandIs
  <2> QED BY <2>2
<1> QED BY <1>1, <1>2, <1>8, <1>9, <1>10, <1>11, AccountsPlain

\* A completion routine: where it is, and that it has no other buffers.
LEMMA Completing ==
    ASSUME Base, NEW c \in Contexts, pc[c] \in {"complete", "indicate", "drain"}
    PROVE  /\ c \in Threads /\ loc[c] \in LocalVars /\ loc[c].done \in Seq(Messages) /\ loc[c].doneEp \in Eps
           /\ loc[c].fetch = 0 /\ (pc[c] = "complete" => loc[c].done # <<>>) /\ (pc[c] = "drain" => loc[c].done = <<>>)
           /\ \A e : e # loc[c].doneEp => Hand(loc[c], e) = 0
           /\ Hand(loc[c], loc[c].doneEp) = Len(loc[c].done)
<1>1. /\ c \in Threads /\ loc[c] \in LocalVars /\ Holding(pc[c], loc[c]) /\ HoldingContext(pc[c], loc[c])
  BY ContextIs
<1>2. loc[c].fetch = 0 /\ (pc[c] = "complete" => loc[c].done # <<>>) /\ (pc[c] = "drain" => loc[c].done = <<>>)
  BY <1>1 DEF HoldingContext
<1>3. loc[c].doneEp \in Eps
  BY <1>1, <1>2 DEF Holding
<1>4. loc[c].done \in Seq(Messages)
  BY <1>1 DEF LocalVars
<1> QED BY <1>1, <1>2, <1>3, <1>4, HandIs

LEMMA AccountsQueue ==
    ASSUME Base, Base', BuffersAccounted, NEW c \in Contexts, QueueIndication(c)
    PROVE  BuffersAccounted'
<1>0. pc[c] = "complete"
  BY QueueIndicationBase
<1>1. PICK w : w = IF loc[c].more THEN "more" ELSE "drain"
  OBVIOUS
<1>2. PICK l : Moved(c, w, l) /\ l = [loc[c] EXCEPT !.done = <<>>]
  BY <1>1, QueueIndicationBase
<1>3. PICK x \in Eps : x = loc[c].doneEp
  BY <1>0, Completing
<1>4. l.done = <<>> /\ l.fetch = 0
  BY <1>0, <1>2, Completing DEF LocalVars
<1>5. PICK n \in Nat : n = Len(loc[c].done)
  BY <1>0, Completing, HandIs
<1>6. /\ UNCHANGED <<bus, rxBuffers, withUser, lost, faults>>
      /\ indication' = [indication EXCEPT ![x] = @ \o loc[c].done]
  BY <1>3 DEF QueueIndication, bufVars
<1>7. \A e \in Eps : Asked(e)' = Asked(e) /\ lost'[e] <= faults'
  BY <1>6, LostFew DEF Asked
<1>8. indication \in [Eps -> Seq(Messages)] /\ indication[x] \in Seq(Messages) /\ loc[c].done \in Seq(Messages)
  BY <1>0, Completing DEF Base, Types
<1>9. Spare(x)' + 0 = Spare(x) + n
  <2>1. indication'[x] = indication[x] \o loc[c].done
    BY <1>6, <1>8
  <2>2. Len(indication'[x]) = Len(indication[x]) + Len(loc[c].done)
    BY <1>8, <2>1
  <2>3. Len(indication'[x]) + 0 = Len(indication[x]) + n
    BY <1>5, <2>2, SpareTypeNext
  <2> QED BY <1>6, <2>3, SpareChange
<1>10. \A e \in Eps : e # x => Hand(l, e) = Hand(loc[c], e) /\ Spare(e)' = Spare(e)
  <2>1. \A e \in Eps : e # x => Hand(l, e) = 0 /\ Hand(loc[c], e) = 0
    BY <1>0, <1>3, <1>4, Completing, EmptyHand
  <2> QED BY <1>6, <1>8, <2>1 DEF Spare
<1>11. Hand(l, x) + n = Hand(loc[c], x) + 0
  <2>1. Hand(l, x) = 0 /\ Hand(loc[c], x) = n
    BY <1>0, <1>3, <1>4, <1>5, Completing, EmptyHand
  <2> QED BY <2>1
<1> QED BY <1>0, <1>2, <1>7, <1>9, <1>10, <1>11, AccountsPlain, Completing

LEMMA AccountsBadHeader ==
    ASSUME Base, Base', Contents, BuffersAccounted, NEW c \in Contexts, BadHeader(c)
    PROVE  BuffersAccounted'
<1>0. pc[c] = "complete"
  BY BadHeaderBase
<1>1. PICK i \in DOMAIN loc[c].done :
        Moved(c, "recycle",
                  [loc[c] EXCEPT !.done = RemoveAt(@, i), !.fetch = 1, !.ep = loc[c].doneEp,
                                 !.la = 0, !.more = FALSE,
                                 !.doneEp = IF Len(loc[c].done) > 1 THEN @ ELSE NoEp])
  BY BadHeaderBase
<1>2. PICK l : /\ Moved(c, "recycle", l)
               /\ l = [loc[c] EXCEPT !.done = RemoveAt(@, i), !.fetch = 1, !.ep = loc[c].doneEp,
                                 !.la = 0, !.more = FALSE,
                                 !.doneEp = IF Len(loc[c].done) > 1 THEN @ ELSE NoEp]
  BY <1>1
<1>3. PICK x \in Eps : x = loc[c].doneEp
  BY <1>0, Completing
<1>4. l.done = RemoveAt(loc[c].done, i) /\ l.fetch = 1 /\ l.ep = x /\ l \in LocalVars
      /\ l.doneEp = IF Len(loc[c].done) > 1 THEN x ELSE NoEp
  BY <1>0, <1>2, <1>3, Completing, MovedType DEF LocalVars
<1>5. PICK n \in Nat : n = Len(loc[c].done) /\ n > 0
  <2>1. Len(loc[c].done) \in Nat /\ Len(loc[c].done) > 0
    BY <1>0, <1>1, Completing
  <2> QED BY <2>1
<1>6. /\ UNCHANGED <<bus, rxBuffers, withUser, lost, indication>> /\ faults' = faults + 1
  BY DEF BadHeader, bufVars, indVars
<1>7. \A e \in Eps : Asked(e)' = Asked(e) /\ lost'[e] <= faults'
  BY <1>6, LostFew DEF Asked
<1>8. Len(l.done) = n - 1 /\ (n = 1 => l.done = <<>>)
  <2>1. Sorted(loc[c].done, loc[c].doneEp)
    BY <1>0, Completing DEF Contents
  <2>2. /\ Len(RemoveAt(loc[c].done, i)) = Len(loc[c].done) - 1
        /\ Len(loc[c].done) = 1 => RemoveAt(loc[c].done, i) = <<>>
    BY <1>0, <2>1, Completing, SortedRemove
  <2> QED BY <1>4, <1>5, <2>2
<1>9. Spare(x)' + 0 = Spare(x) + 0
  <2>1. Spare(x)' = Spare(x)
    BY <1>6 DEF Spare
  <2> QED BY <2>1
<1>10. \A e \in Eps : e # x => Hand(l, e) = Hand(loc[c], e) /\ Spare(e)' = Spare(e)
  <2>1. ASSUME NEW e \in Eps, e # x PROVE Hand(l, e) = 0 /\ Hand(loc[c], e) = 0
    <3>1. l.doneEp # e /\ l.ep # e
      BY <1>4, <2>1, ThreadsAre
    <3> QED BY <1>0, <1>3, <1>4, <2>1, <3>1, Completing, HandIs
  <2> QED BY <1>6, <2>1 DEF Spare
<1>11. Hand(l, x) + 0 = Hand(loc[c], x) + 0
  <2>1. Hand(loc[c], x) = n
    BY <1>0, <1>3, <1>5, Completing
  <2>2. CASE n = 1
    <3>1. Hand(l, x) = 1
      BY <1>4, <1>8, <2>2, HandIs
    <3> QED BY <2>1, <2>2, <3>1
  <2>3. CASE n # 1
    <3>0. n > 0 /\ n # 1
      BY <1>5, <2>3
    <3>1. n > 1
      BY <3>0
    <3>2. l.doneEp = x
      BY <1>4, <1>5, <3>1
    <3>3. Hand(l, x) = (n - 1) + 1
      BY <1>4, <1>8, <3>2, HandIs
    <3> QED BY <2>1, <3>3
  <2> QED BY <2>2, <2>3
<1> QED BY <1>0, <1>2, <1>7, <1>9, <1>10, <1>11, AccountsPlain, Completing

LEMMA AccountsTakes ==
    ASSUME Base, Base', BuffersAccounted, NEW c \in Contexts, TakesAll(c)
    PROVE  BuffersAccounted'
<1>0. pc[c] = "drain"
  BY TakeIndicationsBase DEF TakesAll
<1>1. PICK l : /\ Moved(c, "indicate", l)
               /\ l = [NoLoc EXCEPT !.done = indication[loc[c].doneEp],
                                                  !.doneEp = loc[c].doneEp, !.from = "drain"]
  BY TakeIndicationsBase DEF TakesAll
<1>2. PICK x \in Eps : x = loc[c].doneEp
  BY <1>0, Completing
<1>3. l.done = indication[x] /\ l.doneEp = x /\ l.fetch = 0 /\ l \in LocalVars
  BY <1>0, <1>1, <1>2, Completing, MovedType DEF NoLoc
<1>4. PICK n \in Nat : n = Len(indication[x])
  BY SpareType
<1>5. /\ UNCHANGED <<bus, rxBuffers, withUser, lost, faults>>
      /\ indication' = [indication EXCEPT ![x] = <<>>]
  BY <1>2 DEF TakesAll, TakeIndications, Drained, bufVars
<1>6. \A e \in Eps : Asked(e)' = Asked(e) /\ lost'[e] <= faults'
  BY <1>5, LostFew DEF Asked
<1>7. indication \in [Eps -> Seq(Messages)]
  BY DEF Base, Types
<1>8. Spare(x)' + n = Spare(x) + 0
  <2>1. indication'[x] = <<>>
    BY <1>5, <1>7
  <2>2. Len(indication'[x]) + n = Len(indication[x]) + 0
    BY <1>4, <2>1
  <2> QED BY <1>5, <2>2, SpareChange
<1>9. \A e \in Eps : e # x => Hand(l, e) = Hand(loc[c], e) /\ Spare(e)' = Spare(e)
  <2>1. \A e \in Eps : e # x => Hand(l, e) = 0 /\ Hand(loc[c], e) = 0
    BY <1>0, <1>2, <1>3, Completing, HandIs
  <2> QED BY <1>5, <1>7, <2>1 DEF Spare
<1>10. Hand(l, x) + 0 = Hand(loc[c], x) + n
  <2>1. loc[c].done = <<>> /\ loc[c].fetch = 0
    BY <1>0, Completing
  <2>2. Hand(loc[c], x) = 0
    BY <2>1, EmptyHand
  <2>3. Hand(l, x) = n
    BY <1>3, <1>4, HandIs
  <2> QED BY <2>2, <2>3
<1> QED BY <1>0, <1>1, <1>6, <1>8, <1>9, <1>10, AccountsPlain, Completing

LEMMA AccountsIndicate ==
    ASSUME Base, Base', BuffersAccounted, NEW c \in Contexts, Indicate(c)
    PROVE  BuffersAccounted'
<1>0. pc[c] = "indicate"
  BY IndicateBase
<1>1. PICK l : Moved(c, "drain", l) /\ l = [loc[c] EXCEPT !.done = <<>>]
  BY IndicateBase
<1>2. PICK x \in Eps : x = loc[c].doneEp
  BY <1>0, Completing
<1>3. l.done = <<>> /\ l.fetch = 0
  BY <1>0, <1>1, Completing DEF LocalVars
<1>4. PICK n \in Nat : n = Len(loc[c].done)
  BY <1>0, Completing, HandIs
<1>5. /\ UNCHANGED <<bus, rxBuffers, indication, lost, faults>>
      /\ withUser' = [withUser EXCEPT ![x] = @ + n]
  BY <1>2, <1>4 DEF Indicate
<1>6. \A e \in Eps : Asked(e)' = Asked(e) /\ lost'[e] <= faults'
  BY <1>5, LostFew DEF Asked
<1>7. withUser \in [Eps -> Nat]
  BY DEF Base, Types
<1>8. Spare(x)' + 0 = Spare(x) + n
  <2>1. withUser'[x] + 0 = withUser[x] + n
    BY <1>5, <1>7
  <2> QED BY <1>5, <2>1, SpareChange
<1>9. \A e \in Eps : e # x => Hand(l, e) = Hand(loc[c], e) /\ Spare(e)' = Spare(e)
  <2>1. \A e \in Eps : e # x => Hand(l, e) = 0 /\ Hand(loc[c], e) = 0
    BY <1>0, <1>2, <1>3, Completing, EmptyHand
  <2> QED BY <1>5, <1>7, <2>1 DEF Spare
<1>10. Hand(l, x) + n = Hand(loc[c], x) + 0
  <2>1. Hand(l, x) = 0 /\ Hand(loc[c], x) = n
    BY <1>0, <1>2, <1>3, <1>4, Completing, EmptyHand
  <2> QED BY <2>1
<1> QED BY <1>0, <1>1, <1>6, <1>8, <1>9, <1>10, AccountsPlain, Completing

LEMMA AccountsAdd ==
    ASSUME Base, Base', BuffersAccounted, NEW x \in Eps, AddReceivePkts(x)
    PROVE  BuffersAccounted'
<1>1. PICK n \in 1..withUser[x] : /\ AddBuffers("user", x, n)
                                  /\ withUser' = [withUser EXCEPT ![x] = @ - n]
  BY DEF AddReceivePkts
<1>2. UNCHANGED <<bus, lost, indication, faults, loc>> /\ rxBuffers' = [rxBuffers EXCEPT ![x] = @ + n]
  BY <1>1 DEF AddReceivePkts, AddBuffers, indVars
<1>3. rxBuffers \in [Eps -> Nat] /\ withUser \in [Eps -> Nat]
  BY DEF Base, Types
<1>4. ASSUME NEW e \in Eps PROVE rxBuffers'[e] + withUser'[e] = rxBuffers[e] + withUser[e]
  <2>1. CASE e = x
    <3>1. PICK u \in Nat : u = withUser[x]
      BY <1>3
    <3>2. PICK r \in Nat : r = rxBuffers[x]
      BY <1>3
    <3>3. n \in Nat /\ rxBuffers'[x] = r + n /\ withUser'[x] = u - n
      BY <1>1, <1>2, <1>3, <3>1, <3>2
    <3>4. (r + n) + (u - n) = r + u
      BY <3>3
    <3> QED BY <2>1, <3>1, <3>2, <3>3, <3>4
  <2>2. CASE e # x
    BY <1>1, <1>2, <1>3, <2>2
  <2> QED BY <2>1, <2>2
<1>5. \A e \in Eps : Asked(e)' = Asked(e) /\ AllInHand(e)' = AllInHand(e)
  BY <1>2 DEF Asked, AllInHand, InHand
<1> QED BY <1>2, <1>4, <1>5 DEF BuffersAccounted

LEMMA AccountsBusy ==
    ASSUME Base, Base', Hands, Reading, Contents, BuffersAccounted, Busy
    PROVE  BuffersAccounted'
<1>1. ASSUME NEW e \in Eps, TargetSends(e) PROVE BuffersAccounted'
  <2>1. UNCHANGED <<bus, rxBuffers, withUser, lost, indication, faults, loc>>
    BY <1>1 DEF TargetSends, bufVars, indVars
  <2>2. \A x \in Eps : Asked(x)' = Asked(x) /\ AllInHand(x)' = AllInHand(x)
    BY <2>1 DEF Asked, AllInHand, InHand
  <2> QED BY <2>1, <2>2 DEF BuffersAccounted
<1> QED BY <1>1, AccountsAdd, AccountsStatus, AccountsRead, AccountsReadFails, AccountsRecycle, AccountsAlloc,
           AccountsFetch, AccountsIndicateSync, AccountsBadHeaderSync, AccountsQueue, AccountsBadHeader,
           AccountsTakes, AccountsIndicate DEF Busy

LEMMA NextAccounts ==
    ASSUME Base, Base', Chain, Hands, Reading, Contents, BuffersAccounted, [Next]_vars
    PROVE  BuffersAccounted'
  BY NextIs, AccountsStill, AccountsCalm, AccountsBusy

LEMMA InitAccounts == Init => BuffersAccounted
<1> SUFFICES ASSUME Init PROVE BuffersAccounted
  OBVIOUS
<1>1. Base
  BY InitBase
<1>2. ASSUME NEW e \in Eps
      PROVE  /\ NumBufs[e] = rxBuffers[e] + withUser[e] + lost[e] + Len(indication[e])
                               + Asked(e) + AllInHand(e)
             /\ lost[e] <= faults
  <2>1. /\ rxBuffers[e] = NumBufs[e] /\ NumBufs[e] \in Nat /\ withUser[e] = 0 /\ lost[e] = 0
        /\ indication[e] = <<>> /\ faults = 0
    BY Bounds DEF Init
  <2>2. Len(indication[e]) = 0
    BY <2>1
  <2>3. Asked(e) = 0
    <3>1. Asked(e) = Total(Weights(bus, {e})) /\ bus = <<>>
      BY <1>1, AskedAre DEF Init
    <3>2. \A i \in DOMAIN bus : Weights(bus, {e})[i] = 0
      BY <3>1
    <3>3. bus \in Seq(BusRequests)
      BY <1>1 DEF Base, Types
    <3> QED BY <3>1, <3>2, <3>3, WeightsAre
  <2>4. AllInHand(e) = 0
    <3> DEFINE f == [t \in Threads |-> InHand(t, e)]
    <3>1. \A t \in Threads : InHand(t, e) = 0
      BY DEF Init, InHand, NoLoc
    <3>2. f \in [Threads -> Nat] /\ \A t \in Threads : f[t] = 0
      BY <3>1
    <3>3. Total(f) = 0
      <4> HIDE DEF f
      <4> QED BY <3>2, ThreadsFinite, TotalZero
    <3> QED BY <3>3 DEF AllInHand
  <2> QED BY <2>1, <2>2, <2>3, <2>4
<1> QED BY <1>2 DEF BuffersAccounted

(***************************************************************************)
(* So what the host asks for, has in hand and keeps is as the properties   *)
(* say in every state.                                                     *)
(***************************************************************************)
THEOREM AccountsHold == Spec => [](Base /\ Chain /\ Hands /\ Reading /\ Contents /\ BuffersAccounted)
<1>1. Init => Base /\ Chain /\ Hands /\ Reading /\ Contents /\ BuffersAccounted
  BY InitBase, InitChain, InitHands, InitReading, InitContents, InitAccounts
<1>2. Base /\ Chain /\ Hands /\ Reading /\ Contents /\ BuffersAccounted /\ [Next]_vars
        => (Base /\ Chain /\ Hands /\ Reading /\ Contents /\ BuffersAccounted)'
  <2> SUFFICES ASSUME Base, Chain, Hands, Reading, Contents, BuffersAccounted, [Next]_vars
               PROVE  (Base /\ Chain /\ Hands /\ Reading /\ Contents /\ BuffersAccounted)'
    OBVIOUS
  <2>1. Base' /\ Chain'
    BY NextBaseChain
  <2>2. Hands' /\ Reading' /\ Contents' /\ BuffersAccounted'
    BY <2>1, NextHands, NextReading, NextContents, NextAccounts
  <2> QED BY <2>1, <2>2
<1> QED BY <1>1, <1>2, PTL DEF Spec

\* Every receive buffer is somewhere, and none is lost without a failure.
THEOREM BuffersAccountedCorrect == Spec => []BuffersAccounted
<1>1. Base /\ Chain /\ Hands /\ Reading /\ Contents /\ BuffersAccounted => BuffersAccounted
  OBVIOUS
<1> QED BY <1>1, AccountsHold, PTL

-----------------------------------------------------------------------------
(***************************************************************************)
(* The type invariant: what is counted is bounded by what there is.        *)
(***************************************************************************)
LEMMA ModeKept == ASSUME Base, Chain, [Next]_vars PROVE mode' = mode
<1>1. CASE Still \/ \E t \in Threads : \E w, l : Calm(t, w, l)
  BY <1>1 DEF Still, Calm, Untouched
<1>2. CASE Busy
  BY <1>2 DEF Busy, TargetSends, AddReceivePkts, BusStatus, BusRead, BusReadFails, RecyclePkts, AllocPackets,
         FetchPackets, IndicateSync, BadHeaderSync, QueueIndication, BadHeader, TakesAll, TakeIndications, Indicate
<1> QED BY <1>1, <1>2, NextIs

\* No step changes the interrupt processing mode that DevSetup read from the HIF.
THEOREM ModeHolds == Spec => [](mode \in Modes)
<1>1. Init => mode \in Modes
  BY DEF Init
<1>2. Base /\ Chain /\ mode \in Modes /\ [Next]_vars => (mode \in Modes)'
  BY ModeKept
<1>3. Base /\ Chain /\ Hands /\ Reading => Base /\ Chain
  OBVIOUS
<1> QED BY <1>1, <1>2, <1>3, ReadingHolds, PTL DEF Spec

LEMMA SentFew == ASSUME Base PROVE sent \in [Eps -> 0..MaxMsgs]
<1>1. sent \in [Eps -> Nat] /\ Total(sent) <= MaxMsgs
  BY DEF Base, Types
<1>2. ASSUME NEW e \in Eps PROVE sent[e] \in 0..MaxMsgs
  <2>1. Total(sent) \in Nat /\ sent[e] <= Total(sent) /\ sent[e] \in Nat
    BY <1>1, Bounds, TotalStep
  <2> QED BY <1>1, <2>1, Bounds
<1> QED BY <1>1, <1>2

LEMMA BuffersFew ==
    ASSUME Base, BuffersAccounted, NEW e \in Eps
    PROVE  {rxBuffers[e], withUser[e], lost[e]} \subseteq 0..NumBufs[e]
<1>1. NumBufs[e] = rxBuffers[e] + withUser[e] + lost[e] + Len(indication[e]) + Asked(e) + AllInHand(e)
  BY DEF BuffersAccounted
<1>2. PICK r \in Nat : r = rxBuffers[e]
  BY SpareType
<1>3. PICK u \in Nat : u = withUser[e]
  BY SpareType
<1>4. PICK o \in Nat : o = lost[e]
  BY SpareType
<1>5. PICK i \in Nat : i = Len(indication[e])
  BY SpareType
<1>6. PICK a \in Nat : a = Asked(e)
  BY AskedAre
<1>7. PICK h \in Nat : h = AllInHand(e)
  <2>1. \A t \in Threads : InHand(t, e) = Hand(loc[t], e)
    BY DEF InHand, Hand
  <2>2. \A t \in Threads : InHand(t, e) \in Nat
    BY <2>1, ThreadIs, HandType
  <2>3. [t \in Threads |-> InHand(t, e)] \in [Threads -> Nat]
    BY <2>2
  <2>4. AllInHand(e) \in Nat
    BY <2>3, ThreadsFinite, TotalIs DEF AllInHand
  <2> QED BY <2>4
<1>8. PICK n \in Nat : n = NumBufs[e]
  BY Bounds
<1>9. n = r + u + o + i + a + h
  BY <1>1, <1>2, <1>3, <1>4, <1>5, <1>6, <1>7, <1>8
<1>10. r \in 0..n /\ u \in 0..n /\ o \in 0..n
  BY <1>9
<1> QED BY <1>2, <1>3, <1>4, <1>8, <1>10

LEMMA TypeIs == ASSUME Base, BuffersAccounted, mode \in Modes PROVE TypeOK
<1>1. Msgs = Messages
  BY DEF Msgs, Messages
<1>2. mode \in Modes /\ mbox \in Seq(Msgs) /\ sent \in [Eps -> 0..MaxMsgs]
  BY <1>1, SentFew DEF Base, Types
<1>3. {other, reg, shadow, taken, recheck, waiting} \subseteq BOOLEAN /\ acks \in Nat /\ faults \in 0..MaxFaults
  BY DEF Base, Types
<1>4. \A i \in DOMAIN bus :
         bus[i] \in [op : {"status", "read", "write"}, by : Threads \cup {Nobody},
                     ep : Eps \cup {NoEp}, n : 0..MaxBundle, last : BOOLEAN, val : BOOLEAN]
  <2>1. bus \in Seq(BusRequests)
    BY DEF Base, Types
  <2>2. \A i \in DOMAIN bus : bus[i] \in BusRequests
    BY <2>1
  <2> QED BY <2>2 DEF BusRequests
<1>5. \A e \in Eps : {rxBuffers[e], withUser[e], lost[e]} \subseteq 0..NumBufs[e]
  BY BuffersFew
<1>6. /\ waitingEp \in Eps \cup {NoEp}
      /\ indication \in [Eps -> Seq(Msgs)] /\ draining \in [Eps -> BOOLEAN]
      /\ indicated \in [Eps -> Seq(1..MaxMsgs)]
  BY <1>1 DEF Base, Types
<1>7. pc \in [Threads -> {"idle", "status", "waiting", "pending", "alloc", "fetch",
                           "process", "recycle", "check", "stop", "enable", "write on",
                           "write off", "return", "others", "complete", "more", "events",
                           "drain", "indicate"}]
  BY DEF Base, Types, Places, UserPlaces, DsrPlaces, SyncPlaces, ContextPlaces
<1>8. \A t \in Threads :
         /\ loc[t].la \in 0..MaxBundle /\ loc[t].fetch \in Nat /\ loc[t].total \in Nat
         /\ loc[t].done \in Seq(Msgs)
         /\ {loc[t].ep, loc[t].doneEp} \subseteq Eps \cup {NoEp}
         /\ {loc[t].last, loc[t].other, loc[t].async, loc[t].ok, loc[t].more} \subseteq BOOLEAN
         /\ loc[t].from \in {"dsr", "more", "events", "drain"}
  <2>1. \A t \in Threads : loc[t] \in LocalVars
    BY ThreadIs
  <2> QED BY <1>1, <2>1 DEF LocalVars
<1> QED BY <1>2, <1>3, <1>4, <1>5, <1>6, <1>7, <1>8 DEF TypeOK

\* Every variable has its type, and no count of buffers is negative or exceeds
\* the buffers its endpoint has.
THEOREM TypeOKCorrect == Spec => []TypeOK
<1>1. Base /\ Chain /\ Hands /\ Reading /\ Contents /\ BuffersAccounted /\ mode \in Modes => TypeOK
  BY TypeIs
<1> QED BY <1>1, AccountsHold, ModeHolds, PTL

-----------------------------------------------------------------------------
(***************************************************************************)
(* One completion routine at a time has messages it did not queue yet, and *)
(* one that asks for no more of them is the last of its chain.             *)
(***************************************************************************)
Carries(c) == c \in Contexts /\ loc[c].done # <<>> /\ pc[c] # "indicate"

\* The chain has come to its end without an acknowledgement.
Ended == NoReads /\ ~SomeLive /\ taken /\ \A t \in Handlers : ~Holds(t)

Carriers ==
    /\ \A c, d \in Contexts : Carries(c) /\ Carries(d) => c = d
    /\ \A c \in Contexts : Carries(c) =>
         IF loc[c].more THEN pc[c] = "complete" /\ (Len(loc[c].done) = 1 \/ loc[c].last) ELSE Ended

LEMMA CarrierIs ==
    ASSUME Base, Hands, NEW c \in Contexts, Carries(c)
    PROVE  /\ c \in Threads /\ c \in Handlers /\ mode = "async" /\ loc[c] \in LocalVars /\ pc[c] # "idle"
           /\ pc[c] \notin Handling \cup {"more", "events", "drain"}
<1>1. pc[c] # "idle" /\ c \in Handlers
  BY ThreadsAre DEF Hands, Carries
<1>2. /\ c \in Threads /\ mode = "async" /\ loc[c] \in LocalVars /\ HoldingContext(pc[c], loc[c])
  BY <1>1, ContextIs
<1> QED BY <1>1, <1>2 DEF Carries, HoldingContext

\* The end of a chain lasts while a carrier is there.
LEMMA EndedKept ==
    ASSUME Base, Base', Ended, mode = "async", mode' = mode, NEW t \in Threads, NEW w, NEW l, Moved(t, w, l),
           taken' = taken, bus' = bus, t \in Handlers => ~HoldsAt(t, w, l)
    PROVE  Ended'
<1>1. NoReads' /\ ~SomeLive'
  BY DEF Ended, NoReads, SomeLive, Live
<1>2. ASSUME NEW u \in Handlers PROVE ~Holds(u)'
  <2>1. u \in Threads
    BY ThreadsAre
  <2>2. CASE u = t
    BY <2>2 DEF Moved, Holds, HoldsAt
  <2>3. CASE u # t
    BY <2>1, <2>3 DEF Moved, Holds, HoldsAt, Ended
  <2> QED BY <2>2, <2>3
<1> QED BY <1>1, <1>2 DEF Ended

LEMMA EndedQuiet ==
    ASSUME Base, Base', Ended, NEW t \in Threads, QuietBus(t), pc[t] # "more" \/ ~loc[t].last \/ t \notin Handlers
    PROVE  NoReads' /\ ~SomeLive'
<1>1. NoReads'
  BY QuietAsked DEF Ended
<1>2. ASSUME SomeLive' PROVE FALSE
  <2>1. PICK i \in DOMAIN bus' : Live(bus'[i])
    BY <1>2 DEF SomeLive, Live
  <2>2. \A j \in DOMAIN bus : ~Live(bus[j])
    BY DEF Ended, SomeLive
  <2>3. CASE bus' = bus
    BY <2>1, <2>2, <2>3
  <2>4. ASSUME NEW r, bus' = Append(bus, r), ~Live(r) PROVE FALSE
    BY <2>1, <2>2, <2>4, AskedAppend
  <2>5. CASE bus # <<>> /\ bus' = Tail(bus)
    BY <2>1, <2>2, <2>5, AskedTail
  <2>6. pc[t] = "more" => t \in Handlers
    BY ThreadIs, ThreadsAre DEF Good, MayBe, UserPlaces
  <2> QED BY <2>3, <2>4, <2>5, <2>6 DEF QuietBus
<1> QED BY <1>1, <1>2

LEMMA EndedCalm ==
    ASSUME Base, Base', Ended, mode = "async", NEW t \in Threads, NEW w, NEW l, Calm(t, w, l)
    PROVE  Ended'
<1>1. Moved(t, w, l) /\ QuietBus(t) /\ mode' = mode /\ CalmDuty(t, w, l)
  BY DEF Calm, Untouched
<1>2. taken /\ \A u \in Handlers : ~Holds(u)
  BY DEF Ended
<1>3. t \in Handlers \/ t = "user"
  BY ThreadsAre
<1>4. taken' = taken /\ (t \in Handlers => ~HoldsAt(t, w, l))
  BY <1>1, <1>2 DEF CalmDuty, Holds
<1>5. NoReads' /\ ~SomeLive'
  <2>1. pc[t] = "more" /\ loc[t].last /\ t \in Handlers => Holds(t)
    BY DEF Holds, HoldsAt
  <2> QED BY <1>1, <1>2, <2>1, EndedQuiet
<1>6. ASSUME NEW u \in Handlers PROVE ~Holds(u)'
  <2>1. u \in Threads
    BY ThreadsAre
  <2>2. CASE u = t
    BY <1>1, <1>4, <2>2 DEF Moved, Holds, HoldsAt
  <2>3. CASE u # t
    BY <1>1, <1>2, <2>1, <2>3 DEF Moved, Holds, HoldsAt
  <2> QED BY <2>2, <2>3
<1> QED BY <1>2, <1>4, <1>5, <1>6 DEF Ended

\* A step after which nobody carries but who did, with as much to ask for.
LEMMA CarriersMove ==
    ASSUME Base, Base', Hands, Carriers, NEW t \in Threads, NEW w, NEW l, Moved(t, w, l),
           t \in Contexts /\ l.done # <<>> /\ w # "indicate" =>
             /\ Carries(t) /\ (l.more => w = "complete" /\ loc[t].more /\ l.done = loc[t].done /\ l.last = loc[t].last)
             /\ ~l.more => Ended',
           \A c \in Contexts : Carries(c) /\ c # t /\ Ended => Ended'
    PROVE  Carriers'
<1>1. ASSUME NEW c \in Contexts
      PROVE  /\ c # t => (Carries(c)' <=> Carries(c)) /\ loc'[c] = loc[c] /\ pc'[c] = pc[c]
             /\ c = t => (Carries(c)' <=> l.done # <<>> /\ w # "indicate") /\ loc'[c] = l /\ pc'[c] = w
  BY ThreadsAre DEF Moved, Carries
<1>2. ASSUME NEW c \in Contexts, Carries(c)' PROVE Carries(c)
  BY <1>1, <1>2
<1>3. ASSUME NEW c \in Contexts, Carries(c)'
      PROVE  IF loc'[c].more THEN pc'[c] = "complete" /\ (Len(loc'[c].done) = 1 \/ loc'[c].last) ELSE Ended'
  <2>1. CASE c # t
    BY <1>1, <1>3, <2>1 DEF Carriers
  <2>2. CASE c = t
    BY <1>1, <1>3, <2>2 DEF Carriers
  <2> QED BY <2>1, <2>2
<1> QED BY <1>2, <1>3 DEF Carriers

LEMMA CarriersStill ==
    ASSUME Base, Base', Hands, Carriers, Still
    PROVE  Carriers'
<1>1. UNCHANGED <<pc, loc, taken, mode>>
  BY DEF Still, Untouched
<1>2. Ended => Ended'
  <2>1. PICK t \in Threads : pc[t] # "more" /\ QuietBus(t)
    BY DEF Still
  <2>2. Ended => NoReads' /\ ~SomeLive'
    BY <2>1, EndedQuiet
  <2>3. \A u \in Handlers : Holds(u)' <=> Holds(u)
    BY <1>1 DEF Holds, HoldsAt
  <2> QED BY <1>1, <2>2, <2>3 DEF Ended
<1>3. \A c \in Contexts : Carries(c)' <=> Carries(c)
  BY <1>1 DEF Carries
<1> QED BY <1>1, <1>2, <1>3 DEF Carriers

LEMMA CarriersCalm ==
    ASSUME Base, Base', Hands, Carriers, NEW t \in Threads, NEW w, NEW l, Calm(t, w, l)
    PROVE  Carriers'
<1>1. Moved(t, w, l) /\ Carried(t, l) /\ CalmPlaces(t, w, l)
  BY DEF Calm
<1>2. ASSUME Ended, NEW c \in Contexts, Carries(c) PROVE Ended'
  BY <1>2, CarrierIs, EndedCalm
<1>3. ASSUME t \in Contexts, l.done # <<>> PROVE Carries(t) /\ ~l.more /\ Ended'
  <2>1. l.done = loc[t].done /\ l.more = loc[t].more
    BY <1>1, <1>3 DEF Carried, NoLoc
  <2>2. Carries(t) /\ pc[t] # "complete"
    BY <1>1, <1>3, <2>1 DEF CalmPlaces, Carries
  <2>3. ~loc[t].more /\ Ended
    BY <1>3, <2>2 DEF Carriers
  <2> QED BY <1>2, <1>3, <2>1, <2>2, <2>3
<1> QED BY <1>1, <1>2, <1>3, CarriersMove

LEMMA CarriersBus ==
    ASSUME Base, Base', Hands, Reading, Carriers, NEW t \in Handlers, BusStatus(t) \/ BusRead(t) \/ BusReadFails(t)
    PROVE  Carriers'
<1>0. t \in Threads /\ mode' = mode
  BY ThreadsAre DEF BusStatus, BusRead, BusReadFails
<1>1. CASE BusStatus(t)
  <2>1. PICK w, l : Moved(t, w, l) /\ SameBut(l, [NoLoc EXCEPT !.other = other])
    BY <1>1, BusStatusBase
  <2>2. l.done = <<>>
    BY <2>1 DEF SameBut, NoLoc
  <2>3. ASSUME NEW c \in Contexts, Carries(c), Ended PROVE FALSE
    <3>1. bus # <<>> /\ bus' = Tail(bus) /\ Head(bus).op = "status" /\ Head(bus).by \in {"dsr", Nobody}
      BY <1>1, BusStatusBase
    <3>2. Head(bus) = bus[1] /\ 1 \in DOMAIN bus
      BY <3>1, AskedTail
    <3>3. Head(bus).by = "dsr"
      BY <2>3, <3>1, <3>2 DEF Ended, SomeLive, Live
    <3>4. pc["dsr"] = "waiting" /\ mode = "async"
      BY <2>3, <3>2, <3>3, ThreadsAre, CarrierIs DEF Base, Requests
    <3>5. Holds("dsr")
      BY <3>4, ThreadsAre DEF Holds, HoldsAt
    <3> QED BY <2>3, <3>5, ThreadsAre DEF Ended
  <2> QED BY <1>0, <2>1, <2>2, <2>3, CarriersMove
<1>2. CASE BusReadFails(t)
  <2>1. PICK l : Moved(t, "recycle", l) /\ l.done = <<>>
    BY <1>2, BusReadFailsBase
  <2>2. ~Ended
    <3>1. bus # <<>> /\ bus' = Tail(bus) /\ Head(bus).op = "read"
      BY <1>2, BusReadFailsBase
    <3> QED BY <3>1, HeadRead DEF Ended
  <2> QED BY <1>0, <2>1, <2>2, CarriersMove
<1>3. CASE BusRead(t)
  <2>1. bus # <<>> /\ bus' = Tail(bus) /\ Head(bus).op = "read"
    BY <1>3, BusReadBase
  <2>2. /\ ~Ended /\ Head(bus) = bus[1] /\ 1 \in DOMAIN bus
    BY <2>1, HeadRead DEF Ended
  <2>3. PICK w, l :
         /\ Moved(t, w, l) /\ l.last = Head(bus).last
         /\ \/ t = "dsr" /\ mode = "sync"
            \/ /\ t \in Contexts /\ mode = "async" /\ w = "complete" /\ CanComplete(t)
               /\ SameBut(l, [NoLoc EXCEPT !.done = SubSeq(mbox, 1, Head(bus).n),
                                           !.doneEp = Head(bus).ep, !.last = Head(bus).last])
    BY <1>3, BusReadBase
  <2>4. CASE t = "dsr" /\ mode = "sync"
    BY <1>0, <2>2, <2>3, <2>4, ThreadsAre, CarriersMove
  <2>5. CASE /\ t \in Contexts /\ mode = "async" /\ w = "complete" /\ CanComplete(t)
             /\ SameBut(l, [NoLoc EXCEPT !.done = SubSeq(mbox, 1, Head(bus).n),
                                         !.doneEp = Head(bus).ep, !.last = Head(bus).last])
    <3>1. ASSUME NEW c \in Contexts, Carries(c) PROVE FALSE
      BY <2>2, <2>5, <3>1 DEF Carriers, CanComplete, At
    <3>2. ASSUME NEW c \in Contexts, Carries(c)' PROVE c = t
      <4>1. c \in Threads
        BY ThreadsAre
      <4> QED BY <2>3, <3>1, <3>2, <4>1 DEF Moved, Carries
    <3>3. l.more /\ (Len(l.done) = 1 \/ l.last)
      <4>1. l.more = TRUE /\ l.done = SubSeq(mbox, 1, Head(bus).n)
        BY <2>5 DEF SameBut, NoLoc
      <4>2. Head(bus).n = 1 \/ Head(bus).last
        BY <2>1, <2>2 DEF Reading, OnBus
      <4>3. Head(bus).n <= Len(mbox)
        <5>1. Len(mbox) \in Nat
          BY DEF Base, Types
        <5>2. Head(bus).n \in 1..Len(mbox)
          BY <1>3, BusReadBase
        <5> QED BY <5>1, <5>2
      <4>4. Len(l.done) = Head(bus).n
        BY <2>1, <4>1, <4>3, ReadSorted
      <4> QED BY <2>3, <4>1, <4>2, <4>4
    <3>4. loc'[t] = l /\ pc'[t] = "complete"
      BY <2>3, <2>5 DEF Moved
    <3> QED BY <3>2, <3>3, <3>4 DEF Carriers
  <2> QED BY <2>3, <2>4, <2>5
<1> QED BY <1>1, <1>2, <1>3

LEMMA CarriersHandler ==
    ASSUME Base, Base', Hands, Carriers, NEW t \in Handlers, RecyclePkts(t) \/ AllocPackets(t) \/ FetchPackets(t)
    PROVE  Carriers'
<1>0. t \in Threads /\ mode' = mode /\ loc[t] \in LocalVars /\ Good(t, pc[t], loc[t])
  BY ThreadIs, ThreadsAre DEF RecyclePkts, AllocPackets, FetchPackets
<1>1. CASE RecyclePkts(t)
  <2>1. PICK w \in {"enable", Enabled(t)} : Moved(t, w, [loc[t] EXCEPT !.fetch = 0])
    BY <1>0, <1>1, RecyclePktsBase
  <2>2. PICK l : Moved(t, w, l) /\ l = [loc[t] EXCEPT !.fetch = 0]
    BY <2>1
  <2>3. l.done = loc[t].done /\ l.more = loc[t].more /\ pc[t] = "recycle"
    BY <1>0, <1>1, <2>2, RecyclePktsBase DEF LocalVars
  <2>4. UNCHANGED <<taken, bus>>
    BY <1>1 DEF RecyclePkts, irqVars
  <2>5. ASSUME NEW c \in Contexts, Carries(c), Ended PROVE Ended'
    <3>1. mode = "async"
      BY <2>5, CarrierIs
    <3>2. t \in Contexts
      BY <1>0, <2>3, <3>1, ThreadsAre DEF Good, MayBe, DsrPlaces
    <3>3. /\ w \in {"enable", "complete", "idle", "drain"}
          /\ w = "complete" => loc[t].done # <<>>
      BY <3>2, ThreadsAre DEF Enabled
    <3>4. w = "complete" => ~l.more
      BY <1>0, <2>3, <3>2, <3>3 DEF Good, HoldingContext
    <3>5. ~HoldsAt(t, w, l)
      BY <3>1, <3>3, <3>4 DEF HoldsAt
    <3> QED BY <1>0, <2>2, <2>4, <2>5, <3>1, <3>5, EndedKept
  <2>6. ASSUME t \in Contexts, l.done # <<>> PROVE Carries(t) /\ ~l.more /\ Ended
    <3>1. Carries(t)
      BY <2>3, <2>6 DEF Carries
    <3>2. ~loc[t].more
      BY <1>0, <2>3, <2>6 DEF Good, HoldingContext
    <3> QED BY <2>3, <2>6, <3>1, <3>2 DEF Carriers
  <2> QED BY <1>0, <2>2, <2>5, <2>6, CarriersMove
<1>2. ASSUME NEW w, NEW l, Moved(t, w, l), l.done = loc[t].done, pc[t] \in {"alloc", "fetch"},
             pc[t] = "fetch" => loc[t].fetch > 0
      PROVE  Carriers'
  <2>1. t \in Contexts => l.done = <<>>
    BY <1>0, <1>2 DEF Good, HoldingContext, Handling
  <2>2. ASSUME NEW c \in Contexts, Carries(c) PROVE ~Ended
    <3>1. mode = "async"
      BY <2>2, CarrierIs
    <3>2. Holds(t)
      BY <1>2, <3>1 DEF Holds, HoldsAt
    <3> QED BY <3>2 DEF Ended
  <2> QED BY <1>0, <1>2, <2>1, <2>2, CarriersMove
<1>3. CASE AllocPackets(t)
  <2>1. PICK l : Moved(t, "fetch", l) /\ l = [loc[t] EXCEPT !.la = 0, !.fetch = Allocates(loc[t]),
                                                            !.total = @ + Allocates(loc[t])]
    BY <1>0, <1>3, AllocPacketsBase
  <2>2. l.done = loc[t].done /\ pc[t] = "alloc"
    BY <1>0, <1>3, <2>1, AllocPacketsBase DEF LocalVars
  <2> QED BY <1>2, <2>1, <2>2
<1>4. CASE FetchPackets(t)
  <2>1. PICK n : Moved(t, IF mode = "sync" THEN "waiting" ELSE "fetch", [loc[t] EXCEPT !.fetch = @ - n])
    BY <1>0, <1>4, FetchPacketsBase
  <2>2. PICK w, l : Moved(t, w, l) /\ l = [loc[t] EXCEPT !.fetch = @ - n]
    BY <2>1
  <2>3. l.done = loc[t].done /\ pc[t] = "fetch" /\ loc[t].fetch > 0
    BY <1>0, <1>4, <2>2, FetchPacketsBase DEF LocalVars
  <2> QED BY <1>2, <2>2, <2>3
<1> QED BY <1>1, <1>3, <1>4

LEMMA CarriersContext ==
    ASSUME Base, Base', Chain, Hands, Reading, Contents, Carriers, NEW c \in Contexts,
           QueueIndication(c) \/ BadHeader(c) \/ TakesAll(c) \/ Indicate(c)
    PROVE  Carriers'
<1>0. /\ c \in Threads /\ c \in Handlers /\ mode = "async" /\ mode' = mode /\ loc[c] \in LocalVars
      /\ UNCHANGED <<taken, bus>> /\ loc[c].done \in Seq(Messages)
  <2>1. pc[c] # "idle" /\ mode' = mode /\ UNCHANGED <<taken, bus>>
    BY DEF QueueIndication, BadHeader, TakesAll, TakeIndications, Indicate, At, irqVars
  <2> QED BY <2>1, ContextIs, ThreadsAre DEF LocalVars
<1>1. pc[c] = "complete" => Carries(c)
  <2>1. pc[c] = "complete" => loc[c].done # <<>>
    BY Completing
  <2> QED BY <2>1 DEF Carries
<1>2. CASE QueueIndication(c)
  <2>1. PICK w : w = IF loc[c].more THEN "more" ELSE "drain"
    OBVIOUS
  <2>2. PICK l : Moved(c, w, l) /\ l = [loc[c] EXCEPT !.done = <<>>] /\ pc[c] = "complete"
    BY <1>2, <2>1, QueueIndicationBase
  <2>3. l.done = <<>>
    BY <1>0, <2>2 DEF LocalVars
  <2>4. \A d \in Contexts : Carries(d) => d = c
    BY <1>1, <2>2 DEF Carriers
  <2> QED BY <1>0, <2>2, <2>3, <2>4, CarriersMove
<1>3. CASE BadHeader(c)
  <2>1. PICK i \in DOMAIN loc[c].done :
            Moved(c, "recycle",
                      [loc[c] EXCEPT !.done = RemoveAt(@, i), !.fetch = 1, !.ep = loc[c].doneEp,
                                     !.la = 0, !.more = FALSE,
                                     !.doneEp = IF Len(loc[c].done) > 1 THEN @ ELSE NoEp])
    BY <1>3, BadHeaderBase
  <2>2. PICK l : /\ Moved(c, "recycle", l)
                 /\ l = [loc[c] EXCEPT !.done = RemoveAt(@, i), !.fetch = 1, !.ep = loc[c].doneEp,
                                     !.la = 0, !.more = FALSE,
                                     !.doneEp = IF Len(loc[c].done) > 1 THEN @ ELSE NoEp]
    BY <2>1
  <2>3. l.done = RemoveAt(loc[c].done, i) /\ ~l.more /\ pc[c] = "complete"
    BY <1>0, <1>3, <2>2, BadHeaderBase DEF LocalVars
  <2>4. \A d \in Contexts : Carries(d) => d = c
    BY <1>1, <2>3 DEF Carriers
  <2>5. ASSUME l.done # <<>> PROVE Ended'
    <3>1. Len(loc[c].done) # 1
      <4>1. Sorted(loc[c].done, loc[c].doneEp)
        BY <1>0 DEF Contents
      <4> QED BY <1>0, <2>3, <2>5, <4>1, SortedRemove
    <3>2. IF loc[c].more THEN loc[c].last ELSE Ended
      BY <1>1, <2>3, <3>1 DEF Carriers
    <3>3. CASE Ended
      <4>1. ~HoldsAt(c, "recycle", l)
        BY <1>0 DEF HoldsAt
      <4> QED BY <1>0, <2>2, <3>3, <4>1, EndedKept
    <3>4. CASE loc[c].more /\ loc[c].last
      <4>1. Holds(c)
        BY <1>0, <2>3, <3>4 DEF Holds, HoldsAt
      <4>2. ~SomeLive /\ taken /\ \A u \in Handlers : Holds(u) => u = c
        BY <1>0, <4>1 DEF Chain
      <4>3. NoReads
        BY <1>0, <2>3, <4>1 DEF Reading, OnBus, Asking
      <4>4. NoReads' /\ ~SomeLive' /\ taken'
        BY <1>0, <4>2, <4>3 DEF NoReads, SomeLive, Live
      <4>5. ASSUME NEW u \in Handlers PROVE ~Holds(u)'
        <5>1. u \in Threads
          BY ThreadsAre
        <5>2. CASE u = c
          BY <1>0, <2>2, <5>2 DEF Moved, Holds, HoldsAt
        <5>3. CASE u # c
          BY <1>0, <2>2, <4>2, <5>1, <5>3, ZenonT(30) DEF Moved, Holds, HoldsAt
        <5> QED BY <5>2, <5>3
      <4> QED BY <4>4, <4>5 DEF Ended
    <3> QED BY <3>2, <3>3, <3>4
  <2> QED BY <1>0, <1>1, <2>2, <2>3, <2>4, <2>5, CarriersMove
<1>4. ASSUME NEW w \in {"indicate", "drain"}, NEW l, Moved(c, w, l), w = "indicate" \/ l.done = <<>> PROVE Carriers'
  <2>1. ASSUME Ended PROVE Ended'
    <3>1. ~HoldsAt(c, w, l)
      BY <1>0 DEF HoldsAt
    <3> QED BY <1>0, <1>4, <2>1, <3>1, EndedKept
  <2> QED BY <1>0, <1>4, <2>1, CarriersMove
<1>5. CASE TakesAll(c)
  BY <1>4, <1>5, TakeIndicationsBase DEF TakesAll
<1>6. CASE Indicate(c)
  <2>1. PICK l : Moved(c, "drain", l) /\ l = [loc[c] EXCEPT !.done = <<>>]
    BY <1>6, IndicateBase
  <2>2. l.done = <<>>
    BY <1>0, <2>1 DEF LocalVars
  <2> QED BY <1>4, <2>1, <2>2
<1> QED BY <1>2, <1>3, <1>5, <1>6

LEMMA NextCarriers ==
    ASSUME Base, Base', Chain, Hands, Reading, Contents, Carriers, [Next]_vars
    PROVE  Carriers'
<1>1. CASE Still
  BY <1>1, CarriersStill
<1>2. ASSUME NEW t \in Threads, NEW w, NEW l, Calm(t, w, l) PROVE Carriers'
  BY <1>2, CarriersCalm
<1>3. ASSUME NEW t \in Threads, NEW w, NEW l, Moved(t, w, l), UNCHANGED <<mode, taken, bus>>, t \notin Contexts,
             mode = "async" => t \notin Handlers
      PROVE  Carriers'
  <2>1. ASSUME NEW c \in Contexts, Carries(c), Ended PROVE Ended'
    <3>1. mode = "async"
      BY <2>1, CarrierIs
    <3> QED BY <1>3, <2>1, <3>1, EndedKept
  <2> QED BY <1>3, <2>1, CarriersMove
<1>4. ASSUME NEW e \in Eps, TargetSends(e) PROVE Carriers'
  <2>1. Moved("user", pc["user"], loc["user"]) /\ UNCHANGED <<mode, taken, bus>>
    BY <1>4 DEF TargetSends, irqVars, Moved
  <2> QED BY <1>3, <2>1, ThreadsAre
<1>5. ASSUME NEW e \in Eps, AddReceivePkts(e) PROVE Carriers'
  <2>1. PICK w : Moved("user", w, loc["user"]) /\ UNCHANGED <<mode, taken, bus>>
    BY <1>5, AddReceivePktsBase DEF AddReceivePkts, irqVars
  <2> QED BY <1>3, <2>1, ThreadsAre
<1>6. CASE IndicateSync
  <2>1. PICK l : Moved("dsr", "process", l) /\ UNCHANGED <<mode, taken, bus>> /\ mode = "sync"
    BY <1>6, IndicateSyncBase DEF IndicateSync, irqVars
  <2> QED BY <1>3, <2>1, ThreadsAre
<1>7. CASE BadHeaderSync
  <2>1. PICK l : Moved("dsr", "recycle", l) /\ UNCHANGED <<mode, taken, bus>> /\ mode = "sync"
    BY <1>7, BadHeaderSyncBase DEF BadHeaderSync, irqVars
  <2> QED BY <1>3, <2>1, ThreadsAre
<1>8. CASE Busy
  BY <1>4, <1>5, <1>6, <1>7, <1>8, CarriersBus, CarriersHandler, CarriersContext DEF Busy
<1> QED BY <1>1, <1>2, <1>8, NextIs

LEMMA InitCarriers == Init => Carriers
  BY ThreadsAre DEF Init, Carriers, Carries, NoLoc

-----------------------------------------------------------------------------
(***************************************************************************)
(* The messages of an endpoint on their way, from the user back to the     *)
(* mailbox: indicated, in the hands of the drainer, on the queue, in the   *)
(* hands of another handler, in the mailbox.  Further on in this line the  *)
(* numbers are greater, and without failures none is missing.              *)
(***************************************************************************)
Has(t, e, i, n) == loc[t].doneEp = e /\ i \in DOMAIN loc[t].done /\ n = loc[t].done[i].num

Where(e, r, i, n) ==
    \/ r = 0 /\ i \in DOMAIN indicated[e] /\ n = indicated[e][i]
    \/ r = 1 /\ \E t \in Handlers : pc[t] = "indicate" /\ Has(t, e, i, n)
    \/ r = 2 /\ i \in DOMAIN indication[e] /\ n = indication[e][i].num
    \/ r = 3 /\ \E t \in Handlers : pc[t] # "indicate" /\ Has(t, e, i, n)
    \/ r = 4 /\ i \in DOMAIN mbox /\ mbox[i].ep = e /\ n = mbox[i].num

Before(r, i, q, j) == r < q \/ (r = q /\ i < j)

Lined(e) ==
    /\ \A r, i, n : Where(e, r, i, n) => n <= sent[e]
    /\ \A r, i, n, q, j, m : Where(e, r, i, n) /\ Where(e, q, j, m) =>
         /\ Before(r, i, q, j) => n < m
         /\ r = q /\ i = j => n = m
    /\ faults = 0 => \A n \in 1..sent[e] : \E r, i : Where(e, r, i, n)

LEMMA SeqElement ==
    ASSUME NEW S, NEW q \in Seq(S), NEW i \in DOMAIN q
    PROVE  q[i] \in S /\ i \in Nat /\ i > 0
  OBVIOUS

LEMMA WhereType ==
    ASSUME Base, NEW e \in Eps, NEW r, NEW i, NEW n, Where(e, r, i, n)
    PROVE  r \in 0..4 /\ i \in Nat /\ i > 0 /\ n \in Nat /\ n > 0
<1>0. \A m : m \in 1..MaxMsgs => m \in Nat /\ m > 0
  BY Bounds
<1>1. ASSUME NEW q \in Seq(Messages), i \in DOMAIN q PROVE i \in Nat /\ i > 0 /\ q[i].num \in Nat /\ q[i].num > 0
  <2>1. q[i] \in Messages /\ i \in Nat /\ i > 0
    BY <1>1
  <2> QED BY <1>0, <2>1 DEF Messages
<1>2. CASE r = 0 /\ i \in DOMAIN indicated[e] /\ n = indicated[e][i]
  <2>1. indicated[e] \in Seq(1..MaxMsgs)
    BY DEF Base, Types
  <2>2. PICK q \in Seq(1..MaxMsgs) : q = indicated[e]
    BY <2>1
  <2>3. \A k \in DOMAIN q : q[k] \in 1..MaxMsgs /\ k \in Nat /\ k > 0
    BY SeqElement
  <2> QED BY <1>0, <1>2, <2>2, <2>3
<1>3. ASSUME NEW t \in Handlers, Has(t, e, i, n) PROVE i \in Nat /\ i > 0 /\ n \in Nat /\ n > 0
  <2>1. loc[t].done \in Seq(Messages)
    BY ThreadIs, ThreadsAre DEF LocalVars
  <2> QED BY <1>1, <1>3, <2>1 DEF Has
<1>4. CASE i \in DOMAIN indication[e] /\ n = indication[e][i].num
  <2>1. indication[e] \in Seq(Messages)
    BY DEF Base, Types
  <2> QED BY <1>1, <1>4, <2>1 DEF Where
<1>5. CASE i \in DOMAIN mbox /\ n = mbox[i].num
  <2>1. mbox \in Seq(Messages)
    BY DEF Base, Types
  <2> QED BY <1>1, <1>5, <2>1 DEF Where
<1> QED BY <1>2, <1>3, <1>4, <1>5 DEF Where

LEMMA WhereTypeNext ==
    ASSUME Base', NEW e \in Eps, NEW r, NEW i, NEW n, Where(e, r, i, n)'
    PROVE  r \in 0..4 /\ i \in Nat /\ i > 0 /\ n \in Nat /\ n > 0
<1>0. \A m : m \in 1..MaxMsgs => m \in Nat /\ m > 0
  BY Bounds
<1>1. ASSUME NEW q \in Seq(Messages), i \in DOMAIN q PROVE i \in Nat /\ i > 0 /\ q[i].num \in Nat /\ q[i].num > 0
  <2>1. q[i] \in Messages /\ i \in Nat /\ i > 0
    BY <1>1
  <2> QED BY <1>0, <2>1 DEF Messages
<1>2. CASE r = 0 /\ i \in DOMAIN indicated'[e] /\ n = indicated'[e][i]
  <2>1. indicated'[e] \in Seq(1..MaxMsgs)
    BY DEF Base, Types
  <2>2. PICK q \in Seq(1..MaxMsgs) : q = indicated'[e]
    BY <2>1
  <2>3. \A k \in DOMAIN q : q[k] \in 1..MaxMsgs /\ k \in Nat /\ k > 0
    BY SeqElement
  <2> QED BY <1>0, <1>2, <2>2, <2>3
<1>3. ASSUME NEW t \in Handlers, Has(t, e, i, n)' PROVE i \in Nat /\ i > 0 /\ n \in Nat /\ n > 0
  <2>1. loc'[t].done \in Seq(Messages)
    <3>1. loc'[t] \in LocalVars
      BY ThreadsAre DEF Base, Types
    <3> QED BY <3>1 DEF LocalVars
  <2> QED BY <1>1, <1>3, <2>1 DEF Has
<1>4. CASE i \in DOMAIN indication'[e] /\ n = indication'[e][i].num
  <2>1. indication'[e] \in Seq(Messages)
    BY DEF Base, Types
  <2> QED BY <1>1, <1>4, <2>1 DEF Where
<1>5. CASE i \in DOMAIN mbox' /\ n = mbox'[i].num
  <2>1. mbox' \in Seq(Messages)
    BY DEF Base, Types
  <2> QED BY <1>1, <1>5, <2>1 DEF Where
<1> QED BY <1>2, <1>3, <1>4, <1>5 DEF Where

\* Nothing moves, or messages are dropped where something failed.
LEMMA LineSame ==
    ASSUME Base, Base', NEW e \in Eps, Lined(e), sent'[e] = sent[e],
           \A r, i, n : Where(e, r, i, n)' => Where(e, r, i, n),
           faults' = 0 => faults = 0 /\ \A r, i, n : Where(e, r, i, n) => Where(e, r, i, n)'
    PROVE  Lined(e)'
<1>1. \A r, i, n : Where(e, r, i, n)' => n <= sent'[e]
  BY DEF Lined
<1>2. \A r, i, n, q, j, m : Where(e, r, i, n)' /\ Where(e, q, j, m)' =>
         /\ Before(r, i, q, j) => n < m
         /\ r = q /\ i = j => n = m
  <2> SUFFICES ASSUME NEW r, NEW i, NEW n, NEW q, NEW j, NEW m, Where(e, r, i, n)', Where(e, q, j, m)'
               PROVE  (Before(r, i, q, j) => n < m) /\ (r = q /\ i = j => n = m)
    OBVIOUS
  <2>1. Where(e, r, i, n) /\ Where(e, q, j, m)
    OBVIOUS
  <2> QED BY <2>1 DEF Lined
<1>3. ASSUME faults' = 0, NEW n \in 1..sent'[e] PROVE \E r, i : Where(e, r, i, n)'
  <2>1. PICK r, i : Where(e, r, i, n)
    BY <1>3 DEF Lined
  <2> QED BY <1>3, <2>1
<1> HIDE DEF Where
<1> QED BY <1>1, <1>2, <1>3 DEF Lined, Before

\* A message is taken out of a handler's hands.
LEMMA LineRemoved ==
    ASSUME Base, Base', NEW e \in Eps, Lined(e), sent'[e] = sent[e], faults' # 0, NEW x \in Nat,
           \A r, i, n : Where(e, r, i, n)' => Where(e, r, IF r = 3 /\ i >= x THEN i + 1 ELSE i, n)
    PROVE  Lined(e)'
<1>1. \A r, i, n : Where(e, r, i, n)' => n <= sent'[e]
  BY DEF Lined
<1>2. \A r, i, n, q, j, m : Where(e, r, i, n)' /\ Where(e, q, j, m)' =>
         /\ Before(r, i, q, j) => n < m
         /\ r = q /\ i = j => n = m
  <2> SUFFICES ASSUME NEW r, NEW i, NEW n, NEW q, NEW j, NEW m, Where(e, r, i, n)', Where(e, q, j, m)'
               PROVE  (Before(r, i, q, j) => n < m) /\ (r = q /\ i = j => n = m)
    OBVIOUS
  <2>1. PICK i2 : i2 = IF r = 3 /\ i >= x THEN i + 1 ELSE i
    OBVIOUS
  <2>2. PICK j2 : j2 = IF q = 3 /\ j >= x THEN j + 1 ELSE j
    OBVIOUS
  <2>3. Where(e, r, i2, n) /\ Where(e, q, j2, m)
    BY <2>1, <2>2
  <2>4. i \in Nat /\ j \in Nat /\ r \in 0..4 /\ q \in 0..4
    BY WhereTypeNext
  <2>5. Before(r, i, q, j) => Before(r, i2, q, j2)
    BY <2>1, <2>2, <2>4 DEF Before
  <2>6. r = q /\ i = j => i2 = j2
    BY <2>1, <2>2
  <2> QED BY <2>3, <2>5, <2>6 DEF Lined
<1> QED BY <1>1, <1>2 DEF Lined, Before

\* The target sends one more.
LEMMA LineSent ==
    ASSUME Base, Base', NEW e \in Eps, Lined(e), sent'[e] = sent[e] + 1, faults' = faults, NEW x \in Nat,
           \A r, i, n : Where(e, r, i, n)' <=> Where(e, r, i, n) \/ (r = 4 /\ i = x /\ n = sent'[e]),
           \A i, n : Where(e, 4, i, n) => i < x
    PROVE  Lined(e)'
<1>0. sent[e] \in Nat
  BY DEF Base, Types
<1>1. ASSUME NEW r, NEW i, NEW n, Where(e, r, i, n)' PROVE n <= sent'[e]
  <2>1. CASE Where(e, r, i, n)
    <3>1. n <= sent[e] /\ n \in Nat
      BY <2>1, WhereType DEF Lined
    <3> QED BY <1>0, <3>1
  <2>2. CASE n = sent'[e]
    BY <1>0, <2>2
  <2> QED BY <1>1, <2>1, <2>2
<1>2. \A r, i, n, q, j, m : Where(e, r, i, n)' /\ Where(e, q, j, m)' =>
         /\ Before(r, i, q, j) => n < m
         /\ r = q /\ i = j => n = m
  <2> SUFFICES ASSUME NEW r, NEW i, NEW n, NEW q, NEW j, NEW m, Where(e, r, i, n)', Where(e, q, j, m)'
               PROVE  (Before(r, i, q, j) => n < m) /\ (r = q /\ i = j => n = m)
    OBVIOUS
  <2>0. i \in Nat /\ j \in Nat /\ r \in 0..4 /\ q \in 0..4
    BY WhereTypeNext
  <2>1. CASE Where(e, r, i, n) /\ Where(e, q, j, m)
    BY <2>1 DEF Lined
  <2>2. CASE Where(e, r, i, n) /\ (q = 4 /\ j = x /\ m = sent'[e])
    <3>1. n <= sent[e] /\ n \in Nat /\ (r = 4 => i < x)
      BY <2>2, WhereType DEF Lined
    <3>2. n < m
      BY <1>0, <2>2, <3>1
    <3>3. ~(r = q /\ i = j)
      BY <2>2, <3>1
    <3> QED BY <3>2, <3>3
  <2>3. CASE (r = 4 /\ i = x /\ n = sent'[e]) /\ Where(e, q, j, m)
    <3>1. q = 4 => j < x
      BY <2>3
    <3>2. ~Before(r, i, q, j) /\ ~(r = q /\ i = j)
      BY <2>0, <2>3, <3>1 DEF Before
    <3> QED BY <3>2
  <2>4. CASE (r = 4 /\ i = x /\ n = sent'[e]) /\ (q = 4 /\ j = x /\ m = sent'[e])
    BY <2>0, <2>4 DEF Before
  <2> QED BY <2>1, <2>2, <2>3, <2>4
<1>3. ASSUME faults' = 0, NEW n \in 1..sent'[e] PROVE \E r, i : Where(e, r, i, n)'
  <2>1. CASE n = sent'[e]
    BY <2>1
  <2>2. CASE n # sent'[e]
    <3>1. n \in 1..sent[e]
      BY <1>0, <1>3, <2>2
    <3> QED BY <1>3, <3>1 DEF Lined
  <2> QED BY <2>1, <2>2
<1> HIDE DEF Where
<1> QED BY <1>1, <1>2, <1>3 DEF Lined, Before

\* The first k messages at place b come to the end of place a, with nothing
\* in between.  Old tells where the message at r, i was.
Old(a, b, h, k, r, i, q, j) ==
    \/ r \notin {a, b} /\ q = r /\ j = i
    \/ r = a /\ i <= h /\ q = a /\ j = i
    \/ r = a /\ i > h /\ i <= h + k /\ q = b /\ j = i - h
    \/ r = b /\ q = b /\ j = i + k

\* The first k messages of place b come behind the h of place a.
Advances(e, a, b, h, k) ==
    /\ \A r, i, n : r \notin {a, b} => (Where(e, r, i, n)' <=> Where(e, r, i, n))
    /\ \A r, i, n : a < r /\ r < b => ~Where(e, r, i, n)
    /\ \A i, n : Where(e, a, i, n)' => \/ i <= h /\ Where(e, a, i, n)
                                       \/ i > h /\ i <= h + k /\ Where(e, b, i - h, n)
    /\ \A i, n : Where(e, b, i, n)' => Where(e, b, i + k, n)
    /\ \A i, n : Where(e, a, i, n) => Where(e, a, i, n)'
    /\ \A i, n : Where(e, b, i, n) => IF i <= k THEN Where(e, a, i + h, n)' ELSE Where(e, b, i - k, n)'

LEMMA LineMoved ==
    ASSUME Base, Base', NEW e \in Eps, Lined(e), sent'[e] = sent[e], faults' = faults,
           NEW a \in 0..4, NEW b \in 0..4, a < b, NEW h \in Nat, NEW k \in Nat, Advances(e, a, b, h, k)
    PROVE  Lined(e)'
<1>0. /\ \A r, i, n : r \notin {a, b} => (Where(e, r, i, n)' <=> Where(e, r, i, n))
      /\ \A r, i, n : a < r /\ r < b => ~Where(e, r, i, n)
      /\ \A i, n : Where(e, a, i, n)' => \/ i <= h /\ Where(e, a, i, n)
                                         \/ i > h /\ i <= h + k /\ Where(e, b, i - h, n)
      /\ \A i, n : Where(e, b, i, n)' => Where(e, b, i + k, n)
      /\ \A i, n : Where(e, a, i, n) => Where(e, a, i, n)'
      /\ \A i, n : Where(e, b, i, n) => IF i <= k THEN Where(e, a, i + h, n)' ELSE Where(e, b, i - k, n)'
  <2> HIDE DEF Where
  <2> QED BY DEF Advances
<1>1. ASSUME NEW r, NEW i, NEW n, Where(e, r, i, n)'
      PROVE  \E q, j : Where(e, q, j, n) /\ Old(a, b, h, k, r, i, q, j)
  <2>1. CASE r \notin {a, b}
    BY <1>0, <1>1, <2>1 DEF Old
  <2>2. CASE r = a
    BY <1>0, <1>1, <2>2 DEF Old
  <2>3. CASE r = b
    BY <1>0, <1>1, <2>3 DEF Old
  <2> QED BY <2>1, <2>2, <2>3
<1>2. \A r, i, n : Where(e, r, i, n)' => n <= sent'[e]
  BY <1>1 DEF Lined
<1>3. \A r, i, n, q, j, m : Where(e, r, i, n)' /\ Where(e, q, j, m)' =>
         /\ Before(r, i, q, j) => n < m
         /\ r = q /\ i = j => n = m
  <2> SUFFICES ASSUME NEW r, NEW i, NEW n, NEW q, NEW j, NEW m, Where(e, r, i, n)', Where(e, q, j, m)'
               PROVE  (Before(r, i, q, j) => n < m) /\ (r = q /\ i = j => n = m)
    OBVIOUS
  <2>0. i \in Nat /\ j \in Nat /\ r \in 0..4 /\ q \in 0..4 /\ i > 0 /\ j > 0
    BY WhereTypeNext
  <2>1. PICK r2, i2 : Where(e, r2, i2, n) /\ Old(a, b, h, k, r, i, r2, i2)
    BY <1>1
  <2>2. PICK q2, j2 : Where(e, q2, j2, m) /\ Old(a, b, h, k, q, j, q2, j2)
    BY <1>1
  <2>3. ~(a < r2 /\ r2 < b) /\ ~(a < q2 /\ q2 < b)
    BY <1>0, <2>1, <2>2
  <2>4. Before(r, i, q, j) => Before(r2, i2, q2, j2)
    BY <2>0, <2>1, <2>2, <2>3 DEF Old, Before
  <2>5. r = q /\ i = j => r2 = q2 /\ i2 = j2
    BY <2>0, <2>1, <2>2 DEF Old
  <2> QED BY <2>1, <2>2, <2>4, <2>5 DEF Lined
<1>4. ASSUME faults' = 0, NEW n \in 1..sent'[e] PROVE \E r, i : Where(e, r, i, n)'
  <2>1. PICK r, i : Where(e, r, i, n)
    BY <1>4 DEF Lined
  <2>2. CASE r \notin {a, b} \/ r = a
    BY <1>0, <2>1, <2>2
  <2>3. CASE r = b
    <3>1. IF i <= k THEN Where(e, a, i + h, n)' ELSE Where(e, b, i - k, n)'
      BY <1>0, <2>1, <2>3
    <3> QED BY <3>1
  <2> QED BY <2>2, <2>3
<1> HIDE DEF Where
<1> QED BY <1>2, <1>3, <1>4 DEF Lined, Before

\* Message n of endpoint e is the i-th of those in locals l.
In(l, e, i, n) == l.doneEp = e /\ i \in DOMAIN l.done /\ n = l.done[i].num

\* And those in the hands of the other handlers.
Drained1(t, e, i, n) == \E u \in Handlers \ {t} : pc[u] = "indicate" /\ Has(u, e, i, n)
Carried3(t, e, i, n) == \E u \in Handlers \ {t} : pc[u] # "indicate" /\ Has(u, e, i, n)

LEMMA PlacesMoved ==
    ASSUME NEW t \in Threads, NEW w, NEW l, Moved(t, w, l), NEW e, NEW i, NEW n
    PROVE  /\ Where(e, 1, i, n) <=> (t \in Handlers /\ pc[t] = "indicate" /\ In(loc[t], e, i, n)) \/ Drained1(t, e, i, n)
           /\ Where(e, 3, i, n) <=> (t \in Handlers /\ pc[t] # "indicate" /\ In(loc[t], e, i, n)) \/ Carried3(t, e, i, n)
           /\ Where(e, 1, i, n)' <=> (t \in Handlers /\ w = "indicate" /\ In(l, e, i, n)) \/ Drained1(t, e, i, n)
           /\ Where(e, 3, i, n)' <=> (t \in Handlers /\ w # "indicate" /\ In(l, e, i, n)) \/ Carried3(t, e, i, n)
<1>1. \A u \in Handlers : u \in Threads
  BY ThreadsAre
<1>2. \A u \in Handlers : /\ Has(u, e, i, n) <=> In(loc[u], e, i, n)
                          /\ Has(u, e, i, n)' <=> In(loc'[u], e, i, n)
  BY DEF Has, In
<1>3. /\ pc'[t] = w /\ loc'[t] = l
      /\ \A u \in Threads : u # t => pc'[u] = pc[u] /\ loc'[u] = loc[u]
  BY DEF Moved
<1>4. /\ Where(e, 1, i, n) <=> \E u \in Handlers : pc[u] = "indicate" /\ Has(u, e, i, n)
      /\ Where(e, 3, i, n) <=> \E u \in Handlers : pc[u] # "indicate" /\ Has(u, e, i, n)
      /\ Where(e, 1, i, n)' <=> \E u \in Handlers : pc'[u] = "indicate" /\ Has(u, e, i, n)'
      /\ Where(e, 3, i, n)' <=> \E u \in Handlers : pc'[u] # "indicate" /\ Has(u, e, i, n)'
  BY DEF Where
<1> HIDE DEF Has, In, Where
<1> QED BY <1>1, <1>2, <1>3, <1>4 DEF Drained1, Carried3

LEMMA PlacesElse ==
    ASSUME NEW e, NEW r, NEW i, NEW n
    PROVE  /\ Where(e, r, i, n) => r \in 0..4
           /\ Where(e, r, i, n)' => r \in 0..4
           /\ indicated'[e] = indicated[e] => (Where(e, 0, i, n)' <=> Where(e, 0, i, n))
           /\ indication'[e] = indication[e] => (Where(e, 2, i, n)' <=> Where(e, 2, i, n))
           /\ mbox' = mbox => (Where(e, 4, i, n)' <=> Where(e, 4, i, n))
  BY DEF Where

\* A thread moves on with the messages it has, or without some.
LEMMA LineKept ==
    ASSUME Base, Base', NEW e \in Eps, Lined(e), NEW t \in Threads, NEW w, NEW l, Moved(t, w, l),
           sent'[e] = sent[e], mbox' = mbox, indicated'[e] = indicated[e], indication'[e] = indication[e],
           t \in Handlers => \A i, n : In(l, e, i, n) => In(loc[t], e, i, n) /\ (w = "indicate" <=> pc[t] = "indicate"),
           faults' = 0 => /\ faults = 0
                          /\ t \in Handlers =>
                               \A i, n : In(loc[t], e, i, n) => In(l, e, i, n) /\ (w = "indicate" <=> pc[t] = "indicate")
    PROVE  Lined(e)'
<1> HIDE DEF In, Where
<1>1. ASSUME NEW r, NEW i, NEW n, Where(e, r, i, n)' PROVE Where(e, r, i, n)
  <2>1. CASE r \in {0, 2, 4}
    BY <1>1, <2>1, PlacesElse
  <2>2. CASE r = 1
    BY <1>1, <2>2, PlacesMoved
  <2>3. CASE r = 3
    BY <1>1, <2>3, PlacesMoved
  <2> QED BY <1>1, <2>1, <2>2, <2>3, PlacesElse
<1>2. ASSUME faults' = 0, NEW r, NEW i, NEW n, Where(e, r, i, n) PROVE Where(e, r, i, n)'
  <2>1. CASE r \in {0, 2, 4}
    BY <1>2, <2>1, PlacesElse
  <2>2. CASE r = 1
    BY <1>2, <2>2, PlacesMoved
  <2>3. CASE r = 3
    BY <1>2, <2>3, PlacesMoved
  <2> QED BY <1>2, <2>1, <2>2, <2>3, PlacesElse
<1> QED BY <1>1, <1>2, LineSame

LEMMA LineStill ==
    ASSUME Base, Base', NEW e \in Eps, Lined(e), Still
    PROVE  Lined(e)'
<1>1. "user" \in Threads /\ "user" \notin Handlers
  BY ThreadsAre
<1>2. /\ UNCHANGED <<sent, mbox, indicated, indication, faults>> /\ Moved("user", pc["user"], loc["user"])
  BY DEF Still, Untouched, Moved
<1> QED BY <1>1, <1>2, LineKept

LEMMA LineCalm ==
    ASSUME Base, Base', Hands, NEW e \in Eps, Lined(e), NEW t \in Threads, NEW w, NEW l, Calm(t, w, l)
    PROVE  Lined(e)'
<1>1. /\ Moved(t, w, l) /\ UNCHANGED <<sent, mbox, indicated, indication, faults>>
      /\ Carried(t, l) /\ CalmPlaces(t, w, l)
  BY DEF Calm, Untouched
<1>2. (w = "indicate" <=> pc[t] = "indicate")
  BY <1>1 DEF CalmPlaces
<1>3. ASSUME t \in Handlers PROVE l.done = loc[t].done /\ (l.done # <<>> => l.doneEp = loc[t].doneEp)
  <2>1. CASE l = NoLoc /\ pc[t] \in {"pending", "return", "others", "events", "drain"}
    <3>1. l.done = <<>>
      BY <2>1 DEF NoLoc
    <3>2. loc[t].done = <<>>
      <4>1. CASE t \in Contexts
        <5>1. HoldingContext(pc[t], loc[t]) /\ MayBe(t, pc[t])
          BY <4>1, ThreadIs DEF Good
        <5> QED BY <2>1, <4>1, <5>1 DEF HoldingContext, Handling, MayBe, ContextPlaces
      <4>2. CASE t = "dsr"
        BY <2>1, <4>2 DEF Hands, WaitsForRead
      <4> QED BY <1>3, <4>1, <4>2, ThreadsAre
    <3> QED BY <3>1, <3>2
  <2> QED BY <1>1, <2>1 DEF Carried
<1>4. ASSUME t \in Handlers PROVE \A i, n : In(l, e, i, n) <=> In(loc[t], e, i, n)
  BY <1>3, <1>4 DEF In
<1> QED BY <1>1, <1>2, <1>4, LineKept

LEMMA ConcatPlaces ==
    ASSUME NEW S, NEW p \in Seq(S), NEW d \in Seq(S), NEW h \in Nat, h = Len(p), NEW k \in Nat, k = Len(d)
    PROVE  /\ p \o d \in Seq(S)
           /\ \A i \in DOMAIN (p \o d) :
                /\ i \in Nat /\ i > 0 /\ i <= h + k
                /\ i <= h => i \in DOMAIN p /\ (p \o d)[i] = p[i]
                /\ i > h => i - h \in DOMAIN d /\ (p \o d)[i] = d[i - h]
           /\ \A i \in DOMAIN p : i \in Nat /\ i <= h /\ i \in DOMAIN (p \o d) /\ (p \o d)[i] = p[i]
           /\ \A i \in DOMAIN d : i \in Nat /\ i > 0 /\ i <= k /\ i + h \in DOMAIN (p \o d) /\ (p \o d)[i + h] = d[i]
<1>1. /\ p \o d \in Seq(S) /\ DOMAIN (p \o d) = 1..(h + k) /\ DOMAIN p = 1..h /\ DOMAIN d = 1..k
      /\ \A i \in 1..(h + k) : (p \o d)[i] = IF i <= h THEN p[i] ELSE d[i - h]
  OBVIOUS
<1> QED BY <1>1

\* Who queues or drains: nobody else has messages at that place.
LEMMA OnlyCarrier ==
    ASSUME Base, Hands, Carriers, NEW c \in Contexts, Carries(c), NEW e, NEW i, NEW n
    PROVE  ~Carried3(c, e, i, n)
<1> SUFFICES ASSUME NEW u \in Handlers \ {c}, pc[u] # "indicate", Has(u, e, i, n) PROVE FALSE
  BY DEF Carried3
<1>1. loc[u].done # <<>>
  BY DEF Has
<1>2. CASE u \in Contexts
  BY <1>1, <1>2 DEF Carriers, Carries
<1>3. CASE u = "dsr"
  <2>1. mode = "async"
    BY CarrierIs
  <2> QED BY <1>1, <1>3, <2>1 DEF Hands
<1> QED BY <1>2, <1>3, ThreadsAre

LEMMA OnlyDrainer ==
    ASSUME Base, Draining, NEW c \in Contexts, NEW e \in Eps, NEW i, NEW n,
           Drains(c, e) \/ ~draining[e]
    PROVE  ~Drained1(c, e, i, n)
<1> SUFFICES ASSUME NEW u \in Handlers \ {c}, pc[u] = "indicate", Has(u, e, i, n) PROVE FALSE
  BY DEF Drained1
<1>1. u \in Contexts
  <2>1. u \in Threads /\ MayBe(u, pc[u])
    BY ThreadIs, ThreadsAre DEF Good
  <2>2. u # "dsr"
    BY <2>1 DEF MayBe, DsrPlaces, SyncPlaces
  <2> QED BY <2>2, ThreadsAre
<1>2. HoldingContext(pc[u], loc[u])
  BY <1>1, ContextIs
<1>3. Drains(u, e)
  BY <1>2 DEF HoldingContext, Drains, DrainsAt, Has
<1> QED BY <1>1, <1>3 DEF Draining

-----------------------------------------------------------------------------
LEMMA LineSends ==
    ASSUME Base, Base', NEW e \in Eps, Lined(e), NEW m \in Eps, TargetSends(m)
    PROVE  Lined(e)'
<1>1. /\ UNCHANGED <<indicated, indication, pc, loc, faults>>
      /\ sent' = [sent EXCEPT ![m] = @ + 1]
      /\ mbox' = Append(mbox, [ep |-> m, num |-> sent[m] + 1])
  BY DEF TargetSends, indVars
<1>2. sent \in [Eps -> Nat] /\ mbox \in Seq(Messages)
  BY DEF Base, Types
<1>3. PICK s \in Nat : s = sent[m]
  BY <1>2
<1>4. PICK x \in Nat : x = Len(mbox) + 1
  BY <1>2
<1>5. PICK y : y = [ep |-> m, num |-> s + 1]
  OBVIOUS
<1>6. /\ DOMAIN mbox' = DOMAIN mbox \cup {x} /\ mbox'[x] = y /\ (\A i \in DOMAIN mbox : mbox'[i] = mbox[i] /\ i < x)
  <2>1. mbox' = Append(mbox, y)
    BY <1>1, <1>3, <1>5
  <2> QED BY <1>2, <1>4, <2>1
<1>7. ASSUME NEW i, NEW n
      PROVE  Where(e, 4, i, n)' <=> Where(e, 4, i, n) \/ (i = x /\ e = m /\ n = s + 1)
  <2>1. Where(e, 4, i, n) <=> i \in DOMAIN mbox /\ mbox[i].ep = e /\ n = mbox[i].num
    BY DEF Where
  <2>2. Where(e, 4, i, n)' <=> i \in DOMAIN mbox' /\ mbox'[i].ep = e /\ n = mbox'[i].num
    BY DEF Where
  <2>3. y.ep = m /\ y.num = s + 1
    BY <1>5
  <2>4. x \notin DOMAIN mbox
    BY <1>4, <1>6
  <2>5. CASE i = x
    BY <1>6, <2>1, <2>2, <2>3, <2>4, <2>5
  <2>6. CASE i # x
    BY <1>6, <2>1, <2>2, <2>6
  <2> QED BY <2>5, <2>6
<1>8. ASSUME NEW r, NEW i, NEW n, r # 4 PROVE Where(e, r, i, n)' <=> Where(e, r, i, n)
  BY <1>1, <1>8 DEF Where, Has
<1>9. \A i, n : Where(e, 4, i, n) => i < x
  BY <1>6 DEF Where
<1> HIDE DEF Where
<1>10. CASE e = m
  <2>1. sent'[e] = sent[e] + 1
    BY <1>1, <1>2, <1>10
  <2>2. \A r, i, n : Where(e, r, i, n)' <=> Where(e, r, i, n) \/ (r = 4 /\ i = x /\ n = sent'[e])
    BY <1>3, <1>7, <1>8, <1>10, <2>1
  <2> QED BY <1>1, <1>9, <2>1, <2>2, LineSent
<1>11. CASE e # m
  <2>1. sent'[e] = sent[e]
    BY <1>1, <1>2, <1>11
  <2>2. \A r, i, n : Where(e, r, i, n)' <=> Where(e, r, i, n)
    BY <1>7, <1>8, <1>11
  <2> QED BY <1>1, <2>1, <2>2, LineSame
<1> QED BY <1>10, <1>11

\* Steps that leave what the threads have to hand out, or lose some of it.
LEMMA LineAdds ==
    ASSUME Base, Base', NEW e \in Eps, Lined(e), NEW m \in Eps, AddReceivePkts(m)
    PROVE  Lined(e)'
<1>1. PICK w : Moved("user", w, loc["user"])
  BY AddReceivePktsBase
<1>2. UNCHANGED <<sent, mbox, indicated, indication, faults>>
  BY DEF AddReceivePkts, deviceVars, indVars
<1> QED BY <1>1, <1>2, ThreadsAre, LineKept

LEMMA LineStatus ==
    ASSUME Base, Base', Hands, NEW e \in Eps, Lined(e), NEW t \in Handlers, BusStatus(t)
    PROVE  Lined(e)'
<1>1. /\ t \in Threads /\ bus # <<>> /\ bus' = Tail(bus) /\ Head(bus).op = "status"
      /\ UNCHANGED <<sent, mbox, indicated, indication, faults>>
  BY BusStatusBase DEF BusStatus, deviceVars, indVars
<1>2. PICK w, l : /\ Moved(t, w, l) /\ SameBut(l, [NoLoc EXCEPT !.other = other])
                  /\ t = "dsr" => Head(bus).by = "dsr"
                  /\ t # "dsr" => t \in Contexts /\ pc[t] = "idle"
  BY BusStatusBase
<1>3. l.done = <<>>
  BY <1>2 DEF SameBut, NoLoc
<1>4. loc[t].done = <<>>
  <2>1. CASE t = "dsr"
    <3>1. Head(bus) = bus[1] /\ 1 \in DOMAIN bus
      BY <1>1, AskedTail
    <3>2. pc[t] = "waiting"
      BY <1>1, <1>2, <2>1, <3>1 DEF Base, Requests
    <3>3. ~WaitsForRead(t)
      BY <1>1, <1>2, <2>1, WaitsOnce DEF WaitsForRead
    <3> QED BY <2>1, <3>2, <3>3, EmptyHanded
  <2>2. CASE t # "dsr"
    BY <1>2, <2>2, EmptyHanded
  <2> QED BY <2>1, <2>2
<1>5. \A i, n : ~In(l, e, i, n) /\ ~In(loc[t], e, i, n)
  BY <1>3, <1>4 DEF In
<1> QED BY <1>1, <1>2, <1>5, LineKept

LEMMA LineFails ==
    ASSUME Base, Base', NEW e \in Eps, Lined(e), (\E t \in Handlers : BusReadFails(t)) \/ BadHeaderSync
    PROVE  Lined(e)'
<1>0. PICK t \in Threads : \E l : Moved(t, "recycle", l) /\ l.done = <<>>
  <2>1. CASE \E t \in Handlers : BusReadFails(t)
    <3>1. PICK t \in Handlers : BusReadFails(t)
      BY <2>1
    <3>2. t \in Threads /\ \E l : Moved(t, "recycle", l) /\ l.done = <<>>
      BY <3>1, BusReadFailsBase
    <3> QED BY <3>2
  <2>2. CASE BadHeaderSync
    <3>1. PICK l : Moved("dsr", "recycle", l) /\ l = [loc["dsr"] EXCEPT !.done = <<>>, !.ep = loc["dsr"].doneEp, !.la = 0,
                       !.ok = FALSE, !.fetch = Len(loc["dsr"].done) - 1]
      BY <2>2, BadHeaderSyncBase
    <3>2. loc["dsr"] \in LocalVars
      BY ThreadIs, ThreadsAre
    <3>3. l.done = <<>>
      BY <3>1, <3>2 DEF LocalVars
    <3> QED BY <3>1, <3>3, ThreadsAre
  <2> QED BY <2>1, <2>2
<1>1. PICK l : Moved(t, "recycle", l) /\ l.done = <<>>
  BY <1>0
<1>2. UNCHANGED <<sent, mbox, indicated, indication>> /\ faults' = faults + 1
  BY DEF BusReadFails, BadHeaderSync, deviceVars, indVars
<1>3. faults' # 0
  <2>1. faults \in 0..MaxFaults
    BY DEF Base, Types
  <2> QED BY <1>2, <2>1, Bounds
<1>4. \A i, n : ~In(l, e, i, n)
  BY <1>1 DEF In
<1> QED BY <1>1, <1>2, <1>3, <1>4, LineKept

LEMMA LineFetches ==
    ASSUME Base, Base', NEW e \in Eps, Lined(e), NEW t \in Handlers,
           RecyclePkts(t) \/ AllocPackets(t) \/ FetchPackets(t)
    PROVE  Lined(e)'
<1>1. t \in Threads /\ loc[t] \in LocalVars
  BY ThreadIs, ThreadsAre
<1>2. UNCHANGED <<sent, mbox, indicated, indication, faults>>
  BY DEF RecyclePkts, AllocPackets, FetchPackets, deviceVars, indVars
<1>3. PICK w, l : Moved(t, w, l) /\ l.done = loc[t].done /\ l.doneEp = loc[t].doneEp
                  /\ pc[t] # "indicate" /\ w # "indicate"
  <2>1. CASE RecyclePkts(t)
    <3>1. PICK w : w \in {"enable", Enabled(t)} /\ Moved(t, w, [loc[t] EXCEPT !.fetch = 0])
      BY <1>1, <2>1, RecyclePktsBase
    <3>2. w # "indicate" /\ pc[t] # "indicate"
      BY <1>1, <2>1, <3>1, RecyclePktsBase DEF Enabled
    <3> QED BY <1>1, <3>1, <3>2 DEF LocalVars
  <2>2. CASE AllocPackets(t)
    <3>1. PICK l : Moved(t, "fetch", l) /\ l = [loc[t] EXCEPT !.la = 0, !.fetch = Allocates(loc[t]),
                                               !.total = @ + Allocates(loc[t])]
      BY <1>1, <2>2, AllocPacketsBase
    <3> QED BY <1>1, <2>2, <3>1, AllocPacketsBase DEF LocalVars
  <2>3. CASE FetchPackets(t)
    <3>1. PICK n \in {1, loc[t].fetch} : Moved(t, IF mode = "sync" THEN "waiting" ELSE "fetch", [loc[t] EXCEPT !.fetch = @ - n])
      BY <1>1, <2>3, FetchPacketsBase
    <3>2. PICK w : w = IF mode = "sync" THEN "waiting" ELSE "fetch"
      OBVIOUS
    <3> QED BY <1>1, <2>3, <3>1, <3>2, FetchPacketsBase DEF LocalVars
  <2> QED BY <2>1, <2>2, <2>3
<1>4. \A i, n : In(l, e, i, n) <=> In(loc[t], e, i, n)
  BY <1>3 DEF In
<1> QED BY <1>1, <1>2, <1>3, <1>4, LineKept

LEMMA LineQueued ==
    ASSUME Base, Base', Hands, Carriers, NEW e \in Eps, Lined(e), NEW c \in Contexts, QueueIndication(c)
    PROVE  Lined(e)'
<1>0. pc[c] = "complete" /\ c \in Threads /\ c \in Handlers
  BY QueueIndicationBase, ThreadsAre
<1>1. PICK w : w = (IF loc[c].more THEN "more" ELSE "drain")
  OBVIOUS
<1>2. PICK l : Moved(c, w, l) /\ l = [loc[c] EXCEPT !.done = <<>>]
  BY <1>1, QueueIndicationBase
<1>3. PICK x \in Eps : x = loc[c].doneEp
  BY <1>0, Completing
<1>4. PICK d \in Seq(Messages) : d = loc[c].done /\ d # <<>>
  BY <1>0, Completing
<1>5. l.done = <<>>
  BY <1>0, <1>2, Completing DEF LocalVars
<1>6. /\ UNCHANGED <<sent, mbox, indicated, faults>>
      /\ indication' = [indication EXCEPT ![x] = @ \o d]
  BY <1>3, <1>4 DEF QueueIndication, deviceVars
<1>7. indication \in [Eps -> Seq(Messages)]
  BY DEF Base, Types
<1>8. \A i, n : ~In(l, e, i, n)
  BY <1>5 DEF In
<1>9. CASE e # x
  <2>1. \A i, n : ~In(loc[c], e, i, n)
    BY <1>3, <1>9 DEF In
  <2>2. indication'[e] = indication[e]
    BY <1>6, <1>7, <1>9
  <2> QED BY <1>0, <1>2, <1>6, <1>8, <2>1, <2>2, LineKept
<1>10. CASE e = x
  <2>1. PICK p \in Seq(Messages) : p = indication[e]
    BY <1>7
  <2>2. indication'[e] = p \o d
    BY <1>6, <1>7, <1>10, <2>1
  <2>3. PICK h \in Nat : h = Len(p)
    BY <2>1
  <2>4. PICK k \in Nat : k = Len(d)
    BY <1>4
  <2>5. \A i, n : ~Carried3(c, e, i, n)
    BY <1>0, <1>4, OnlyCarrier DEF Carries
  <2>6. w # "indicate"
    BY <1>1
  <2>7. ASSUME NEW i, NEW n
        PROVE  /\ Where(e, 2, i, n) <=> i \in DOMAIN p /\ n = p[i].num
               /\ Where(e, 2, i, n)' <=> i \in DOMAIN (p \o d) /\ n = (p \o d)[i].num
               /\ Where(e, 3, i, n) <=> i \in DOMAIN d /\ n = d[i].num
               /\ ~Where(e, 3, i, n)'
               /\ Where(e, 1, i, n)' <=> Where(e, 1, i, n)
    <3>1. /\ Where(e, 2, i, n) <=> i \in DOMAIN p /\ n = p[i].num
          /\ Where(e, 2, i, n)' <=> i \in DOMAIN (p \o d) /\ n = (p \o d)[i].num
      BY <2>1, <2>2 DEF Where
    <3>2. In(loc[c], e, i, n) <=> i \in DOMAIN d /\ n = d[i].num
      BY <1>3, <1>4, <1>10 DEF In
    <3> HIDE DEF Where, In
    <3>3. Where(e, 3, i, n) <=> i \in DOMAIN d /\ n = d[i].num
      BY <1>0, <1>2, <2>5, <3>2, PlacesMoved
    <3>4. ~Where(e, 3, i, n)'
      BY <1>0, <1>2, <1>8, <2>5, PlacesMoved
    <3>5. Where(e, 1, i, n)' <=> Where(e, 1, i, n)
      BY <1>0, <1>2, <2>6, PlacesMoved
    <3> QED BY <3>1, <3>3, <3>4, <3>5
  <2>8. \A r, i, n : r \notin {2, 3} => (Where(e, r, i, n)' <=> Where(e, r, i, n))
    <3> SUFFICES ASSUME NEW r, NEW i, NEW n, r \notin {2, 3} PROVE Where(e, r, i, n)' <=> Where(e, r, i, n)
      OBVIOUS
    <3> HIDE DEF Where
    <3>1. r \in {0, 4} => (Where(e, r, i, n)' <=> Where(e, r, i, n))
      BY <1>6, PlacesElse
    <3>2. r \notin 0..4 => (Where(e, r, i, n)' <=> Where(e, r, i, n))
      BY PlacesElse
    <3>3. r = 1 => (Where(e, r, i, n)' <=> Where(e, r, i, n))
      BY <2>7
    <3> QED BY <3>1, <3>2, <3>3
  <2> HIDE DEF Where
  <2>9. \A r, i, n : 2 < r /\ r < 3 => ~Where(e, r, i, n)
    BY PlacesElse
  <2>10. \A i, n : Where(e, 2, i, n)' => \/ i <= h /\ Where(e, 2, i, n)
                                         \/ i > h /\ i <= h + k /\ Where(e, 3, i - h, n)
    BY <2>3, <2>4, <2>7, ConcatPlaces
  <2>11. \A i, n : Where(e, 2, i, n) => Where(e, 2, i, n)'
    BY <2>3, <2>4, <2>7, ConcatPlaces
  <2>12. \A i, n : Where(e, 3, i, n) => IF i <= k THEN Where(e, 2, i + h, n)' ELSE Where(e, 3, i - k, n)'
    <3> SUFFICES ASSUME NEW i, NEW n, Where(e, 3, i, n)
                 PROVE  i <= k /\ Where(e, 2, i + h, n)'
      OBVIOUS
    <3>1. PICK j : j = i + h
      OBVIOUS
    <3>2. i \in DOMAIN d /\ n = d[i].num
      BY <2>7
    <3>3. i <= k /\ j \in DOMAIN (p \o d) /\ (p \o d)[j] = d[i]
      BY <2>3, <2>4, <3>1, <3>2, ConcatPlaces
    <3>4. Where(e, 2, j, n)'
      BY <2>7, <3>2, <3>3
    <3> QED BY <3>1, <3>3, <3>4
  <2>13. sent'[e] = sent[e] /\ faults' = faults
    BY <1>6
  <2>14. \A i, n : Where(e, 3, i, n)' => Where(e, 3, i + k, n)
    BY <2>7
  <2>15. 2 \in 0..4 /\ 3 \in 0..4 /\ 2 < 3
    OBVIOUS
  <2>16. Advances(e, 2, 3, h, k)
    BY <2>8, <2>9, <2>10, <2>11, <2>12, <2>14 DEF Advances
  <2> QED BY <2>4, <2>13, <2>15, <2>16, LineMoved
<1> QED BY <1>9, <1>10

LEMMA LineBadHeader ==
    ASSUME Base, Base', Hands, Contents, Carriers, NEW e \in Eps, Lined(e), NEW c \in Contexts,
           BadHeader(c)
    PROVE  Lined(e)'
<1>0. pc[c] = "complete" /\ c \in Threads /\ c \in Handlers
  BY BadHeaderBase, ThreadsAre
<1>1. PICK x \in DOMAIN loc[c].done :
             Moved(c, "recycle",
                      [loc[c] EXCEPT !.done = RemoveAt(@, x), !.fetch = 1, !.ep = loc[c].doneEp,
                                     !.la = 0, !.more = FALSE,
                                     !.doneEp = IF Len(loc[c].done) > 1 THEN @ ELSE NoEp])
  BY BadHeaderBase
<1>2. PICK d \in Seq(Messages) : d = loc[c].done /\ d # <<>>
  BY <1>0, Completing
<1>3. PICK l : /\ Moved(c, "recycle", l)
               /\ l.done = RemoveAt(d, x) /\ l.doneEp \in {loc[c].doneEp, NoEp}
  <2>1. PICK y \in {loc[c].doneEp, NoEp} : y = IF Len(loc[c].done) > 1 THEN loc[c].doneEp ELSE NoEp
    OBVIOUS
  <2>2. PICK q : q = RemoveAt(d, x)
    OBVIOUS
  <2>3. PICK l : l = [loc[c] EXCEPT !.done = q, !.fetch = 1, !.ep = loc[c].doneEp, !.la = 0, !.more = FALSE,
                                    !.doneEp = y]
    OBVIOUS
  <2>4. Moved(c, "recycle", l)
    BY <1>1, <1>2, <2>1, <2>2, <2>3
  <2>5. l.done = q /\ l.doneEp = y
    BY <1>0, <2>3, Completing DEF LocalVars
  <2> QED BY <2>1, <2>2, <2>4, <2>5
<1>4. UNCHANGED <<sent, mbox, indicated, indication>> /\ faults' = faults + 1
  BY DEF BadHeader, deviceVars, indVars
<1>5. faults' # 0
  <2>1. faults \in 0..MaxFaults
    BY DEF Base, Types
  <2> QED BY <1>4, <2>1, Bounds
<1>6. x \in DOMAIN d /\ x \in Nat
  BY <1>1, <1>2
<1>7. \A j \in DOMAIN RemoveAt(d, x) : /\ j + 1 \in DOMAIN d /\ j \in DOMAIN d /\ j \in Nat
                                       /\ RemoveAt(d, x)[j] = d[IF j >= x THEN j + 1 ELSE j]
  <2>1. Sorted(d, loc[c].doneEp)
    BY <1>0, <1>2 DEF Contents
  <2>2. \A j \in DOMAIN RemoveAt(d, x) : /\ j + 1 \in DOMAIN d /\ j \in DOMAIN d
                                         /\ RemoveAt(d, x)[j] = d[IF j < x THEN j ELSE j + 1]
    BY <1>2, <1>6, <2>1, SortedRemove
  <2>3. \A j \in DOMAIN d : j \in Nat
    BY <1>2
  <2>4. \A j \in Nat : j < x <=> ~(j >= x)
    BY <1>6
  <2> QED BY <2>2, <2>3, <2>4
<1>8. ASSUME NEW r, NEW i, NEW n, Where(e, r, i, n)'
      PROVE  Where(e, r, IF r = 3 /\ i >= x THEN i + 1 ELSE i, n)
  <2> HIDE DEF Where
  <2>1. CASE r \in {0, 2, 4}
    <3>1. Where(e, r, i, n)
      BY <1>4, <1>8, <2>1, PlacesElse
    <3> QED BY <2>1, <3>1
  <2>2. CASE r = 1
    <3>1. Where(e, r, i, n)
      BY <1>0, <1>3, <1>8, <2>2, PlacesMoved
    <3> QED BY <2>2, <3>1
  <2>3. CASE r = 3
    <3>1. ~Carried3(c, e, i, n)
      BY <1>0, <1>2, OnlyCarrier DEF Carries
    <3>2. In(l, e, i, n)
      BY <1>0, <1>3, <1>8, <2>3, <3>1, PlacesMoved
    <3>3. /\ i \in DOMAIN RemoveAt(d, x) /\ n = RemoveAt(d, x)[i].num /\ loc[c].doneEp = e
      BY <1>3, <3>2, ThreadsAre DEF In
    <3>4. PICK j : j = IF i >= x THEN i + 1 ELSE i
      OBVIOUS
    <3>5. j \in DOMAIN d /\ n = d[j].num
      BY <1>7, <3>3, <3>4
    <3>6. In(loc[c], e, j, n)
      BY <1>2, <3>3, <3>5 DEF In
    <3>7. Where(e, 3, j, n)
      BY <1>0, <1>3, <3>6, PlacesMoved
    <3> QED BY <2>3, <3>4, <3>7
  <2> QED BY <1>8, <2>1, <2>2, <2>3, PlacesElse
<1> QED BY <1>4, <1>5, <1>6, <1>8, LineRemoved

LEMMA LineTaken ==
    ASSUME Base, Base', Draining, NEW e \in Eps, Lined(e), NEW c \in Contexts, TakesAll(c)
    PROVE  Lined(e)'
<1>0. pc[c] = "drain" /\ c \in Threads /\ c \in Handlers
  BY TakeIndicationsBase, ThreadsAre DEF TakesAll
<1>1. PICK x \in Eps : x = loc[c].doneEp
  BY <1>0, Completing
<1>2. PICK d \in Seq(Messages) : d = indication[x]
  BY DEF Base, Types
<1>3. PICK l : /\ Moved(c, "indicate", l)
               /\ l = [NoLoc EXCEPT !.done = d, !.doneEp = x, !.from = "drain"]
  BY <1>1, <1>2, TakeIndicationsBase DEF TakesAll
<1>4. l.done = d /\ l.doneEp = x
  BY <1>3 DEF NoLoc
<1>5. /\ UNCHANGED <<sent, mbox, indicated, faults>>
      /\ indication' = [indication EXCEPT ![x] = <<>>]
  BY <1>1 DEF TakesAll, TakeIndications, Drained, deviceVars
<1>6. indication \in [Eps -> Seq(Messages)]
  BY DEF Base, Types
<1>7. \A i, n : ~In(loc[c], e, i, n)
  BY <1>0, Completing DEF In
<1>8. CASE e # x
  <2>1. \A i, n : ~In(l, e, i, n)
    BY <1>4, <1>8 DEF In
  <2>2. indication'[e] = indication[e]
    BY <1>5, <1>6, <1>8
  <2> QED BY <1>0, <1>3, <1>5, <1>7, <2>1, <2>2, LineKept
<1>9. CASE e = x
  <2>1. PICK k \in Nat : k = Len(d)
    BY <1>2
  <2>2. \A i \in DOMAIN d : i \in Nat /\ i > 0 /\ i <= k
    BY <1>2, <2>1
  <2>3. \A i, n : ~Drained1(c, e, i, n)
    <3>1. Drains(c, e) \/ ~draining[e]
      BY <1>0, <1>1, <1>9 DEF TakesAll, MayDrain, Drains, DrainsAt
    <3> QED BY <3>1, OnlyDrainer
  <2>4. indication'[e] = <<>> /\ DOMAIN <<>> = {}
    BY <1>5, <1>6, <1>9
  <2>5. ASSUME NEW i, NEW n
        PROVE  /\ ~Where(e, 1, i, n)
               /\ Where(e, 1, i, n)' <=> i \in DOMAIN d /\ n = d[i].num
               /\ Where(e, 2, i, n) <=> i \in DOMAIN d /\ n = d[i].num
               /\ ~Where(e, 2, i, n)'
               /\ Where(e, 3, i, n)' <=> Where(e, 3, i, n)
    <3>1. Where(e, 2, i, n) <=> i \in DOMAIN d /\ n = d[i].num
      BY <1>2, <1>9 DEF Where
    <3>2. ~Where(e, 2, i, n)'
      BY <2>4 DEF Where
    <3>3. In(l, e, i, n) <=> i \in DOMAIN d /\ n = d[i].num
      BY <1>4, <1>9 DEF In
    <3> HIDE DEF Where, In
    <3>4. ~Where(e, 1, i, n)
      BY <1>0, <1>3, <2>3, PlacesMoved
    <3>5. Where(e, 1, i, n)' <=> i \in DOMAIN d /\ n = d[i].num
      BY <1>0, <1>3, <2>3, <3>3, PlacesMoved
    <3>6. Where(e, 3, i, n)' <=> Where(e, 3, i, n)
      BY <1>0, <1>3, <1>7, PlacesMoved
    <3> QED BY <3>1, <3>2, <3>4, <3>5, <3>6
  <2> HIDE DEF Where
  <2>6. \A r, i, n : r \notin {1, 2} => (Where(e, r, i, n)' <=> Where(e, r, i, n))
    <3> SUFFICES ASSUME NEW r, NEW i, NEW n, r \notin {1, 2} PROVE Where(e, r, i, n)' <=> Where(e, r, i, n)
      OBVIOUS
    <3>1. r \in {0, 4} => (Where(e, r, i, n)' <=> Where(e, r, i, n))
      BY <1>5, PlacesElse
    <3>2. r \notin 0..4 => (Where(e, r, i, n)' <=> Where(e, r, i, n))
      BY PlacesElse
    <3>3. r = 3 => (Where(e, r, i, n)' <=> Where(e, r, i, n))
      BY <2>5
    <3> QED BY <3>1, <3>2, <3>3
  <2>7. \A r, i, n : 1 < r /\ r < 2 => ~Where(e, r, i, n)
    BY PlacesElse
  <2>8. \A i, n : Where(e, 1, i, n)' => \/ i <= 0 /\ Where(e, 1, i, n)
                                        \/ i > 0 /\ i <= 0 + k /\ Where(e, 2, i - 0, n)
    <3> SUFFICES ASSUME NEW i, NEW n, Where(e, 1, i, n)'
                 PROVE  i > 0 /\ i <= 0 + k /\ Where(e, 2, i - 0, n)
      OBVIOUS
    <3>1. i \in DOMAIN d /\ Where(e, 2, i, n)
      BY <2>5
    <3>2. i > 0 /\ i <= 0 + k /\ i - 0 = i
      BY <2>2, <3>1
    <3> QED BY <3>1, <3>2
  <2>9. \A i, n : Where(e, 2, i, n) => IF i <= k THEN Where(e, 1, i + 0, n)' ELSE Where(e, 2, i - k, n)'
    <3> SUFFICES ASSUME NEW i, NEW n, Where(e, 2, i, n)
                 PROVE  i <= k /\ Where(e, 1, i + 0, n)'
      OBVIOUS
    <3>1. i \in DOMAIN d /\ Where(e, 1, i, n)'
      BY <2>5
    <3>2. i <= k /\ i + 0 = i
      BY <2>2, <3>1
    <3> QED BY <3>1, <3>2
  <2>10. \A i, n : /\ Where(e, 2, i, n)' => Where(e, 2, i + k, n)
                   /\ Where(e, 1, i, n) => Where(e, 1, i, n)'
    BY <2>5
  <2>11. sent'[e] = sent[e] /\ faults' = faults /\ 0 \in Nat /\ 1 \in 0..4 /\ 2 \in 0..4 /\ 1 < 2
    BY <1>5
  <2>12. Advances(e, 1, 2, 0, k)
    BY <2>6, <2>7, <2>8, <2>9, <2>10 DEF Advances
  <2> QED BY <2>1, <2>11, <2>12, LineMoved
<1> QED BY <1>8, <1>9

\* The drainer's messages come to the user.
LEMMA LineToUser ==
    ASSUME Base, Base', NEW e \in Eps, Lined(e), sent'[e] = sent[e], faults' = faults,
           NEW h \in Nat, NEW k \in Nat,
           \A r, i, n : r \notin {0, 1} => (Where(e, r, i, n)' <=> Where(e, r, i, n)),
           \A i, n : Where(e, 0, i, n)' => \/ i <= h /\ Where(e, 0, i, n)
                                           \/ i > h /\ i <= h + k /\ Where(e, 1, i - h, n),
           \A i, n : Where(e, 1, i, n)' => Where(e, 1, i + k, n),
           \A i, n : Where(e, 0, i, n) => Where(e, 0, i, n)',
           \A i, n : Where(e, 1, i, n) => IF i <= k THEN Where(e, 0, i + h, n)' ELSE Where(e, 1, i - k, n)'
    PROVE  Lined(e)'
<1> HIDE DEF Where
<1>1. \A r, i, n : 0 < r /\ r < 1 => ~Where(e, r, i, n)
  BY PlacesElse
<1>2. 0 < 1 /\ 0 \in 0..4 /\ 1 \in 0..4
  OBVIOUS
<1>3. Advances(e, 0, 1, h, k)
  BY <1>1 DEF Advances
<1> QED BY <1>2, <1>3, LineMoved

LEMMA LineIndicated ==
    ASSUME Base, Base', Draining, NEW e \in Eps, Lined(e), NEW c \in Contexts, Indicate(c)
    PROVE  Lined(e)'
<1>0. pc[c] = "indicate" /\ c \in Threads /\ c \in Handlers
  BY IndicateBase, ThreadsAre
<1>1. PICK x \in Eps : x = loc[c].doneEp
  BY <1>0, Completing
<1>2. PICK d \in Seq(Messages) : d = loc[c].done
  BY <1>0, Completing
<1>3. PICK l : Moved(c, "drain", l) /\ l = [loc[c] EXCEPT !.done = <<>>]
  BY IndicateBase
<1>4. l.done = <<>>
  BY <1>0, <1>3, Completing DEF LocalVars
<1>5. PICK nums : nums = [i \in DOMAIN d |-> d[i].num]
  OBVIOUS
<1>6. /\ UNCHANGED <<sent, mbox, indication, faults>>
      /\ indicated' = [indicated EXCEPT ![x] = @ \o nums]
  BY <1>1, <1>2, <1>5 DEF Indicate, deviceVars
<1>7. indicated \in [Eps -> Seq(1..MaxMsgs)]
  BY DEF Base, Types
<1>8. \A i, n : ~In(l, e, i, n)
  BY <1>4 DEF In
<1>9. CASE e # x
  <2>1. \A i, n : ~In(loc[c], e, i, n)
    BY <1>1, <1>9 DEF In
  <2>2. indicated'[e] = indicated[e]
    BY <1>6, <1>7, <1>9
  <2> QED BY <1>0, <1>3, <1>6, <1>8, <2>1, <2>2, LineKept
<1>10. CASE e = x
  <2>1. PICK p \in Seq(1..MaxMsgs) : p = indicated[e]
    BY <1>7
  <2>2. PICK h \in Nat : h = Len(p)
    BY <2>1
  <2>3. PICK k \in Nat : k = Len(d)
    BY <1>2
  <2>4. nums \in Seq(1..MaxMsgs) /\ Len(nums) = k /\ DOMAIN nums = DOMAIN d /\ \A i \in DOMAIN d : nums[i] = d[i].num
    <3>1. \A i \in DOMAIN d : d[i].num \in 1..MaxMsgs
      <4>1. \A i \in DOMAIN d : d[i] \in Messages
        BY <1>2
      <4> QED BY <4>1 DEF Messages
    <3>2. DOMAIN d = 1..k
      BY <1>2, <2>3
    <3>3. nums = [i \in 1..k |-> d[i].num] /\ \A i \in 1..k : d[i].num \in 1..MaxMsgs
      BY <1>5, <3>1, <3>2
    <3>4. nums \in [1..k -> 1..MaxMsgs]
      BY <3>3
    <3>5. nums \in Seq(1..MaxMsgs) /\ Len(nums) = k
      BY <3>3, <3>4
    <3> QED BY <1>5, <3>5
  <2>5. indicated'[e] = p \o nums
    BY <1>6, <1>7, <1>10, <2>1
  <2>6. \A i, n : ~Drained1(c, e, i, n)
    <3>1. HoldingContext(pc[c], loc[c])
      BY <1>0, ContextIs
    <3>2. Drains(c, e)
      BY <1>0, <1>1, <1>10, <3>1 DEF HoldingContext, Drains, DrainsAt
    <3> QED BY <3>2, OnlyDrainer
  <2>7. ASSUME NEW i, NEW n
        PROVE  /\ Where(e, 0, i, n) <=> i \in DOMAIN p /\ n = p[i]
               /\ Where(e, 0, i, n)' <=> i \in DOMAIN (p \o nums) /\ n = (p \o nums)[i]
               /\ Where(e, 1, i, n) <=> i \in DOMAIN nums /\ n = nums[i]
               /\ ~Where(e, 1, i, n)'
               /\ Where(e, 3, i, n)' <=> Where(e, 3, i, n)
    <3>1. /\ Where(e, 0, i, n) <=> i \in DOMAIN p /\ n = p[i]
          /\ Where(e, 0, i, n)' <=> i \in DOMAIN (p \o nums) /\ n = (p \o nums)[i]
      BY <2>1, <2>5 DEF Where
    <3>2. In(loc[c], e, i, n) <=> i \in DOMAIN nums /\ n = nums[i]
      BY <1>1, <1>2, <1>10, <2>4 DEF In
    <3> HIDE DEF Where, In
    <3>3. Where(e, 1, i, n) <=> i \in DOMAIN nums /\ n = nums[i]
      BY <1>0, <1>3, <2>6, <3>2, PlacesMoved
    <3>4. ~Where(e, 1, i, n)'
      BY <1>0, <1>3, <2>6, PlacesMoved
    <3>5. Where(e, 3, i, n)' <=> Where(e, 3, i, n)
      BY <1>0, <1>3, <1>8, PlacesMoved
    <3> QED BY <3>1, <3>3, <3>4, <3>5
  <2> HIDE DEF Where
  <2>8. \A r, i, n : r \notin {0, 1} => (Where(e, r, i, n)' <=> Where(e, r, i, n))
    <3> SUFFICES ASSUME NEW r, NEW i, NEW n, r \notin {0, 1} PROVE Where(e, r, i, n)' <=> Where(e, r, i, n)
      OBVIOUS
    <3>1. r \in {2, 4} => (Where(e, r, i, n)' <=> Where(e, r, i, n))
      BY <1>6, PlacesElse
    <3>2. r \notin 0..4 => (Where(e, r, i, n)' <=> Where(e, r, i, n))
      BY PlacesElse
    <3>3. r = 3 => (Where(e, r, i, n)' <=> Where(e, r, i, n))
      BY <2>7
    <3> QED BY <3>1, <3>2, <3>3
  <2>10. \A i, n : Where(e, 0, i, n)' => \/ i <= h /\ Where(e, 0, i, n)
                                         \/ i > h /\ i <= h + k /\ Where(e, 1, i - h, n)
    BY <2>2, <2>4, <2>7, ConcatPlaces
  <2>11. \A i, n : Where(e, 0, i, n) => Where(e, 0, i, n)'
    BY <2>2, <2>4, <2>7, ConcatPlaces
  <2>12. \A i, n : Where(e, 1, i, n) => IF i <= k THEN Where(e, 0, i + h, n)' ELSE Where(e, 1, i - k, n)'
    <3> SUFFICES ASSUME NEW i, NEW n, Where(e, 1, i, n)
                 PROVE  i <= k /\ Where(e, 0, i + h, n)'
      OBVIOUS
    <3>1. PICK j : j = i + h
      OBVIOUS
    <3>2. i \in DOMAIN nums /\ n = nums[i]
      BY <2>7
    <3>3. i <= k /\ j \in DOMAIN (p \o nums) /\ (p \o nums)[j] = nums[i]
      BY <2>2, <2>4, <3>1, <3>2, ConcatPlaces
    <3>4. Where(e, 0, j, n)'
      BY <2>7, <3>2, <3>3
    <3> QED BY <3>1, <3>3, <3>4
  <2>13. \A i, n : Where(e, 1, i, n)' => Where(e, 1, i + k, n)
    BY <2>7
  <2>14. sent'[e] = sent[e] /\ faults' = faults
    BY <1>6
  <2> QED BY <2>8, <2>10, <2>11, <2>12, <2>13, <2>14, LineToUser
<1> QED BY <1>9, <1>10

\* With synchronous interrupt processing there is only the handler.
LEMMA SyncAlone ==
    ASSUME Base, Hands, mode = "sync", NEW e, NEW i, NEW n
    PROVE  ~Drained1("dsr", e, i, n) /\ ~Carried3("dsr", e, i, n)
<1>1. ASSUME NEW c \in Contexts PROVE pc[c] = "idle" /\ loc[c].done = <<>>
  <2>1. MayBe(c, pc[c])
    BY ThreadIs, ThreadsAre DEF Good
  <2>2. pc[c] = "idle"
    BY <2>1 DEF MayBe
  <2> QED BY <2>2 DEF Hands
<1>2. \A u \in Handlers \ {"dsr"} : ~Has(u, e, i, n)
  BY <1>1, ThreadsAre DEF Has
<1> QED BY <1>2 DEF Drained1, Carried3

\* A message is indicated at once.
LEMMA LineAtOnce ==
    ASSUME Base, Base', NEW e \in Eps, Lined(e), sent'[e] = sent[e], faults' = faults,
           NEW h \in Nat,
           \A r, i, n : r \notin {0, 3} => (Where(e, r, i, n)' <=> Where(e, r, i, n)),
           \A i, n : ~Where(e, 1, i, n) /\ ~Where(e, 2, i, n),
           \A i, n : Where(e, 0, i, n)' => \/ i <= h /\ Where(e, 0, i, n)
                                           \/ i > h /\ i <= h + 1 /\ Where(e, 3, i - h, n),
           \A i, n : Where(e, 3, i, n)' => Where(e, 3, i + 1, n),
           \A i, n : Where(e, 0, i, n) => Where(e, 0, i, n)',
           \A i, n : Where(e, 3, i, n) => IF i <= 1 THEN Where(e, 0, i + h, n)' ELSE Where(e, 3, i - 1, n)'
    PROVE  Lined(e)'
<1> HIDE DEF Where
<1>1. \A r, i, n : 0 < r /\ r < 3 => ~Where(e, r, i, n)
  <2>1. \A r \in 0..4 : 0 < r /\ r < 3 => r \in {1, 2}
    OBVIOUS
  <2> QED BY <2>1, PlacesElse
<1>2. 0 < 3 /\ 0 \in 0..4 /\ 3 \in 0..4 /\ 1 \in Nat
  OBVIOUS
<1>3. Advances(e, 0, 3, h, 1)
  BY <1>1 DEF Advances
<1> QED BY <1>2, <1>3, LineMoved

LEMMA LineIndicatedSync ==
    ASSUME Base, Base', Hands, Contents, NEW e \in Eps, Lined(e), IndicateSync
    PROVE  Lined(e)'
<1> DEFINE t == "dsr"
<1>0. pc[t] = "process" /\ mode = "sync" /\ t \in Threads /\ t \in Handlers
  BY IndicateSyncBase, ThreadsAre
<1>1. PICK d \in Seq(Messages) : d = loc[t].done /\ d # <<>>
  BY <1>0, ThreadIs, IndicateSyncBase DEF LocalVars
<1>2. PICK l : Moved(t, "process", l) /\ l.done = Tail(d) /\ l.doneEp = loc[t].doneEp
  <2>1. PICK f : f = Tail(d)
    OBVIOUS
  <2>2. PICK l : l = [loc[t] EXCEPT !.done = f]
    OBVIOUS
  <2>3. Moved(t, "process", l)
    BY <1>1, <2>1, <2>2, IndicateSyncBase
  <2>4. loc[t] \in LocalVars
    BY <1>0, ThreadIs
  <2>5. l.done = f /\ l.doneEp = loc[t].doneEp
    BY <2>2, <2>4 DEF LocalVars
  <2> QED BY <2>1, <2>3, <2>5
<1>3. Sorted(d, loc[t].doneEp)
  BY <1>0, <1>1 DEF Contents
<1>4. Head(d).ep = loc[t].doneEp /\ Head(d) \in Messages
  BY <1>1, <1>3, SortedTail
<1>5. PICK x \in Eps : x = loc[t].doneEp
  BY <1>4 DEF Messages
<1>6. PICK m \in 1..MaxMsgs : m = Head(d).num
  BY <1>4 DEF Messages
<1>7. /\ UNCHANGED <<sent, mbox, indication, faults>>
      /\ indicated' = [indicated EXCEPT ![x] = Append(@, m)]
  BY <1>1, <1>4, <1>5, <1>6 DEF IndicateSync, deviceVars
<1>8. indicated \in [Eps -> Seq(1..MaxMsgs)]
  BY DEF Base, Types
<1> HIDE DEF t
<1>9. CASE e # x
  <2>1. \A i, n : ~In(loc[t], e, i, n) /\ ~In(l, e, i, n)
    BY <1>2, <1>5, <1>9 DEF In
  <2>2. indicated'[e] = indicated[e]
    BY <1>7, <1>8, <1>9
  <2> QED BY <1>0, <1>2, <1>7, <2>1, <2>2, LineKept
<1>10. CASE e = x
  <2>1. PICK p \in Seq(1..MaxMsgs) : p = indicated[e]
    BY <1>8
  <2>2. PICK h \in Nat : h = Len(p)
    BY <2>1
  <2>3. PICK q : q = Append(p, m)
    OBVIOUS
  <2>4. /\ \A i \in DOMAIN q : /\ i \in Nat
                               /\ i <= h => i \in DOMAIN p /\ q[i] = p[i]
                               /\ i > h => i = h + 1 /\ q[i] = m
        /\ \A i \in DOMAIN p : i \in DOMAIN q /\ q[i] = p[i]
        /\ h + 1 \in DOMAIN q /\ q[h + 1] = m
    BY <2>2, <2>3
  <2>5. PICK f : f = Tail(d)
    OBVIOUS
  <2>6. /\ 1 \in DOMAIN d /\ d[1].num = m
        /\ \A i \in DOMAIN d : i \in Nat /\ i > 0 /\ (i <= 1 => i = 1) /\ (i > 1 => i - 1 \in DOMAIN f /\ f[i - 1] = d[i])
        /\ \A i \in DOMAIN f : i \in Nat /\ i + 1 \in DOMAIN d /\ d[i + 1] = f[i]
    <3>1. PICK k \in Nat : k = Len(d) /\ k > 0 /\ DOMAIN d = 1..k
      BY <1>1
    <3>2. Head(d) = d[1] /\ DOMAIN f = 1..(k - 1) /\ \A i \in 1..(k - 1) : f[i] = d[i + 1]
      BY <1>1, <2>5, <3>1
    <3> QED BY <1>6, <3>1, <3>2
  <2>7. indicated'[e] = q
    BY <1>7, <1>8, <1>10, <2>1, <2>3
  <2>8. ASSUME NEW i, NEW n PROVE ~Drained1(t, e, i, n) /\ ~Carried3(t, e, i, n)
    BY <1>0, SyncAlone DEF t
  <2>9. indication[e] = <<>> /\ DOMAIN <<>> = {}
    BY <1>0 DEF Contents
  <2>10. ASSUME NEW i, NEW n
         PROVE  /\ Where(e, 0, i, n) <=> i \in DOMAIN p /\ n = p[i]
                /\ Where(e, 0, i, n)' <=> i \in DOMAIN q /\ n = q[i]
                /\ ~Where(e, 1, i, n) /\ ~Where(e, 1, i, n)'
                /\ ~Where(e, 2, i, n) /\ ~Where(e, 2, i, n)'
                /\ Where(e, 3, i, n) <=> i \in DOMAIN d /\ n = d[i].num
                /\ Where(e, 3, i, n)' <=> i \in DOMAIN f /\ n = f[i].num
    <3>1. /\ Where(e, 0, i, n) <=> i \in DOMAIN p /\ n = p[i]
          /\ Where(e, 0, i, n)' <=> i \in DOMAIN q /\ n = q[i]
      BY <2>1, <2>7 DEF Where
    <3>2. In(loc[t], e, i, n) <=> i \in DOMAIN d /\ n = d[i].num
      BY <1>1, <1>5, <1>10 DEF In
    <3>3. In(l, e, i, n) <=> i \in DOMAIN f /\ n = f[i].num
      BY <1>2, <1>5, <1>10, <2>5 DEF In
    <3>4. ~Where(e, 2, i, n) /\ ~Where(e, 2, i, n)'
      BY <1>7, <2>9 DEF Where
    <3> HIDE DEF Where, In
    <3>5. ~Where(e, 1, i, n) /\ ~Where(e, 1, i, n)'
      BY <1>0, <1>2, <2>8, PlacesMoved
    <3>6. Where(e, 3, i, n) <=> i \in DOMAIN d /\ n = d[i].num
      BY <1>0, <1>2, <2>8, <3>2, PlacesMoved
    <3>7. Where(e, 3, i, n)' <=> i \in DOMAIN f /\ n = f[i].num
      BY <1>0, <1>2, <2>8, <3>3, PlacesMoved
    <3> QED BY <3>1, <3>4, <3>5, <3>6, <3>7
  <2> HIDE DEF Where
  <2>11. \A r, i, n : r \notin {0, 3} => (Where(e, r, i, n)' <=> Where(e, r, i, n))
    <3> SUFFICES ASSUME NEW r, NEW i, NEW n, r \notin {0, 3} PROVE Where(e, r, i, n)' <=> Where(e, r, i, n)
      OBVIOUS
    <3>1. r = 4 => (Where(e, r, i, n)' <=> Where(e, r, i, n))
      BY <1>7, PlacesElse
    <3>2. r \notin 0..4 => (Where(e, r, i, n)' <=> Where(e, r, i, n))
      BY PlacesElse
    <3>3. r \in {1, 2} => (Where(e, r, i, n)' <=> Where(e, r, i, n))
      BY <2>10
    <3> QED BY <3>1, <3>2, <3>3
  <2>12. \A i, n : Where(e, 0, i, n)' => \/ i <= h /\ Where(e, 0, i, n)
                                         \/ i > h /\ i <= h + 1 /\ Where(e, 3, i - h, n)
    <3> SUFFICES ASSUME NEW i, NEW n, Where(e, 0, i, n)'
                 PROVE  \/ i <= h /\ Where(e, 0, i, n)
                        \/ i > h /\ i <= h + 1 /\ Where(e, 3, i - h, n)
      OBVIOUS
    <3>1. i \in DOMAIN q /\ n = q[i] /\ i \in Nat
      BY <2>4, <2>10
    <3>2. CASE i <= h
      <4>1. Where(e, 0, i, n)
        BY <2>4, <2>10, <3>1, <3>2
      <4> QED BY <3>2, <4>1
    <3>3. CASE i > h
      <4>1. i = h + 1 /\ n = m
        BY <2>4, <3>1, <3>3
      <4>2. Where(e, 3, 1, n)
        BY <2>6, <2>10, <4>1
      <4>3. i - h = 1 /\ i <= h + 1
        BY <4>1
      <4> QED BY <3>3, <4>2, <4>3
    <3> QED BY <3>1, <3>2, <3>3
  <2>13. \A i, n : Where(e, 3, i, n) => IF i <= 1 THEN Where(e, 0, i + h, n)' ELSE Where(e, 3, i - 1, n)'
    <3> SUFFICES ASSUME NEW i, NEW n, Where(e, 3, i, n)
                 PROVE  IF i <= 1 THEN Where(e, 0, i + h, n)' ELSE Where(e, 3, i - 1, n)'
      OBVIOUS
    <3>1. i \in DOMAIN d /\ n = d[i].num /\ i \in Nat /\ i > 0
      BY <2>6, <2>10
    <3>2. CASE i <= 1
      <4>1. i = 1
        BY <3>1, <3>2
      <4>2. PICK j \in Nat : j = h + 1
        OBVIOUS
      <4>3. Where(e, 0, j, n)'
        BY <2>4, <2>6, <2>10, <3>1, <4>1, <4>2
      <4>4. i + h = j
        BY <4>1, <4>2
      <4> QED BY <3>2, <4>3, <4>4
    <3>3. CASE i > 1
      <4>1. PICK j : j = i - 1
        OBVIOUS
      <4>2. j \in DOMAIN f /\ f[j] = d[i]
        BY <2>6, <3>1, <3>3, <4>1
      <4>3. Where(e, 3, j, n)'
        BY <2>10, <3>1, <4>2
      <4>4. ~(i <= 1)
        BY <3>1, <3>3
      <4> QED BY <4>1, <4>3, <4>4
    <3> QED BY <3>1, <3>2, <3>3
  <2>14. \A i, n : Where(e, 3, i, n)' => Where(e, 3, i + 1, n)
    <3> SUFFICES ASSUME NEW i, NEW n, Where(e, 3, i, n)' PROVE Where(e, 3, i + 1, n)
      OBVIOUS
    <3>1. PICK j : j = i + 1
      OBVIOUS
    <3>2. j \in DOMAIN d /\ n = d[j].num
      BY <2>6, <2>10, <3>1
    <3> QED BY <2>10, <3>1, <3>2
  <2>15. \A i, n : Where(e, 0, i, n) => Where(e, 0, i, n)'
    BY <2>4, <2>10
  <2>16. sent'[e] = sent[e] /\ faults' = faults /\ \A i, n : ~Where(e, 1, i, n) /\ ~Where(e, 2, i, n)
    BY <1>7, <2>10
  <2> QED BY <2>11, <2>12, <2>13, <2>14, <2>15, <2>16, LineAtOnce
<1> QED BY <1>9, <1>10

\* Messages are fetched.
LEMMA LineFetched ==
    ASSUME Base, Base', NEW e \in Eps, Lined(e), sent'[e] = sent[e], faults' = faults,
           NEW h \in Nat, NEW k \in Nat,
           \A r, i, n : r \notin {3, 4} => (Where(e, r, i, n)' <=> Where(e, r, i, n)),
           \A i, n : Where(e, 3, i, n)' => \/ i <= h /\ Where(e, 3, i, n)
                                           \/ i > h /\ i <= h + k /\ Where(e, 4, i - h, n),
           \A i, n : Where(e, 4, i, n)' => Where(e, 4, i + k, n),
           \A i, n : Where(e, 3, i, n) => Where(e, 3, i, n)',
           \A i, n : Where(e, 4, i, n) => IF i <= k THEN Where(e, 3, i + h, n)' ELSE Where(e, 4, i - k, n)'
    PROVE  Lined(e)'
<1> HIDE DEF Where
<1>1. \A r, i, n : 3 < r /\ r < 4 => ~Where(e, r, i, n)
  BY PlacesElse
<1>2. 3 < 4 /\ 3 \in 0..4 /\ 4 \in 0..4
  OBVIOUS
<1>3. Advances(e, 3, 4, h, k)
  BY <1>1 DEF Advances
<1> QED BY <1>2, <1>3, LineMoved

\* A thread that fetches is the only one to have messages that wait.
LEMMA OnlyFetcher ==
    ASSUME Base, Base', Hands, Reading, Carriers, NEW t \in Handlers, BusRead(t), NEW e, NEW i, NEW n
    PROVE  ~Carried3(t, e, i, n)
<1>1. bus # <<>> /\ bus' = Tail(bus) /\ Head(bus).op = "read"
  BY BusReadBase
<1>2. ~Ended
  BY <1>1, HeadRead DEF Ended
<1>3. (t = "dsr" /\ mode = "sync") \/ (t \in Contexts /\ mode = "async" /\ CanComplete(t))
  BY BusReadBase
<1>4. CASE t = "dsr" /\ mode = "sync"
  BY <1>4, SyncAlone
<1>5. CASE t \in Contexts /\ mode = "async" /\ CanComplete(t)
  <2>1. ASSUME NEW c \in Contexts PROVE ~Carries(c)
    BY <1>2, <1>5 DEF Carriers, CanComplete, At
  <2>2. loc["dsr"].done = <<>>
    BY <1>5 DEF Hands
  <2>3. \A u \in Handlers : pc[u] # "indicate" => ~Has(u, e, i, n)
    <3>1. \A u \in Handlers : pc[u] # "indicate" => loc[u].done = <<>>
      BY <2>1, <2>2, ThreadsAre DEF Carries
    <3>2. DOMAIN <<>> = {}
      OBVIOUS
    <3> QED BY <3>1, <3>2 DEF Has
  <2> QED BY <2>3 DEF Carried3
<1> QED BY <1>3, <1>4, <1>5

LEMMA LineRead ==
    ASSUME Base, Base', Hands, Reading, Contents, Carriers, NEW e \in Eps, Lined(e), NEW t \in Handlers, BusRead(t)
    PROVE  Lined(e)'
<1>1. /\ t \in Threads /\ bus # <<>> /\ bus' = Tail(bus) /\ Head(bus).op = "read"
      /\ UNCHANGED <<sent, indicated, indication, faults>> /\ Head(bus).n \in 1..Len(mbox)
  BY BusReadBase DEF BusRead, bufVars, indVars
<1>2. PICK w, l :
         /\ Moved(t, w, l) /\ l.doneEp = Head(bus).ep
         /\ mbox' = SubSeq(mbox, Head(bus).n + 1, Len(mbox))
         /\ \/ /\ t = "dsr" /\ mode = "sync" /\ w = "fetch" /\ pc[t] = "waiting"
               /\ SameBut(l, [loc[t] EXCEPT !.done = @ \o SubSeq(mbox, 1, Head(bus).n),
                                            !.doneEp = Head(bus).ep, !.last = Head(bus).last])
            \/ /\ t \in Contexts /\ mode = "async" /\ w = "complete" /\ pc[t] = "idle"
               /\ SameBut(l, [NoLoc EXCEPT !.done = SubSeq(mbox, 1, Head(bus).n),
                                           !.doneEp = Head(bus).ep, !.last = Head(bus).last])
  BY BusReadBase
<1>3. /\ Head(bus) = bus[1] /\ 1 \in DOMAIN bus /\ Head(bus).ep \in Eps
      /\ Head(bus).by = IF mode = "sync" THEN "dsr" ELSE Nobody
  BY <1>1, HeadRead
<1>4. PICK x \in Eps : x = Head(bus).ep
  BY <1>3
<1>5. PICK k \in Nat : k = Head(bus).n
  BY <1>1, HeadRead
<1>6. mbox \in Seq(Messages) /\ Len(mbox) \in Nat /\ k <= Len(mbox)
  <2>1. mbox \in Seq(Messages)
    BY DEF Base, Types
  <2>2. Len(mbox) \in Nat
    BY <2>1
  <2> QED BY <1>1, <1>5, <2>1, <2>2
<1>7. PICK d \in Seq(Messages) : d = SubSeq(mbox, 1, Head(bus).n) /\ Len(d) = k /\ Sorted(d, x) /\ \A i \in 1..k : d[i] = mbox[i]
  <2>1. Head(bus).n <= Len(mbox)
    BY <1>5, <1>6
  <2> QED BY <1>1, <1>4, <1>5, <2>1, ReadSorted
<1>8. PICK p \in Seq(Messages) : p = loc[t].done /\ (p # <<>> => loc[t].doneEp = x)
  <2>1. loc[t].done \in Seq(Messages)
    BY <1>1, ThreadIs DEF LocalVars
  <2>2. CASE t \in Contexts
    <3>1. loc[t].done = <<>>
      BY <1>2, <2>2, ThreadsAre DEF Hands
    <3> QED BY <2>1, <3>1
  <2>3. CASE t = "dsr"
    <3>1. mode = "sync"
      BY <1>2, <2>3, ThreadsAre
    <3>2. loc[t].ep = Head(bus).ep /\ (loc[t].done # <<>> => loc[t].doneEp = loc[t].ep)
      BY <1>1, <1>3, <2>3, <3>1 DEF Reading, Fetching
    <3> QED BY <1>4, <2>1, <3>2
  <2> QED BY <2>2, <2>3, ThreadsAre
<1>9. l.done = p \o d /\ l.doneEp = x
  <2>1. CASE t \in Contexts
    <3>1. p = <<>>
      BY <1>2, <1>8, <2>1, ThreadsAre DEF Hands
    <3>2. l.done = d
      BY <1>2, <1>7, <2>1, ThreadsAre DEF SameBut, NoLoc
    <3>3. p \o d = d
      BY <3>1
    <3> QED BY <1>2, <1>4, <3>2, <3>3
  <2>2. CASE t = "dsr"
    <3>0. loc[t] \in LocalVars
      BY <1>1, ThreadIs
    <3>1. l.done = loc[t].done \o d
      BY <1>2, <1>7, <2>2, <3>0, ThreadsAre DEF SameBut, LocalVars
    <3> QED BY <1>2, <1>4, <1>8, <3>1
  <2> QED BY <2>1, <2>2, ThreadsAre
<1>10. pc[t] # "indicate" /\ w # "indicate"
  BY <1>2
<1>11. PICK h \in Nat : h = Len(p)
  BY <1>8
<1>12. PICK q : q = mbox' /\ q = SubSeq(mbox, k + 1, Len(mbox))
  BY <1>2, <1>5
<1>13. /\ \A i \in DOMAIN q : i \in Nat /\ i > 0 /\ i + k \in DOMAIN mbox /\ mbox[i + k] = q[i]
       /\ \A i \in DOMAIN mbox : /\ i \in Nat /\ i > 0
                                 /\ i <= k => i \in DOMAIN d /\ d[i] = mbox[i]
                                 /\ i > k => i - k \in DOMAIN q /\ q[i - k] = mbox[i]
       /\ \A i \in DOMAIN d : i \in Nat /\ i > 0 /\ i <= k /\ i \in DOMAIN mbox /\ mbox[i] = d[i]
  <2>1. PICK s \in Nat : s = Len(mbox)
    BY <1>6
  <2>2. DOMAIN mbox = 1..s /\ k <= s /\ DOMAIN d = 1..k
    BY <1>6, <1>7, <2>1
  <2>3. DOMAIN q = 1..(s - k) /\ \A i \in 1..(s - k) : q[i] = mbox[i + k]
    <3>1. k + 1 \in 1..(s + 1)
      BY <2>2
    <3> QED BY <1>6, <1>12, <2>1, <2>2, <3>1
  <2>4. ASSUME NEW i \in DOMAIN q PROVE i \in Nat /\ i > 0 /\ i + k \in DOMAIN mbox /\ mbox[i + k] = q[i]
    BY <2>2, <2>3
  <2>5. ASSUME NEW i \in DOMAIN mbox, i > k PROVE i - k \in DOMAIN q /\ q[i - k] = mbox[i]
    <3>1. PICK j : j = i - k
      OBVIOUS
    <3>2. j \in 1..(s - k) /\ j + k = i
      BY <2>2, <2>5, <3>1
    <3> QED BY <2>3, <3>1, <3>2
  <2> QED BY <1>7, <2>2, <2>4, <2>5
<1>14. ASSUME NEW i, NEW n
       PROVE  /\ Where(e, 3, i, n) <=> e = x /\ i \in DOMAIN p /\ n = p[i].num
              /\ Where(e, 3, i, n)' <=> e = x /\ i \in DOMAIN (p \o d) /\ n = (p \o d)[i].num
              /\ Where(e, 4, i, n) <=> i \in DOMAIN mbox /\ mbox[i].ep = e /\ n = mbox[i].num
              /\ Where(e, 4, i, n)' <=> i \in DOMAIN q /\ q[i].ep = e /\ n = q[i].num
              /\ Where(e, 1, i, n)' <=> Where(e, 1, i, n)
  <2>1. /\ Where(e, 4, i, n) <=> i \in DOMAIN mbox /\ mbox[i].ep = e /\ n = mbox[i].num
        /\ Where(e, 4, i, n)' <=> i \in DOMAIN q /\ q[i].ep = e /\ n = q[i].num
    BY <1>12 DEF Where
  <2>2. In(loc[t], e, i, n) <=> e = x /\ i \in DOMAIN p /\ n = p[i].num
    BY <1>8 DEF In
  <2>3. In(l, e, i, n) <=> e = x /\ i \in DOMAIN (p \o d) /\ n = (p \o d)[i].num
    BY <1>9 DEF In
  <2>4. ~Carried3(t, e, i, n)
    BY OnlyFetcher
  <2> HIDE DEF Where, In
  <2>5. Where(e, 3, i, n) <=> e = x /\ i \in DOMAIN p /\ n = p[i].num
    BY <1>1, <1>2, <1>10, <2>2, <2>4, PlacesMoved
  <2>6. Where(e, 3, i, n)' <=> e = x /\ i \in DOMAIN (p \o d) /\ n = (p \o d)[i].num
    BY <1>1, <1>2, <1>10, <2>3, <2>4, PlacesMoved
  <2>7. Where(e, 1, i, n)' <=> Where(e, 1, i, n)
    BY <1>1, <1>2, <1>10, PlacesMoved
  <2> QED BY <2>1, <2>5, <2>6, <2>7
<1> HIDE DEF Where
<1>15. \A r, i, n : r \notin {3, 4} => (Where(e, r, i, n)' <=> Where(e, r, i, n))
  <2> SUFFICES ASSUME NEW r, NEW i, NEW n, r \notin {3, 4} PROVE Where(e, r, i, n)' <=> Where(e, r, i, n)
    OBVIOUS
  <2>1. r \in {0, 2} => (Where(e, r, i, n)' <=> Where(e, r, i, n))
    BY <1>1, PlacesElse
  <2>2. r \notin 0..4 => (Where(e, r, i, n)' <=> Where(e, r, i, n))
    BY PlacesElse
  <2>3. r = 1 => (Where(e, r, i, n)' <=> Where(e, r, i, n))
    BY <1>14
  <2> QED BY <2>1, <2>2, <2>3
<1>16. \A i, n : Where(e, 3, i, n)' => \/ i <= h /\ Where(e, 3, i, n)
                                       \/ i > h /\ i <= h + k /\ Where(e, 4, i - h, n)
  <2> SUFFICES ASSUME NEW i, NEW n, Where(e, 3, i, n)'
               PROVE  \/ i <= h /\ Where(e, 3, i, n)
                      \/ i > h /\ i <= h + k /\ Where(e, 4, i - h, n)
    OBVIOUS
  <2>1. e = x /\ i \in DOMAIN (p \o d) /\ n = (p \o d)[i].num
    BY <1>14
  <2>2. /\ i \in Nat /\ i <= h + k
        /\ i <= h => i \in DOMAIN p /\ (p \o d)[i] = p[i]
        /\ i > h => i - h \in DOMAIN d /\ (p \o d)[i] = d[i - h]
    BY <1>7, <1>11, <2>1, ConcatPlaces, SMTT(30)
  <2>3. CASE i <= h
    <3>1. Where(e, 3, i, n)
      BY <1>14, <2>1, <2>2, <2>3
    <3> QED BY <2>3, <3>1
  <2>4. CASE i > h
    <3>1. PICK j : j = i - h
      OBVIOUS
    <3>2. j \in DOMAIN d /\ n = d[j].num
      BY <2>1, <2>2, <2>4, <3>1
    <3>3. d[j].ep = x /\ j \in DOMAIN mbox /\ mbox[j] = d[j]
      BY <1>7, <1>13, <3>2 DEF Sorted
    <3>4. Where(e, 4, j, n)
      BY <1>14, <2>1, <3>2, <3>3
    <3> QED BY <2>2, <2>4, <3>1, <3>4
  <2> QED BY <2>2, <2>3, <2>4
<1>17. \A i, n : Where(e, 4, i, n)' => Where(e, 4, i + k, n)
  <2> SUFFICES ASSUME NEW i, NEW n, Where(e, 4, i, n)' PROVE Where(e, 4, i + k, n)
    OBVIOUS
  <2>1. PICK j : j = i + k
    OBVIOUS
  <2>2. j \in DOMAIN mbox /\ mbox[j].ep = e /\ n = mbox[j].num
    BY <1>13, <1>14, <2>1
  <2> QED BY <1>14, <2>1, <2>2
<1>18. \A i, n : Where(e, 3, i, n) => Where(e, 3, i, n)'
  BY <1>7, <1>11, <1>14, ConcatPlaces
<1>19. \A i, n : Where(e, 4, i, n) => IF i <= k THEN Where(e, 3, i + h, n)' ELSE Where(e, 4, i - k, n)'
  <2> SUFFICES ASSUME NEW i, NEW n, Where(e, 4, i, n)
               PROVE  IF i <= k THEN Where(e, 3, i + h, n)' ELSE Where(e, 4, i - k, n)'
    OBVIOUS
  <2>1. i \in DOMAIN mbox /\ mbox[i].ep = e /\ n = mbox[i].num /\ i \in Nat
    BY <1>13, <1>14
  <2>2. CASE i <= k
    <3>1. i \in DOMAIN d /\ d[i] = mbox[i]
      BY <1>13, <2>1, <2>2
    <3>2. e = x
      BY <1>7, <2>1, <3>1 DEF Sorted
    <3>3. PICK j : j = i + h
      OBVIOUS
    <3>4. j \in DOMAIN (p \o d) /\ (p \o d)[j] = d[i]
      BY <1>7, <1>11, <3>1, <3>3, ConcatPlaces
    <3>5. Where(e, 3, j, n)'
      BY <1>14, <2>1, <3>1, <3>2, <3>4
    <3> QED BY <2>2, <3>3, <3>5
  <2>3. CASE ~(i <= k)
    <3>1. PICK j : j = i - k
      OBVIOUS
    <3>2. j \in DOMAIN q /\ q[j] = mbox[i]
      BY <1>13, <2>1, <2>3, <3>1
    <3>3. Where(e, 4, j, n)'
      BY <1>14, <2>1, <3>2
    <3> QED BY <2>3, <3>1, <3>3
  <2> QED BY <2>2, <2>3
<1>20. sent'[e] = sent[e] /\ faults' = faults
  BY <1>1
<1> QED BY <1>15, <1>16, <1>17, <1>18, <1>19, <1>20, LineFetched

LEMMA NextLined ==
    ASSUME Base, Base', Chain, Draining, Hands, Reading, Contents, Carriers, [Next]_vars, NEW e \in Eps, Lined(e)
    PROVE  Lined(e)'
<1>1. CASE Still
  BY <1>1, LineStill
<1>2. ASSUME NEW t \in Threads, NEW w, NEW l, Calm(t, w, l) PROVE Lined(e)'
  BY <1>2, LineCalm
<1>3. ASSUME NEW m \in Eps, TargetSends(m) \/ AddReceivePkts(m) PROVE Lined(e)'
  BY <1>3, LineSends, LineAdds
<1>4. ASSUME NEW t \in Handlers, BusStatus(t) \/ BusRead(t) \/ BusReadFails(t) PROVE Lined(e)'
  BY <1>4, LineStatus, LineRead, LineFails
<1>5. ASSUME NEW t \in Handlers, RecyclePkts(t) \/ AllocPackets(t) \/ FetchPackets(t) PROVE Lined(e)'
  BY <1>5, LineFetches
<1>6. CASE IndicateSync \/ BadHeaderSync
  BY <1>6, LineIndicatedSync, LineFails
<1>7. ASSUME NEW c \in Contexts, QueueIndication(c) \/ BadHeader(c) \/ TakesAll(c) \/ Indicate(c)
      PROVE  Lined(e)'
  BY <1>7, LineQueued, LineBadHeader, LineTaken, LineIndicated
<1>8. CASE Busy
  BY <1>3, <1>4, <1>5, <1>6, <1>7, <1>8 DEF Busy
<1> QED BY <1>1, <1>2, <1>8, NextIs

LEMMA InitLined == ASSUME Init, NEW e \in Eps PROVE Lined(e)
<1>1. /\ indicated[e] = <<>> /\ indication[e] = <<>> /\ mbox = <<>> /\ sent[e] = 0
      /\ \A t \in Handlers : loc[t].done = <<>>
  BY ThreadsAre DEF Init, NoLoc
<1>2. DOMAIN <<>> = {}
  OBVIOUS
<1>3. \A r, i, n : ~Where(e, r, i, n)
  BY <1>1, <1>2 DEF Where, Has
<1>4. 1..sent[e] = {}
  BY <1>1
<1> HIDE DEF Where
<1> QED BY <1>3, <1>4 DEF Lined

\* Who carries messages to the queue, and the line of each endpoint.
THEOREM LinedHolds ==
    Spec => [](/\ Base /\ Chain /\ Draining /\ Hands /\ Reading /\ Contents /\ Carriers
               /\ \A e \in Eps : Lined(e))
<1> DEFINE I == /\ Base /\ Chain /\ Draining /\ Hands /\ Reading /\ Contents /\ Carriers
                /\ \A e \in Eps : Lined(e)
<1>1. Init => I
  BY InitBase, InitChain, InitDraining, InitHands, InitReading, InitContents, InitCarriers, InitLined
<1>2. I /\ [Next]_vars => I'
  <2> SUFFICES ASSUME I, [Next]_vars PROVE I'
    OBVIOUS
  <2>1. Base' /\ Chain'
    BY NextBaseChain
  <2>2. Draining'
    BY NextDraining, StutterDraining
  <2>3. Hands' /\ Reading' /\ Contents' /\ Carriers'
    BY <2>1, NextHands, NextReading, NextContents, NextCarriers
  <2>4. \A e \in Eps : Lined(e)'
    BY <2>1, NextLined
  <2> QED BY <2>1, <2>2, <2>3, <2>4
<1> QED BY <1>1, <1>2, PTL DEF Spec

-----------------------------------------------------------------------------
LEMMA NatMin ==
    ASSUME NEW T \in SUBSET Nat, T # {}
    PROVE  \E n \in T : \A m \in T : n <= m
<1> DEFINE R == OpToRel(<, Nat)
<1>1. IsWellFoundedOn(R, Nat)
  BY NatLessThanWellFounded
<1>2. \A x, y \in Nat : x < y => <<x, y>> \in R
  BY DEF OpToRel
<1> HIDE DEF R
<1>3. PICK x \in T : \A y \in T : ~(<<y, x>> \in R)
  BY <1>1, WFMin
<1>4. \A y \in T : ~(y < x)
  BY <1>2, <1>3
<1> QED BY <1>4

\* The numbers indicated increase, and where none is missing they are the first.
LEMMA LinedIndicated ==
    ASSUME Base, NEW e \in Eps, Lined(e)
    PROVE  \A i \in DOMAIN indicated[e] : /\ i > 1 => indicated[e][i - 1] < indicated[e][i]
                                          /\ faults = 0 => indicated[e][i] = i
<1>1. PICK p \in Seq(1..MaxMsgs) : p = indicated[e]
  BY DEF Base, Types
<1>2. PICK h \in Nat : h = Len(p) /\ DOMAIN p = 1..h
  BY <1>1
<1>3. \A i \in 1..h : p[i] \in Nat /\ p[i] > 0
  <2>1. \A i \in DOMAIN p : p[i] \in 1..MaxMsgs
    BY SeqElement
  <2> QED BY <1>2, <2>1, Bounds
<1>4. \A i, n : Where(e, 0, i, n) <=> i \in 1..h /\ n = p[i]
  BY <1>1, <1>2 DEF Where
<1> HIDE DEF Where
<1>5. \A i, j \in 1..h : i < j => p[i] < p[j]
  <2> SUFFICES ASSUME NEW i \in 1..h, NEW j \in 1..h, i < j PROVE p[i] < p[j]
    OBVIOUS
  <2>1. Where(e, 0, i, p[i]) /\ Where(e, 0, j, p[j]) /\ Before(0, i, 0, j)
    BY <1>4 DEF Before
  <2> QED BY <2>1 DEF Lined
<1>6. ASSUME NEW i \in 1..h, i > 1 PROVE p[i - 1] < p[i]
  <2>1. i - 1 \in 1..h /\ i - 1 < i
    BY <1>6
  <2> QED BY <1>5, <2>1
<1>7. ASSUME faults = 0, NEW i \in 1..h, p[i] # i PROVE FALSE
  <2> DEFINE T == {j \in 1..h : p[j] # j}
  <2>1. T \in SUBSET Nat /\ T # {}
    BY <1>7
  <2>2. PICK m \in T : \A j \in T : m <= j
    BY <2>1, NatMin
  <2>3. m \in 1..h /\ p[m] # m /\ \A j \in 1..h : j < m => p[j] = j
    BY <2>2
  <2> HIDE DEF T
  <2>4. PICK s \in Nat : s = sent[e]
    BY DEF Base, Types
  <2>5. PICK n \in Nat : n = p[m] /\ n > 0 /\ n <= s
    <3>1. Where(e, 0, m, p[m])
      BY <1>4, <2>3
    <3>2. p[m] <= sent[e]
      BY <3>1 DEF Lined
    <3> QED BY <1>3, <2>3, <2>4, <3>2
  <2>6. n > m
    <3>1. CASE m = 1
      BY <2>3, <2>5, <3>1
    <3>2. CASE m > 1
      <4>1. PICK j \in 1..h : j = m - 1
        BY <2>3, <3>2
      <4>2. p[j] = j /\ p[j] < p[m]
        BY <1>5, <2>3, <4>1
      <4>3. j < n /\ n # m
        BY <2>3, <2>5, <4>2
      <4> QED BY <2>3, <4>1, <4>3
    <3> QED BY <2>3, <3>1, <3>2
  <2>7. m \in 1..sent[e]
    BY <2>3, <2>4, <2>5, <2>6
  <2>8. PICK r, j : Where(e, r, j, m)
    BY <1>7, <2>7 DEF Lined
  <2>9. r \in 0..4 /\ j \in Nat
    BY <2>8, WhereType
  <2>10. CASE r = 0
    <3>1. j \in 1..h /\ m = p[j]
      BY <1>4, <2>8, <2>10
    <3>2. j < m => FALSE
      BY <2>3, <3>1
    <3>3. j = m => FALSE
      BY <2>3, <3>1
    <3>4. j > m => n < m
      BY <1>5, <2>3, <2>5, <3>1
    <3> QED BY <2>3, <2>5, <2>6, <3>1, <3>2, <3>3, <3>4
  <2>11. CASE r > 0
    <3>1. Where(e, 0, m, n) /\ Before(0, m, r, j)
      BY <1>4, <2>3, <2>5, <2>11 DEF Before
    <3>2. n < m
      BY <2>8, <3>1 DEF Lined
    <3> QED BY <2>3, <2>5, <2>6, <3>2
  <2> QED BY <2>9, <2>10, <2>11
<1> QED BY <1>1, <1>2, <1>6, <1>7

\* Each endpoint's messages reach its user in the order the target sent them,
\* whichever threads fetch, queue and indicate them, and without failures from
\* the first on with none left out.
THEOREM IndicatedInOrderCorrect == Spec => []IndicatedInOrder
<1>1. Base /\ (\A e \in Eps : Lined(e)) => IndicatedInOrder
  BY LinedIndicated DEF IndicatedInOrder
<1> QED BY <1>1, LinedHolds, PTL
=============================================================================
