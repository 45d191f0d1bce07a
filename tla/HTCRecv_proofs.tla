-------------------------- MODULE HTCRecv_proofs ---------------------------
(***************************************************************************)
(* Proofs about HTCRecv, for any number of endpoints, buffers, messages,   *)
(* contexts of the HIF and failures: where its threads are and what they   *)
(* ask of the bus.                                                         *)
(*                                                                         *)
(* First where each thread can be, what its locals hold there and who      *)
(* waits for which request (Base), with one lemma for each action.  Then   *)
(* the duty to acknowledge the interrupt, which is always in one place     *)
(* (Chain), and who comes to drain a queue of indications (Draining).      *)
(* Then the messages: which steps touch them at all (Calm, Busy), who may  *)
(* have some in hand (Hands), and that what is asked for on the bus was    *)
(* announced (Reading).                                                    *)
(***************************************************************************)
EXTENDS HTCRecv, FiniteSetTheorems, SequenceTheorems, TLAPS

-----------------------------------------------------------------------------
(***************************************************************************)
(* Sums over finite sets.                                                  *)
(***************************************************************************)
Pairs(f) == UNION {{x} \X (1..f[x]) : x \in DOMAIN f}

LEMMA PairsAre ==
    ASSUME NEW S, NEW f \in [S -> Nat]
    PROVE  \A p : p \in Pairs(f) <=> p = <<p[1], p[2]>> /\ p[1] \in S /\ p[2] \in 1..f[p[1]]
  BY DEF Pairs

LEMMA TotalIs ==
    ASSUME NEW S, IsFiniteSet(S), NEW f \in [S -> Nat]
    PROVE  /\ IsFiniteSet(Pairs(f)) /\ Total(f) = Cardinality(Pairs(f)) /\ Total(f) \in Nat
<1> DEFINE h == [x \in S |-> {x} \X (1..f[x])]
           R == {{x} \X (1..f[x]) : x \in S}
<1>1. h \in Surjection(S, R)
  BY DEF Surjection
<1>2. IsFiniteSet(R)
  BY <1>1, FS_Surjection
<1>3. ASSUME NEW T \in R PROVE IsFiniteSet(T)
  <2>1. PICK x \in S : T = {x} \X (1..f[x])
    OBVIOUS
  <2>2. f[x] \in Int /\ 1 \in Int
    OBVIOUS
  <2>3. IsFiniteSet(1..f[x])
    BY <2>2, FS_Interval
  <2>4. IsFiniteSet({x})
    BY FS_Singleton
  <2> QED BY <2>1, <2>3, <2>4, FS_Product
<1>4. DOMAIN f = S
  OBVIOUS
<1>5. Pairs(f) = UNION R
  BY <1>4 DEF Pairs
<1> HIDE DEF R
<1>6. IsFiniteSet(UNION R)
  BY <1>2, <1>3, FS_UNION
<1>7. Total(f) = Cardinality(Pairs(f))
  BY DEF Total, Pairs
<1> QED BY <1>5, <1>6, <1>7, FS_CardinalityType

\* A row of n pairs.
LEMMA Row ==
    ASSUME NEW x, NEW n \in Nat
    PROVE  IsFiniteSet({x} \X (1..n)) /\ Cardinality({x} \X (1..n)) = n
<1>1. n \in Int /\ 1 \in Int
  OBVIOUS
<1>2. IsFiniteSet(1..n) /\ Cardinality(1..n) = IF 1 > n THEN 0 ELSE n - 1 + 1
  BY <1>1, FS_Interval
<1>3. Cardinality(1..n) = n
  BY <1>2
<1>4. IsFiniteSet({x}) /\ Cardinality({x}) = 1
  BY FS_Singleton
<1>5. IsFiniteSet({x} \X (1..n)) /\ Cardinality({x} \X (1..n)) = 1 * n
  BY <1>2, <1>3, <1>4, FS_Product
<1> QED BY <1>5

\* The rows of f and g differ in one place.
LEMMA TotalRow ==
    ASSUME NEW S, IsFiniteSet(S), NEW f \in [S -> Nat], NEW T, NEW z, z \notin T,
           S = T \cup {z}, NEW g \in [T -> Nat], \A x \in T : g[x] = f[x]
    PROVE  Total(f) = Total(g) + f[z] /\ IsFiniteSet(T)
<1>1. IsFiniteSet(T) /\ z \in S /\ f[z] \in Nat
  BY FS_Subset
<1>2. /\ IsFiniteSet(Pairs(f)) /\ Total(f) = Cardinality(Pairs(f)) /\ Total(f) \in Nat
      /\ IsFiniteSet(Pairs(g)) /\ Total(g) = Cardinality(Pairs(g)) /\ Total(g) \in Nat
  BY <1>1, TotalIs
<1> DEFINE r == {z} \X (1..f[z])
<1>3. Pairs(f) = Pairs(g) \cup r
  <2>1. \A p : p \in Pairs(f) <=> p = <<p[1], p[2]>> /\ p[1] \in S /\ p[2] \in 1..f[p[1]]
    BY PairsAre
  <2>2. \A p : p \in Pairs(g) <=> p = <<p[1], p[2]>> /\ p[1] \in T /\ p[2] \in 1..g[p[1]]
    BY PairsAre
  <2>3. \A p : p \in r <=> p = <<p[1], p[2]>> /\ p[1] = z /\ p[2] \in 1..f[z]
    OBVIOUS
  <2> HIDE DEF r
  <2>4. ASSUME NEW p \in Pairs(f) PROVE p \in Pairs(g) \cup r
    <3>1. p = <<p[1], p[2]>> /\ p[1] \in S /\ p[2] \in 1..f[p[1]]
      BY <2>1
    <3>2. CASE p[1] = z
      BY <2>3, <3>1, <3>2
    <3>3. CASE p[1] \in T
      BY <2>2, <3>1, <3>3
    <3> QED BY <3>1, <3>2, <3>3
  <2>5. ASSUME NEW p \in Pairs(g) PROVE p \in Pairs(f)
    BY <2>1, <2>2
  <2>6. ASSUME NEW p \in r PROVE p \in Pairs(f)
    BY <1>1, <2>1, <2>3
  <2> QED BY <2>4, <2>5, <2>6
<1>4. Pairs(g) \cap r = {}
  <2>1. \A p : p \in Pairs(g) <=> p = <<p[1], p[2]>> /\ p[1] \in T /\ p[2] \in 1..g[p[1]]
    BY PairsAre
  <2> QED BY <2>1
<1>5. IsFiniteSet(r) /\ Cardinality(r) = f[z]
  BY <1>1, Row
<1> HIDE DEF r
<1>6. Cardinality(Pairs(f)) = Cardinality(Pairs(g)) + Cardinality(r) - Cardinality(Pairs(g) \cap r)
  BY <1>2, <1>3, <1>5, FS_Union
<1>7. Cardinality(Pairs(g) \cap r) = 0
  BY <1>4, FS_EmptySet
<1> QED BY <1>1, <1>2, <1>5, <1>6, <1>7

LEMMA TotalSame ==
    ASSUME NEW S, NEW f \in [S -> Nat], NEW g \in [S -> Nat], \A x \in S : f[x] = g[x]
    PROVE  Total(f) = Total(g)
<1>1. f = g
  OBVIOUS
<1> QED BY <1>1

\* One value changes.
LEMMA TotalStep ==
    ASSUME NEW S, IsFiniteSet(S), NEW f \in [S -> Nat], NEW g \in [S -> Nat], NEW z \in S,
           \A x \in S : x # z => g[x] = f[x]
    PROVE  /\ Total(g) = Total(f) - f[z] + g[z] /\ Total(f) \in Nat /\ Total(g) \in Nat
           /\ f[z] <= Total(f)
<1> DEFINE T == S \ {z}
           h == [x \in T |-> f[x]]
<1>1. /\ h \in [T -> Nat] /\ z \notin T /\ S = T \cup {z}
      /\ \A x \in T : h[x] = f[x] /\ h[x] = g[x]
      /\ f[z] \in Nat /\ g[z] \in Nat
  OBVIOUS
<1> HIDE DEF h, T
<1>2. Total(f) = Total(h) + f[z] /\ IsFiniteSet(T)
  BY <1>1, TotalRow
<1>3. Total(g) = Total(h) + g[z]
  BY <1>1, TotalRow
<1>4. Total(h) \in Nat /\ Total(f) \in Nat /\ Total(g) \in Nat
  BY <1>1, <1>2, TotalIs
<1> QED BY <1>1, <1>2, <1>3, <1>4

LEMMA TotalZero ==
    ASSUME NEW S, IsFiniteSet(S), NEW f \in [S -> Nat]
    PROVE  Total(f) = 0 <=> \A x \in S : f[x] = 0
<1>1. ASSUME Total(f) = 0, NEW x \in S PROVE f[x] = 0
  <2>1. f[x] <= Total(f) /\ f[x] \in Nat
    BY TotalStep
  <2> QED BY <1>1, <2>1
<1>2. ASSUME \A x \in S : f[x] = 0 PROVE Total(f) = 0
  <2>1. \A p : p \in Pairs(f) <=> p = <<p[1], p[2]>> /\ p[1] \in S /\ p[2] \in 1..f[p[1]]
    BY PairsAre
  <2>2. \A x \in S : 1..f[x] = {}
    BY <1>2
  <2>3. Pairs(f) = {}
    BY <2>1, <2>2
  <2> QED BY <2>3, TotalIs, FS_EmptySet
<1> QED BY <1>1, <1>2

\* A value at the end of a sequence.
LEMMA TotalAppend ==
    ASSUME NEW n \in Nat, NEW f \in [1..n -> Nat], NEW g \in [1..(n + 1) -> Nat],
           \A i \in 1..n : g[i] = f[i]
    PROVE  Total(g) = Total(f) + g[n + 1]
<1>1. n + 1 \in Int /\ 1 \in Int
  OBVIOUS
<1>2. IsFiniteSet(1..(n + 1))
  BY <1>1, FS_Interval
<1>3. 1..(n + 1) = 1..n \cup {n + 1} /\ n + 1 \notin 1..n
  OBVIOUS
<1> QED BY <1>2, <1>3, TotalRow

\* The first value of a sequence.
LEMMA TotalTail ==
    ASSUME NEW n \in Nat, NEW f \in [1..(n + 1) -> Nat], NEW g \in [1..n -> Nat],
           \A i \in 1..n : g[i] = f[i + 1]
    PROVE  Total(f) = Total(g) + f[1]
<1> DEFINE T == 2..(n + 1)
           h == [i \in T |-> f[i]]
           m == [p \in Pairs(g) |-> <<p[1] + 1, p[2]>>]
<1>1. n + 1 \in Int /\ 1 \in Int /\ n \in Int
  OBVIOUS
<1>2. IsFiniteSet(1..(n + 1)) /\ IsFiniteSet(1..n)
  BY <1>1, FS_Interval
<1>3. /\ 1..(n + 1) = T \cup {1} /\ 1 \notin T
      /\ h \in [T -> Nat] /\ \A i \in T : h[i] = f[i]
  OBVIOUS
<1>4. \A i \in 1..n : i + 1 \in T /\ h[i + 1] = g[i]
  OBVIOUS
<1>5. \A i \in T : i - 1 \in 1..n /\ (i - 1) + 1 = i /\ h[i] = g[i - 1]
  OBVIOUS
<1> HIDE DEF h, T
<1>6. Total(f) = Total(h) + f[1] /\ IsFiniteSet(T)
  <2>1. PICK S : S = 1..(n + 1)
    OBVIOUS
  <2>2. f \in [S -> Nat] /\ IsFiniteSet(S) /\ S = T \cup {1}
    BY <1>2, <1>3, <2>1
  <2> QED BY <1>3, <2>2, TotalRow
<1>7. /\ IsFiniteSet(Pairs(g)) /\ Total(g) = Cardinality(Pairs(g))
      /\ IsFiniteSet(Pairs(h)) /\ Total(h) = Cardinality(Pairs(h))
  BY <1>2, <1>3, <1>6, TotalIs
<1>8. \A p : p \in Pairs(g) <=> p = <<p[1], p[2]>> /\ p[1] \in 1..n /\ p[2] \in 1..g[p[1]]
  BY PairsAre
<1>9. \A p : p \in Pairs(h) <=> p = <<p[1], p[2]>> /\ p[1] \in T /\ p[2] \in 1..h[p[1]]
  BY <1>3, PairsAre
<1>10. ASSUME NEW p \in Pairs(g)
       PROVE  /\ m[p] \in Pairs(h) /\ p[1] \in 1..n /\ p = <<p[1], p[2]>>
  <2>1. p = <<p[1], p[2]>> /\ p[1] \in 1..n /\ p[2] \in 1..g[p[1]]
    BY <1>8
  <2>2. m[p] = <<p[1] + 1, p[2]>> /\ p[1] + 1 \in T /\ p[2] \in 1..h[p[1] + 1]
    BY <1>4, <2>1
  <2> QED BY <1>9, <2>1, <2>2
<1>11. ASSUME NEW p \in Pairs(h) PROVE \E q \in Pairs(g) : m[q] = p
  <2>1. p = <<p[1], p[2]>> /\ p[1] \in T /\ p[2] \in 1..h[p[1]]
    BY <1>9
  <2>2. p[1] - 1 \in 1..n /\ p[2] \in 1..g[p[1] - 1] /\ (p[1] - 1) + 1 = p[1]
    BY <1>5, <2>1
  <2>3. <<p[1] - 1, p[2]>> \in Pairs(g)
    BY <1>8, <2>2
  <2>4. m[<<p[1] - 1, p[2]>>] = <<(p[1] - 1) + 1, p[2]>>
    BY <2>3
  <2> QED BY <2>1, <2>2, <2>3, <2>4
<1>12. m \in [Pairs(g) -> Pairs(h)]
  BY <1>10
<1>13. \A p, q \in Pairs(g) : m[p] = m[q] => p = q
  <2>1. ASSUME NEW p \in Pairs(g), NEW q \in Pairs(g), m[p] = m[q] PROVE p = q
    <3>1. p[1] \in 1..n /\ q[1] \in 1..n /\ p = <<p[1], p[2]>> /\ q = <<q[1], q[2]>>
      BY <1>10
    <3>2. p[1] + 1 = q[1] + 1 /\ p[2] = q[2]
      BY <2>1
    <3>3. p[1] = q[1]
      BY <3>1, <3>2
    <3> QED BY <3>1, <3>2, <3>3
  <2> QED BY <2>1
<1> HIDE DEF m
<1>14. m \in Bijection(Pairs(g), Pairs(h))
  BY <1>11, <1>12, <1>13 DEF Bijection, Injection, Surjection, IsInjective
<1>15. Cardinality(Pairs(h)) = Cardinality(Pairs(g))
  BY <1>7, <1>14, FS_Bijection DEF ExistsBijection
<1> QED BY <1>6, <1>7, <1>15

-----------------------------------------------------------------------------
(***************************************************************************)
(* Types, where each thread can be, and what its locals hold there.        *)
(***************************************************************************)
Messages == [ep : Eps, num : 1..MaxMsgs]

BusRequests == [op : {"status", "read", "write"}, by : Threads \cup {Nobody},
                ep : Eps \cup {NoEp}, n : 0..MaxBundle, last : BOOLEAN, val : BOOLEAN]

LocalVars == [la : 0..MaxBundle, ep : Eps \cup {NoEp}, fetch : Nat, total : Nat,
              done : Seq(Messages), doneEp : Eps \cup {NoEp}, last : BOOLEAN, other : BOOLEAN,
              async : BOOLEAN, ok : BOOLEAN, more : BOOLEAN,
              from : {"dsr", "more", "events", "drain"}]

UserPlaces == {"idle", "enable", "write on", "waiting"}
DsrPlaces == {"idle", "status", "waiting", "pending", "alloc", "fetch", "check", "stop",
              "write off", "return", "others"}
SyncPlaces == {"process", "recycle", "enable", "write on"}
ContextPlaces == {"idle", "complete", "more", "events", "drain", "indicate", "alloc", "fetch",
                  "recycle", "check", "stop", "enable", "write on", "write off", "waiting",
                  "return"}
Places == UserPlaces \cup DsrPlaces \cup SyncPlaces \cup ContextPlaces

Types ==
    /\ mode \in {"sync", "async"} /\ mbox \in Seq(Messages) /\ sent \in [Eps -> Nat]
    /\ Total(sent) <= MaxMsgs
    /\ other \in BOOLEAN /\ reg \in BOOLEAN /\ shadow \in BOOLEAN /\ taken \in BOOLEAN
    /\ recheck \in BOOLEAN /\ waiting \in BOOLEAN
    /\ acks \in Nat /\ faults \in 0..MaxFaults
    /\ bus \in Seq(BusRequests)
    /\ rxBuffers \in [Eps -> Nat] /\ withUser \in [Eps -> Nat] /\ lost \in [Eps -> Nat]
    /\ waitingEp \in Eps \cup {NoEp}
    /\ indication \in [Eps -> Seq(Messages)] /\ draining \in [Eps -> BOOLEAN]
    /\ indicated \in [Eps -> Seq(1..MaxMsgs)]
    /\ pc \in [Threads -> Places] /\ loc \in [Threads -> LocalVars]

\* Only the handler waits for its messages, and only where the HIF is synchronous.
MayBe(t, w) ==
    /\ t = "user" => w \in UserPlaces
    /\ t = "dsr" => w \in DsrPlaces \/ (mode = "sync" /\ w \in SyncPlaces)
    /\ t \in Contexts => w \in ContextPlaces /\ (mode = "sync" => w = "idle")

\* What the locals l hold at w.
Holding(w, l) ==
    /\ l.fetch <= MaxBundle \/ w = "recycle"
    /\ l.fetch > 0 \/ w = "recycle" => l.ep \in Eps
    /\ l.la > 0 => l.ep \in Eps
    /\ w = "alloc" => l.la > 0
    /\ l.done # <<>> \/ w \in {"more", "drain", "indicate"} => l.doneEp \in Eps

\* And those of a context of the HIF.
Handling == {"alloc", "fetch", "check", "stop", "write off", "return"}

HoldingContext(w, l) ==
    /\ w = "complete" => l.done # <<>>
    /\ w \in {"complete", "more"} /\ l.la > 0 => l.last /\ l.more
    /\ w = "more" => l.more
    /\ w = "events" => l.doneEp = NoEp
    /\ w \in Handling => \/ l.from = "more" /\ l.doneEp \in Eps
                         \/ l.from = "events" /\ l.doneEp = NoEp
    /\ w \in {"more", "complete", "recycle", "enable", "write on", "waiting"} => l.from # "drain"
    /\ w = "indicate" => l.from = "drain"
    /\ w \in Handling \cup {"more", "events", "drain"} => l.done = <<>>
    /\ w \in {"alloc", "events", "more", "complete"} => l.total = 0
    /\ w = "fetch" /\ l.fetch > 0 => l.total > 0
    /\ w \in {"recycle", "enable", "write on", "waiting"} /\ l.done # <<>>
          => l.total = 0 /\ l.la = 0 /\ ~l.more
    /\ w \notin {"fetch", "recycle"} => l.fetch = 0

\* And those of the handler, where it only starts a chain.
HoldingStarter(w, l) ==
    /\ l.ok
    /\ w \in {"pending", "alloc"} => l.total = 0
    /\ w = "pending" => ~l.async
    /\ w = "fetch" /\ l.fetch > 0 => l.total > 0

Good(t, w, l) ==
    /\ MayBe(t, w) /\ Holding(w, l)
    /\ t \in Contexts => HoldingContext(w, l)
    /\ t = "dsr" /\ mode = "async" => HoldingStarter(w, l)

Control == \A t \in Threads : Good(t, pc[t], loc[t])

\* Who submits a request waits for it, or nobody does.
Requested(r) ==
    /\ r.op = "read" => /\ r.ep \in Eps /\ r.n > 0
                        /\ r.by = IF mode = "sync" THEN "dsr" ELSE Nobody
    /\ r.op = "status" => r.by = "dsr" \/ (r.by = Nobody /\ mode = "async")
    /\ r.op = "write" => /\ r.by = Nobody => ~r.val
                         /\ r.by = "user" \/ r.by \in Contexts => r.val
                         /\ r.by = "dsr" => mode = "sync"

Requests ==
    /\ \A i \in DOMAIN bus : Requested(bus[i]) /\ (bus[i].by \in Threads => pc[bus[i].by] = "waiting")
    /\ \A i, j \in DOMAIN bus : bus[i].by = bus[j].by => i = j \/ bus[i].by = Nobody

Base == Types /\ Control /\ Requests

LEMMA ThreadsAre ==
    /\ "dsr" \in Threads /\ "user" \in Threads /\ Contexts \subseteq Threads
    /\ Threads = {"dsr", "user"} \cup Contexts /\ Handlers = {"dsr"} \cup Contexts
    /\ "dsr" \notin Contexts /\ "user" \notin Contexts /\ Nobody \notin Threads /\ NoEp \notin Eps
    /\ MaxBundle \in Nat \ {0}
  BY RecvAssumption DEF Threads, Handlers, Nobody

LEMMA Bounds == MaxMsgs \in Nat /\ MaxFaults \in Nat /\ IsFiniteSet(Eps) /\ NumBufs \in [Eps -> Nat \ {0}]
  BY RecvAssumption

LEMMA MoreFaults ==
    ASSUME Types, faults' = faults + 1, faults < MaxFaults
    PROVE  faults' \in 0..MaxFaults
  BY Bounds DEF Types

LEMMA NoLocType == NoLoc \in LocalVars
  BY ThreadsAre DEF NoLoc, LocalVars

\* A thread moves; the others stay.
LEMMA Moves ==
    ASSUME Types, Control, mode' = mode, NEW t \in Threads, NEW w \in Places, NEW l \in LocalVars,
           Good(t, w, l), pc' = [pc EXCEPT ![t] = w], loc' = [loc EXCEPT ![t] = l]
    PROVE  /\ pc' \in [Threads -> Places] /\ loc' \in [Threads -> LocalVars] /\ Control'
           /\ pc'[t] = w /\ loc'[t] = l
           /\ \A u \in Threads : u # t => pc'[u] = pc[u] /\ loc'[u] = loc[u]
<1>1. /\ pc' \in [Threads -> Places] /\ loc' \in [Threads -> LocalVars]
      /\ pc'[t] = w /\ loc'[t] = l
      /\ \A u \in Threads : u # t => pc'[u] = pc[u] /\ loc'[u] = loc[u]
  BY DEF Types
<1> HIDE DEF LocalVars, Places
<1>2. ASSUME NEW u \in Threads PROVE Good(u, pc[u], loc[u])' <=> Good(u, pc'[u], loc'[u])
  BY DEF Good, MayBe
<1>3. ASSUME NEW u \in Threads PROVE Good(u, pc'[u], loc'[u])
  <2>1. CASE u = t
    BY <1>1, <2>1
  <2>2. CASE u # t
    BY <1>1, <2>2 DEF Control
  <2> QED BY <2>1, <2>2
<1> QED BY <1>1, <1>2, <1>3 DEF Control

\* A thread that waits for nothing moves, and submits nothing.
LEMMA SameRequests ==
    ASSUME Types, Requests, UNCHANGED <<mode, bus>>, NEW t \in Threads, pc[t] # "waiting",
           \A u \in Threads : u # t => pc'[u] = pc[u]
    PROVE  Requests'
  BY DEF Requests, Requested

\* It submits a request that it waits for, or that nobody waits for.
LEMMA SubmitRequests ==
    ASSUME Types, Requests, mode' = mode, NEW t \in Threads, pc[t] # "waiting",
           \A u \in Threads : u # t => pc'[u] = pc[u],
           NEW r \in BusRequests, bus' = Append(bus, r), Requested(r),
           r.by = Nobody \/ (r.by = t /\ pc'[t] = "waiting")
    PROVE  Requests' /\ bus' \in Seq(BusRequests)
<1>1. /\ Len(bus') = Len(bus) + 1 /\ Len(bus) \in Nat
      /\ \A i \in 1..Len(bus) : bus'[i] = bus[i]
      /\ bus'[Len(bus) + 1] = r
      /\ DOMAIN bus = 1..Len(bus) /\ DOMAIN bus' = 1..(Len(bus) + 1)
      /\ bus' \in Seq(BusRequests)
  BY DEF Types
<1>2. \A i \in DOMAIN bus : bus[i].by # t
  BY DEF Requests
<1>3. ASSUME NEW i \in DOMAIN bus'
      PROVE Requested(bus'[i]) /\ (bus'[i].by \in Threads => pc'[bus'[i].by] = "waiting")
  <2>1. CASE i \in 1..Len(bus)
    BY <1>1, <1>2, <2>1 DEF Requests
  <2>2. CASE i = Len(bus) + 1
    BY <1>1, <2>2, ThreadsAre
  <2> QED BY <1>1, <1>3, <2>1, <2>2
<1>4. ASSUME NEW i \in DOMAIN bus', NEW j \in DOMAIN bus', bus'[i].by = bus'[j].by
      PROVE i = j \/ bus'[i].by = Nobody
  BY <1>1, <1>2, <1>4 DEF Requests
<1>5. \A x : Requested(x)' <=> Requested(x)
  BY DEF Requested
<1> QED BY <1>1, <1>3, <1>4, <1>5 DEF Requests

\* The first request is completed to thread t.
LEMMA TailRequests ==
    ASSUME Types, Requests, mode' = mode, bus # <<>>, bus' = Tail(bus), NEW t \in Threads,
           \A u \in Threads : u # t => pc'[u] = pc[u],
           t = Head(bus).by \/ pc[t] # "waiting"
    PROVE  Requests' /\ bus' \in Seq(BusRequests)
<1>1. /\ Len(bus) \in Nat \ {0} /\ Len(bus') = Len(bus) - 1
      /\ \A i \in 1..Len(bus') : bus'[i] = bus[i + 1]
      /\ DOMAIN bus = 1..Len(bus) /\ DOMAIN bus' = 1..Len(bus')
      /\ bus' \in Seq(BusRequests) /\ Head(bus) = bus[1]
  BY DEF Types
<1>2. \A i \in DOMAIN bus : i > 1 => bus[i].by # t
  BY <1>1, ThreadsAre DEF Requests
<1>3. ASSUME NEW i \in DOMAIN bus'
      PROVE Requested(bus'[i]) /\ (bus'[i].by \in Threads => pc'[bus'[i].by] = "waiting")
  <2>1. i + 1 \in DOMAIN bus /\ i + 1 > 1 /\ bus'[i] = bus[i + 1]
    BY <1>1
  <2> QED BY <1>2, <2>1 DEF Requests
<1>4. ASSUME NEW i \in DOMAIN bus', NEW j \in DOMAIN bus', bus'[i].by = bus'[j].by
      PROVE i = j \/ bus'[i].by = Nobody
  <2>1. i + 1 \in DOMAIN bus /\ j + 1 \in DOMAIN bus /\ bus'[i] = bus[i + 1] /\ bus'[j] = bus[j + 1]
    BY <1>1
  <2>2. i + 1 = j + 1 \/ bus[i + 1].by = Nobody
    BY <1>4, <2>1 DEF Requests
  <2> QED BY <1>1, <2>1, <2>2
<1>5. \A x : Requested(x)' <=> Requested(x)
  BY DEF Requested
<1> QED BY <1>1, <1>3, <1>4, <1>5 DEF Requests

Moved(t, w, l) ==
    /\ pc'[t] = w /\ loc'[t] = l
    /\ \A u \in Threads : u # t => pc'[u] = pc[u] /\ loc'[u] = loc[u]

\* A look-ahead changes only what is announced.
SameBut(l, k) ==
    /\ l.fetch = k.fetch /\ l.total = k.total /\ l.done = k.done /\ l.doneEp = k.doneEp
    /\ l.last = k.last /\ l.other = k.other /\ l.async = k.async /\ l.ok = k.ok
    /\ l.more = k.more /\ l.from = k.from

LEMMA LookAheadsType ==
    ASSUME NEW q \in Seq(Messages), NEW k \in LocalVars, NEW l \in Trailers(q, k)
    PROVE  /\ l \in LocalVars /\ SameBut(l, k)
           /\ l.la > 0 => /\ q # <<>> /\ l.la <= Len(q) /\ l.la <= MaxBundle /\ l.ep \in Eps
                          /\ \A i \in 1..l.la : q[i].ep = l.ep
           /\ l.la = 0 => l.ep = k.ep
<1>1. CASE l = [k EXCEPT !.la = 0]
  <2>1. 0 \in 0..MaxBundle
    BY ThreadsAre
  <2>2. l \in LocalVars /\ SameBut(l, k) /\ l.la = 0 /\ l.ep = k.ep
    BY <1>1, <2>1 DEF LocalVars, SameBut
  <2> QED BY <2>2
<1>2. ASSUME q # <<>>, NEW n \in Announced(q), l = [k EXCEPT !.la = n, !.ep = q[1].ep]
      PROVE  /\ l \in LocalVars /\ SameBut(l, k) /\ l.la > 0
             /\ q # <<>> /\ l.la <= Len(q) /\ l.la <= MaxBundle /\ l.ep \in Eps
             /\ \A i \in 1..l.la : q[i].ep = l.ep
  <2>1. q[1] \in Messages /\ n \in 1..MaxBundle /\ n <= Len(q) /\ \A i \in 1..n : q[i].ep = q[1].ep
    BY <1>2 DEF Announced
  <2>2. q[1].ep \in Eps /\ n \in 0..MaxBundle /\ n > 0
    BY <2>1, ThreadsAre DEF Messages
  <2>3. l \in LocalVars /\ SameBut(l, k) /\ l.la = n /\ l.ep = q[1].ep
    BY <1>2, <2>2 DEF LocalVars, SameBut
  <2> QED BY <1>2, <2>1, <2>2, <2>3
<1>3. \/ l = [k EXCEPT !.la = 0]
      \/ q # <<>> /\ \E n \in Announced(q) : l = [k EXCEPT !.la = n, !.ep = q[1].ep]
  BY DEF Trailers, LookAheads
<1>4. ASSUME l.la > 0 PROVE l.la # 0
  BY <1>4
<1> QED BY <1>1, <1>2, <1>3, <1>4

LEMMA LookAheadsIn == \A q, l : LookAheads(q, l) \subseteq Trailers(q, l)
  BY DEF Trailers

LEMMA InitBase == Init => Base
<1> SUFFICES ASSUME Init PROVE Base
  OBVIOUS
<1>1. Types
  <2>1. /\ mode \in {"sync", "async"} /\ rxBuffers \in [Eps -> Nat]
        /\ mbox = <<>> /\ bus = <<>> /\ \A e \in Eps : indication[e] = <<>> /\ indicated[e] = <<>>
    BY RecvAssumption DEF Init
  <2>2. pc \in [Threads -> Places]
    BY DEF Init, Places, UserPlaces
  <2>3. loc \in [Threads -> LocalVars]
    BY NoLocType DEF Init
  <2>4. sent \in [Eps -> Nat] /\ withUser \in [Eps -> Nat] /\ lost \in [Eps -> Nat]
    BY DEF Init
  <2>7. Total(sent) <= MaxMsgs /\ faults \in 0..MaxFaults
    <3>1. Total(sent) = 0 <=> \A e \in Eps : sent[e] = 0
      BY <2>4, Bounds, TotalZero
    <3> QED BY <3>1, Bounds DEF Init
  <2>5. draining \in [Eps -> BOOLEAN] /\ indication \in [Eps -> Seq(Messages)] /\ indicated \in [Eps -> Seq(1..MaxMsgs)]
    BY DEF Init
  <2>6. mbox \in Seq(Messages) /\ bus \in Seq(BusRequests)
    BY <2>1
  <2> QED BY <2>1, <2>2, <2>3, <2>4, <2>5, <2>6, <2>7 DEF Init, Types
<1>2. Control
  BY ThreadsAre DEF Init, Control, Good, MayBe, Holding, HoldingContext, UserPlaces, DsrPlaces,
                    ContextPlaces, NoLoc, Handling, HoldingStarter
<1>3. Requests
  BY DEF Init, Requests
<1> QED BY <1>1, <1>2, <1>3 DEF Base

\* Steps of the target.
LEMMA TargetBase ==
    ASSUME Base, (\E e \in Eps : TargetSends(e)) \/ OtherInterrupt
    PROVE  Base' /\ UNCHANGED <<pc, loc, bus>>
<1>1. UNCHANGED <<mode, reg, shadow, irqVars, bus, bufVars, indVars, faults, pc, loc>>
  BY DEF TargetSends, OtherInterrupt
<1>2. mbox' \in Seq(Messages) /\ sent' \in [Eps -> Nat] /\ other' \in BOOLEAN /\ Total(sent') <= MaxMsgs
  <2>1. CASE OtherInterrupt
    BY <2>1 DEF OtherInterrupt, Base, Types
  <2>2. ASSUME NEW e \in Eps, TargetSends(e)
        PROVE  mbox' \in Seq(Messages) /\ sent' \in [Eps -> Nat] /\ other' \in BOOLEAN /\ Total(sent') <= MaxMsgs
    <3>1. mbox' = Append(mbox, [ep |-> e, num |-> sent[e] + 1]) /\ other' = other
          /\ sent' = [sent EXCEPT ![e] = @ + 1] /\ sent \in [Eps -> Nat] /\ mbox \in Seq(Messages) /\ other \in BOOLEAN
          /\ Total(sent) < MaxMsgs
      BY <2>2 DEF TargetSends, Base, Types
    <3>2. sent' \in [Eps -> Nat] /\ sent'[e] = sent[e] + 1 /\ \A x \in Eps : x # e => sent'[x] = sent[x]
      BY <3>1
    <3>3. /\ Total(sent') = Total(sent) - sent[e] + sent'[e] /\ Total(sent) \in Nat
          /\ sent[e] <= Total(sent)
      <4>1. PICK f \in [Eps -> Nat] : f = sent
        BY <3>1
      <4>2. PICK g \in [Eps -> Nat] : g = sent'
        BY <3>2
      <4>3. \A x \in Eps : x # e => g[x] = f[x]
        BY <3>2, <4>1, <4>2
      <4>4. /\ Total(g) = Total(f) - f[e] + g[e] /\ Total(f) \in Nat
            /\ f[e] <= Total(f)
        BY <4>3, Bounds, TotalStep
      <4> QED BY <4>1, <4>2, <4>4
    <3>4. sent[e] + 1 \in 1..MaxMsgs /\ Total(sent') <= MaxMsgs
      BY <3>1, <3>2, <3>3, Bounds
    <3>5. [ep |-> e, num |-> sent[e] + 1] \in Messages
      BY <3>4 DEF Messages
    <3>6. mbox' \in Seq(Messages)
      BY <3>1, <3>5
    <3> QED BY <3>1, <3>2, <3>4, <3>6
  <2> QED BY <2>1, <2>2
<1>3. Types'
  BY <1>1, <1>2 DEF Base, Types, irqVars, bufVars, indVars
<1>4. Control' /\ Requests'
  BY <1>1 DEF Base, Control, Good, MayBe, Requests, Requested
<1> QED BY <1>1, <1>3, <1>4 DEF Base

\* A completion comes to a thread that waits for it, or to an idle context.
LEMMA CompletedTo ==
    ASSUME Base, bus # <<>>, NEW t,
           IF Head(bus).by = Nobody THEN t \in Contexts /\ CanComplete(t) ELSE t = Head(bus).by
    PROVE  /\ Head(bus) \in BusRequests /\ Requested(Head(bus)) /\ t \in Threads
           /\ Head(bus).by = Nobody => t \in Contexts /\ pc[t] = "idle"
           /\ Head(bus).by # Nobody => t = Head(bus).by /\ pc[t] = "waiting"
<1>1. /\ Head(bus) = bus[1] /\ 1 \in DOMAIN bus /\ bus[1] \in BusRequests
  BY DEF Base, Types
<1> QED BY <1>1, ThreadsAre DEF Base, Requests, CanComplete, At, BusRequests

LEMMA BusStatusBase ==
    ASSUME Base, NEW t, BusStatus(t)
    PROVE  /\ Base' /\ t \in Threads /\ bus # <<>> /\ bus' = Tail(bus) /\ Head(bus).op = "status"
           /\ Head(bus).by \in {"dsr", Nobody}
           /\ \E w, l : /\ Moved(t, w, l) /\ SameBut(l, [NoLoc EXCEPT !.other = other])
                        /\ t = "dsr" => Head(bus).by = "dsr" /\ w = "pending"
                        /\ t # "dsr" => /\ t \in Contexts /\ pc[t] = "idle" /\ Head(bus).by = Nobody
                                        /\ w = "events"
                        /\ l \in LookAheads(mbox, [NoLoc EXCEPT !.other = other])
<1> DEFINE r == Head(bus)
           k == [NoLoc EXCEPT !.other = other]
           w == IF r.by = Nobody THEN "events" ELSE "pending"
<1>1. /\ bus # <<>> /\ r.op = "status" /\ bus' = Tail(bus)
      /\ UNCHANGED <<mode, deviceVars, shadow, irqVars, bufVars, indVars, faults>>
      /\ pc' = [pc EXCEPT ![t] = w]
  BY DEF BusStatus, Goto
<1>2. /\ r \in BusRequests /\ Requested(r) /\ t \in Threads
      /\ r.by = Nobody => t \in Contexts /\ pc[t] = "idle"
      /\ r.by # Nobody => t = r.by /\ pc[t] = "waiting"
  BY <1>1, CompletedTo DEF BusStatus
<1>3. r.by \in {"dsr", Nobody} /\ (r.by = Nobody => mode = "async") /\ (t = "dsr" <=> r.by = "dsr")
  BY <1>1, <1>2, ThreadsAre DEF Requested
<1>4. PICK l0 \in LookAheads(mbox, NoLoc) : loc' = [loc EXCEPT ![t] = [l0 EXCEPT !.other = other]]
  BY DEF BusStatus, Set
<1> DEFINE l == [l0 EXCEPT !.other = other]
<1>5. mbox \in Seq(Messages) /\ other \in BOOLEAN
  BY DEF Base, Types
<1>6. l0 \in LocalVars /\ SameBut(l0, NoLoc) /\ (l0.la > 0 => l0.ep \in Eps)
  BY <1>5, NoLocType, LookAheadsType, LookAheadsIn
<1>7. l \in LocalVars /\ SameBut(l, k) /\ l.la = l0.la /\ l.ep = l0.ep
  BY <1>5, <1>6, NoLocType DEF LocalVars, SameBut
<1>8. l \in LookAheads(mbox, k)
  <2>1. CASE mbox = <<>>
    BY <1>4, <2>1 DEF LookAheads, NoLoc
  <2>2. CASE mbox # <<>>
    <3>1. PICK n \in Announced(mbox) : l0 = [NoLoc EXCEPT !.la = n, !.ep = mbox[1].ep]
      BY <1>4, <2>2 DEF LookAheads
    <3>2. l = [k EXCEPT !.la = n, !.ep = mbox[1].ep]
      BY <3>1 DEF NoLoc
    <3> QED BY <2>2, <3>2 DEF LookAheads
  <2> QED BY <2>1, <2>2
<1>9. Good(t, w, l)
  <2>1. /\ l.fetch = 0 /\ l.total = 0 /\ l.done = <<>> /\ l.doneEp = NoEp /\ l.last /\ l.from = "dsr"
        /\ l.la > 0 => l.ep \in Eps
    BY <1>6, <1>7 DEF SameBut, NoLoc
  <2>2. Holding(w, l)
    BY <2>1, ThreadsAre DEF Holding
  <2>3. t \in Contexts => w = "events" /\ HoldingContext(w, l)
    BY <1>2, <1>3, <2>1, ThreadsAre DEF HoldingContext, Handling
  <2>4. MayBe(t, w)
    BY <1>2, <1>3, ThreadsAre DEF MayBe, DsrPlaces, ContextPlaces
  <2>5. t = "dsr" => HoldingStarter(w, l)
    <3>1. t = "dsr" => w = "pending" /\ l.ok /\ ~l.async
      BY <1>3, <1>6, <1>7 DEF SameBut, NoLoc, Nobody
    <3> QED BY <2>1, <3>1 DEF HoldingStarter
  <2> QED BY <2>2, <2>3, <2>4, <2>5 DEF Good
<1>10. w \in Places
  BY DEF Places, DsrPlaces, ContextPlaces
<1> HIDE DEF r, w, l, k
<1>11. /\ pc' \in [Threads -> Places] /\ loc' \in [Threads -> LocalVars] /\ Control'
       /\ Moved(t, w, l)
  BY <1>1, <1>2, <1>4, <1>7, <1>9, <1>10, Moves DEF Base, Moved, l
<1>12. Requests' /\ bus' \in Seq(BusRequests)
  BY <1>1, <1>2, <1>11, TailRequests DEF Base, Moved, r
<1>13. Types'
  BY <1>1, <1>11, <1>12 DEF Base, Types, deviceVars, irqVars, bufVars, indVars
<1>14. /\ t = "dsr" => r.by = "dsr" /\ w = "pending"
       /\ t # "dsr" => t \in Contexts /\ pc[t] = "idle" /\ r.by = Nobody /\ w = "events"
  BY <1>2, <1>3, ThreadsAre DEF w
<1> QED BY <1>1, <1>2, <1>3, <1>7, <1>8, <1>11, <1>12, <1>13, <1>14 DEF Base, k, r

LEMMA SubSeqType ==
    ASSUME NEW S, NEW q \in Seq(S), NEW m \in 1..(Len(q) + 1), NEW n \in 0..Len(q)
    PROVE  /\ SubSeq(q, m, n) \in Seq(S)
           /\ Len(SubSeq(q, m, n)) = IF m <= n THEN n - m + 1 ELSE 0
           /\ \A i \in 1..Len(SubSeq(q, m, n)) : SubSeq(q, m, n)[i] = q[m + i - 1]
<1>1. \A i \in m..n : q[i] \in S
  OBVIOUS
<1> QED BY <1>1, SubSeqProperties

LEMMA BusReadBase ==
    ASSUME Base, NEW t, BusRead(t)
    PROVE  /\ Base' /\ t \in Threads /\ bus # <<>> /\ bus' = Tail(bus) /\ Head(bus).op = "read"
           /\ Head(bus).n \in 1..Len(mbox)
           /\ \E w, l : /\ Moved(t, w, l)
                        /\ l.doneEp = Head(bus).ep /\ l.last = Head(bus).last
                        /\ ~Head(bus).last => l.la = 0 \/ t = "dsr"
                        /\ ~Head(bus).last /\ t = "dsr" => l.la = loc[t].la /\ l.ep = loc[t].ep
                        /\ l.la = 0 /\ t = "dsr" => l.ep = loc[t].ep
                        /\ Head(bus).last /\ l.la > 0 => /\ l.la <= Len(mbox')
                                                        /\ \A i \in 1..l.la : mbox'[i].ep = l.ep
                        /\ mbox' = SubSeq(mbox, Head(bus).n + 1, Len(mbox))
                        /\ \/ /\ t = "dsr" /\ mode = "sync" /\ w = "fetch" /\ pc[t] = "waiting"
                              /\ SameBut(l, [loc[t] EXCEPT !.done = @ \o SubSeq(mbox, 1, Head(bus).n),
                                                           !.doneEp = Head(bus).ep, !.last = Head(bus).last])
                           \/ /\ t \in Contexts /\ mode = "async" /\ w = "complete" /\ pc[t] = "idle"
                              /\ CanComplete(t) /\ Head(bus).by = Nobody
                              /\ SameBut(l, [NoLoc EXCEPT !.done = SubSeq(mbox, 1, Head(bus).n),
                                                          !.doneEp = Head(bus).ep, !.last = Head(bus).last])
<1> DEFINE r == Head(bus)
           before == IF r.by = Nobody THEN NoLoc ELSE loc[t]
           k == [before EXCEPT !.done = @ \o SubSeq(mbox, 1, r.n), !.doneEp = r.ep, !.last = r.last]
           rest == SubSeq(mbox, r.n + 1, Len(mbox))
           w == IF r.by = Nobody THEN "complete" ELSE "fetch"
<1>1. /\ bus # <<>> /\ r.op = "read" /\ bus' = Tail(bus) /\ r.n <= Len(mbox) /\ mbox' = rest
      /\ UNCHANGED <<mode, sent, other, reg, shadow, irqVars, bufVars, indVars, faults>>
      /\ pc' = [pc EXCEPT ![t] = w]
      /\ \E l \in (IF r.last THEN Trailers(rest, k) ELSE {k}) : loc' = [loc EXCEPT ![t] = l]
  BY DEF BusRead, Goto, Set
<1>2. /\ r \in BusRequests /\ Requested(r) /\ t \in Threads
      /\ r.by = Nobody => t \in Contexts /\ pc[t] = "idle"
      /\ r.by # Nobody => t = r.by /\ pc[t] = "waiting"
      /\ r.by = Nobody => CanComplete(t)
  BY <1>1, CompletedTo DEF BusRead
<1>3. /\ r.by \in {"dsr", Nobody} /\ r.ep \in Eps /\ r.n > 0 /\ r.n \in 0..MaxBundle
      /\ r.by = Nobody => mode = "async" /\ t \in Contexts /\ t # "dsr"
      /\ r.by # Nobody => mode = "sync" /\ t = "dsr"
      /\ r.last \in BOOLEAN
  BY <1>1, <1>2, ThreadsAre DEF Requested, BusRequests, Base, Types
<1>4. mbox \in Seq(Messages) /\ r.n \in 1..Len(mbox)
  BY <1>1, <1>3, ThreadsAre DEF Base, Types
<1>5. /\ SubSeq(mbox, 1, r.n) \in Seq(Messages) /\ SubSeq(mbox, 1, r.n) # <<>> /\ rest \in Seq(Messages)
  <2>1. SubSeq(mbox, 1, r.n) \in Seq(Messages) /\ Len(SubSeq(mbox, 1, r.n)) = r.n
    BY <1>4, SubSeqType
  <2>2. rest \in Seq(Messages)
    BY <1>4, SubSeqType
  <2>3. Len(SubSeq(mbox, 1, r.n)) # 0
    BY <2>1, <1>3
  <2>4. SubSeq(mbox, 1, r.n) # <<>>
    <3>1. \A s : s = <<>> => Len(s) = 0
      OBVIOUS
    <3> QED BY <2>3, <3>1
  <2> QED BY <2>1, <2>2, <2>4
<1>6. before \in LocalVars /\ (r.by = Nobody => before.done = <<>>)
  BY <1>2, NoLocType DEF Base, Types, NoLoc
<1> HIDE DEF r, before
<1>7. before.done \o SubSeq(mbox, 1, r.n) \in Seq(Messages) /\ before.done \o SubSeq(mbox, 1, r.n) # <<>>
  <2>1. before.done \in Seq(Messages)
    BY <1>6 DEF LocalVars
  <2> QED BY <2>1, <1>5
<1>8. /\ k \in LocalVars /\ k.done # <<>> /\ k.doneEp = r.ep /\ k.last = r.last /\ k.la = before.la
      /\ k.ep = before.ep /\ k.fetch = before.fetch /\ k.total = before.total /\ k.more = before.more
      /\ k.from = before.from
  BY <1>3, <1>6, <1>7 DEF LocalVars
<1>9. PICK l \in (IF r.last THEN Trailers(rest, k) ELSE {k}) : loc' = [loc EXCEPT ![t] = l]
  BY <1>1
<1>10. /\ l \in LocalVars /\ SameBut(l, k) /\ (l.la > 0 => l.ep \in Eps \/ (l.ep = k.ep /\ l.la = k.la))
       /\ l.la = 0 => l.ep = k.ep
       /\ ~r.last => l = k
       /\ r.last /\ l.la > 0 => l.la <= Len(rest) /\ \A i \in 1..l.la : rest[i].ep = l.ep
  <2>1. CASE r.last
    <3>1. l \in Trailers(rest, k) /\ rest \in Seq(Messages) /\ k \in LocalVars
      BY <1>5, <1>8, <1>9, <2>1
    <3> HIDE DEF k, rest
    <3>2. /\ l \in LocalVars /\ SameBut(l, k)
          /\ l.la > 0 => /\ rest # <<>> /\ l.la <= Len(rest) /\ l.la <= MaxBundle /\ l.ep \in Eps
                         /\ \A i \in 1..l.la : rest[i].ep = l.ep
          /\ l.la = 0 => l.ep = k.ep
      BY <3>1, LookAheadsType
    <3> QED BY <2>1, <3>2
  <2>2. CASE ~r.last
    BY <1>3, <1>8, <1>9, <2>2 DEF SameBut
  <2> QED BY <1>3, <2>1, <2>2
<1> HIDE DEF k, rest
<1>11. r.by # Nobody => before = loc[t] /\ pc[t] = "waiting" /\ Good(t, pc[t], before)
  BY <1>2 DEF before, Base, Control
<1>12. r.by = Nobody => before = NoLoc
  BY DEF before
<1>13. Good(t, w, l)
  <2>1. MayBe(t, w)
    BY <1>2, <1>3, ThreadsAre DEF MayBe, DsrPlaces, ContextPlaces, Base, Types
  <2>2. Holding(w, l)
    <3>1. CASE r.by # Nobody
      <4>1. /\ before.fetch <= MaxBundle /\ (before.fetch > 0 => before.ep \in Eps)
            /\ (before.la > 0 => before.ep \in Eps)
        BY <3>1, <1>11 DEF Good, Holding
      <4>a. l.la \in 0..MaxBundle /\ (l.la = 0 \/ l.la > 0)
        BY <1>10, ThreadsAre DEF LocalVars
      <4>b. l.la > 0 => l.ep \in Eps
        BY <1>8, <1>10, <4>1
      <4>2. /\ l.fetch = before.fetch /\ l.doneEp = r.ep /\ w = "fetch"
            /\ l.la > 0 => l.ep \in Eps
            /\ l.fetch > 0 => l.ep \in Eps
        BY <3>1, <1>8, <1>10, <4>1, <4>a, <4>b DEF SameBut
      <4> QED BY <4>1, <4>2, <1>3 DEF Holding
    <3>2. CASE r.by = Nobody
      <4>1. /\ l.fetch = 0 /\ l.doneEp = r.ep /\ w = "complete"
            /\ l.la > 0 => l.ep \in Eps
        BY <3>2, <1>8, <1>10, <1>12 DEF SameBut, NoLoc
      <4> QED BY <4>1, <1>3, ThreadsAre DEF Holding
    <3> QED BY <3>1, <3>2
  <2>3. t \in Contexts => HoldingContext(w, l)
    <3> SUFFICES ASSUME t \in Contexts PROVE HoldingContext(w, l)
      OBVIOUS
    <3>1. r.by = Nobody /\ w = "complete" /\ before = NoLoc
      BY <1>3, <1>12, ThreadsAre
    <3>2. /\ l.done # <<>> /\ l.from = "dsr" /\ l.total = 0 /\ l.fetch = 0 /\ l.more /\ l.last = r.last
          /\ ~r.last => l.la = 0
      BY <3>1, <1>8, <1>10 DEF SameBut, NoLoc
    <3>3. l.la > 0 => r.last
      BY <3>2
    <3> QED BY <3>1, <3>2, <3>3, <1>3 DEF HoldingContext, Handling
  <2>4. ~(t = "dsr" /\ mode = "async")
    BY <1>3
  <2> QED BY <2>1, <2>2, <2>3, <2>4 DEF Good
<1>14. w \in Places
  BY DEF Places, DsrPlaces, ContextPlaces
<1> HIDE DEF w
<1>15. /\ pc' \in [Threads -> Places] /\ loc' \in [Threads -> LocalVars] /\ Control'
       /\ Moved(t, w, l)
  BY <1>1, <1>2, <1>9, <1>10, <1>13, <1>14, Moves DEF Base, Moved
<1>16. Requests' /\ bus' \in Seq(BusRequests)
  BY <1>1, <1>2, <1>15, TailRequests DEF Base, Moved, r
<1>17. Types'
  BY <1>1, <1>5, <1>15, <1>16 DEF Base, Types, irqVars, bufVars, indVars
<1>18. /\ l.doneEp = r.ep /\ l.last = r.last /\ (~r.last => l.la = 0 \/ t = "dsr")
  BY <1>3, <1>8, <1>10, <1>12, ThreadsAre DEF SameBut, NoLoc
<1>20. /\ ~r.last /\ t = "dsr" => l.la = loc[t].la /\ l.ep = loc[t].ep
       /\ l.la = 0 /\ t = "dsr" => l.ep = loc[t].ep
       /\ r.last /\ l.la > 0 => l.la <= Len(mbox') /\ \A i \in 1..l.la : mbox'[i].ep = l.ep
       /\ mbox' = SubSeq(mbox, r.n + 1, Len(mbox))
  <2>1. t = "dsr" => before = loc[t]
    BY <1>3, <1>11, ThreadsAre
  <2> QED BY <1>1, <1>3, <1>8, <1>10, <2>1 DEF rest
<1>19. \/ /\ t = "dsr" /\ mode = "sync" /\ w = "fetch" /\ pc[t] = "waiting"
          /\ SameBut(l, [loc[t] EXCEPT !.done = @ \o SubSeq(mbox, 1, r.n), !.doneEp = r.ep, !.last = r.last])
       \/ /\ t \in Contexts /\ mode = "async" /\ w = "complete" /\ pc[t] = "idle"
          /\ CanComplete(t) /\ r.by = Nobody
          /\ SameBut(l, [NoLoc EXCEPT !.done = SubSeq(mbox, 1, r.n), !.doneEp = r.ep, !.last = r.last])
  <2>1. CASE r.by # Nobody
    BY <2>1, <1>3, <1>10, <1>11 DEF k, w
  <2>2. CASE r.by = Nobody
    <3>1. <<>> \o SubSeq(mbox, 1, r.n) = SubSeq(mbox, 1, r.n)
      BY <1>5
    <3>2. k = [NoLoc EXCEPT !.done = SubSeq(mbox, 1, r.n), !.doneEp = r.ep, !.last = r.last]
      <4>1. NoLoc.done = <<>> /\ before = NoLoc
        BY <2>2, <1>12 DEF NoLoc
      <4> QED BY <3>1, <4>1 DEF k
    <3> QED BY <2>2, <3>2, <1>2, <1>3, <1>10 DEF w
  <2> QED BY <2>1, <2>2
<1> QED BY <1>1, <1>2, <1>4, <1>15, <1>16, <1>17, <1>18, <1>19, <1>20 DEF Base, r

LEMMA BusReadFailsBase ==
    ASSUME Base, NEW t, BusReadFails(t)
    PROVE  /\ Base' /\ t \in Threads /\ bus # <<>> /\ bus' = Tail(bus) /\ Head(bus).op = "read"
           /\ \E l : /\ Moved(t, "recycle", l) /\ l.done = <<>>
                     /\ l.doneEp = IF Head(bus).n > 1 THEN Head(bus).ep ELSE NoEp
                     /\ l.ep = Head(bus).ep /\ ~l.ok
                     /\ \/ t = "dsr" /\ mode = "sync" /\ pc[t] = "waiting"
                           /\ l.fetch = loc[t].fetch + (IF Head(bus).n > 1 THEN Head(bus).n ELSE 0) + Len(loc[t].done)
                           /\ l.la = loc[t].la
                        \/ t \in Contexts /\ mode = "async" /\ pc[t] = "idle" /\ CanComplete(t) /\ l.fetch = Head(bus).n /\ l.la = 0
<1> DEFINE r == Head(bus)
           before == IF r.by = Nobody THEN NoLoc ELSE loc[t]
           l == [before EXCEPT !.fetch = @ + Kept(r) + Len(before.done), !.done = <<>>,
                               !.ep = r.ep, !.ok = FALSE,
                               !.doneEp = IF r.n > 1 THEN r.ep ELSE NoEp]
<1>1. /\ bus # <<>> /\ r.op = "read" /\ bus' = Tail(bus) /\ faults' = faults + 1 /\ faults < MaxFaults
      /\ UNCHANGED <<mode, deviceVars, shadow, irqVars, rxBuffers, withUser, waiting, waitingEp, indVars>>
      /\ lost' = [lost EXCEPT ![r.ep] = @ + r.n - Kept(r)]
      /\ pc' = [pc EXCEPT ![t] = "recycle"] /\ loc' = [loc EXCEPT ![t] = l]
  BY DEF BusReadFails, Goto, Set
<1>2. /\ r \in BusRequests /\ Requested(r) /\ t \in Threads
      /\ r.by = Nobody => t \in Contexts /\ pc[t] = "idle" /\ CanComplete(t)
      /\ r.by # Nobody => t = r.by /\ pc[t] = "waiting"
  BY <1>1, CompletedTo DEF BusReadFails
<1>3. /\ r.by \in {"dsr", Nobody} /\ r.ep \in Eps /\ r.n > 0 /\ r.n \in 0..MaxBundle
      /\ r.by = Nobody => mode = "async" /\ t \in Contexts /\ t # "dsr"
      /\ r.by # Nobody => mode = "sync" /\ t = "dsr"
  BY <1>1, <1>2, ThreadsAre DEF Requested, BusRequests, Base, Types
<1>4. /\ r.n \in Nat /\ Kept(r) \in {0, r.n} /\ r.n - Kept(r) \in Nat /\ Kept(r) \in Nat
      /\ r.by = Nobody => Kept(r) = r.n
      /\ r.by # Nobody => Kept(r) = IF r.n > 1 THEN r.n ELSE 0
  BY <1>3, ThreadsAre DEF Kept
<1>5. before \in LocalVars /\ (r.by = Nobody => before = NoLoc) /\ (r.by # Nobody => before = loc[t])
  BY <1>2, NoLocType DEF Base, Types
<1> HIDE DEF r, before
<1>6. before.fetch + Kept(r) + Len(before.done) \in Nat /\ <<>> \in Seq(Messages)
  BY <1>4, <1>5 DEF LocalVars
<1>7. /\ l \in LocalVars /\ l.done = <<>> /\ l.ep = r.ep /\ l.doneEp = (IF r.n > 1 THEN r.ep ELSE NoEp)
      /\ l.fetch = before.fetch + Kept(r) + Len(before.done) /\ l.la = before.la /\ l.from = before.from
      /\ ~l.ok
  BY <1>3, <1>5, <1>6 DEF LocalVars
<1> HIDE DEF l
<1>8. Good(t, "recycle", l)
  <2>1. MayBe(t, "recycle")
    BY <1>2, <1>3, ThreadsAre DEF MayBe, SyncPlaces, ContextPlaces, Base, Types
  <2>2. Holding("recycle", l)
    BY <1>3, <1>7 DEF Holding
  <2>3. t \in Contexts => HoldingContext("recycle", l)
    <3>1. t \in Contexts => l.from = "dsr"
      BY <1>3, <1>5, <1>7, ThreadsAre DEF NoLoc
    <3> QED BY <1>7, <3>1 DEF HoldingContext, Handling
  <2>4. ~(t = "dsr" /\ mode = "async")
    BY <1>3
  <2> QED BY <2>1, <2>2, <2>3, <2>4 DEF Good
<1>9. "recycle" \in Places
  BY DEF Places, SyncPlaces
<1>10. /\ pc' \in [Threads -> Places] /\ loc' \in [Threads -> LocalVars] /\ Control'
       /\ Moved(t, "recycle", l)
  BY <1>1, <1>2, <1>7, <1>8, <1>9, Moves DEF Base, Moved
<1>11. Requests' /\ bus' \in Seq(BusRequests)
  BY <1>1, <1>2, <1>10, TailRequests DEF Base, Moved, r
<1>12. lost' \in [Eps -> Nat] /\ faults' \in 0..MaxFaults
  <2>1. \A x \in Nat : x + r.n - Kept(r) \in Nat
    BY <1>4
  <2>2. lost \in [Eps -> Nat] /\ r.ep \in Eps
    BY <1>3 DEF Base, Types
  <2>4. faults' \in 0..MaxFaults
    BY <1>1, MoreFaults DEF Base
  <2>3. lost[r.ep] + r.n - Kept(r) \in Nat
    BY <2>1, <2>2
  <2> QED BY <1>1, <2>2, <2>3, <2>4
<1>13. Types'
  BY <1>1, <1>10, <1>11, <1>12 DEF Base, Types, deviceVars, irqVars, indVars
<1>14. \/ /\ t = "dsr" /\ mode = "sync" /\ pc[t] = "waiting"
          /\ l.fetch = loc[t].fetch + (IF r.n > 1 THEN r.n ELSE 0) + Len(loc[t].done)
          /\ l.la = loc[t].la
       \/ t \in Contexts /\ mode = "async" /\ pc[t] = "idle" /\ CanComplete(t) /\ l.fetch = r.n /\ l.la = 0
  <2>1. CASE r.by # Nobody
    BY <2>1, <1>2, <1>3, <1>4, <1>5, <1>7
  <2>2. CASE r.by = Nobody
    <3>1. before.fetch = 0 /\ Len(before.done) = 0 /\ before.la = 0
      BY <2>2, <1>5 DEF NoLoc
    <3> QED BY <2>2, <3>1, <1>2, <1>3, <1>4, <1>7
  <2> QED BY <2>1, <2>2
<1> QED BY <1>1, <1>2, <1>7, <1>10, <1>11, <1>13, <1>14 DEF Base, r

\* What is next when the receiver has been enabled.
LEMMA EnabledGood ==
    ASSUME Base, NEW t \in Threads, pc[t] \in {"waiting", "recycle"}, t = "dsr" => mode = "sync",
           NEW l \in LocalVars, l.fetch = 0 \/ (l.fetch = loc[t].fetch /\ pc[t] # "recycle"), l.la = loc[t].la, l.ep = loc[t].ep, l.done = loc[t].done,
           l.doneEp = loc[t].doneEp, l.from = loc[t].from, l.total = loc[t].total,
           l.more = loc[t].more
    PROVE  /\ Good(t, Enabled(t), l) /\ Enabled(t) \in Places
           /\ t # "user" /\ pc[t] = "recycle" => Good(t, "enable", l)
<1>1. Good(t, pc[t], loc[t])
  BY DEF Base, Control
<1>a. l.fetch <= MaxBundle /\ (l.fetch > 0 => l.ep \in Eps) /\ (t \in Contexts => l.fetch = 0)
  <2>1. CASE l.fetch = 0
    BY <2>1, ThreadsAre
  <2>2. CASE l.fetch = loc[t].fetch /\ pc[t] = "waiting" /\ l.fetch # 0
    <3>1. Holding("waiting", loc[t]) /\ (t \in Contexts => HoldingContext("waiting", loc[t]))
      BY <1>1, <2>2 DEF Good
    <3> QED BY <2>2, <3>1 DEF Holding, HoldingContext
  <2> QED BY <2>1, <2>2
<1>b. (l.la > 0 => l.ep \in Eps) /\ (l.done # <<>> => l.doneEp \in Eps) /\ (pc[t] = "recycle" => l.ep \in Eps)
  BY <1>1 DEF Good, Holding
<1>2. CASE t = "user"
  <2>1. Enabled(t) = "idle"
    BY <1>2 DEF Enabled
  <2> QED BY <1>a, <1>b, <1>2, <2>1, ThreadsAre DEF Good, MayBe, Holding, UserPlaces, Places
<1>3. CASE t = "dsr"
  <2>1. Enabled(t) = "check" /\ mode = "sync"
    BY <1>3, ThreadsAre DEF Enabled
  <2> QED BY <1>a, <1>b, <1>3, <2>1, ThreadsAre DEF Good, MayBe, Holding, DsrPlaces, SyncPlaces, Places
<1>4. CASE t \in Contexts
  <2>1. /\ mode = "async"
        /\ l.done # <<>> => l.total = 0 /\ l.la = 0 /\ ~l.more /\ l.doneEp \in Eps
        /\ l.from # "drain"
        /\ l.la > 0 => l.ep \in Eps
    BY <1>1, <1>4 DEF Good, MayBe, Holding, HoldingContext, Base, Types
  <2>2. CASE l.done # <<>>
    <3>1. Enabled(t) = "complete"
      BY <1>4, <2>2, ThreadsAre DEF Enabled
    <3> QED BY <1>a, <1>b, <1>4, <2>1, <2>2, <3>1, ThreadsAre DEF Good, MayBe, Holding, HoldingContext, ContextPlaces, Places, Handling
  <2>3. CASE l.done = <<>>
    <3>1. Enabled(t) = IF l.doneEp = NoEp THEN "idle" ELSE "drain"
      BY <1>4, <2>3, ThreadsAre DEF Enabled
    <3>2. l.doneEp \in Eps \cup {NoEp}
      BY DEF LocalVars
    <3> QED BY <1>a, <1>b, <1>4, <2>1, <2>3, <3>1, <3>2, ThreadsAre DEF Good, MayBe, Holding, HoldingContext, ContextPlaces, Places, Handling
  <2> QED BY <2>2, <2>3
<1> QED BY <1>2, <1>3, <1>4, ThreadsAre

LEMMA BusWriteBase ==
    ASSUME Base, BusWrite
    PROVE  /\ Base' /\ bus # <<>> /\ bus' = Tail(bus) /\ Head(bus).op = "write" /\ loc' = loc
           /\ \/ pc' = pc
              \/ \E t \in Threads : /\ pc[t] = "waiting" /\ Head(bus).by = t
                                    /\ Moved(t, IF Head(bus).val THEN Enabled(t) ELSE "return", loc[t])
                                    /\ Head(bus).val \/ (t = "dsr" /\ mode = "sync")
                                    /\ t = "dsr" => mode = "sync"
<1> DEFINE r == Head(bus)
<1>1. /\ bus # <<>> /\ r.op = "write" /\ bus' = Tail(bus) /\ loc' = loc /\ reg' = r.val
      /\ UNCHANGED <<mode, mbox, sent, other, shadow, irqVars, bufVars, indVars, faults>>
      /\ IF r.by = Nobody THEN pc' = pc
         ELSE pc' = [pc EXCEPT ![r.by] = IF r.val THEN Enabled(r.by) ELSE "return"]
  BY DEF BusWrite, Goto
<1>2. /\ r \in BusRequests /\ Requested(r)
      /\ r.by \in Threads => pc[r.by] = "waiting"
  <2>1. Head(bus) = bus[1] /\ 1 \in DOMAIN bus /\ bus[1] \in BusRequests
    BY <1>1 DEF Base, Types
  <2> QED BY <2>1 DEF Base, Requests
<1> HIDE DEF r
<1>3. CASE r.by = Nobody
  <2>1. pc' = pc
    BY <1>1, <1>3
  <2>2. Control'
    BY <1>1, <2>1 DEF Base, Control, Good, MayBe
  <2>3. Requests' /\ bus' \in Seq(BusRequests)
    <3>1. PICK t \in Threads : t = "dsr"
      BY ThreadsAre
    <3>2. \A i \in DOMAIN bus' : i + 1 \in DOMAIN bus /\ bus'[i] = bus[i + 1] /\ i \in Nat
      BY <1>1 DEF Base, Types
    <3>3. bus' \in Seq(BusRequests)
      BY <1>1 DEF Base, Types
    <3>4. \A x : Requested(x)' <=> Requested(x)
      BY <1>1 DEF Requested
    <3>5. \A i \in DOMAIN bus' : Requested(bus'[i]) /\ (bus'[i].by \in Threads => pc'[bus'[i].by] = "waiting")
      BY <2>1, <3>2 DEF Base, Requests
    <3>6. ASSUME NEW i \in DOMAIN bus', NEW j \in DOMAIN bus', bus'[i].by = bus'[j].by
          PROVE  i = j \/ bus'[i].by = Nobody
      <4>1. i + 1 = j + 1 \/ bus[i + 1].by = Nobody
        BY <3>2, <3>6 DEF Base, Requests
      <4> QED BY <3>2, <4>1
    <3> QED BY <3>3, <3>4, <3>5, <3>6 DEF Requests
  <2>4. Types'
    BY <1>1, <1>2, <2>1, <2>3 DEF Base, Types, irqVars, bufVars, indVars, BusRequests
  <2> QED BY <1>1, <2>1, <2>2, <2>3, <2>4 DEF Base, r
<1>4. CASE r.by # Nobody
  <2> DEFINE t == r.by
             w == IF r.val THEN Enabled(t) ELSE "return"
  <2>1. t \in Threads /\ pc[t] = "waiting" /\ loc[t] \in LocalVars
    BY <1>2, <1>4 DEF BusRequests, Base, Types
  <2>2. /\ t = "dsr" => mode = "sync"
        /\ r.val \/ t = "dsr"
    BY <1>1, <1>2, <2>1, ThreadsAre DEF Requested
  <2>3. loc[t].fetch <= MaxBundle /\ (t \in Contexts => loc[t].fetch = 0)
    BY <2>1 DEF Base, Control, Good, Holding, HoldingContext
  <2>4. Good(t, w, loc[t]) /\ w \in Places
    <3>1. CASE r.val
      BY <2>1, <2>2, <3>1, EnabledGood
    <3>2. CASE ~r.val
      <4>1. t = "dsr" /\ mode = "sync" /\ w = "return" /\ Holding("waiting", loc[t])
        BY <2>1, <2>2, <3>2 DEF Base, Control, Good
      <4> QED BY <4>1, ThreadsAre DEF Good, MayBe, Holding, DsrPlaces, Places
    <3> QED BY <3>1, <3>2
  <2> HIDE DEF t, w
  <2>5. /\ pc' \in [Threads -> Places] /\ loc' \in [Threads -> LocalVars] /\ Control'
        /\ Moved(t, w, loc[t])
    <3>1. loc' = [loc EXCEPT ![t] = loc[t]] /\ pc' = [pc EXCEPT ![t] = w]
      BY <1>1, <1>4, <2>1 DEF Base, Types, t, w
    <3> QED BY <1>1, <2>1, <2>4, <3>1, Moves DEF Base, Moved
  <2>6. Requests' /\ bus' \in Seq(BusRequests)
    BY <1>1, <2>1, <2>5, TailRequests DEF Base, Moved, r, t
  <2>7. Types'
    BY <1>1, <1>2, <2>5, <2>6 DEF Base, Types, irqVars, bufVars, indVars, BusRequests
  <2> QED BY <1>1, <2>1, <2>2, <2>5, <2>6, <2>7 DEF Base, r, t, w
<1> QED BY <1>3, <1>4

\* The types of all but where the threads are.
DataTypes ==
    /\ mode \in {"sync", "async"} /\ mbox \in Seq(Messages) /\ sent \in [Eps -> Nat]
    /\ Total(sent) <= MaxMsgs
    /\ other \in BOOLEAN /\ reg \in BOOLEAN /\ shadow \in BOOLEAN /\ taken \in BOOLEAN
    /\ recheck \in BOOLEAN /\ waiting \in BOOLEAN
    /\ acks \in Nat /\ faults \in 0..MaxFaults
    /\ rxBuffers \in [Eps -> Nat] /\ withUser \in [Eps -> Nat] /\ lost \in [Eps -> Nat]
    /\ waitingEp \in Eps \cup {NoEp}
    /\ indication \in [Eps -> Seq(Messages)] /\ draining \in [Eps -> BOOLEAN]
    /\ indicated \in [Eps -> Seq(1..MaxMsgs)]

LEMMA DataTyped == Base => DataTypes
  BY DEF Base, Types, DataTypes

\* A thread that waits for nothing moves.
LEMMA ThreadMoves ==
    ASSUME Base, NEW t \in Threads, pc[t] # "waiting", NEW w \in Places, NEW l \in LocalVars,
           Good(t, w, l), pc' = [pc EXCEPT ![t] = w], loc' = [loc EXCEPT ![t] = l],
           mode' = mode, bus' = bus, DataTypes'
    PROVE  Base' /\ Moved(t, w, l)
<1>1. /\ pc' \in [Threads -> Places] /\ loc' \in [Threads -> LocalVars] /\ Control'
      /\ Moved(t, w, l)
  BY Moves DEF Base, Moved
<1>2. Requests'
  BY <1>1, SameRequests DEF Base, Moved
<1>3. Types'
  BY <1>1 DEF Base, Types, DataTypes
<1> QED BY <1>1, <1>2, <1>3 DEF Base

\* Or submits a request.
LEMMA ThreadSubmits ==
    ASSUME Base, NEW t \in Threads, pc[t] # "waiting", NEW w \in Places, NEW l \in LocalVars,
           Good(t, w, l), pc' = [pc EXCEPT ![t] = w], loc' = [loc EXCEPT ![t] = l],
           NEW r \in BusRequests, bus' = Append(bus, r), Requested(r),
           r.by = Nobody \/ (r.by = t /\ w = "waiting"),
           mode' = mode, DataTypes'
    PROVE  Base' /\ Moved(t, w, l)
<1>1. /\ pc' \in [Threads -> Places] /\ loc' \in [Threads -> LocalVars] /\ Control'
      /\ Moved(t, w, l)
  BY Moves DEF Base, Moved
<1>2. Requests' /\ bus' \in Seq(BusRequests)
  BY <1>1, SubmitRequests DEF Base, Moved
<1>3. Types'
  BY <1>1, <1>2 DEF Base, Types, DataTypes
<1> QED BY <1>1, <1>2, <1>3 DEF Base

\* What is known of a thread.
LEMMA ThreadIs ==
    ASSUME Base, NEW t \in Threads
    PROVE  /\ loc[t] \in LocalVars /\ pc[t] \in Places /\ Good(t, pc[t], loc[t])
           /\ loc \in [Threads -> LocalVars] /\ pc \in [Threads -> Places]
           /\ loc = [loc EXCEPT ![t] = loc[t]]
           /\ mode \in {"sync", "async"}
  BY DEF Base, Types, Control

LEMMA SetShadowBase ==
    ASSUME Base, NEW t \in Threads, SetShadow(t)
    PROVE  /\ Base' /\ pc[t] \in {"enable", "stop"}
           /\ Moved(t, IF pc[t] = "enable" THEN "write on" ELSE "write off", loc[t])
<1> DEFINE w == IF pc[t] = "enable" THEN "write on" ELSE "write off"
<1>1. /\ pc[t] \in {"enable", "stop"} /\ shadow' = (pc[t] = "enable") /\ pc' = [pc EXCEPT ![t] = w]
      /\ UNCHANGED <<mode, deviceVars, irqVars, bus, bufVars, indVars, faults, loc>>
  BY DEF SetShadow, At, Goto
<1>2. Good(t, w, loc[t]) /\ w \in Places
  <2>1. Good(t, pc[t], loc[t])
    BY ThreadIs
  <2>2. CASE pc[t] = "enable"
    BY <2>1, <2>2, ThreadsAre DEF Good, MayBe, Holding, HoldingContext, HoldingStarter, Handling,
                                  UserPlaces, DsrPlaces, SyncPlaces, ContextPlaces, Places
  <2>3. CASE pc[t] = "stop"
    BY <2>1, <2>3, ThreadsAre DEF Good, MayBe, Holding, HoldingContext, HoldingStarter, Handling,
                                  UserPlaces, DsrPlaces, SyncPlaces, ContextPlaces, Places
  <2> QED BY <1>1, <2>2, <2>3
<1>3. DataTypes'
  BY <1>1, DataTyped DEF DataTypes, deviceVars, irqVars, bufVars, indVars
<1>4. loc' = [loc EXCEPT ![t] = loc[t]] /\ loc[t] \in LocalVars
  BY <1>1, ThreadIs
<1> HIDE DEF w
<1> QED BY <1>1, <1>2, <1>3, <1>4, ThreadMoves DEF w

LEMMA WriteEnableBase ==
    ASSUME Base, NEW t \in Threads, WriteEnable(t)
    PROVE  /\ Base' /\ pc[t] \in {"write on", "write off"}
           /\ \/ Moved(t, "waiting", loc[t]) /\ (t = "dsr" => mode = "sync")
                 /\ (pc[t] = "write off" => t = "dsr")
              \/ Moved(t, "return", loc[t]) /\ pc[t] = "write off"
           /\ \E r : bus' = Append(bus, r) /\ r.op = "write"
<1> DEFINE on == pc[t] = "write on"
           waits == on \/ mode = "sync"
           w == IF waits THEN "waiting" ELSE "return"
           r == Request("write", IF waits THEN t ELSE Nobody, NoEp, 0, FALSE, on)
<1>1. /\ pc[t] \in {"write on", "write off"} /\ pc' = [pc EXCEPT ![t] = w] /\ bus' = Append(bus, r)
      /\ UNCHANGED <<mode, deviceVars, shadow, irqVars, bufVars, indVars, faults, loc>>
  BY DEF WriteEnable, At, Goto, Submit
<1>2. Good(t, pc[t], loc[t]) /\ mode \in {"sync", "async"}
  BY ThreadIs
<1>3. /\ t = "dsr" /\ waits => mode = "sync"
      /\ pc[t] = "write off" /\ waits => t = "dsr"
      /\ t # "dsr" /\ waits => on
  BY <1>1, <1>2, ThreadsAre DEF Good, MayBe, UserPlaces, DsrPlaces, SyncPlaces, ContextPlaces
<1>4. r \in BusRequests /\ Requested(r) /\ r.op = "write" /\ (r.by = Nobody \/ (r.by = t /\ w = "waiting"))
  <2>1. 0 \in 0..MaxBundle
    BY ThreadsAre
  <2>2. on \in BOOLEAN
    OBVIOUS
  <2>3. r \in BusRequests
    BY <2>1, <2>2, ThreadsAre DEF Request, BusRequests
  <2>4. Requested(r) /\ r.op = "write"
    BY <1>3, ThreadsAre DEF Request, Requested
  <2> QED BY <2>3, <2>4 DEF Request
<1>5. Good(t, w, loc[t]) /\ w \in Places
  <2>1. CASE waits
    BY <1>1, <1>2, <1>3, <2>1, ThreadsAre DEF Good, MayBe, Holding, HoldingContext, HoldingStarter, Handling,
                                  UserPlaces, DsrPlaces, SyncPlaces, ContextPlaces, Places
  <2>2. CASE ~waits
    BY <1>1, <1>2, <1>3, <2>2, ThreadsAre DEF Good, MayBe, Holding, HoldingContext, HoldingStarter, Handling,
                                  UserPlaces, DsrPlaces, SyncPlaces, ContextPlaces, Places
  <2> QED BY <2>1, <2>2
<1>6. DataTypes'
  BY <1>1, DataTyped DEF DataTypes, deviceVars, irqVars, bufVars, indVars
<1>7. loc' = [loc EXCEPT ![t] = loc[t]] /\ loc[t] \in LocalVars
  BY <1>1, ThreadIs
<1> HIDE DEF w, r
<1>8. Base' /\ Moved(t, w, loc[t])
  BY <1>1, <1>4, <1>5, <1>6, <1>7, ThreadSubmits, ThreadsAre
<1> QED BY <1>1, <1>3, <1>4, <1>8 DEF w

LEMMA CheckWaitingBase ==
    ASSUME Base, NEW t \in Threads, CheckWaiting(t)
    PROVE  /\ Base' /\ pc[t] = "check"
           /\ Moved(t, IF waiting THEN "stop" ELSE "return", loc[t])
<1> DEFINE w == IF waiting THEN "stop" ELSE "return"
<1>1. /\ pc[t] = "check" /\ pc' = [pc EXCEPT ![t] = w]
      /\ UNCHANGED <<mode, deviceVars, shadow, irqVars, bus, bufVars, indVars, faults, loc>>
  BY DEF CheckWaiting, At, Goto
<1>2. Good(t, w, loc[t]) /\ w \in Places
  <2>1. Good(t, pc[t], loc[t])
    BY ThreadIs
  <2> QED BY <1>1, <2>1, ThreadsAre DEF Good, MayBe, Holding, HoldingContext, HoldingStarter, Handling,
                                  UserPlaces, DsrPlaces, SyncPlaces, ContextPlaces, Places
<1>3. DataTypes'
  BY <1>1, DataTyped DEF DataTypes, deviceVars, irqVars, bufVars, indVars
<1>4. loc' = [loc EXCEPT ![t] = loc[t]] /\ loc[t] \in LocalVars
  BY <1>1, ThreadIs
<1> HIDE DEF w
<1> QED BY <1>1, <1>2, <1>3, <1>4, ThreadMoves DEF w

LEMMA AllFetchedBase ==
    ASSUME Base, NEW t \in Threads, AllFetched(t)
    PROVE  /\ Base' /\ pc[t] = "fetch" /\ loc[t].fetch = 0
           /\ Moved(t, IF mode = "sync" THEN "process" ELSE "check", loc[t])
<1> DEFINE w == IF mode = "sync" THEN "process" ELSE "check"
<1>1. /\ pc[t] = "fetch" /\ loc[t].fetch = 0 /\ pc' = [pc EXCEPT ![t] = w]
      /\ UNCHANGED <<mode, deviceVars, shadow, irqVars, bus, bufVars, indVars, faults, loc>>
  BY DEF AllFetched, At, Goto
<1>2. Good(t, w, loc[t]) /\ w \in Places
  <2>1. Good(t, pc[t], loc[t])
    BY ThreadIs
  <2> QED BY <1>1, <2>1, ThreadsAre DEF Good, MayBe, Holding, HoldingContext, HoldingStarter, Handling,
                                  UserPlaces, DsrPlaces, SyncPlaces, ContextPlaces, Places
<1>3. DataTypes'
  BY <1>1, DataTyped DEF DataTypes, deviceVars, irqVars, bufVars, indVars
<1>4. loc' = [loc EXCEPT ![t] = loc[t]] /\ loc[t] \in LocalVars
  BY <1>1, ThreadIs
<1> HIDE DEF w
<1> QED BY <1>1, <1>2, <1>3, <1>4, ThreadMoves DEF w

\* Buffers given back may end the wait for them.
LEMMA AddBuffersAre ==
    ASSUME Base, NEW t \in Threads, NEW e \in Eps, NEW n \in Nat, AddBuffers(t, e, n)
    PROVE  /\ rxBuffers' \in [Eps -> Nat] /\ waiting' \in BOOLEAN /\ waitingEp' \in Eps \cup {NoEp}
           /\ rxBuffers' = [rxBuffers EXCEPT ![e] = @ + n]
           /\ \E w \in {"enable", Enabled(t)} : pc' = [pc EXCEPT ![t] = w]
<1>1. /\ rxBuffers \in [Eps -> Nat] /\ waiting \in BOOLEAN /\ waitingEp \in Eps \cup {NoEp}
  BY DEF Base, Types
<1>2. rxBuffers' = [rxBuffers EXCEPT ![e] = @ + n] /\ rxBuffers[e] + n \in Nat
  BY <1>1 DEF AddBuffers
<1>3. rxBuffers' \in [Eps -> Nat]
  BY <1>1, <1>2
<1> QED BY <1>1, <1>2, <1>3 DEF AddBuffers, Goto

LEMMA AddReceivePktsBase ==
    ASSUME Base, NEW e \in Eps, AddReceivePkts(e)
    PROVE  Base' /\ \E w : Moved("user", w, loc["user"])
<1>1. PICK n \in 1..withUser[e] : AddBuffers("user", e, n) /\ withUser' = [withUser EXCEPT ![e] = @ - n]
  BY DEF AddReceivePkts
<1>2. /\ pc["user"] = "idle"
      /\ UNCHANGED <<mode, deviceVars, shadow, irqVars, bus, lost, indVars, faults, loc>>
  BY DEF AddReceivePkts, At
<1>3. withUser \in [Eps -> Nat] /\ n \in Nat /\ withUser[e] - n \in Nat
  BY DEF Base, Types
<1>4. withUser' \in [Eps -> Nat]
  BY <1>1, <1>3
<1>5. /\ rxBuffers' \in [Eps -> Nat] /\ waiting' \in BOOLEAN /\ waitingEp' \in Eps \cup {NoEp}
  BY <1>1, <1>3, AddBuffersAre, ThreadsAre
<1>6. PICK w \in {"enable", Enabled("user")} : pc' = [pc EXCEPT !["user"] = w]
  BY <1>1, <1>3, AddBuffersAre, ThreadsAre
<1>7. w \in {"enable", "idle"}
  BY <1>6 DEF Enabled
<1>8. Good("user", w, loc["user"]) /\ w \in Places
  <2>1. Good("user", pc["user"], loc["user"])
    BY ThreadIs, ThreadsAre
  <2> QED BY <1>2, <1>7, <2>1, ThreadsAre DEF Good, MayBe, Holding, UserPlaces, Places
<1>9. DataTypes'
  BY <1>2, <1>4, <1>5, DataTyped DEF DataTypes, deviceVars, irqVars, bufVars, indVars
<1>10. loc' = [loc EXCEPT !["user"] = loc["user"]] /\ loc["user"] \in LocalVars
  BY <1>2, ThreadIs, ThreadsAre
<1>11. Base' /\ Moved("user", w, loc["user"])
  BY <1>2, <1>6, <1>8, <1>9, <1>10, ThreadMoves, ThreadsAre
<1> QED BY <1>11

LEMMA RecyclePktsBase ==
    ASSUME Base, NEW t \in Threads, RecyclePkts(t)
    PROVE  /\ Base' /\ pc[t] = "recycle" /\ t # "user"
           /\ \E w \in {"enable", Enabled(t)} : Moved(t, w, [loc[t] EXCEPT !.fetch = 0])
<1> DEFINE l == [loc[t] EXCEPT !.fetch = 0]
<1>1. /\ pc[t] = "recycle" /\ AddBuffers(t, loc[t].ep, loc[t].fetch) /\ loc' = [loc EXCEPT ![t] = l]
      /\ UNCHANGED <<mode, deviceVars, shadow, irqVars, bus, withUser, lost, indVars, faults>>
  BY DEF RecyclePkts, At, Set
<1>2. loc[t] \in LocalVars /\ Good(t, "recycle", loc[t])
  BY <1>1, ThreadIs
<1>3. t # "user" /\ (t = "dsr" => mode = "sync") /\ loc[t].ep \in Eps
  BY <1>2, ThreadsAre DEF Good, MayBe, Holding, UserPlaces, DsrPlaces, SyncPlaces
<1>4. loc[t].fetch \in Nat /\ l \in LocalVars /\ l.fetch = 0 /\ l.la = loc[t].la /\ l.ep = loc[t].ep
      /\ l.done = loc[t].done /\ l.doneEp = loc[t].doneEp /\ l.from = loc[t].from
      /\ l.total = loc[t].total /\ l.more = loc[t].more
  BY <1>2 DEF LocalVars
<1> HIDE DEF l
<1>5. /\ rxBuffers' \in [Eps -> Nat] /\ waiting' \in BOOLEAN /\ waitingEp' \in Eps \cup {NoEp}
  BY <1>1, <1>3, <1>4, AddBuffersAre
<1>6. PICK w \in {"enable", Enabled(t)} : pc' = [pc EXCEPT ![t] = w]
  BY <1>1, <1>3, <1>4, AddBuffersAre
<1>7. Good(t, Enabled(t), l) /\ Enabled(t) \in Places /\ Good(t, "enable", l)
  BY <1>1, <1>3, <1>4, EnabledGood
<1>8. "enable" \in Places
  BY DEF Places, UserPlaces
<1>9. DataTypes'
  BY <1>1, <1>5, DataTyped DEF DataTypes, deviceVars, irqVars, bufVars, indVars
<1>10. Base' /\ Moved(t, w, l)
  BY <1>1, <1>4, <1>6, <1>7, <1>8, <1>9, ThreadMoves
<1> QED BY <1>1, <1>3, <1>6, <1>10 DEF l

LEMMA AllocPacketsBase ==
    ASSUME Base, NEW t \in Threads, AllocPackets(t)
    PROVE  /\ Base' /\ pc[t] = "alloc" /\ t # "user"
           /\ Moved(t, "fetch", [loc[t] EXCEPT !.la = 0, !.fetch = Allocates(loc[t]),
                                               !.total = @ + Allocates(loc[t])])
           /\ Allocates(loc[t]) \in Nat /\ loc[t].ep \in Eps
<1> DEFINE n == Allocates(loc[t])
           l == [loc[t] EXCEPT !.la = 0, !.fetch = n, !.total = @ + n]
<1>1. /\ pc[t] = "alloc" /\ rxBuffers' = [rxBuffers EXCEPT ![loc[t].ep] = @ - n]
      /\ \/ waiting' = TRUE /\ waitingEp' = loc[t].ep
         \/ UNCHANGED <<waiting, waitingEp>>
      /\ recheck' = (recheck \/ n >= 2)
      /\ loc' = [loc EXCEPT ![t] = l] /\ pc' = [pc EXCEPT ![t] = "fetch"]
      /\ UNCHANGED <<mode, deviceVars, shadow, taken, acks, bus, withUser, lost, indVars, faults>>
  BY DEF AllocPackets, At, Set, Goto
<1>2. loc[t] \in LocalVars /\ Good(t, "alloc", loc[t]) /\ mode \in {"sync", "async"}
  BY <1>1, ThreadIs
<1>3. loc[t].ep \in Eps /\ t # "user" /\ loc[t].la \in 0..MaxBundle /\ MaxBundle \in Nat /\ loc[t].total \in Nat
  BY <1>2, ThreadsAre DEF Good, MayBe, Holding, UserPlaces, LocalVars
<1>4. rxBuffers \in [Eps -> Nat] /\ recheck \in BOOLEAN /\ waiting \in BOOLEAN /\ waitingEp \in Eps \cup {NoEp}
  BY DEF Base, Types
<1>5. n \in Nat /\ n <= MaxBundle /\ n <= rxBuffers[loc[t].ep] /\ 0 \in 0..MaxBundle
      /\ rxBuffers[loc[t].ep] - n \in Nat
  BY <1>3, <1>4 DEF Allocates
<1> HIDE DEF n
<1>6. /\ l \in LocalVars /\ l.la = 0 /\ l.fetch = n /\ l.total = loc[t].total + n /\ l.ep = loc[t].ep
      /\ l.done = loc[t].done /\ l.doneEp = loc[t].doneEp /\ l.from = loc[t].from /\ l.ok = loc[t].ok
      /\ l.async = loc[t].async
  <2>1. PICK k \in LocalVars : k = loc[t]
    BY <1>2
  <2>2. PICK m \in Nat : m = n
    BY <1>5
  <2>3. PICK x \in Nat : x = loc[t].total + n
    BY <1>3, <1>5
  <2>4. l = [k EXCEPT !.la = 0, !.fetch = m, !.total = x]
    BY <2>1, <2>2, <2>3 DEF LocalVars
  <2>5. /\ l \in LocalVars /\ l.la = 0 /\ l.fetch = m /\ l.total = x /\ l.ep = k.ep
        /\ l.done = k.done /\ l.doneEp = k.doneEp /\ l.from = k.from /\ l.ok = k.ok
        /\ l.async = k.async
    BY <2>4, <1>5 DEF LocalVars
  <2> QED BY <2>1, <2>2, <2>3, <2>5
<1>7. rxBuffers' \in [Eps -> Nat]
  BY <1>1, <1>4, <1>5
<1>8. DataTypes'
  BY <1>1, <1>3, <1>4, <1>7, DataTyped DEF DataTypes, deviceVars, irqVars, bufVars, indVars
<1> HIDE DEF l
<1>9. Good(t, "fetch", l)
  <2>1. MayBe(t, "fetch")
    BY <1>2, ThreadsAre DEF Good, MayBe, DsrPlaces, ContextPlaces, UserPlaces
  <2>2. Holding("fetch", l)
    BY <1>2, <1>3, <1>5, <1>6 DEF Good, Holding
  <2>3. t \in Contexts => HoldingContext("fetch", l)
    BY <1>2, <1>3, <1>5, <1>6 DEF Good, HoldingContext, Handling
  <2>4. t = "dsr" /\ mode = "async" => HoldingStarter("fetch", l)
    BY <1>2, <1>3, <1>5, <1>6 DEF Good, HoldingStarter
  <2> QED BY <2>1, <2>2, <2>3, <2>4 DEF Good
<1>10. "fetch" \in Places
  BY DEF Places, DsrPlaces
<1>11. Base' /\ Moved(t, "fetch", l)
  BY <1>1, <1>6, <1>8, <1>9, <1>10, ThreadMoves
<1> QED BY <1>1, <1>3, <1>5, <1>11 DEF l, n

LEMMA FetchPacketsBase ==
    ASSUME Base, NEW t \in Threads, FetchPackets(t)
    PROVE  /\ Base' /\ pc[t] = "fetch" /\ t # "user" /\ loc[t].fetch > 0 /\ loc[t].ep \in Eps
           /\ \E n \in {1, loc[t].fetch} :
                /\ Moved(t, IF mode = "sync" THEN "waiting" ELSE "fetch",
                         [loc[t] EXCEPT !.fetch = @ - n])
                /\ bus' = Append(bus, Request("read", IF mode = "sync" THEN t ELSE Nobody, loc[t].ep,
                                              n, n = loc[t].fetch, FALSE))
           /\ mode = "sync" => t = "dsr"
<1>1. /\ pc[t] = "fetch" /\ loc[t].fetch > 0
      /\ UNCHANGED <<mode, deviceVars, shadow, irqVars, bufVars, indVars, faults>>
  BY DEF FetchPackets, At
<1> DEFINE w == IF mode = "sync" THEN "waiting" ELSE "fetch"
           R(n) == Request("read", IF mode = "sync" THEN t ELSE Nobody, loc[t].ep, n, n = loc[t].fetch, FALSE)
           L(n) == [loc[t] EXCEPT !.fetch = @ - n]
<1>2. PICK n \in {1, loc[t].fetch} :
        bus' = Append(bus, R(n)) /\ loc' = [loc EXCEPT ![t] = L(n)] /\ pc' = [pc EXCEPT ![t] = w]
  BY DEF FetchPackets, Submit, Set, Goto
<1>3. loc[t] \in LocalVars /\ Good(t, "fetch", loc[t]) /\ mode \in {"sync", "async"}
  BY <1>1, ThreadIs
<1>4. loc[t].ep \in Eps /\ t # "user" /\ loc[t].fetch \in Nat /\ loc[t].fetch <= MaxBundle /\ MaxBundle \in Nat
  BY <1>1, <1>3, ThreadsAre DEF Good, MayBe, Holding, UserPlaces, LocalVars
<1>5. n \in 0..MaxBundle /\ n > 0 /\ n <= loc[t].fetch /\ n \in Nat /\ loc[t].fetch - n \in Nat
  BY <1>1, <1>2, <1>4
<1>6. PICK r : r = R(n)
  OBVIOUS
<1>7. PICK l : l = L(n)
  OBVIOUS
<1>8. /\ r \in BusRequests /\ r.op = "read" /\ r.ep = loc[t].ep /\ r.n = n
      /\ r.by = IF mode = "sync" THEN t ELSE Nobody
  BY <1>4, <1>5, <1>6, ThreadsAre DEF Request, BusRequests
<1>9. mode = "sync" => t = "dsr"
  BY <1>3, <1>4, ThreadsAre DEF Good, MayBe
<1>10. Requested(r)
  BY <1>4, <1>5, <1>8, <1>9 DEF Requested
<1>11. /\ l \in LocalVars /\ l.la = loc[t].la /\ l.fetch = loc[t].fetch - n /\ l.total = loc[t].total
       /\ l.ep = loc[t].ep /\ l.done = loc[t].done /\ l.doneEp = loc[t].doneEp /\ l.from = loc[t].from
       /\ l.ok = loc[t].ok /\ l.async = loc[t].async
  BY <1>3, <1>5, <1>7 DEF LocalVars
<1>12. Good(t, w, l)
  <2>1. MayBe(t, w)
    BY <1>3, <1>4, <1>9, ThreadsAre DEF Good, MayBe, DsrPlaces, ContextPlaces, UserPlaces
  <2>2. Holding(w, l)
    BY <1>3, <1>4, <1>5, <1>11 DEF Good, Holding
  <2>3. t \in Contexts => HoldingContext(w, l)
    BY <1>1, <1>3, <1>4, <1>5, <1>9, <1>11, ThreadsAre DEF Good, HoldingContext, Handling
  <2>4. t = "dsr" /\ mode = "async" => HoldingStarter(w, l)
    BY <1>1, <1>3, <1>4, <1>5, <1>11 DEF Good, HoldingStarter
  <2> QED BY <2>1, <2>2, <2>3, <2>4 DEF Good
<1>13. w \in Places
  BY DEF Places, DsrPlaces
<1>14. DataTypes'
  BY <1>1, DataTyped DEF DataTypes, deviceVars, irqVars, bufVars, indVars
<1> HIDE DEF w, R, L
<1>15. r.by = Nobody \/ (r.by = t /\ w = "waiting")
  BY <1>8 DEF w
<1>16. Base' /\ Moved(t, w, l)
  BY <1>1, <1>2, <1>6, <1>7, <1>8, <1>10, <1>11, <1>12, <1>13, <1>14, <1>15, ThreadSubmits
<1> QED BY <1>1, <1>2, <1>4, <1>6, <1>7, <1>9, <1>16 DEF w, R, L

LEMMA IndicateSyncBase ==
    ASSUME Base, IndicateSync
    PROVE  /\ Base' /\ pc["dsr"] = "process" /\ mode = "sync" /\ loc["dsr"].done # <<>>
           /\ Moved("dsr", "process", [loc["dsr"] EXCEPT !.done = Tail(@)])
<1> DEFINE l == [loc["dsr"] EXCEPT !.done = Tail(@)]
           m == Head(loc["dsr"].done)
<1>1. /\ pc["dsr"] = "process" /\ loc["dsr"].done # <<>>
      /\ indicated' = [indicated EXCEPT ![m.ep] = Append(@, m.num)]
      /\ withUser' = [withUser EXCEPT ![m.ep] = @ + 1]
      /\ loc' = [loc EXCEPT !["dsr"] = l]
      /\ UNCHANGED <<mode, deviceVars, shadow, irqVars, bus, rxBuffers, lost, waiting,
                     waitingEp, indication, draining, faults, pc>>
  BY DEF IndicateSync, At, Set
<1>2. loc["dsr"] \in LocalVars /\ Good("dsr", "process", loc["dsr"]) /\ pc = [pc EXCEPT !["dsr"] = "process"]
      /\ mode \in {"sync", "async"}
  BY <1>1, ThreadIs, ThreadsAre DEF Base, Types
<1>3. mode = "sync"
  BY <1>2, ThreadsAre DEF Good, MayBe, DsrPlaces
<1>4. m \in Messages /\ Tail(loc["dsr"].done) \in Seq(Messages)
  BY <1>1, <1>2 DEF LocalVars
<1>5. m.ep \in Eps /\ m.num \in 1..MaxMsgs
  BY <1>4 DEF Messages
<1>6. withUser \in [Eps -> Nat] /\ indicated \in [Eps -> Seq(1..MaxMsgs)]
  BY DEF Base, Types
<1> HIDE DEF m
<1>7. withUser' \in [Eps -> Nat]
  BY <1>1, <1>5, <1>6
<1>8. indicated' \in [Eps -> Seq(1..MaxMsgs)]
  <2>1. Append(indicated[m.ep], m.num) \in Seq(1..MaxMsgs)
    BY <1>5, <1>6
  <2> QED BY <1>1, <1>5, <1>6, <2>1
<1>9. DataTypes'
  BY <1>1, <1>7, <1>8, DataTyped DEF DataTypes, deviceVars, irqVars, bufVars, indVars
<1>10. l \in LocalVars /\ l.fetch = loc["dsr"].fetch /\ l.la = loc["dsr"].la /\ l.ep = loc["dsr"].ep
       /\ l.doneEp = loc["dsr"].doneEp
  BY <1>2, <1>4 DEF LocalVars
<1>11. Good("dsr", "process", l) /\ "process" \in Places
  BY <1>1, <1>2, <1>3, <1>10, ThreadsAre DEF Good, MayBe, Holding, Places, SyncPlaces
<1> HIDE DEF l
<1>12. pc' = [pc EXCEPT !["dsr"] = "process"]
  BY <1>1, <1>2
<1>13. Base' /\ Moved("dsr", "process", l)
  BY <1>1, <1>9, <1>10, <1>11, <1>12, ThreadMoves, ThreadsAre
<1> QED BY <1>1, <1>3, <1>13 DEF l

LEMMA BadHeaderSyncBase ==
    ASSUME Base, BadHeaderSync
    PROVE  /\ Base' /\ pc["dsr"] = "process" /\ mode = "sync" /\ faults' = faults + 1
           /\ loc["dsr"].doneEp \in Eps
           /\ Moved("dsr", "recycle",
                    [loc["dsr"] EXCEPT !.done = <<>>, !.ep = loc["dsr"].doneEp, !.la = 0, !.ok = FALSE,
                                       !.fetch = Len(loc["dsr"].done) - 1])
<1> DEFINE k == loc["dsr"]
           l == [k EXCEPT !.done = <<>>, !.ep = k.doneEp, !.la = 0, !.ok = FALSE,
                          !.fetch = Len(k.done) - 1]
<1>1. /\ pc["dsr"] = "process" /\ k.done # <<>> /\ faults' = faults + 1 /\ faults < MaxFaults
      /\ lost' = [lost EXCEPT ![k.doneEp] = @ + 1]
      /\ loc' = [loc EXCEPT !["dsr"] = l] /\ pc' = [pc EXCEPT !["dsr"] = "recycle"]
      /\ UNCHANGED <<mode, deviceVars, shadow, irqVars, bus, rxBuffers, withUser, waiting,
                     waitingEp, indVars>>
  BY DEF BadHeaderSync, At, Set, Goto
<1>2. k \in LocalVars /\ Good("dsr", "process", k) /\ mode \in {"sync", "async"}
  BY <1>1, ThreadIs, ThreadsAre
<1>3. mode = "sync" /\ k.doneEp \in Eps
  BY <1>1, <1>2, ThreadsAre DEF Good, MayBe, DsrPlaces, Holding
<1>4. Len(k.done) - 1 \in Nat
  BY <1>1, <1>2 DEF LocalVars
<1>5. lost \in [Eps -> Nat] /\ faults' \in 0..MaxFaults
  BY <1>1, MoreFaults DEF Base, Types
<1> HIDE DEF k
<1>6. lost' \in [Eps -> Nat] /\ faults' \in 0..MaxFaults
  BY <1>1, <1>3, <1>5
<1>7. DataTypes'
  BY <1>1, <1>6, DataTyped DEF DataTypes, deviceVars, irqVars, bufVars, indVars
<1>8. l \in LocalVars /\ l.la = 0 /\ l.ep = k.doneEp /\ l.done = <<>>
  <2>1. PICK n \in Nat : n = Len(k.done) - 1
    BY <1>4
  <2>2. l = [k EXCEPT !.done = <<>>, !.ep = k.doneEp, !.la = 0, !.ok = FALSE, !.fetch = n]
    BY <2>1
  <2>3. 0 \in 0..MaxBundle /\ <<>> \in Seq(Messages)
    BY ThreadsAre
  <2> QED BY <1>2, <1>3, <2>2, <2>3 DEF LocalVars
<1>9. Good("dsr", "recycle", l) /\ "recycle" \in Places
  BY <1>3, <1>8, ThreadsAre DEF Good, MayBe, Holding, Places, SyncPlaces
<1> HIDE DEF l
<1>10. Base' /\ Moved("dsr", "recycle", l)
  BY <1>1, <1>7, <1>8, <1>9, ThreadMoves, ThreadsAre
<1> QED BY <1>1, <1>3, <1>10 DEF l, k

LEMMA FollowLookAheadBase ==
    ASSUME Base, FollowLookAhead
    PROVE  /\ Base' /\ pc["dsr"] = "process" /\ mode = "sync"
           /\ loc["dsr"].done = <<>>
           /\ Moved("dsr", IF loc["dsr"].la > 0 THEN "alloc" ELSE "check", loc["dsr"])
<1> DEFINE w == IF loc["dsr"].la > 0 THEN "alloc" ELSE "check"
<1>1. /\ pc["dsr"] = "process" /\ loc["dsr"].done = <<>>
      /\ recheck' = (recheck \/ loc["dsr"].la > 0)
      /\ pc' = [pc EXCEPT !["dsr"] = w]
      /\ UNCHANGED <<mode, deviceVars, shadow, taken, acks, bus, bufVars, indVars, faults, loc>>
  BY DEF FollowLookAhead, At, Goto
<1>2. loc["dsr"] \in LocalVars /\ Good("dsr", "process", loc["dsr"]) /\ mode \in {"sync", "async"}
      /\ loc' = [loc EXCEPT !["dsr"] = loc["dsr"]]
  BY <1>1, ThreadIs, ThreadsAre
<1>3. mode = "sync"
  BY <1>2, ThreadsAre DEF Good, MayBe, DsrPlaces
<1>4. Good("dsr", w, loc["dsr"]) /\ w \in Places
  BY <1>1, <1>2, <1>3, ThreadsAre DEF Good, MayBe, Holding, DsrPlaces, Places
<1>5. DataTypes'
  BY <1>1, DataTyped DEF DataTypes, deviceVars, irqVars, bufVars, indVars
<1> HIDE DEF w
<1>6. Base' /\ Moved("dsr", w, loc["dsr"])
  BY <1>1, <1>2, <1>4, <1>5, ThreadMoves, ThreadsAre
<1> QED BY <1>1, <1>3, <1>6 DEF w

LEMMA TakeInterruptBase ==
    ASSUME Base, TakeInterrupt
    PROVE  /\ Base' /\ pc["dsr"] = "idle" /\ ~taken /\ taken' = (mode = "async") /\ acks' = 0
           /\ Moved("dsr", "status", loc["dsr"])
<1>1. /\ pc["dsr"] = "idle" /\ ~taken /\ taken' = (mode = "async") /\ acks' = 0 /\ recheck' = FALSE
      /\ pc' = [pc EXCEPT !["dsr"] = "status"]
      /\ UNCHANGED <<mode, deviceVars, shadow, bus, bufVars, indVars, faults, loc>>
  BY DEF TakeInterrupt, At, Goto
<1>2. loc["dsr"] \in LocalVars /\ Good("dsr", "idle", loc["dsr"])
      /\ loc' = [loc EXCEPT !["dsr"] = loc["dsr"]]
  BY <1>1, ThreadIs, ThreadsAre
<1>3. Good("dsr", "status", loc["dsr"]) /\ "status" \in Places
  BY <1>2, ThreadsAre DEF Good, MayBe, Holding, HoldingStarter, DsrPlaces, Places
<1>4. DataTypes'
  BY <1>1, DataTyped DEF DataTypes, deviceVars, irqVars, bufVars, indVars
<1>5. Base' /\ Moved("dsr", "status", loc["dsr"])
  BY <1>1, <1>2, <1>3, <1>4, ThreadMoves, ThreadsAre
<1> QED BY <1>1, <1>5

LEMMA ReadStatusBase ==
    ASSUME Base, ReadStatus
    PROVE  /\ Base' /\ pc["dsr"] = "status" /\ Moved("dsr", "waiting", loc["dsr"])
           /\ \E r : bus' = Append(bus, r) /\ r.op = "status" /\ r.by = "dsr"
<1> DEFINE r == Request("status", "dsr", NoEp, 0, FALSE, FALSE)
<1>1. /\ pc["dsr"] = "status" /\ bus' = Append(bus, r)
      /\ pc' = [pc EXCEPT !["dsr"] = "waiting"]
      /\ UNCHANGED <<mode, deviceVars, shadow, irqVars, bufVars, indVars, faults, loc>>
  BY DEF ReadStatus, At, Goto, Submit
<1>2. loc["dsr"] \in LocalVars /\ Good("dsr", "status", loc["dsr"])
      /\ loc' = [loc EXCEPT !["dsr"] = loc["dsr"]]
  BY <1>1, ThreadIs, ThreadsAre
<1>3. Good("dsr", "waiting", loc["dsr"]) /\ "waiting" \in Places
  BY <1>2, ThreadsAre DEF Good, MayBe, Holding, HoldingStarter, DsrPlaces, Places
<1>4. DataTypes'
  BY <1>1, DataTyped DEF DataTypes, deviceVars, irqVars, bufVars, indVars
<1>5. r \in BusRequests /\ Requested(r) /\ r.op = "status" /\ r.by = "dsr"
  <2>1. 0 \in 0..MaxBundle
    BY ThreadsAre
  <2> QED BY <2>1, ThreadsAre DEF Request, BusRequests, Requested
<1> HIDE DEF r
<1>6. Base' /\ Moved("dsr", "waiting", loc["dsr"])
  BY <1>1, <1>2, <1>3, <1>4, <1>5, ThreadSubmits, ThreadsAre
<1> QED BY <1>1, <1>5, <1>6

\* The handler leaves.
LEMMA IdleGood ==
    ASSUME Base, NEW t \in Threads
    PROVE  Good(t, "idle", NoLoc) /\ "idle" \in Places /\ NoLoc \in LocalVars
  BY NoLocType, ThreadsAre DEF Good, MayBe, Holding, HoldingStarter, HoldingContext, Handling, UserPlaces, DsrPlaces,
           ContextPlaces, Places, NoLoc

LEMMA AckTyped ==
    ASSUME Base, Ack \/ UNCHANGED <<taken, acks>>
    PROVE  taken' \in BOOLEAN /\ acks' \in Nat
<1>1. taken \in BOOLEAN /\ acks \in Nat
  BY DEF Base, Types
<1>2. CASE Ack
  <2>1. taken' = FALSE /\ acks' = acks + 1
    BY <1>2 DEF Ack
  <2>2. acks' \in Nat
    BY <1>1, <2>1
  <2> QED BY <2>1, <2>2
<1>3. CASE UNCHANGED <<taken, acks>>
  BY <1>1, <1>3
<1> QED BY <1>2, <1>3

LEMMA ProcessPendingIRQsBase ==
    ASSUME Base, ProcessPendingIRQs
    PROVE  /\ Base' /\ pc["dsr"] = "pending"
           /\ \/ Ack /\ Moved("dsr", "idle", NoLoc)
              \/ /\ UNCHANGED <<taken, acks>>
                 /\ \E w \in {"alloc", "others"}, l \in LocalVars :
                      /\ Moved("dsr", w, l) /\ SameBut(l, loc["dsr"]) /\ l.ep = loc["dsr"].ep
                      /\ l.la \in {0, loc["dsr"].la} /\ (w = "others" => l.la = 0)
<1> DEFINE k == loc["dsr"]
           la == IF shadow THEN k.la ELSE 0
           l == [k EXCEPT !.la = la]
           w == IF la > 0 THEN "alloc" ELSE "others"
<1>1. /\ pc["dsr"] = "pending" /\ UNCHANGED <<mode, deviceVars, shadow, recheck, bus, bufVars, indVars, faults>>
      /\ \/ Ack /\ pc' = [pc EXCEPT !["dsr"] = "idle"] /\ loc' = [loc EXCEPT !["dsr"] = NoLoc]
         \/ /\ loc' = [loc EXCEPT !["dsr"] = l] /\ pc' = [pc EXCEPT !["dsr"] = w]
            /\ UNCHANGED <<taken, acks>>
  BY DEF ProcessPendingIRQs, At, Goto, Set, Leave
<1>2. k \in LocalVars /\ Good("dsr", "pending", k) /\ mode \in {"sync", "async"}
  BY <1>1, ThreadIs, ThreadsAre
<1>3. taken' \in BOOLEAN /\ acks' \in Nat
  BY <1>1, AckTyped
<1>4. DataTypes'
  BY <1>1, <1>3, DataTyped DEF DataTypes, deviceVars, bufVars, indVars
<1>5. CASE Ack /\ pc' = [pc EXCEPT !["dsr"] = "idle"] /\ loc' = [loc EXCEPT !["dsr"] = NoLoc]
  <2>1. Base' /\ Moved("dsr", "idle", NoLoc)
    BY <1>1, <1>4, <1>5, IdleGood, ThreadMoves, ThreadsAre
  <2> QED BY <1>1, <1>5, <2>1
<1>6. CASE loc' = [loc EXCEPT !["dsr"] = l] /\ pc' = [pc EXCEPT !["dsr"] = w] /\ UNCHANGED <<taken, acks>>
  <2>1. la \in 0..MaxBundle /\ (la > 0 => k.la > 0)
    BY <1>2, ThreadsAre DEF LocalVars
  <2> HIDE DEF la
  <2>2. l \in LocalVars /\ SameBut(l, k) /\ l.la = la /\ l.ep = k.ep /\ l.fetch = k.fetch /\ l.done = k.done
        /\ l.doneEp = k.doneEp /\ l.ok = k.ok /\ l.total = k.total
    BY <1>2, <2>1 DEF LocalVars, SameBut
  <2>a. la \in {0, k.la}
    BY DEF la
  <2>3. w \in Places /\ w \in {"alloc", "others"} /\ (w = "alloc" => la > 0) /\ (w = "others" => la = 0)
    BY <2>1, ThreadsAre DEF Places, DsrPlaces
  <2>4. Good("dsr", w, l)
    BY <1>2, <2>1, <2>2, <2>3, ThreadsAre DEF Good, MayBe, Holding, HoldingStarter, DsrPlaces
  <2> HIDE DEF l, w
  <2>5. Base' /\ Moved("dsr", w, l)
    BY <1>1, <1>4, <1>6, <2>2, <2>3, <2>4, ThreadMoves, ThreadsAre
  <2> QED BY <1>1, <1>6, <2>a, <2>2, <2>3, <2>5
<1> QED BY <1>1, <1>5, <1>6

LEMMA MessagesHandledBase ==
    ASSUME Base, MessagesHandled
    PROVE  /\ Base' /\ pc["dsr"] = "return" /\ UNCHANGED <<taken, acks>>
           /\ \/ mode = "sync" /\ Moved("dsr", "idle", NoLoc)
              \/ Moved("dsr", "others", [loc["dsr"] EXCEPT !.async = mode = "async" /\ loc["dsr"].total # 0])
<1> DEFINE k == loc["dsr"]
           l == [k EXCEPT !.async = mode = "async" /\ k.total # 0]
<1>1. /\ pc["dsr"] = "return" /\ UNCHANGED <<mode, deviceVars, shadow, bus, bufVars, indVars, faults, taken, acks>>
      /\ \/ ~k.ok /\ pc' = [pc EXCEPT !["dsr"] = "idle"] /\ loc' = [loc EXCEPT !["dsr"] = NoLoc]
         \/ loc' = [loc EXCEPT !["dsr"] = l] /\ pc' = [pc EXCEPT !["dsr"] = "others"]
      /\ recheck' = (recheck /\ ~(k.ok /\ ForcesAck(k)))
  BY DEF MessagesHandled, At, Goto, Set, Leave, ForcesAck
<1>2. k \in LocalVars /\ Good("dsr", "return", k) /\ mode \in {"sync", "async"}
  BY <1>1, ThreadIs, ThreadsAre
<1>4. DataTypes'
  BY <1>1, DataTyped DEF DataTypes, deviceVars, irqVars, bufVars, indVars
<1>5. CASE ~k.ok /\ pc' = [pc EXCEPT !["dsr"] = "idle"] /\ loc' = [loc EXCEPT !["dsr"] = NoLoc]
  <2>1. Base' /\ Moved("dsr", "idle", NoLoc)
    BY <1>1, <1>4, <1>5, IdleGood, ThreadMoves, ThreadsAre
  <2>2. mode = "sync"
    BY <1>2, <1>5 DEF Good, HoldingStarter
  <2> QED BY <1>1, <2>1, <2>2
<1>6. CASE loc' = [loc EXCEPT !["dsr"] = l] /\ pc' = [pc EXCEPT !["dsr"] = "others"]
  <2>2. l \in LocalVars /\ l.la = k.la /\ l.ep = k.ep /\ l.fetch = k.fetch /\ l.done = k.done
        /\ l.doneEp = k.doneEp /\ l.ok = k.ok /\ l.total = k.total
    BY <1>2 DEF LocalVars
  <2>4. Good("dsr", "others", l) /\ "others" \in Places
    BY <1>2, <2>2, ThreadsAre DEF Good, MayBe, Holding, HoldingStarter, DsrPlaces, Places
  <2> HIDE DEF l
  <2>5. Base' /\ Moved("dsr", "others", l)
    BY <1>1, <1>4, <1>6, <2>2, <2>4, ThreadMoves, ThreadsAre
  <2> QED BY <1>1, <2>5 DEF l
<1> QED BY <1>1, <1>5, <1>6

LEMMA ServiceOthersBase ==
    ASSUME Base, ServiceOthers
    PROVE  /\ Base' /\ pc["dsr"] = "others"
           /\ \/ ~loc["dsr"].async /\ UNCHANGED <<taken, acks>> /\ Moved("dsr", "status", NoLoc)
              \/ ~loc["dsr"].async /\ Ack /\ Moved("dsr", "idle", NoLoc)
              \/ loc["dsr"].async /\ UNCHANGED <<taken, acks>> /\ Moved("dsr", "idle", NoLoc)
<1> DEFINE k == loc["dsr"]
<1>1. /\ pc["dsr"] = "others" /\ UNCHANGED <<mode, mbox, sent, reg, shadow, recheck, bus, bufVars, indVars, faults>>
      /\ other' = (other /\ ~k.other) /\ loc' = [loc EXCEPT !["dsr"] = NoLoc]
      /\ \/ ~k.async /\ UNCHANGED <<taken, acks>> /\ pc' = [pc EXCEPT !["dsr"] = "status"]
         \/ ~k.async /\ Ack /\ pc' = [pc EXCEPT !["dsr"] = "idle"]
         \/ k.async /\ UNCHANGED <<taken, acks>> /\ pc' = [pc EXCEPT !["dsr"] = "idle"]
  BY DEF ServiceOthers, At, Goto, Set, Leave
<1>2. taken' \in BOOLEAN /\ acks' \in Nat
  BY <1>1, AckTyped
<1>3. DataTypes'
  BY <1>1, <1>2, DataTyped DEF DataTypes, deviceVars, irqVars, bufVars, indVars
<1>4. Good("dsr", "status", NoLoc) /\ "status" \in Places
  BY NoLocType, ThreadsAre DEF Good, MayBe, Holding, HoldingStarter, DsrPlaces, Places, NoLoc
<1>5. CASE pc' = [pc EXCEPT !["dsr"] = "status"]
  <2>1. Base' /\ Moved("dsr", "status", NoLoc)
    BY <1>1, <1>3, <1>4, <1>5, IdleGood, ThreadMoves, ThreadsAre
  <2>2. pc'["dsr"] = "status"
    BY <2>1 DEF Moved
  <2>3. pc \in [Threads -> Places] /\ "dsr" \in Threads
    BY ThreadIs, ThreadsAre
  <2> QED BY <1>1, <2>1, <2>2, <2>3
<1>6. CASE pc' = [pc EXCEPT !["dsr"] = "idle"]
  <2>1. Base' /\ Moved("dsr", "idle", NoLoc)
    BY <1>1, <1>3, <1>6, IdleGood, ThreadMoves, ThreadsAre
  <2>3. pc \in [Threads -> Places] /\ "dsr" \in Threads
    BY ThreadIs, ThreadsAre
  <2> QED BY <1>1, <1>6, <2>1, <2>3
<1> QED BY <1>1, <1>5, <1>6

\* Only where the HIF is asynchronous do its contexts run.
LEMMA ContextIs ==
    ASSUME Base, NEW c \in Contexts, pc[c] # "idle"
    PROVE  /\ c \in Threads /\ mode = "async" /\ loc[c] \in LocalVars /\ Good(c, pc[c], loc[c])
           /\ Holding(pc[c], loc[c]) /\ HoldingContext(pc[c], loc[c]) /\ c # "dsr" /\ c # "user"
<1>1. c \in Threads /\ loc[c] \in LocalVars /\ Good(c, pc[c], loc[c]) /\ mode \in {"sync", "async"}
      /\ c # "dsr" /\ c # "user"
  BY ThreadIs, ThreadsAre
<1> QED BY <1>1 DEF Good, MayBe

LEMMA QueueIndicationBase ==
    ASSUME Base, NEW c \in Contexts, QueueIndication(c)
    PROVE  /\ Base' /\ pc[c] = "complete"
           /\ Moved(c, IF loc[c].more THEN "more" ELSE "drain", [loc[c] EXCEPT !.done = <<>>])
<1> DEFINE k == loc[c]
           l == [k EXCEPT !.done = <<>>]
           w == IF k.more THEN "more" ELSE "drain"
<1>1. /\ pc[c] = "complete" /\ indication' = [indication EXCEPT ![k.doneEp] = @ \o k.done]
      /\ loc' = [loc EXCEPT ![c] = l] /\ pc' = [pc EXCEPT ![c] = w]
      /\ UNCHANGED <<mode, deviceVars, shadow, irqVars, bus, bufVars, draining, indicated, faults>>
  BY DEF QueueIndication, At, Goto, Set
<1>2. /\ c \in Threads /\ mode = "async" /\ k \in LocalVars /\ Good(c, "complete", k)
      /\ Holding("complete", k) /\ HoldingContext("complete", k) /\ c # "dsr" /\ c # "user"
  BY <1>1, ContextIs
<1>3. k.doneEp \in Eps /\ k.done \in Seq(Messages)
  BY <1>2 DEF Holding, HoldingContext, LocalVars
<1>4. indication' \in [Eps -> Seq(Messages)]
  <2>1. indication \in [Eps -> Seq(Messages)]
    BY DEF Base, Types
  <2>2. indication[k.doneEp] \o k.done \in Seq(Messages)
    BY <1>3, <2>1
  <2> HIDE DEF k
  <2> QED BY <1>1, <1>3, <2>1, <2>2
<1>5. DataTypes'
  BY <1>1, <1>4, DataTyped DEF DataTypes, deviceVars, irqVars, bufVars
<1>6. /\ l \in LocalVars /\ l.la = k.la /\ l.ep = k.ep /\ l.fetch = k.fetch /\ l.done = <<>> /\ l.total = k.total
      /\ l.doneEp = k.doneEp /\ l.from = k.from /\ l.last = k.last /\ l.more = k.more
  <2>1. <<>> \in Seq(Messages)
    OBVIOUS
  <2> QED BY <1>2, <2>1 DEF LocalVars
<1>7. Good(c, w, l) /\ w \in Places
  BY <1>2, <1>3, <1>6, ThreadsAre DEF Good, MayBe, Holding, HoldingContext, Handling, ContextPlaces, Places
<1> HIDE DEF l, w
<1>8. Base' /\ Moved(c, w, l)
  BY <1>1, <1>2, <1>5, <1>6, <1>7, ThreadMoves
<1> QED BY <1>1, <1>8 DEF l, w

LEMMA BadHeaderBase ==
    ASSUME Base, NEW c \in Contexts, BadHeader(c)
    PROVE  /\ Base' /\ pc[c] = "complete" /\ faults' = faults + 1
           /\ \E i \in DOMAIN loc[c].done :
                Moved(c, "recycle",
                      [loc[c] EXCEPT !.done = RemoveAt(@, i), !.fetch = 1, !.ep = loc[c].doneEp,
                                     !.la = 0, !.more = FALSE,
                                     !.doneEp = IF Len(loc[c].done) > 1 THEN @ ELSE NoEp])
<1> DEFINE k == loc[c]
           L(i) == [k EXCEPT !.done = RemoveAt(@, i), !.fetch = 1, !.ep = k.doneEp,
                             !.la = 0, !.more = FALSE,
                             !.doneEp = IF Len(k.done) > 1 THEN @ ELSE NoEp]
<1>1. /\ pc[c] = "complete" /\ faults' = faults + 1 /\ faults < MaxFaults /\ pc' = [pc EXCEPT ![c] = "recycle"]
      /\ UNCHANGED <<mode, deviceVars, shadow, irqVars, bus, bufVars, indVars>>
  BY DEF BadHeader, At, Goto
<1>2. PICK i \in DOMAIN k.done : loc' = [loc EXCEPT ![c] = L(i)]
  BY DEF BadHeader, Set
<1>3. /\ c \in Threads /\ mode = "async" /\ k \in LocalVars
      /\ Holding("complete", k) /\ HoldingContext("complete", k) /\ c # "dsr" /\ c # "user"
  BY <1>1, ContextIs
<1>4. k.doneEp \in Eps /\ k.done \in Seq(Messages) /\ k.from # "drain" /\ k.total = 0
  BY <1>3 DEF Holding, HoldingContext, LocalVars
<1>5. /\ RemoveAt(k.done, i) \in Seq(Messages)
      /\ RemoveAt(k.done, i) # <<>> => Len(k.done) > 1
  <2>1. i \in 1..Len(k.done) /\ Len(k.done) \in Nat
    BY <1>2, <1>4
  <2> HIDE DEF k
  <2>2. /\ SubSeq(k.done, 1, i - 1) \in Seq(Messages)
        /\ Len(SubSeq(k.done, 1, i - 1)) = i - 1
    <3>1. i - 1 \in 0..Len(k.done) /\ 1 \in 1..(Len(k.done) + 1)
      BY <2>1
    <3>2. Len(SubSeq(k.done, 1, i - 1)) = IF 1 <= i - 1 THEN (i - 1) - 1 + 1 ELSE 0
      BY <3>1, <1>4, SubSeqType
    <3> QED BY <1>4, <2>1, <3>1, <3>2, SubSeqType
  <2>3. /\ SubSeq(k.done, i + 1, Len(k.done)) \in Seq(Messages)
        /\ Len(SubSeq(k.done, i + 1, Len(k.done))) = Len(k.done) - i
    <3>1. Len(k.done) \in 0..Len(k.done) /\ i + 1 \in 1..(Len(k.done) + 1)
      BY <2>1
    <3>2. Len(SubSeq(k.done, i + 1, Len(k.done))) = IF i + 1 <= Len(k.done) THEN Len(k.done) - (i + 1) + 1 ELSE 0
      BY <3>1, <1>4, SubSeqType
    <3> QED BY <1>4, <2>1, <3>1, <3>2, SubSeqType
  <2>4. RemoveAt(k.done, i) = SubSeq(k.done, 1, i - 1) \o SubSeq(k.done, i + 1, Len(k.done))
    BY DEF RemoveAt
  <2>5. RemoveAt(k.done, i) \in Seq(Messages) /\ Len(RemoveAt(k.done, i)) = Len(k.done) - 1
    <3>1. PICK a \in Seq(Messages) : a = SubSeq(k.done, 1, i - 1) /\ Len(a) = i - 1
      BY <2>2
    <3>2. PICK b \in Seq(Messages) : b = SubSeq(k.done, i + 1, Len(k.done)) /\ Len(b) = Len(k.done) - i
      BY <2>3
    <3>3. a \o b \in Seq(Messages) /\ Len(a \o b) = Len(a) + Len(b)
      OBVIOUS
    <3>4. RemoveAt(k.done, i) = a \o b
      BY <2>4, <3>1, <3>2
    <3>5. (i - 1) + (Len(k.done) - i) = Len(k.done) - 1
      BY <2>1
    <3> QED BY <3>1, <3>2, <3>3, <3>4, <3>5
  <2>6. Len(k.done) = 1 => RemoveAt(k.done, i) = <<>>
    BY <2>5, EmptySeq
  <2> QED BY <2>1, <2>5, <2>6
<1>6. PICK l : l = L(i)
  OBVIOUS
<1>7. PICK s \in Seq(Messages) : s = RemoveAt(k.done, i) /\ (s # <<>> => Len(k.done) > 1)
  BY <1>5
<1> HIDE DEF k
<1>8. PICK e \in Eps \cup {NoEp} : e = (IF Len(k.done) > 1 THEN k.doneEp ELSE NoEp)
  BY <1>4
<1>9. l = [k EXCEPT !.done = s, !.fetch = 1, !.ep = k.doneEp, !.la = 0, !.more = FALSE, !.doneEp = e]
  BY <1>3, <1>6, <1>7, <1>8 DEF LocalVars
<1>10. /\ l \in LocalVars /\ l.la = 0 /\ l.ep = k.doneEp /\ l.fetch = 1 /\ l.done = s /\ l.total = k.total
       /\ l.doneEp = e /\ l.from = k.from /\ l.last = k.last /\ ~l.more
  <2>1. 0 \in 0..MaxBundle
    BY ThreadsAre
  <2> QED BY <1>3, <1>4, <1>9, <2>1 DEF LocalVars
<1>11. s # <<>> => e \in Eps
  BY <1>4, <1>7, <1>8
<1>12. Good(c, "recycle", l) /\ "recycle" \in Places
  BY <1>3, <1>4, <1>10, <1>11, ThreadsAre DEF Good, MayBe, Holding, HoldingContext, Handling, ContextPlaces, Places
<1>13. faults' \in 0..MaxFaults
  BY <1>1, MoreFaults DEF Base
<1>14. DataTypes'
  BY <1>1, <1>13, DataTyped DEF DataTypes, deviceVars, irqVars, bufVars, indVars
<1>15. Base' /\ Moved(c, "recycle", l)
  BY <1>1, <1>2, <1>3, <1>6, <1>10, <1>12, <1>14, ThreadMoves
<1> QED BY <1>1, <1>2, <1>6, <1>15 DEF k

LEMMA CheckMorePacketsBase ==
    ASSUME Base, NEW c \in Contexts, CheckMorePackets(c)
    PROVE  /\ Base' /\ pc[c] = "more"
           /\ \/ /\ loc[c].la > 0 /\ loc[c].last /\ Moved(c, "alloc", [loc[c] EXCEPT !.from = "more"])
                 /\ UNCHANGED <<taken, acks, bus>>
              \/ /\ loc[c].last /\ Moved(c, "drain", loc[c]) /\ UNCHANGED <<taken, acks>>
                 /\ bus' = Append(bus, Request("status", Nobody, NoEp, 0, FALSE, FALSE))
              \/ loc[c].last /\ Moved(c, "drain", loc[c]) /\ Ack /\ bus' = bus
              \/ ~loc[c].last /\ Moved(c, "drain", loc[c]) /\ UNCHANGED <<taken, acks, bus>>
<1> DEFINE k == loc[c]
           l == [k EXCEPT !.from = "more"]
           r == Request("status", Nobody, NoEp, 0, FALSE, FALSE)
<1>0. /\ pc[c] = "more" /\ UNCHANGED <<mode, deviceVars, shadow, bufVars, indVars, faults>>
      /\ recheck' = (recheck \/ k.la > 0)
  BY DEF CheckMorePackets, At
<1>2. /\ c \in Threads /\ mode = "async" /\ k \in LocalVars /\ Good(c, "more", k)
      /\ Holding("more", k) /\ HoldingContext("more", k) /\ c # "dsr" /\ c # "user"
  BY <1>0, ContextIs
<1>3. k.la \in Nat /\ k.last \in BOOLEAN /\ loc \in [Threads -> LocalVars]
  <2>1. loc \in [Threads -> LocalVars]
    BY DEF Base, Types
  <2>2. k.la \in Nat /\ k.last \in BOOLEAN
    BY <1>2, ThreadsAre DEF LocalVars
  <2> QED BY <2>1, <2>2
<1>1. \/ /\ k.la > 0 /\ pc' = [pc EXCEPT ![c] = "alloc"] /\ loc' = [loc EXCEPT ![c] = l]
         /\ UNCHANGED <<taken, acks, bus>>
      \/ /\ k.la = 0 /\ pc' = [pc EXCEPT ![c] = "drain"] /\ loc' = loc
         /\ \/ k.last /\ bus' = Append(bus, r) /\ UNCHANGED <<taken, acks>>
            \/ k.last /\ bus' = bus /\ Ack
            \/ ~k.last /\ UNCHANGED <<taken, acks, bus>>
  <2>1. CASE k.la > 0
    <3>1. k.la # 0
      BY <1>3, <2>1
    <3> QED BY <2>1, <3>1 DEF CheckMorePackets, Goto, Set
  <2>2. CASE k.la = 0
    <3>1. ~(k.la > 0)
      BY <2>2
    <3>2. /\ pc' = [pc EXCEPT ![c] = "drain"] /\ loc' = loc
          /\ IF k.last /\ recheck THEN bus' = Append(bus, r) ELSE bus' = bus
          /\ IF k.last /\ ~recheck THEN Ack ELSE UNCHANGED <<taken, acks>>
      BY <2>2, <3>1 DEF CheckMorePackets, Goto, Submit, ChecksMore
    <3> HIDE DEF k, l, r
    <3>3. \/ k.last /\ bus' = Append(bus, r) /\ UNCHANGED <<taken, acks>>
          \/ k.last /\ bus' = bus /\ Ack
          \/ ~k.last /\ UNCHANGED <<taken, acks, bus>>
      BY <3>2, Zenon
    <3> QED BY <2>2, <3>2, <3>3, Zenon
  <2>3. k.la > 0 \/ k.la = 0
    BY <1>3
  <2> QED BY <2>1, <2>2, <2>3, Zenon
<1>4. taken' \in BOOLEAN /\ acks' \in Nat
  BY <1>1, AckTyped
<1>5. DataTypes'
  BY <1>0, <1>4, DataTyped DEF DataTypes, deviceVars, bufVars, indVars
<1>6. CASE k.la > 0 /\ pc' = [pc EXCEPT ![c] = "alloc"] /\ loc' = [loc EXCEPT ![c] = l] /\ UNCHANGED <<taken, acks, bus>>
  <2>1. /\ l \in LocalVars /\ l.la = k.la /\ l.ep = k.ep /\ l.fetch = k.fetch /\ l.done = k.done /\ l.total = k.total
        /\ l.doneEp = k.doneEp /\ l.from = "more" /\ l.last = k.last /\ l.more = k.more
    BY <1>2 DEF LocalVars
  <2>2. Good(c, "alloc", l) /\ "alloc" \in Places
    BY <1>2, <1>6, <2>1, ThreadsAre DEF Good, MayBe, Holding, HoldingContext, Handling, ContextPlaces, Places
  <2> HIDE DEF l
  <2>3. Base' /\ Moved(c, "alloc", l)
    BY <1>0, <1>2, <1>5, <1>6, <2>1, <2>2, ThreadMoves
  <2>4. k.last
    BY <1>2, <1>6 DEF HoldingContext
  <2> QED BY <1>0, <1>6, <2>3, <2>4 DEF l
<1>7. CASE pc' = [pc EXCEPT ![c] = "drain"] /\ loc' = loc
           /\ \/ k.last /\ bus' = Append(bus, r) /\ UNCHANGED <<taken, acks>>
              \/ k.last /\ bus' = bus /\ Ack
              \/ ~k.last /\ UNCHANGED <<taken, acks, bus>>
  <2>1. Good(c, "drain", k) /\ "drain" \in Places
    BY <1>2, <1>7, ThreadsAre DEF Good, MayBe, Holding, HoldingContext, Handling, ContextPlaces, Places
  <2>2. loc' = [loc EXCEPT ![c] = k]
    BY <1>2, <1>3, <1>7
  <2>3. CASE bus' = bus
    <3>1. Base' /\ Moved(c, "drain", k)
      BY <1>0, <1>2, <1>5, <1>7, <2>1, <2>2, <2>3, ThreadMoves
    <3> QED BY <1>0, <1>7, <2>3, <3>1
  <2>4. CASE bus' = Append(bus, r)
    <3>1. r \in BusRequests /\ Requested(r) /\ r.by = Nobody
      <4>1. 0 \in 0..MaxBundle
        BY ThreadsAre
      <4> QED BY <1>2, <4>1, ThreadsAre DEF Request, BusRequests, Requested
    <3> HIDE DEF r
    <3>2. Base' /\ Moved(c, "drain", k)
      BY <1>0, <1>2, <1>5, <1>7, <2>1, <2>2, <2>4, <3>1, ThreadSubmits
    <3> QED BY <1>0, <1>7, <2>4, <3>2 DEF r
  <2> QED BY <1>7, <2>3, <2>4
<1> QED BY <1>1, <1>6, <1>7

LEMMA HandleEventsBase ==
    ASSUME Base, NEW c \in Contexts, HandleEvents(c)
    PROVE  /\ Base' /\ pc[c] = "events"
           /\ \/ Ack /\ Moved(c, "idle", NoLoc)
              \/ UNCHANGED <<taken, acks>> /\ Moved(c, "alloc", [loc[c] EXCEPT !.from = "events"])
<1> DEFINE k == loc[c]
           l == [k EXCEPT !.from = "events"]
<1>1. /\ pc[c] = "events" /\ UNCHANGED <<mode, deviceVars, shadow, recheck, bus, bufVars, indVars, faults>>
      /\ \/ Ack /\ pc' = [pc EXCEPT ![c] = "idle"] /\ loc' = [loc EXCEPT ![c] = NoLoc]
         \/ /\ k.la # 0 /\ pc' = [pc EXCEPT ![c] = "alloc"] /\ loc' = [loc EXCEPT ![c] = l]
            /\ UNCHANGED <<taken, acks>>
  BY DEF HandleEvents, At, Goto, Set
<1>2. /\ c \in Threads /\ mode = "async" /\ k \in LocalVars /\ Good(c, "events", k)
      /\ Holding("events", k) /\ HoldingContext("events", k) /\ c # "dsr" /\ c # "user"
  BY <1>1, ContextIs
<1>3. taken' \in BOOLEAN /\ acks' \in Nat
  BY <1>1, AckTyped
<1>4. DataTypes'
  BY <1>1, <1>3, DataTyped DEF DataTypes, deviceVars, bufVars, indVars
<1>5. CASE Ack /\ pc' = [pc EXCEPT ![c] = "idle"] /\ loc' = [loc EXCEPT ![c] = NoLoc]
  <2>1. Base' /\ Moved(c, "idle", NoLoc)
    BY <1>1, <1>2, <1>4, <1>5, IdleGood, ThreadMoves
  <2> QED BY <1>1, <1>5, <2>1
<1>6. CASE k.la # 0 /\ pc' = [pc EXCEPT ![c] = "alloc"] /\ loc' = [loc EXCEPT ![c] = l] /\ UNCHANGED <<taken, acks>>
  <2>1. /\ l \in LocalVars /\ l.la = k.la /\ l.ep = k.ep /\ l.fetch = k.fetch /\ l.done = k.done /\ l.total = k.total
        /\ l.doneEp = k.doneEp /\ l.from = "events" /\ l.last = k.last /\ l.more = k.more
    BY <1>2 DEF LocalVars
  <2>2. k.la > 0
    BY <1>2, <1>6, ThreadsAre DEF LocalVars
  <2>3. Good(c, "alloc", l) /\ "alloc" \in Places
    BY <1>2, <2>1, <2>2, ThreadsAre DEF Good, MayBe, Holding, HoldingContext, Handling, ContextPlaces, Places
  <2> HIDE DEF l
  <2>4. Base' /\ Moved(c, "alloc", l)
    BY <1>1, <1>2, <1>4, <1>6, <2>1, <2>3, ThreadMoves
  <2> QED BY <1>1, <1>6, <2>4 DEF l
<1> QED BY <1>1, <1>5, <1>6

LEMMA ChainContinuesBase ==
    ASSUME Base, NEW c \in Contexts, ChainContinues(c)
    PROVE  /\ Base' /\ pc[c] = "return"
           /\ IF loc[c].total = 0 THEN Ack ELSE UNCHANGED <<taken, acks>>
           /\ \/ loc[c].from = "more" /\ Moved(c, "drain", loc[c])
              \/ loc[c].from = "events" /\ Moved(c, "idle", NoLoc)
<1> DEFINE k == loc[c]
<1>1. /\ pc[c] = "return" /\ UNCHANGED <<mode, deviceVars, shadow, recheck, bus, bufVars, indVars, faults>>
      /\ IF k.total = 0 THEN Ack ELSE UNCHANGED <<taken, acks>>
      /\ \/ k.from = "more" /\ pc' = [pc EXCEPT ![c] = "drain"] /\ loc' = loc
         \/ k.from # "more" /\ pc' = [pc EXCEPT ![c] = "idle"] /\ loc' = [loc EXCEPT ![c] = NoLoc]
  BY DEF ChainContinues, At, Goto, Set, ForcesAck
<1>2. /\ c \in Threads /\ mode = "async" /\ k \in LocalVars /\ Good(c, "return", k)
      /\ Holding("return", k) /\ HoldingContext("return", k) /\ c # "dsr" /\ c # "user"
  BY <1>1, ContextIs
<1>3. taken' \in BOOLEAN /\ acks' \in Nat
  BY <1>1, AckTyped
<1>4. DataTypes'
  BY <1>1, <1>3, DataTyped DEF DataTypes, deviceVars, bufVars, indVars
<1>5. CASE k.from # "more" /\ pc' = [pc EXCEPT ![c] = "idle"] /\ loc' = [loc EXCEPT ![c] = NoLoc]
  <2>1. Base' /\ Moved(c, "idle", NoLoc)
    BY <1>1, <1>2, <1>4, <1>5, IdleGood, ThreadMoves
  <2>2. k.from = "events"
    BY <1>2, <1>5 DEF HoldingContext, Handling
  <2> QED BY <1>1, <2>1, <2>2
<1>6. CASE k.from = "more" /\ pc' = [pc EXCEPT ![c] = "drain"] /\ loc' = loc
  <2>1. Good(c, "drain", k) /\ "drain" \in Places
    BY <1>2, <1>6, ThreadsAre DEF Good, MayBe, Holding, HoldingContext, Handling, ContextPlaces, Places
  <2>2. loc' = [loc EXCEPT ![c] = k]
    BY <1>2, <1>6, ThreadIs
  <2>3. Base' /\ Moved(c, "drain", k)
    BY <1>1, <1>2, <1>4, <1>6, <2>1, <2>2, ThreadMoves
  <2> QED BY <1>1, <1>6, <2>3
<1> QED BY <1>1, <1>5, <1>6

LEMMA TakeIndicationsBase ==
    ASSUME Base, NEW c \in Contexts, TakeIndications(c)
    PROVE  /\ Base' /\ pc[c] = "drain" /\ loc[c].doneEp \in Eps
           /\ IF MayDrain(c, loc[c].doneEp) /\ indication[loc[c].doneEp] # <<>>
              THEN Moved(c, "indicate", [NoLoc EXCEPT !.done = indication[loc[c].doneEp],
                                                      !.doneEp = loc[c].doneEp, !.from = "drain"])
              ELSE Moved(c, "idle", NoLoc)
<1> DEFINE e == loc[c].doneEp
           l == [NoLoc EXCEPT !.done = indication[e], !.doneEp = e, !.from = "drain"]
<1>1. /\ pc[c] = "drain"
      /\ UNCHANGED <<mode, deviceVars, shadow, irqVars, bus, bufVars, indicated, faults>>
      /\ IF MayDrain(c, e) /\ indication[e] # <<>>
         THEN /\ draining' = [draining EXCEPT ![e] = TRUE]
              /\ indication' = [indication EXCEPT ![e] = <<>>]
              /\ loc' = [loc EXCEPT ![c] = l] /\ pc' = [pc EXCEPT ![c] = "indicate"]
         ELSE /\ draining' = [draining EXCEPT ![e] = @ /\ ~MayDrain(c, e)]
              /\ loc' = [loc EXCEPT ![c] = NoLoc] /\ pc' = [pc EXCEPT ![c] = "idle"]
              /\ indication' = indication
  BY DEF TakeIndications, At, Goto, Set, Drained
<1>2. /\ c \in Threads /\ mode = "async"
      /\ Holding("drain", loc[c]) /\ c # "dsr" /\ c # "user"
  BY <1>1, ContextIs
<1>3. e \in Eps
  BY <1>2 DEF Holding
<1> HIDE DEF e
<1>4. draining \in [Eps -> BOOLEAN] /\ indication \in [Eps -> Seq(Messages)]
  BY DEF Base, Types
<1>5. draining' \in [Eps -> BOOLEAN] /\ indication' \in [Eps -> Seq(Messages)]
  <2>1. CASE MayDrain(c, e) /\ indication[e] # <<>>
    <3>1. <<>> \in Seq(Messages)
      OBVIOUS
    <3> QED BY <1>1, <1>3, <1>4, <2>1, <3>1
  <2>2. CASE ~(MayDrain(c, e) /\ indication[e] # <<>>)
    <3>1. draining' = [draining EXCEPT ![e] = @ /\ ~MayDrain(c, e)] /\ indication' = indication
      BY <1>1, <2>2
    <3>2. (draining[e] /\ ~MayDrain(c, e)) \in BOOLEAN
      OBVIOUS
    <3> QED BY <1>3, <1>4, <3>1, <3>2
  <2> QED BY <2>1, <2>2
<1>6. DataTypes'
  BY <1>1, <1>5, DataTyped DEF DataTypes, deviceVars, irqVars, bufVars
<1>7. CASE MayDrain(c, e) /\ indication[e] # <<>>
  <2>1. indication[e] \in Seq(Messages)
    BY <1>3, <1>4
  <2>2. /\ l \in LocalVars /\ l.la = 0 /\ l.fetch = 0 /\ l.done = indication[e] /\ l.doneEp = e
        /\ l.from = "drain" /\ l.total = 0
    <3>1. NoLoc.la = 0 /\ NoLoc.fetch = 0 /\ NoLoc.total = 0
      BY DEF NoLoc
    <3> QED BY <1>3, <2>1, <3>1, NoLocType DEF LocalVars
  <2> HIDE DEF l
  <2>3. Good(c, "indicate", l) /\ "indicate" \in Places
    BY <1>2, <1>3, <2>2, ThreadsAre DEF Good, MayBe, Holding, HoldingContext, Handling, ContextPlaces, Places
  <2>4. Base' /\ Moved(c, "indicate", l)
    BY <1>1, <1>2, <1>6, <1>7, <2>2, <2>3, ThreadMoves
  <2> QED BY <1>1, <1>3, <1>7, <2>4 DEF l, e
<1>8. CASE ~(MayDrain(c, e) /\ indication[e] # <<>>)
  <2>1. Base' /\ Moved(c, "idle", NoLoc)
    BY <1>1, <1>2, <1>6, <1>8, IdleGood, ThreadMoves
  <2> QED BY <1>1, <1>3, <1>8, <2>1 DEF e
<1> QED BY <1>7, <1>8

LEMMA IndicateBase ==
    ASSUME Base, NEW c \in Contexts, Indicate(c)
    PROVE  /\ Base' /\ pc[c] = "indicate" /\ loc[c].doneEp \in Eps
           /\ Moved(c, "drain", [loc[c] EXCEPT !.done = <<>>])
<1> DEFINE k == loc[c]
           l == [k EXCEPT !.done = <<>>]
           nums == [i \in DOMAIN k.done |-> k.done[i].num]
<1>1. /\ pc[c] = "indicate"
      /\ indicated' = [indicated EXCEPT ![k.doneEp] = @ \o nums]
      /\ withUser' = [withUser EXCEPT ![k.doneEp] = @ + Len(k.done)]
      /\ loc' = [loc EXCEPT ![c] = l] /\ pc' = [pc EXCEPT ![c] = "drain"]
      /\ UNCHANGED <<mode, deviceVars, shadow, irqVars, bus, rxBuffers, lost, waiting,
                     waitingEp, indication, draining, faults>>
  BY DEF Indicate, At, Goto, Set
<1>2. /\ c \in Threads /\ mode = "async" /\ k \in LocalVars
      /\ Holding("indicate", k) /\ HoldingContext("indicate", k) /\ c # "dsr" /\ c # "user"
  BY <1>1, ContextIs
<1>3. k.doneEp \in Eps /\ k.done \in Seq(Messages)
  BY <1>2 DEF Holding, LocalVars
<1> HIDE DEF k
<1>4. withUser \in [Eps -> Nat] /\ indicated \in [Eps -> Seq(1..MaxMsgs)]
  BY DEF Base, Types
<1>5. nums \in Seq(1..MaxMsgs)
  <2>0. \A i \in DOMAIN k.done : k.done[i] \in Messages
    BY <1>3
  <2>1. \A i \in DOMAIN k.done : k.done[i].num \in 1..MaxMsgs
    BY <2>0 DEF Messages
  <2>2. DOMAIN k.done = 1..Len(k.done) /\ Len(k.done) \in Nat
    BY <1>3
  <2> QED BY <2>1, <2>2
<1>6. withUser' \in [Eps -> Nat]
  <2>1. withUser[k.doneEp] + Len(k.done) \in Nat
    BY <1>3, <1>4
  <2> QED BY <1>1, <1>3, <1>4, <2>1
<1> HIDE DEF nums
<1>7. indicated' \in [Eps -> Seq(1..MaxMsgs)]
  <2>1. indicated[k.doneEp] \o nums \in Seq(1..MaxMsgs)
    BY <1>3, <1>4, <1>5
  <2> QED BY <1>1, <1>3, <1>4, <2>1
<1>8. DataTypes'
  BY <1>1, <1>6, <1>7, DataTyped DEF DataTypes, deviceVars, irqVars, bufVars, indVars
<1>9. /\ l \in LocalVars /\ l.la = k.la /\ l.ep = k.ep /\ l.fetch = k.fetch /\ l.done = <<>> /\ l.doneEp = k.doneEp
      /\ l.from = k.from
  <2>1. <<>> \in Seq(Messages)
    OBVIOUS
  <2> QED BY <1>2, <2>1 DEF LocalVars
<1>10. Good(c, "drain", l) /\ "drain" \in Places
  BY <1>2, <1>3, <1>9, ThreadsAre DEF Good, MayBe, Holding, HoldingContext, Handling, ContextPlaces, Places
<1> HIDE DEF l
<1>11. Base' /\ Moved(c, "drain", l)
  BY <1>1, <1>2, <1>8, <1>9, <1>10, ThreadMoves
<1> QED BY <1>1, <1>3, <1>11 DEF l, k

-----------------------------------------------------------------------------
(***************************************************************************)
(* The duty to acknowledge the interrupt.  It is with one thread, or with  *)
(* one request of the chain, or discharged, or lost in a failure.          *)
(***************************************************************************)
\* A request whose completion goes on with the chain.
Live(r) == r.by = Nobody /\ (r.op = "status" \/ (r.op = "read" /\ r.last))

HoldsAt(t, w, l) ==
    IF mode = "sync" THEN t = "dsr" /\ w # "idle"
    ELSE \/ w \in {"status", "pending", "alloc", "events"}
         \/ w = "waiting" /\ t = "dsr"
         \/ w = "fetch" /\ (l.fetch > 0 \/ l.total = 0)
         \/ w \in {"check", "stop", "write off", "return"} /\ l.total = 0
         \/ w = "others" /\ ~l.async
         \/ w = "complete" /\ l.last /\ l.more
         \/ w = "more" /\ l.last

Holds(t) == t \in Handlers /\ HoldsAt(t, pc[t], loc[t])

OneLive == \A i, j \in DOMAIN bus : Live(bus[i]) /\ Live(bus[j]) => i = j
SomeLive == \E i \in DOMAIN bus : Live(bus[i])

Chain ==
    /\ OneLive
    /\ \A t, u \in Handlers : Holds(t) /\ Holds(u) => t = u
    /\ \A t \in Handlers : ~(Holds(t) /\ SomeLive)
    /\ (\E t \in Handlers : Holds(t)) \/ SomeLive => acks = 0 /\ taken = (mode = "async")
    /\ acks \in {0, 1}
    /\ mode = "sync" => ~taken
    /\ taken /\ faults = 0 => (\E t \in Handlers : Holds(t)) \/ SomeLive

LEMMA LiveAppend ==
    ASSUME Types, NEW r, bus' = Append(bus, r), OneLive, Live(r) => ~SomeLive
    PROVE  OneLive' /\ (SomeLive' <=> SomeLive \/ Live(r))
<1>1. /\ Len(bus) \in Nat /\ DOMAIN bus = 1..Len(bus) /\ DOMAIN bus' = 1..(Len(bus) + 1)
      /\ \A i \in 1..Len(bus) : bus'[i] = bus[i]
      /\ bus'[Len(bus) + 1] = r
  BY DEF Types
<1>2. \A i \in DOMAIN bus' : i \in DOMAIN bus \/ i = Len(bus) + 1
  BY <1>1
<1>3. Len(bus) + 1 \in DOMAIN bus' /\ DOMAIN bus \subseteq DOMAIN bus'
  BY <1>1
<1>4. \A x : Live(x)' <=> Live(x)
  BY DEF Live
<1> HIDE DEF Live
<1>5. SomeLive' <=> \E i \in DOMAIN bus' : Live(bus'[i])
  BY <1>4 DEF SomeLive
<1>6. OneLive' <=> \A i, j \in DOMAIN bus' : Live(bus'[i]) /\ Live(bus'[j]) => i = j
  BY <1>4 DEF OneLive
<1>7. SomeLive' <=> SomeLive \/ Live(r)
  BY <1>1, <1>2, <1>3, <1>5 DEF SomeLive
<1>8. ASSUME NEW i \in DOMAIN bus', NEW j \in DOMAIN bus', Live(bus'[i]), Live(bus'[j])
      PROVE  i = j
  <2>1. CASE i \in DOMAIN bus /\ j \in DOMAIN bus
    BY <1>1, <1>8, <2>1 DEF OneLive
  <2>2. CASE i = Len(bus) + 1 /\ j \in DOMAIN bus
    BY <1>1, <1>8, <2>2 DEF SomeLive
  <2>3. CASE j = Len(bus) + 1 /\ i \in DOMAIN bus
    BY <1>1, <1>8, <2>3 DEF SomeLive
  <2> QED BY <1>2, <2>1, <2>2, <2>3
<1> QED BY <1>6, <1>7, <1>8

LEMMA LiveTail ==
    ASSUME Types, bus # <<>>, bus' = Tail(bus), OneLive
    PROVE  /\ OneLive'
           /\ SomeLive <=> SomeLive' \/ Live(Head(bus))
           /\ ~(SomeLive' /\ Live(Head(bus)))
<1>1. /\ Len(bus) \in Nat \ {0} /\ DOMAIN bus = 1..Len(bus) /\ DOMAIN bus' = 1..(Len(bus) - 1)
      /\ \A i \in 1..(Len(bus) - 1) : bus'[i] = bus[i + 1]
      /\ Head(bus) = bus[1]
  BY DEF Types
<1>2. \A i \in DOMAIN bus' : i + 1 \in DOMAIN bus /\ bus'[i] = bus[i + 1] /\ i + 1 # 1 /\ i \in Nat
  BY <1>1
<1>3. \A i \in DOMAIN bus : i = 1 \/ (i - 1 \in DOMAIN bus' /\ bus'[i - 1] = bus[i])
  BY <1>1
<1>4. \A x : Live(x)' <=> Live(x)
  BY DEF Live
<1> HIDE DEF Live
<1>5. SomeLive' <=> \E i \in DOMAIN bus' : Live(bus'[i])
  BY <1>4 DEF SomeLive
<1>6. OneLive' <=> \A i, j \in DOMAIN bus' : Live(bus'[i]) /\ Live(bus'[j]) => i = j
  BY <1>4 DEF OneLive
<1>7. 1 \in DOMAIN bus
  BY <1>1
<1>8. SomeLive <=> SomeLive' \/ Live(Head(bus))
  <2>1. ASSUME NEW i \in DOMAIN bus, Live(bus[i]) PROVE SomeLive' \/ Live(Head(bus))
    BY <1>1, <1>3, <1>5, <2>1
  <2>2. SomeLive' => SomeLive
    BY <1>2, <1>5 DEF SomeLive
  <2>3. Live(Head(bus)) => SomeLive
    BY <1>1, <1>7 DEF SomeLive
  <2> QED BY <2>1, <2>2, <2>3 DEF SomeLive
<1>9. ~(SomeLive' /\ Live(Head(bus)))
  BY <1>1, <1>2, <1>5, <1>7 DEF OneLive
<1>10. ASSUME NEW i \in DOMAIN bus', NEW j \in DOMAIN bus', Live(bus'[i]), Live(bus'[j])
       PROVE  i = j
  <2>1. i + 1 = j + 1
    BY <1>2, <1>10 DEF OneLive
  <2> QED BY <1>2, <2>1
<1> QED BY <1>6, <1>8, <1>9, <1>10

\* A thread moves from where it is to w; the duty goes with it, to or from a
\* request, or it is discharged, or a failure loses it.
Passes(t, w, l) ==
    \/ /\ UNCHANGED <<taken, acks>>
       /\ ~(t \in Handlers /\ HoldsAt(t, w, l) /\ SomeLive')
       /\ (t \in Handlers /\ HoldsAt(t, w, l)) \/ SomeLive' => Holds(t) \/ SomeLive
       /\ \/ faults' # 0
          \/ /\ faults' = faults
             /\ Holds(t) \/ SomeLive => (t \in Handlers /\ HoldsAt(t, w, l)) \/ SomeLive'
    \/ /\ Ack /\ Holds(t) /\ ~HoldsAt(t, w, l) /\ ~SomeLive'

LEMMA ChainStep ==
    ASSUME Base, Chain, NEW t \in Threads, NEW w, NEW l, Moved(t, w, l), mode' = mode,
           OneLive', Passes(t, w, l)
    PROVE  Chain'
<1>1. ASSUME NEW u \in Threads PROVE Holds(u)' <=> u \in Handlers /\ HoldsAt(u, pc'[u], loc'[u])
  BY DEF Holds, HoldsAt
<1>2. ASSUME NEW u \in Threads, u # t PROVE Holds(u)' <=> Holds(u)
  BY <1>1, <1>2 DEF Holds, Moved
<1>3. Holds(t)' <=> t \in Handlers /\ HoldsAt(t, w, l)
  BY <1>1 DEF Moved
<1>4. Handlers \subseteq Threads /\ (Holds(t) => t \in Handlers)
  BY DEF Threads, Holds
<1> HIDE DEF Holds, HoldsAt, SomeLive, OneLive
<1>5. CASE Ack /\ Holds(t) /\ ~HoldsAt(t, w, l) /\ ~SomeLive'
  <2>1. acks = 0 /\ ~SomeLive /\ \A u \in Handlers : Holds(u) => u = t
    BY <1>4, <1>5 DEF Chain
  <2>2. \A u \in Handlers : ~Holds(u)'
    BY <1>2, <1>3, <1>4, <1>5, <2>1
  <2>3. acks' = 1 /\ taken' = FALSE
    BY <1>5, <2>1 DEF Ack
  <2> QED BY <1>5, <2>2, <2>3 DEF Chain
<1>6. CASE /\ UNCHANGED <<taken, acks>>
           /\ ~(t \in Handlers /\ HoldsAt(t, w, l) /\ SomeLive')
           /\ (t \in Handlers /\ HoldsAt(t, w, l)) \/ SomeLive' => Holds(t) \/ SomeLive
           /\ \/ faults' # 0
              \/ /\ faults' = faults
                 /\ Holds(t) \/ SomeLive => (t \in Handlers /\ HoldsAt(t, w, l)) \/ SomeLive'
  <2>1. ASSUME NEW u \in Handlers, Holds(u), u # t
        PROVE  ~Holds(t) /\ ~SomeLive /\ ~Holds(t)' /\ ~SomeLive'
    BY <1>3, <1>4, <1>6, <2>1 DEF Chain
  <2>2. \A u, v \in Handlers : Holds(u)' /\ Holds(v)' => u = v
    <3>1. ASSUME NEW u \in Handlers, NEW v \in Handlers, Holds(u)', Holds(v)', u # v PROVE FALSE
      <4>1. CASE u = t
        BY <1>2, <1>4, <2>1, <3>1, <4>1
      <4>2. CASE v = t
        BY <1>2, <1>4, <2>1, <3>1, <4>2
      <4>3. CASE u # t /\ v # t
        BY <1>2, <1>4, <3>1, <4>3 DEF Chain
      <4> QED BY <4>1, <4>2, <4>3
    <3> QED BY <3>1
  <2>3. \A u \in Handlers : ~(Holds(u)' /\ SomeLive')
    <3>1. ASSUME NEW u \in Handlers, Holds(u)', SomeLive' PROVE FALSE
      <4>1. CASE u = t
        BY <1>3, <1>6, <3>1, <4>1
      <4>2. CASE u # t
        BY <1>2, <1>4, <2>1, <3>1, <4>2
      <4> QED BY <4>1, <4>2
    <3> QED BY <3>1
  <2>4. (\E u \in Handlers : Holds(u)') \/ SomeLive' => (\E u \in Handlers : Holds(u)) \/ SomeLive
    <3>1. ASSUME NEW u \in Handlers, Holds(u)' PROVE (\E v \in Handlers : Holds(v)) \/ SomeLive
      <4>1. CASE u = t
        BY <1>3, <1>4, <1>6, <3>1, <4>1
      <4>2. CASE u # t
        BY <1>2, <1>4, <3>1, <4>2
      <4> QED BY <4>1, <4>2
    <3> QED BY <1>4, <1>6, <3>1
  <2>5. ASSUME faults' = 0, (\E u \in Handlers : Holds(u)) \/ SomeLive
        PROVE  (\E u \in Handlers : Holds(u)') \/ SomeLive'
    <3>1. ASSUME NEW u \in Handlers, Holds(u) PROVE (\E v \in Handlers : Holds(v)') \/ SomeLive'
      <4>1. CASE u = t
        BY <1>3, <1>4, <1>6, <2>5, <3>1, <4>1
      <4>2. CASE u # t
        BY <1>2, <1>4, <3>1, <4>2
      <4> QED BY <4>1, <4>2
    <3> QED BY <1>3, <1>4, <1>6, <2>5, <3>1
  <2>6. faults' = 0 => faults = 0
    BY <1>6
  <2>7. /\ ((\E u \in Handlers : Holds(u)) \/ SomeLive => acks = 0 /\ taken = (mode = "async"))
        /\ acks \in {0, 1} /\ (mode = "sync" => ~taken)
        /\ (taken /\ faults = 0 => (\E u \in Handlers : Holds(u)) \/ SomeLive)
    BY DEF Chain
  <2>8. (\E u \in Handlers : Holds(u)') \/ SomeLive' => acks' = 0 /\ taken' = (mode' = "async")
    BY <1>6, <2>4, <2>7
  <2>9. taken' /\ faults' = 0 => (\E u \in Handlers : Holds(u)') \/ SomeLive'
    BY <1>6, <2>5, <2>6, <2>7
  <2>10. acks' \in {0, 1} /\ (mode' = "sync" => ~taken')
    BY <1>6, <2>7
  <2> QED BY <2>2, <2>3, <2>8, <2>9, <2>10 DEF Chain
<1> QED BY <1>5, <1>6 DEF Passes

\* The duty stays where it is.
LEMMA ChainKept ==
    ASSUME Base, Chain, NEW t \in Threads, NEW w, NEW l, Moved(t, w, l), mode' = mode,
           UNCHANGED <<taken, acks, faults>>,
           \/ bus' = bus
           \/ \E r : bus' = Append(bus, r) /\ ~Live(r)
           \/ bus # <<>> /\ bus' = Tail(bus) /\ ~Live(Head(bus)),
           t \in Handlers => (HoldsAt(t, w, l) <=> HoldsAt(t, pc[t], loc[t]))
    PROVE  Chain'
<1>1. OneLive' /\ (SomeLive' <=> SomeLive)
  <2>0. OneLive /\ Types
    BY DEF Chain, Base
  <2>1. CASE bus' = bus
    BY <2>0, <2>1 DEF OneLive, SomeLive, Live
  <2>2. CASE \E r : bus' = Append(bus, r) /\ ~Live(r)
    BY <2>0, <2>2, LiveAppend
  <2>3. CASE bus # <<>> /\ bus' = Tail(bus) /\ ~Live(Head(bus))
    BY <2>0, <2>3, LiveTail
  <2> QED BY <2>1, <2>2, <2>3
<1>2. t \in Handlers => ~(Holds(t) /\ SomeLive)
  BY DEF Chain
<1> HIDE DEF SomeLive, OneLive
<1>3. Passes(t, w, l)
  BY <1>1, <1>2 DEF Passes, Holds
<1> QED BY <1>1, <1>3, ChainStep

\* The steps of a message handler.
LEMMA HandlerChain ==
    ASSUME Base, Chain, NEW t \in Handlers, HandlerStep(t)
    PROVE  Chain'
<1>0. t \in Threads /\ t # "user" /\ Good(t, pc[t], loc[t]) /\ mode \in {"sync", "async"} /\ loc[t] \in LocalVars
      /\ (mode = "sync" => t = "dsr" \/ pc[t] = "idle")
  <2>1. t \in Threads /\ t # "user"
    BY ThreadsAre
  <2>2. Good(t, pc[t], loc[t]) /\ mode \in {"sync", "async"} /\ loc[t] \in LocalVars
    BY <2>1, ThreadIs
  <2>3. mode = "sync" => t = "dsr" \/ pc[t] = "idle"
    BY <2>1, <2>2, ThreadsAre DEF Good, MayBe
  <2> QED BY <2>1, <2>2, <2>3
<1>1. ASSUME AllocPackets(t) PROVE Chain'
  <2> DEFINE n == Allocates(loc[t])
             l == [loc[t] EXCEPT !.la = 0, !.fetch = n, !.total = @ + n]
  <2>1. pc[t] = "alloc" /\ Moved(t, "fetch", l) /\ n \in Nat
    BY <1>0, <1>1, AllocPacketsBase
  <2>2. UNCHANGED <<mode, taken, acks, faults, bus>>
    BY <1>1 DEF AllocPackets
  <2>3. loc[t].total \in Nat /\ l.fetch = n /\ l.total = loc[t].total + n
    BY <1>0, <2>1 DEF LocalVars
  <2>4. mode = "async" => loc[t].total = 0
    BY <1>0, <2>1, ThreadsAre DEF Good, HoldingContext, HoldingStarter
  <2> HIDE DEF l, n
  <2>5. HoldsAt(t, "fetch", l) <=> HoldsAt(t, pc[t], loc[t])
    BY <1>0, <2>1, <2>3, <2>4 DEF HoldsAt
  <2> QED BY <1>0, <2>1, <2>2, <2>5, ChainKept
<1>2. ASSUME FetchPackets(t) PROVE Chain'
  <2> DEFINE w == IF mode = "sync" THEN "waiting" ELSE "fetch"
             L(n) == [loc[t] EXCEPT !.fetch = @ - n]
             R(n) == Request("read", IF mode = "sync" THEN t ELSE Nobody, loc[t].ep,
                             n, n = loc[t].fetch, FALSE)
  <2>1. PICK n \in {1, loc[t].fetch} : Moved(t, w, L(n)) /\ bus' = Append(bus, R(n))
    BY <1>0, <1>2, FetchPacketsBase
  <2>2. pc[t] = "fetch" /\ loc[t].fetch > 0 /\ (mode = "sync" => t = "dsr")
    BY <1>0, <1>2, FetchPacketsBase
  <2>3. UNCHANGED <<mode, taken, acks, faults>>
    BY <1>2 DEF FetchPackets, irqVars
  <2>4. PICK l : l = L(n)
    OBVIOUS
  <2>5. PICK r : r = R(n)
    OBVIOUS
  <2>6. loc[t].fetch \in Nat /\ n \in Nat /\ l.fetch = loc[t].fetch - n /\ l.total = loc[t].total
    BY <1>0, <2>1, <2>4 DEF LocalVars
  <2>7. mode = "async" => loc[t].total > 0
    BY <1>0, <2>2, ThreadsAre DEF Good, HoldingContext, HoldingStarter
  <2>8. Live(r) <=> mode = "async" /\ n = loc[t].fetch
    BY <1>0, <2>5, ThreadsAre DEF Live, Request
  <2> HIDE DEF L, R, w
  <2>9. CASE mode = "sync"
    <3>1. w = "waiting" /\ ~Live(r)
      BY <2>8, <2>9 DEF w
    <3>2. HoldsAt(t, w, l) <=> HoldsAt(t, pc[t], loc[t])
      BY <2>2, <2>9, <3>1 DEF HoldsAt
    <3> QED BY <1>0, <2>1, <2>3, <2>4, <2>5, <3>1, <3>2, ChainKept
  <2>10. CASE mode = "async"
    <3>1. w = "fetch" /\ HoldsAt(t, pc[t], loc[t])
      BY <2>2, <2>10 DEF w, HoldsAt
    <3>2. CASE n # loc[t].fetch
      <4>1. l.fetch > 0 /\ ~Live(r)
        BY <2>1, <2>2, <2>6, <2>8, <3>2
      <4>2. HoldsAt(t, w, l)
        BY <2>10, <3>1, <4>1 DEF HoldsAt
      <4> QED BY <1>0, <2>1, <2>3, <2>4, <2>5, <3>1, <4>1, <4>2, ChainKept
    <3>3. CASE n = loc[t].fetch
      <4>1. l.fetch = 0 /\ l.total # 0 /\ Live(r) /\ ~(l.fetch > 0)
        <5>1. loc[t].total \in Nat
          BY <1>0 DEF LocalVars
        <5> QED BY <5>1, <2>6, <2>7, <2>8, <2>10, <3>3
      <4>2. ~HoldsAt(t, w, l)
        BY <2>10, <3>1, <4>1 DEF HoldsAt
      <4>3. Holds(t) /\ ~SomeLive
        BY <3>1 DEF Holds, Chain
      <4>4. OneLive' /\ SomeLive'
        BY <2>1, <2>5, <4>1, <4>3, LiveAppend DEF Chain, Base
      <4>5. Passes(t, w, l)
        BY <2>3, <4>2, <4>3, <4>4 DEF Passes
      <4> QED BY <1>0, <2>1, <2>3, <2>4, <4>4, <4>5, ChainStep
    <3> QED BY <3>2, <3>3
  <2> QED BY <1>0, <2>9, <2>10
<1>3. ASSUME AllFetched(t) PROVE Chain'
  <2> DEFINE w == IF mode = "sync" THEN "process" ELSE "check"
  <2>1. pc[t] = "fetch" /\ loc[t].fetch = 0 /\ Moved(t, w, loc[t])
    BY <1>0, <1>3, AllFetchedBase
  <2>2. UNCHANGED <<mode, taken, acks, faults, bus>>
    BY <1>3 DEF AllFetched, irqVars
  <2>3. HoldsAt(t, w, loc[t]) <=> HoldsAt(t, pc[t], loc[t])
    BY <1>0, <2>1 DEF HoldsAt
  <2> HIDE DEF w
  <2> QED BY <1>0, <2>1, <2>2, <2>3, ChainKept
<1>4. ASSUME RecyclePkts(t) PROVE Chain'
  <2> DEFINE l == [loc[t] EXCEPT !.fetch = 0]
  <2>1. pc[t] = "recycle"
    BY <1>0, <1>4, RecyclePktsBase
  <2>2. PICK w \in {"enable", Enabled(t)} : Moved(t, w, l)
    BY <1>0, <1>4, RecyclePktsBase
  <2>3. UNCHANGED <<mode, taken, acks, faults, bus>>
    BY <1>4 DEF RecyclePkts, irqVars
  <2>4. l.more = loc[t].more /\ l.last = loc[t].last
    BY <1>0 DEF LocalVars
  <2>5. mode = "sync" => w # "idle"
    BY <1>0, <2>1, <2>2, ThreadsAre DEF Enabled
  <2>6. mode = "async" => t \in Contexts /\ (loc[t].done # <<>> => ~loc[t].more)
    BY <1>0, <2>1, ThreadsAre DEF Good, MayBe, DsrPlaces, HoldingContext
  <2>7. mode = "async" => w \in {"enable", "idle", "drain"} \/ (w = "complete" /\ ~l.more)
    BY <2>2, <2>4, <2>6, ThreadsAre DEF Enabled
  <2> HIDE DEF l
  <2>8. HoldsAt(t, w, l) <=> HoldsAt(t, pc[t], loc[t])
    BY <1>0, <2>1, <2>5, <2>7 DEF HoldsAt
  <2> QED BY <1>0, <2>2, <2>3, <2>8, ChainKept
<1>5. ASSUME CheckWaiting(t) PROVE Chain'
  <2> DEFINE w == IF waiting THEN "stop" ELSE "return"
  <2>1. pc[t] = "check" /\ Moved(t, w, loc[t])
    BY <1>0, <1>5, CheckWaitingBase
  <2>2. UNCHANGED <<mode, taken, acks, faults, bus>>
    BY <1>5 DEF CheckWaiting, irqVars
  <2>3. HoldsAt(t, w, loc[t]) <=> HoldsAt(t, pc[t], loc[t])
    BY <1>0, <2>1 DEF HoldsAt
  <2> HIDE DEF w
  <2> QED BY <1>0, <2>1, <2>2, <2>3, ChainKept
<1>6. ASSUME SetShadow(t) PROVE Chain'
  <2> DEFINE w == IF pc[t] = "enable" THEN "write on" ELSE "write off"
  <2>1. pc[t] \in {"enable", "stop"} /\ Moved(t, w, loc[t])
    BY <1>0, <1>6, SetShadowBase
  <2>2. UNCHANGED <<mode, taken, acks, faults, bus>>
    BY <1>6 DEF SetShadow, irqVars
  <2>3. HoldsAt(t, w, loc[t]) <=> HoldsAt(t, pc[t], loc[t])
    BY <1>0, <2>1 DEF HoldsAt
  <2> HIDE DEF w
  <2> QED BY <1>0, <2>1, <2>2, <2>3, ChainKept
<1>7. ASSUME WriteEnable(t) PROVE Chain'
  <2>1. PICK w : /\ Moved(t, w, loc[t])
                 /\ \/ w = "waiting" /\ (t = "dsr" => mode = "sync") /\ (pc[t] = "write off" => t = "dsr")
                    \/ w = "return" /\ pc[t] = "write off"
    BY <1>0, <1>7, WriteEnableBase
  <2>2. pc[t] \in {"write on", "write off"} /\ \E r : bus' = Append(bus, r) /\ r.op = "write"
    BY <1>0, <1>7, WriteEnableBase
  <2>3. UNCHANGED <<mode, taken, acks, faults>>
    BY <1>7 DEF WriteEnable, irqVars
  <2>4. \E r : bus' = Append(bus, r) /\ ~Live(r)
    BY <2>2 DEF Live
  <2>5. HoldsAt(t, w, loc[t]) <=> HoldsAt(t, pc[t], loc[t])
    BY <1>0, <2>1, <2>2 DEF HoldsAt
  <2> QED BY <1>0, <2>1, <2>3, <2>4, <2>5, ChainKept
<1> QED BY <1>1, <1>2, <1>3, <1>4, <1>5, <1>6, <1>7 DEF HandlerStep

\* The steps of the user.
LEMMA UserChain ==
    ASSUME Base, Chain, UserStep \/ \E e \in Eps : AddReceivePkts(e)
    PROVE  Chain'
<1>0. "user" \in Threads /\ "user" \notin Handlers
  BY ThreadsAre
<1>1. UNCHANGED <<mode, taken, acks, faults>>
  BY DEF UserStep, SetShadow, WriteEnable, AddReceivePkts, irqVars
<1>2. bus' = bus \/ \E r : bus' = Append(bus, r) /\ ~Live(r)
  <2>1. CASE SetShadow("user")
    BY <2>1 DEF SetShadow
  <2>2. CASE WriteEnable("user")
    <3>1. \E r : bus' = Append(bus, r) /\ r.op = "write"
      BY <1>0, <2>2, WriteEnableBase
    <3> QED BY <3>1 DEF Live
  <2>3. CASE \E e \in Eps : AddReceivePkts(e)
    BY <2>3 DEF AddReceivePkts
  <2> QED BY <2>1, <2>2, <2>3 DEF UserStep
<1>3. PICK w, l : Moved("user", w, l)
  <2>1. CASE SetShadow("user")
    BY <1>0, <2>1, SetShadowBase
  <2>2. CASE WriteEnable("user")
    BY <1>0, <2>2, WriteEnableBase
  <2>3. ASSUME NEW e \in Eps, AddReceivePkts(e) PROVE \E w, l : Moved("user", w, l)
    BY <2>3, AddReceivePktsBase
  <2> QED BY <2>1, <2>2, <2>3 DEF UserStep
<1> QED BY <1>0, <1>1, <1>2, <1>3, ChainKept

\* The steps of the bus.
LEMMA BusChain ==
    ASSUME Base, Chain, BusStep
    PROVE  Chain'
<1>0. OneLive /\ Types
  BY DEF Chain, Base
<1>1. ASSUME BusWrite PROVE Chain'
  <2>1. /\ bus # <<>> /\ bus' = Tail(bus) /\ Head(bus).op = "write" /\ loc' = loc
        /\ \/ pc' = pc
           \/ \E t \in Threads : /\ pc[t] = "waiting" /\ Head(bus).by = t
                                 /\ Moved(t, IF Head(bus).val THEN Enabled(t) ELSE "return", loc[t])
                                 /\ Head(bus).val \/ (t = "dsr" /\ mode = "sync")
                                 /\ t = "dsr" => mode = "sync"
    BY <1>1, BusWriteBase
  <2>2. ~Live(Head(bus)) /\ UNCHANGED <<mode, taken, acks, faults>>
    BY <1>1, <2>1 DEF Live, BusWrite, irqVars
  <2>3. CASE pc' = pc
    <3>1. Moved("dsr", pc["dsr"], loc["dsr"])
      BY <2>1, <2>3 DEF Moved
    <3> QED BY <2>1, <2>2, <3>1, ThreadsAre, ChainKept
  <2>4. ASSUME NEW t \in Threads, pc[t] = "waiting",
               Moved(t, IF Head(bus).val THEN Enabled(t) ELSE "return", loc[t]),
               Head(bus).val \/ (t = "dsr" /\ mode = "sync"), t = "dsr" => mode = "sync"
        PROVE  Chain'
    <3> DEFINE w == IF Head(bus).val THEN Enabled(t) ELSE "return"
    <3>1. t \in Handlers => (HoldsAt(t, w, loc[t]) <=> HoldsAt(t, pc[t], loc[t]))
      <4> SUFFICES ASSUME t \in Handlers PROVE HoldsAt(t, w, loc[t]) <=> HoldsAt(t, pc[t], loc[t])
        OBVIOUS
      <4>1. CASE t = "dsr"
        BY <2>4, <4>1 DEF HoldsAt, Enabled
      <4>2. CASE t # "dsr"
        <5>1. t \in Contexts /\ t # "user" /\ w = Enabled(t) /\ pc[t] # "idle"
          BY <2>4, <4>2, ThreadsAre
        <5>2. mode = "async" /\ (loc[t].done # <<>> => ~loc[t].more)
          BY <2>4, <5>1, ContextIs DEF HoldingContext
        <5>3. w \in {"idle", "drain"} \/ (w = "complete" /\ ~loc[t].more)
          BY <4>2, <5>1, <5>2 DEF Enabled
        <5> HIDE DEF w
        <5> QED BY <2>4, <4>2, <5>2, <5>3 DEF HoldsAt
      <4> QED BY <4>1, <4>2
    <3> HIDE DEF w
    <3>2. Moved(t, w, loc[t])
      BY <2>4 DEF w
    <3> QED BY <2>1, <2>2, <3>1, <3>2, ChainKept
  <2> QED BY <2>1, <2>3, <2>4
<1>2. ASSUME NEW t \in Handlers, BusStatus(t) PROVE Chain'
  <2>1. /\ t \in Threads /\ bus # <<>> /\ bus' = Tail(bus) /\ Head(bus).op = "status"
        /\ Head(bus).by \in {"dsr", Nobody}
    BY <1>2, BusStatusBase
  <2>2. PICK w, l : /\ Moved(t, w, l) /\ SameBut(l, [NoLoc EXCEPT !.other = other])
                    /\ t = "dsr" => Head(bus).by = "dsr" /\ w = "pending"
                    /\ t # "dsr" => /\ t \in Contexts /\ pc[t] = "idle" /\ Head(bus).by = Nobody
                                    /\ w = "events"
    BY <1>2, BusStatusBase
  <2>3. UNCHANGED <<mode, taken, acks, faults>>
    BY <1>2 DEF BusStatus, irqVars
  <2>4. /\ mode \in {"sync", "async"}
        /\ t = "dsr" => pc[t] = "waiting"
        /\ t # "dsr" => mode = "async"
    <3>1. /\ Head(bus) \in BusRequests /\ Requested(Head(bus))
          /\ Head(bus).by # Nobody => t = Head(bus).by /\ pc[t] = "waiting"
      BY <1>2, <2>1, CompletedTo DEF BusStatus
    <3>2. mode \in {"sync", "async"}
      BY <2>1, ThreadIs
    <3> QED BY <2>1, <2>2, <3>1, <3>2, ThreadsAre DEF Requested
  <2>5. CASE t = "dsr"
    <3>1. ~Live(Head(bus)) /\ w = "pending" /\ pc[t] = "waiting"
      BY <2>2, <2>4, <2>5, ThreadsAre DEF Live
    <3>2. HoldsAt(t, w, l) <=> HoldsAt(t, pc[t], loc[t])
      BY <2>5, <3>1 DEF HoldsAt
    <3> QED BY <2>1, <2>2, <2>3, <3>1, <3>2, ChainKept
  <2>6. CASE t # "dsr"
    <3>1. Live(Head(bus)) /\ w = "events" /\ pc[t] = "idle" /\ mode = "async"
      BY <2>1, <2>2, <2>4, <2>6 DEF Live
    <3>2. OneLive' /\ SomeLive /\ ~SomeLive'
      BY <1>0, <2>1, <3>1, LiveTail
    <3>3. HoldsAt(t, w, l)
      BY <3>1 DEF HoldsAt
    <3>4. Passes(t, w, l)
      BY <1>2, <2>3, <3>2, <3>3 DEF Passes
    <3> QED BY <2>1, <2>2, <2>3, <3>2, <3>4, ChainStep
  <2> QED BY <2>5, <2>6
<1>3. ASSUME NEW t \in Handlers, BusRead(t) PROVE Chain'
  <2>1. /\ t \in Threads /\ bus # <<>> /\ bus' = Tail(bus) /\ Head(bus).op = "read"
    BY <1>3, BusReadBase
  <2>2. PICK w, l : /\ Moved(t, w, l)
                    /\ l.doneEp = Head(bus).ep /\ l.last = Head(bus).last
                    /\ \/ /\ t = "dsr" /\ mode = "sync" /\ w = "fetch" /\ pc[t] = "waiting"
                       \/ /\ t \in Contexts /\ mode = "async" /\ w = "complete" /\ pc[t] = "idle"
                          /\ Head(bus).by = Nobody
                          /\ SameBut(l, [NoLoc EXCEPT !.done = SubSeq(mbox, 1, Head(bus).n),
                                                      !.doneEp = Head(bus).ep, !.last = Head(bus).last])
    BY <1>3, BusReadBase
  <2>3. UNCHANGED <<mode, taken, acks, faults>>
    BY <1>3 DEF BusRead, irqVars
  <2>4. CASE t = "dsr" /\ mode = "sync" /\ w = "fetch" /\ pc[t] = "waiting"
    <3>1. ~Live(Head(bus))
      <4>1. Requested(Head(bus))
        BY <1>3, <2>1, CompletedTo DEF BusRead
      <4> QED BY <2>1, <2>4, <4>1, ThreadsAre DEF Requested, Live
    <3>2. HoldsAt(t, w, l) <=> HoldsAt(t, pc[t], loc[t])
      BY <2>4 DEF HoldsAt
    <3> QED BY <2>1, <2>2, <2>3, <3>1, <3>2, ChainKept
  <2>5. CASE /\ t \in Contexts /\ mode = "async" /\ w = "complete" /\ pc[t] = "idle"
             /\ Head(bus).by = Nobody
             /\ SameBut(l, [NoLoc EXCEPT !.done = SubSeq(mbox, 1, Head(bus).n),
                                         !.doneEp = Head(bus).ep, !.last = Head(bus).last])
    <3>1. l.more
      BY <2>5 DEF SameBut, NoLoc
    <3>2. (Live(Head(bus)) <=> l.last) /\ ~HoldsAt(t, pc[t], loc[t]) /\ (HoldsAt(t, w, l) <=> l.last)
      BY <2>1, <2>2, <2>5, <3>1 DEF HoldsAt, Live
    <3>3. CASE l.last
      <4>1. OneLive' /\ SomeLive /\ ~SomeLive'
        BY <1>0, <2>1, <3>2, <3>3, LiveTail
      <4>2. Passes(t, w, l)
        BY <1>3, <2>3, <3>2, <3>3, <4>1 DEF Passes
      <4> QED BY <2>1, <2>2, <2>3, <4>1, <4>2, ChainStep
    <3>4. CASE ~l.last
      BY <2>1, <2>2, <2>3, <3>2, <3>4, ChainKept
    <3> QED BY <3>3, <3>4
  <2> QED BY <2>2, <2>4, <2>5
<1>4. ASSUME NEW t \in Handlers, BusReadFails(t) PROVE Chain'
  <2>1. /\ t \in Threads /\ bus # <<>> /\ bus' = Tail(bus) /\ Head(bus).op = "read"
    BY <1>4, BusReadFailsBase
  <2>2. PICK l : /\ Moved(t, "recycle", l)
                 /\ (t = "dsr" /\ mode = "sync" /\ pc[t] = "waiting") \/ (mode = "async" /\ pc[t] = "idle")
    BY <1>4, BusReadFailsBase
  <2>3. UNCHANGED <<mode, taken, acks>> /\ faults' # 0
    <3>1. UNCHANGED <<mode, taken, acks>> /\ faults' = faults + 1
      BY <1>4 DEF BusReadFails, irqVars
    <3>2. faults \in Nat
      BY DEF Base, Types
    <3> QED BY <3>1, <3>2
  <2>4. OneLive' /\ (SomeLive' => SomeLive)
    BY <1>0, <2>1, LiveTail
  <2>5. HoldsAt(t, "recycle", l) => HoldsAt(t, pc[t], loc[t])
    BY <2>2 DEF HoldsAt
  <2>6. Holds(t) => ~SomeLive
    BY <1>4 DEF Chain
  <2>7. Passes(t, "recycle", l)
    BY <2>3, <2>4, <2>5, <2>6 DEF Passes, Holds
  <2> QED BY <2>1, <2>2, <2>3, <2>4, <2>7, ChainStep
<1> QED BY <1>1, <1>2, <1>3, <1>4 DEF BusStep

\* The steps of the interrupt handler.
LEMMA DsrChain ==
    ASSUME Base, Chain, DsrStep
    PROVE  Chain'
<1>0. /\ "dsr" \in Handlers /\ "dsr" \in Threads /\ Good("dsr", pc["dsr"], loc["dsr"])
      /\ mode \in {"sync", "async"} /\ loc["dsr"] \in LocalVars
  BY ThreadsAre, ThreadIs
<1>1. CASE TakeInterrupt
  <2>1. /\ pc["dsr"] = "idle" /\ ~taken /\ taken' = (mode = "async") /\ acks' = 0
        /\ Moved("dsr", "status", loc["dsr"])
    BY <1>1, TakeInterruptBase
  <2>2. UNCHANGED <<mode, bus, faults>>
    BY <1>1 DEF TakeInterrupt
  <2>3. \A u \in Handlers : ~Holds(u)
    <3>1. ASSUME NEW u \in Handlers, Holds(u) PROVE FALSE
      <4>1. taken = (mode = "async")
        BY <3>1 DEF Chain
      <4>2. mode = "sync"
        BY <1>0, <2>1, <4>1
      <4> QED BY <2>1, <3>1, <4>2 DEF Holds, HoldsAt
    <3> QED BY <3>1
  <2>4. ~SomeLive
    <3> SUFFICES ASSUME SomeLive PROVE FALSE
      OBVIOUS
    <3>1. mode = "sync"
      BY <1>0, <2>1 DEF Chain
    <3>2. PICK i \in DOMAIN bus : Live(bus[i])
      BY DEF SomeLive
    <3>3. Requested(bus[i])
      BY DEF Base, Requests
    <3> QED BY <3>1, <3>2, <3>3, ThreadsAre DEF Live, Requested
  <2>5. /\ Holds("dsr")'
        /\ \A u \in Handlers : Holds(u)' => u = "dsr"
        /\ ~SomeLive' /\ OneLive'
    <3>1. ASSUME NEW u \in Handlers, u # "dsr" PROVE Holds(u)' <=> Holds(u)
      <4>1. u \in Threads
        BY DEF Threads
      <4> QED BY <2>1, <2>2, <3>1, <4>1 DEF Holds, HoldsAt, Moved
    <3>2. Holds("dsr")'
      BY <1>0, <2>1, <2>2 DEF Holds, HoldsAt, Moved
    <3>3. ~SomeLive' /\ OneLive'
      BY <2>2, <2>4 DEF SomeLive, OneLive, Live, Chain
    <3> QED BY <2>3, <3>1, <3>2, <3>3
  <2>6. (\E u \in Handlers : Holds(u)') /\ \A t, u \in Handlers : Holds(t)' /\ Holds(u)' => t = u
    BY <1>0, <2>5
  <2>7. acks' = 0 /\ taken' = (mode' = "async") /\ acks' \in {0, 1} /\ (mode' = "sync" => ~taken')
    BY <2>1, <2>2
  <2> HIDE DEF Holds, SomeLive, OneLive
  <2> QED BY <2>5, <2>6, <2>7 DEF Chain
<1>2. CASE ReadStatus
  <2>1. /\ pc["dsr"] = "status" /\ Moved("dsr", "waiting", loc["dsr"])
        /\ \E r : bus' = Append(bus, r) /\ r.op = "status" /\ r.by = "dsr"
    BY <1>2, ReadStatusBase
  <2>2. UNCHANGED <<mode, taken, acks, faults>>
    BY <1>2 DEF ReadStatus, irqVars
  <2>3. \E r : bus' = Append(bus, r) /\ ~Live(r)
    BY <2>1, ThreadsAre DEF Live
  <2>4. HoldsAt("dsr", "waiting", loc["dsr"]) <=> HoldsAt("dsr", pc["dsr"], loc["dsr"])
    BY <2>1 DEF HoldsAt
  <2> QED BY <1>0, <2>1, <2>2, <2>3, <2>4, ChainKept
<1>3. CASE ProcessPendingIRQs
  <2>1. /\ pc["dsr"] = "pending"
        /\ \/ Ack /\ Moved("dsr", "idle", NoLoc)
           \/ /\ UNCHANGED <<taken, acks>>
              /\ \E w \in {"alloc", "others"}, l \in LocalVars :
                   Moved("dsr", w, l) /\ SameBut(l, loc["dsr"])
    BY <1>3, ProcessPendingIRQsBase
  <2>2. UNCHANGED <<mode, bus, faults>>
    BY <1>3 DEF ProcessPendingIRQs
  <2>3. HoldsAt("dsr", pc["dsr"], loc["dsr"])
    BY <1>0, <2>1 DEF HoldsAt
  <2>4. CASE Ack /\ Moved("dsr", "idle", NoLoc)
    <3>1. ~HoldsAt("dsr", "idle", NoLoc)
      BY DEF HoldsAt
    <3>2. OneLive' /\ ~SomeLive'
      BY <1>0, <2>2, <2>3 DEF Chain, Holds, OneLive, SomeLive, Live
    <3>3. Passes("dsr", "idle", NoLoc)
      BY <1>0, <2>3, <2>4, <3>1, <3>2 DEF Passes, Holds
    <3> QED BY <1>0, <2>2, <2>4, <3>2, <3>3, ChainStep
  <2>5. ASSUME UNCHANGED <<taken, acks>>, NEW w \in {"alloc", "others"}, NEW l \in LocalVars,
               Moved("dsr", w, l), SameBut(l, loc["dsr"])
        PROVE  Chain'
    <3>1. mode = "async" => ~l.async
      BY <1>0, <2>1, <2>5 DEF Good, HoldingStarter, SameBut
    <3>2. HoldsAt("dsr", w, l)
      BY <1>0, <2>5, <3>1 DEF HoldsAt
    <3> QED BY <1>0, <2>2, <2>3, <2>5, <3>2, ChainKept
  <2> QED BY <2>1, <2>4, <2>5
<1>4. CASE MessagesHandled
  <2> DEFINE l == [loc["dsr"] EXCEPT !.async = mode = "async" /\ loc["dsr"].total # 0]
  <2>1. /\ pc["dsr"] = "return" /\ UNCHANGED <<taken, acks>>
        /\ \/ /\ mode = "sync"
              /\ \E w, k : Moved("dsr", w, k)
           \/ Moved("dsr", "others", l)
    BY <1>4, MessagesHandledBase
  <2>2. UNCHANGED <<mode, bus, faults>>
    BY <1>4 DEF MessagesHandled
  <2>3. CASE Moved("dsr", "others", l)
    <3>1. l.async <=> (mode = "async" /\ loc["dsr"].total # 0)
      BY <1>0 DEF LocalVars
    <3> HIDE DEF l
    <3>2. HoldsAt("dsr", "others", l) <=> HoldsAt("dsr", pc["dsr"], loc["dsr"])
      BY <1>0, <2>1, <3>1 DEF HoldsAt
    <3> QED BY <1>0, <2>1, <2>2, <2>3, <3>2, ChainKept
  <2>4. ASSUME mode = "sync", NEW w, NEW k, Moved("dsr", w, k) PROVE Chain'
    <3>1. ~SomeLive' /\ OneLive' /\ Holds("dsr")
      BY <1>0, <2>1, <2>2, <2>4 DEF Chain, OneLive, SomeLive, Live, Holds, HoldsAt
    <3>2. \A u \in Handlers : Holds(u)' => u = "dsr"
      BY <2>2, <2>4 DEF Holds, HoldsAt
    <3>3. acks' = 0 /\ ~taken' /\ mode' = "sync"
      <4>1. acks = 0 /\ ~taken
        BY <1>0, <2>4, <3>1 DEF Chain
      <4> QED BY <2>1, <2>2, <2>4, <4>1
    <3>4. taken' = (mode' = "async")
      <4>1. taken' \in BOOLEAN
        BY <2>1 DEF Base, Types
      <4> QED BY <3>3, <4>1
    <3> HIDE DEF Holds, SomeLive, OneLive
    <3> QED BY <3>1, <3>2, <3>3, <3>4 DEF Chain
  <2> QED BY <2>1, <2>3, <2>4
<1>5. CASE ServiceOthers
  <2>1. /\ pc["dsr"] = "others"
        /\ \/ ~loc["dsr"].async /\ UNCHANGED <<taken, acks>> /\ Moved("dsr", "status", NoLoc)
           \/ ~loc["dsr"].async /\ Ack /\ Moved("dsr", "idle", NoLoc)
           \/ loc["dsr"].async /\ UNCHANGED <<taken, acks>> /\ Moved("dsr", "idle", NoLoc)
    BY <1>5, ServiceOthersBase
  <2>2. UNCHANGED <<mode, bus, faults>>
    BY <1>5 DEF ServiceOthers
  <2>3. CASE ~loc["dsr"].async /\ UNCHANGED <<taken, acks>> /\ Moved("dsr", "status", NoLoc)
    <3>1. HoldsAt("dsr", "status", NoLoc) /\ HoldsAt("dsr", pc["dsr"], loc["dsr"])
      BY <1>0, <2>1, <2>3 DEF HoldsAt
    <3> QED BY <1>0, <2>2, <2>3, <3>1, ChainKept
  <2>4. CASE ~loc["dsr"].async /\ Ack /\ Moved("dsr", "idle", NoLoc)
    <3>1. HoldsAt("dsr", pc["dsr"], loc["dsr"]) /\ ~HoldsAt("dsr", "idle", NoLoc)
      BY <1>0, <2>1, <2>4 DEF HoldsAt
    <3>2. OneLive' /\ ~SomeLive'
      BY <1>0, <2>2, <3>1 DEF Chain, Holds, OneLive, SomeLive, Live
    <3>3. Passes("dsr", "idle", NoLoc)
      BY <1>0, <2>4, <3>1, <3>2 DEF Passes, Holds
    <3> QED BY <1>0, <2>2, <2>4, <3>2, <3>3, ChainStep
  <2>5. CASE loc["dsr"].async /\ UNCHANGED <<taken, acks>> /\ Moved("dsr", "idle", NoLoc)
    <3>1. ~HoldsAt("dsr", "idle", NoLoc)
      BY DEF HoldsAt
    <3>2. CASE mode = "async"
      <4>1. ~HoldsAt("dsr", pc["dsr"], loc["dsr"])
        BY <2>1, <2>5, <3>2 DEF HoldsAt
      <4> QED BY <1>0, <2>2, <2>5, <3>1, <4>1, ChainKept
    <3>3. CASE mode = "sync"
      <4>1. ~SomeLive' /\ OneLive' /\ Holds("dsr")
        BY <1>0, <2>1, <2>2, <3>3 DEF Chain, OneLive, SomeLive, Live, Holds, HoldsAt
      <4>2. \A u \in Handlers : Holds(u)' => u = "dsr"
        BY <2>2, <3>3 DEF Holds, HoldsAt
      <4>3. acks' = 0 /\ ~taken' /\ mode' = "sync"
        <5>1. acks = 0 /\ ~taken
          BY <1>0, <3>3, <4>1 DEF Chain
        <5> QED BY <2>5, <2>2, <3>3, <5>1
      <4>4. taken' = (mode' = "async")
        <5>1. taken' \in BOOLEAN
          BY <2>5 DEF Base, Types
        <5> QED BY <4>3, <5>1
      <4> HIDE DEF Holds, SomeLive, OneLive
      <4> QED BY <4>1, <4>2, <4>3, <4>4 DEF Chain
    <3> QED BY <1>0, <3>2, <3>3
  <2> QED BY <2>1, <2>3, <2>4, <2>5
<1>6. ASSUME NEW w, NEW l, w # "idle", pc["dsr"] # "idle", mode = "sync", Moved("dsr", w, l),
             UNCHANGED <<mode, bus, taken, acks>>, faults' = faults \/ faults' # 0
      PROVE  Chain'
  <2>1. HoldsAt("dsr", w, l) /\ HoldsAt("dsr", pc["dsr"], loc["dsr"])
    BY <1>6 DEF HoldsAt
  <2>2. OneLive' /\ ~SomeLive' /\ ~SomeLive
    BY <1>0, <1>6, <2>1 DEF Chain, Holds, OneLive, SomeLive, Live
  <2>3. Passes("dsr", w, l)
    BY <1>0, <1>6, <2>1, <2>2 DEF Passes, Holds
  <2> QED BY <1>0, <1>6, <2>2, <2>3, ChainStep
<1>7. CASE IndicateSync
  <2>1. UNCHANGED <<mode, bus, taken, acks, faults>>
    BY <1>7 DEF IndicateSync, irqVars
  <2> QED BY <1>6, <1>7, <2>1, IndicateSyncBase
<1>8. CASE BadHeaderSync
  <2>1. UNCHANGED <<mode, bus, taken, acks>> /\ faults' = faults + 1
    BY <1>8 DEF BadHeaderSync, irqVars
  <2>2. faults' # 0
    BY <2>1 DEF Base, Types
  <2> QED BY <1>6, <1>8, <2>1, <2>2, BadHeaderSyncBase
<1>9. CASE FollowLookAhead
  <2>1. UNCHANGED <<mode, bus, taken, acks, faults>>
    BY <1>9 DEF FollowLookAhead
  <2> QED BY <1>6, <1>9, <2>1, FollowLookAheadBase
<1>10. CASE HandlerStep("dsr")
  BY <1>0, <1>10, HandlerChain
<1> QED BY <1>1, <1>2, <1>3, <1>4, <1>5, <1>7, <1>8, <1>9, <1>10 DEF DsrStep

\* The steps of a context of the HIF.
LEMMA ContextChain ==
    ASSUME Base, Chain, NEW c \in Contexts, ContextStep(c)
    PROVE  Chain'
<1>0. c \in Handlers /\ c \in Threads /\ c # "dsr"
  BY ThreadsAre
<1>a. ASSUME NEW w, NEW l, Moved(c, w, l), UNCHANGED <<mode, bus, faults>>, Ack,
             HoldsAt(c, pc[c], loc[c]), ~HoldsAt(c, w, l)
      PROVE  Chain'
  <2>1. OneLive' /\ ~SomeLive'
    BY <1>0, <1>a DEF Chain, Holds, OneLive, SomeLive, Live
  <2>2. Passes(c, w, l)
    BY <1>0, <1>a, <2>1 DEF Passes, Holds
  <2> QED BY <1>0, <1>a, <2>1, <2>2, ChainStep
<1>1. CASE QueueIndication(c)
  <2> DEFINE l == [loc[c] EXCEPT !.done = <<>>]
             w == IF loc[c].more THEN "more" ELSE "drain"
  <2>1. pc[c] = "complete" /\ Moved(c, w, l)
    BY <1>1, QueueIndicationBase
  <2>2. UNCHANGED <<mode, bus, taken, acks, faults>>
    BY <1>1 DEF QueueIndication, irqVars
  <2>3. mode = "async" /\ l.last = loc[c].last
    BY <2>1, ContextIs DEF LocalVars
  <2> HIDE DEF l
  <2>4. HoldsAt(c, w, l) <=> HoldsAt(c, pc[c], loc[c])
    BY <2>1, <2>3 DEF HoldsAt
  <2> HIDE DEF w
  <2> QED BY <1>0, <2>1, <2>2, <2>4, ChainKept
<1>2. CASE BadHeader(c)
  <2>1. PICK l : Moved(c, "recycle", l)
    BY <1>2, BadHeaderBase
  <2>2. UNCHANGED <<mode, bus, taken, acks>> /\ faults' # 0 /\ pc[c] = "complete"
    <3>1. UNCHANGED <<mode, bus, taken, acks>> /\ faults' = faults + 1 /\ pc[c] = "complete"
      BY <1>2 DEF BadHeader, irqVars, At
    <3> QED BY <3>1 DEF Base, Types
  <2>3. mode = "async"
    BY <2>2, ContextIs
  <2>4. ~HoldsAt(c, "recycle", l)
    BY <2>3 DEF HoldsAt
  <2>5. OneLive' /\ (SomeLive' <=> SomeLive)
    BY <2>2 DEF Chain, OneLive, SomeLive, Live
  <2>6. Passes(c, "recycle", l)
    BY <2>2, <2>4, <2>5 DEF Passes
  <2> QED BY <1>0, <2>1, <2>2, <2>5, <2>6, ChainStep
<1>3. CASE CheckMorePackets(c)
  <2> DEFINE l == [loc[c] EXCEPT !.from = "more"]
             r == Request("status", Nobody, NoEp, 0, FALSE, FALSE)
  <2>1. /\ pc[c] = "more"
        /\ \/ /\ loc[c].la > 0 /\ loc[c].last /\ Moved(c, "alloc", l)
              /\ UNCHANGED <<taken, acks, bus>>
           \/ /\ loc[c].last /\ Moved(c, "drain", loc[c]) /\ UNCHANGED <<taken, acks>>
              /\ bus' = Append(bus, r)
           \/ loc[c].last /\ Moved(c, "drain", loc[c]) /\ Ack /\ bus' = bus
           \/ ~loc[c].last /\ Moved(c, "drain", loc[c]) /\ UNCHANGED <<taken, acks, bus>>
    BY <1>3, CheckMorePacketsBase
  <2>2. UNCHANGED <<mode, faults>>
    BY <1>3 DEF CheckMorePackets
  <2>3. mode = "async"
    BY <2>1, ContextIs
  <2>4. (HoldsAt(c, pc[c], loc[c]) <=> loc[c].last) /\ ~HoldsAt(c, "drain", loc[c]) /\ HoldsAt(c, "alloc", l)
    BY <2>1, <2>3 DEF HoldsAt
  <2>5. Live(r)
    BY DEF Live, Request
  <2> HIDE DEF l, r
  <2>6. CASE loc[c].last /\ Moved(c, "alloc", l) /\ UNCHANGED <<taken, acks, bus>>
    BY <1>0, <2>2, <2>4, <2>6, ChainKept
  <2>7. CASE loc[c].last /\ Moved(c, "drain", loc[c]) /\ UNCHANGED <<taken, acks>> /\ bus' = Append(bus, r)
    <3>1. Holds(c) /\ ~SomeLive
      BY <1>0, <2>4, <2>7 DEF Holds, Chain
    <3>2. OneLive' /\ SomeLive'
      BY <2>5, <2>7, <3>1, LiveAppend DEF Chain, Base
    <3>3. Passes(c, "drain", loc[c])
      BY <2>2, <2>4, <2>7, <3>1, <3>2 DEF Passes
    <3> QED BY <1>0, <2>2, <2>7, <3>2, <3>3, ChainStep
  <2>8. CASE loc[c].last /\ Moved(c, "drain", loc[c]) /\ Ack /\ bus' = bus
    BY <1>a, <2>2, <2>4, <2>8
  <2>9. CASE ~loc[c].last /\ Moved(c, "drain", loc[c]) /\ UNCHANGED <<taken, acks, bus>>
    BY <1>0, <2>2, <2>4, <2>9, ChainKept
  <2> QED BY <2>1, <2>6, <2>7, <2>8, <2>9
<1>4. CASE HandleEvents(c)
  <2> DEFINE l == [loc[c] EXCEPT !.from = "events"]
  <2>1. /\ pc[c] = "events"
        /\ \/ Ack /\ Moved(c, "idle", NoLoc)
           \/ UNCHANGED <<taken, acks>> /\ Moved(c, "alloc", l)
    BY <1>4, HandleEventsBase
  <2>2. UNCHANGED <<mode, bus, faults>>
    BY <1>4 DEF HandleEvents
  <2>3. mode = "async"
    BY <2>1, ContextIs
  <2>4. HoldsAt(c, pc[c], loc[c]) /\ HoldsAt(c, "alloc", l) /\ ~HoldsAt(c, "idle", NoLoc)
    BY <2>1, <2>3 DEF HoldsAt
  <2> HIDE DEF l
  <2> QED BY <1>0, <1>a, <2>1, <2>2, <2>4, ChainKept
<1>5. CASE ChainContinues(c)
  <2>1. /\ pc[c] = "return"
        /\ IF loc[c].total = 0 THEN Ack ELSE UNCHANGED <<taken, acks>>
        /\ \/ loc[c].from = "more" /\ Moved(c, "drain", loc[c])
           \/ loc[c].from = "events" /\ Moved(c, "idle", NoLoc)
    BY <1>5, ChainContinuesBase
  <2>2. UNCHANGED <<mode, bus, faults>>
    BY <1>5 DEF ChainContinues
  <2>3. mode = "async"
    BY <2>1, ContextIs
  <2>4. PICK w, l : Moved(c, w, l) /\ w \in {"drain", "idle"}
    BY <2>1
  <2>5. (HoldsAt(c, pc[c], loc[c]) <=> loc[c].total = 0) /\ ~HoldsAt(c, w, l)
    BY <2>1, <2>3, <2>4 DEF HoldsAt
  <2>6. CASE loc[c].total = 0
    BY <1>a, <2>1, <2>2, <2>4, <2>5, <2>6
  <2>7. CASE loc[c].total # 0
    BY <1>0, <2>1, <2>2, <2>4, <2>5, <2>7, ChainKept
  <2> QED BY <2>6, <2>7
<1>6. CASE TakeIndications(c)
  <2>1. UNCHANGED <<mode, bus, taken, acks, faults>> /\ pc[c] = "drain"
    BY <1>6 DEF TakeIndications, irqVars, At
  <2>2. PICK w, l : Moved(c, w, l) /\ w \in {"indicate", "idle"}
    BY <1>6, TakeIndicationsBase
  <2>3. mode = "async"
    BY <2>1, ContextIs
  <2>4. ~HoldsAt(c, pc[c], loc[c]) /\ ~HoldsAt(c, w, l)
    BY <2>1, <2>2, <2>3 DEF HoldsAt
  <2> QED BY <1>0, <2>1, <2>2, <2>4, ChainKept
<1>7. CASE Indicate(c)
  <2>1. UNCHANGED <<mode, bus, taken, acks, faults>> /\ pc[c] = "indicate"
    BY <1>7 DEF Indicate, irqVars, At
  <2>2. PICK l : Moved(c, "drain", l)
    BY <1>7, IndicateBase
  <2>3. mode = "async"
    BY <2>1, ContextIs
  <2>4. ~HoldsAt(c, pc[c], loc[c]) /\ ~HoldsAt(c, "drain", l)
    BY <2>1, <2>3 DEF HoldsAt
  <2> QED BY <1>0, <2>1, <2>2, <2>4, ChainKept
<1>8. CASE HandlerStep(c)
  BY <1>0, <1>8, HandlerChain
<1> QED BY <1>1, <1>2, <1>3, <1>4, <1>5, <1>6, <1>7, <1>8 DEF ContextStep

LEMMA TargetChain ==
    ASSUME Base, Chain, (\E e \in Eps : TargetSends(e)) \/ OtherInterrupt
    PROVE  Chain'
<1>1. UNCHANGED <<mode, bus, taken, acks, faults, pc, loc>>
  BY DEF TargetSends, OtherInterrupt, irqVars
<1>2. Moved("dsr", pc["dsr"], loc["dsr"])
  BY <1>1 DEF Moved
<1> QED BY <1>1, <1>2, ThreadsAre, ChainKept

LEMMA NextBase ==
    ASSUME Base, Next
    PROVE  Base'
<1>1. CASE (\E e \in Eps : TargetSends(e)) \/ OtherInterrupt
  BY <1>1, TargetBase
<1>2. CASE \E e \in Eps : AddReceivePkts(e)
  BY <1>2, AddReceivePktsBase
<1>3. CASE BusStep
  <2>1. CASE BusWrite
    BY <2>1, BusWriteBase
  <2>2. ASSUME NEW t \in Handlers, BusStatus(t) PROVE Base'
    BY <2>2, BusStatusBase
  <2>3. ASSUME NEW t \in Handlers, BusRead(t) PROVE Base'
    BY <2>3, BusReadBase
  <2>4. ASSUME NEW t \in Handlers, BusReadFails(t) PROVE Base'
    BY <2>4, BusReadFailsBase
  <2> QED BY <1>3, <2>1, <2>2, <2>3, <2>4 DEF BusStep
<1>4. ASSUME NEW t \in Threads, HandlerStep(t) PROVE Base'
  BY <1>4, AllocPacketsBase, FetchPacketsBase, AllFetchedBase, RecyclePktsBase, CheckWaitingBase,
     SetShadowBase, WriteEnableBase DEF HandlerStep
<1>5. CASE DsrStep
  BY <1>4, <1>5, ThreadsAre, TakeInterruptBase, ReadStatusBase, ProcessPendingIRQsBase, MessagesHandledBase,
     ServiceOthersBase, IndicateSyncBase, BadHeaderSyncBase, FollowLookAheadBase DEF DsrStep
<1>6. CASE UserStep
  BY <1>6, ThreadsAre, SetShadowBase, WriteEnableBase DEF UserStep
<1>7. ASSUME NEW c \in Contexts, ContextStep(c) PROVE Base'
  <2>1. c \in Threads
    BY ThreadsAre
  <2> QED BY <1>4, <1>7, <2>1, QueueIndicationBase, BadHeaderBase, CheckMorePacketsBase, HandleEventsBase,
             ChainContinuesBase, TakeIndicationsBase, IndicateBase DEF ContextStep
<1> QED BY <1>1, <1>2, <1>3, <1>5, <1>6, <1>7 DEF Next

LEMMA NextChain ==
    ASSUME Base, Chain, Next
    PROVE  Chain'
BY TargetChain, UserChain, BusChain, DsrChain, ContextChain DEF Next

LEMMA InitChain == Init => Chain
<1> SUFFICES ASSUME Init PROVE Chain
  OBVIOUS
<1>1. \A t \in Handlers : ~Holds(t)
  BY DEF Init, Threads, Holds, HoldsAt, NoLoc
<1>2. OneLive /\ ~SomeLive /\ acks = 0 /\ taken = FALSE
  BY DEF Init, OneLive, SomeLive
<1> HIDE DEF Holds, OneLive, SomeLive
<1> QED BY <1>1, <1>2 DEF Chain

LEMMA StutterBase == ASSUME Base, UNCHANGED vars PROVE Base'
  BY DEF Base, Types, Control, Good, MayBe, Requests, Requested, vars, deviceVars, irqVars, bufVars, indVars

LEMMA StutterChain == ASSUME Base, Chain, UNCHANGED vars PROVE Chain'
<1>1. UNCHANGED <<mode, bus, taken, acks, faults, pc, loc>>
  BY DEF vars, irqVars
<1>2. Moved("dsr", pc["dsr"], loc["dsr"])
  BY <1>1 DEF Moved
<1> QED BY <1>1, <1>2, ThreadsAre, ChainKept

\* Every step keeps where the threads can be, and the duty to acknowledge the
\* interrupt in at most one place: the handler, a request or its completion.
THEOREM ChainHolds == Spec => [](Base /\ Chain)
<1>1. Init => Base /\ Chain
  BY InitBase, InitChain
<1>2. Base /\ Chain /\ [Next]_vars => Base' /\ Chain'
  BY NextBase, NextChain, StutterBase, StutterChain
<1> QED BY <1>1, <1>2, PTL DEF Spec

\* An interrupt is acknowledged at most once, by the handler or by what ends the
\* chain of requests it started.
THEOREM AckedOnceCorrect == Spec => []AckedOnce
<1>1. Base /\ Chain => AckedOnce
  BY DEF Chain, AckedOnce
<1> QED BY <1>1, ChainHolds, PTL

\* When the handler and its chain of requests have ended, the interrupt that
\* was taken is acknowledged, unless a transfer failed.
THEOREM AckedWhenQuietCorrect == Spec => []AckedWhenQuiet
<1>1. Base /\ Chain => AckedWhenQuiet
  <2> SUFFICES ASSUME Base, Chain, Quiet, taken PROVE faults > 0
    BY DEF AckedWhenQuiet
  <2>1. ~SomeLive
    BY DEF Quiet, SomeLive
  <2>2. \A t \in Handlers : ~Holds(t)
    BY DEF Quiet, At, Holds, HoldsAt
  <2>3. faults # 0
    BY <2>1, <2>2 DEF Chain
  <2> QED BY <2>3 DEF Base, Types
<1> QED BY <1>1, ChainHolds, PTL

-----------------------------------------------------------------------------
(***************************************************************************)
(* Who drains a queue of indications, and who is to come to it.            *)
(***************************************************************************)
DrainsAt(w, l, e) == w \in {"drain", "indicate"} /\ l.from = "drain" /\ l.doneEp = e

ComingAt(w, l, e) == l.doneEp = e /\ w # "idle" /\ (l.done = <<>> \/ w = "indicate")

Drains(c, e) == DrainsAt(pc[c], loc[c], e)
Coming(c, e) == ComingAt(pc[c], loc[c], e)

Draining ==
    \A e \in Eps :
      /\ draining[e] <=> \E c \in Contexts : Drains(c, e)
      /\ \A c, d \in Contexts : Drains(c, e) /\ Drains(d, e) => c = d
      /\ indication[e] # <<>> => \E c \in Contexts : Coming(c, e)

LEMMA DrainKept ==
    ASSUME Draining, NEW t \in Threads, NEW w, NEW l, Moved(t, w, l), draining' = draining,
           \A e \in Eps : indication'[e] # <<>> => indication[e] # <<>> \/ (t \in Contexts /\ ComingAt(w, l, e)),
           t \in Contexts => \A e \in Eps : /\ DrainsAt(w, l, e) <=> DrainsAt(pc[t], loc[t], e)
                                            /\ ComingAt(pc[t], loc[t], e) => ComingAt(w, l, e)
    PROVE  Draining'
<1>1. ASSUME NEW c \in Contexts, NEW e \in Eps
      PROVE  /\ Drains(c, e)' <=> Drains(c, e)
             /\ Coming(c, e) => Coming(c, e)'
             /\ c = t => (Coming(c, e)' <=> ComingAt(w, l, e))
  <2>1. c \in Threads
    BY ThreadsAre
  <2>2. CASE c = t
    BY <2>2 DEF Moved, Drains, Coming, DrainsAt, ComingAt
  <2>3. CASE c # t
    BY <2>1, <2>3 DEF Moved, Drains, Coming, DrainsAt, ComingAt
  <2> QED BY <2>2, <2>3
<1> HIDE DEF Drains, Coming
<1>2. ASSUME NEW e \in Eps
      PROVE  /\ draining'[e] <=> \E c \in Contexts : Drains(c, e)'
             /\ \A c, d \in Contexts : Drains(c, e)' /\ Drains(d, e)' => c = d
             /\ indication'[e] # <<>> => \E c \in Contexts : Coming(c, e)'
  BY <1>1 DEF Draining
<1> QED BY <1>2 DEF Draining

\* A step of the message handler.
LEMMA HandlerDraining ==
    ASSUME Base, Draining, NEW t \in Threads, HandlerStep(t)
    PROVE  Draining'
<1>0. /\ draining' = draining /\ indication' = indication /\ mode \in {"sync", "async"} /\ loc[t] \in LocalVars
      /\ Good(t, pc[t], loc[t])
  BY ThreadIs DEF HandlerStep, AllocPackets, FetchPackets, AllFetched, RecyclePkts, CheckWaiting,
                  SetShadow, WriteEnable, indVars
<1>a. ASSUME NEW w, NEW l, Moved(t, w, l),
             t \in Contexts =>
               /\ w \notin {"idle", "indicate"} /\ pc[t] \notin {"idle", "drain", "indicate"}
               /\ w = "drain" => l.from # "drain"
               /\ l.doneEp = loc[t].doneEp /\ l.done = loc[t].done
      PROVE  Draining'
  BY <1>0, <1>a, DrainKept DEF DrainsAt, ComingAt
<1>1. CASE AllocPackets(t)
  <2> DEFINE l == [loc[t] EXCEPT !.la = 0, !.fetch = Allocates(loc[t]), !.total = @ + Allocates(loc[t])]
  <2>1. pc[t] = "alloc" /\ Moved(t, "fetch", l)
    BY <1>1, AllocPacketsBase
  <2>2. l.doneEp = loc[t].doneEp /\ l.done = loc[t].done
    BY <1>0 DEF LocalVars
  <2> HIDE DEF l
  <2> QED BY <1>a, <2>1, <2>2
<1>2. CASE FetchPackets(t)
  <2> DEFINE L(n) == [loc[t] EXCEPT !.fetch = @ - n]
             w == IF mode = "sync" THEN "waiting" ELSE "fetch"
  <2>1. PICK n \in {1, loc[t].fetch} : Moved(t, w, L(n))
    BY <1>2, FetchPacketsBase
  <2>2. pc[t] = "fetch"
    BY <1>2, FetchPacketsBase
  <2>3. PICK l : l = L(n)
    OBVIOUS
  <2>4. l.doneEp = loc[t].doneEp /\ l.done = loc[t].done
    BY <1>0, <2>3 DEF LocalVars
  <2>5. w \notin {"idle", "indicate", "drain"}
    OBVIOUS
  <2> HIDE DEF L, w
  <2> QED BY <1>a, <2>1, <2>2, <2>3, <2>4, <2>5
<1>3. CASE AllFetched(t)
  <2> DEFINE w == IF mode = "sync" THEN "process" ELSE "check"
  <2>1. pc[t] = "fetch" /\ Moved(t, w, loc[t])
    BY <1>3, AllFetchedBase
  <2>2. w \notin {"idle", "indicate", "drain"}
    OBVIOUS
  <2> HIDE DEF w
  <2> QED BY <1>a, <2>1, <2>2
<1>4. CASE RecyclePkts(t)
  <2> DEFINE l == [loc[t] EXCEPT !.fetch = 0]
  <2>1. pc[t] = "recycle"
    BY <1>4, RecyclePktsBase
  <2>2. PICK w \in {"enable", Enabled(t)} : Moved(t, w, l)
    BY <1>4, RecyclePktsBase
  <2>3. l.doneEp = loc[t].doneEp /\ l.done = loc[t].done /\ l.from = loc[t].from
    BY <1>0 DEF LocalVars
  <2> HIDE DEF l
  <2>4. ASSUME t \in Contexts
        PROVE  /\ l.from # "drain" /\ w # "indicate"
               /\ w = "idle" => l.done = <<>> /\ l.doneEp = NoEp
    BY <1>0, <2>1, <2>2, <2>3, <2>4, ThreadsAre DEF Good, HoldingContext, Enabled
  <2>5. t \in Contexts => \A e \in Eps : /\ DrainsAt(w, l, e) <=> DrainsAt(pc[t], loc[t], e)
                                         /\ ComingAt(pc[t], loc[t], e) => ComingAt(w, l, e)
    BY <2>1, <2>3, <2>4, ThreadsAre DEF DrainsAt, ComingAt
  <2> QED BY <1>0, <2>2, <2>5, DrainKept
<1>5. CASE CheckWaiting(t)
  <2> DEFINE w == IF waiting THEN "stop" ELSE "return"
  <2>1. pc[t] = "check" /\ Moved(t, w, loc[t])
    BY <1>5, CheckWaitingBase
  <2>2. w \notin {"idle", "indicate", "drain"}
    OBVIOUS
  <2> HIDE DEF w
  <2> QED BY <1>a, <2>1, <2>2
<1>6. CASE SetShadow(t)
  <2> DEFINE w == IF pc[t] = "enable" THEN "write on" ELSE "write off"
  <2>1. pc[t] \in {"enable", "stop"} /\ Moved(t, w, loc[t])
    BY <1>6, SetShadowBase
  <2>2. w \notin {"idle", "indicate", "drain"}
    OBVIOUS
  <2> HIDE DEF w
  <2> QED BY <1>a, <2>1, <2>2
<1>7. CASE WriteEnable(t)
  BY <1>a, <1>7, WriteEnableBase
<1> QED BY <1>1, <1>2, <1>3, <1>4, <1>5, <1>6, <1>7 DEF HandlerStep

LEMMA ContextDraining ==
    ASSUME Base, Draining, NEW c \in Contexts, ContextStep(c)
    PROVE  Draining'
<1>0. c \in Threads /\ c # "dsr"
  BY ThreadsAre
<1>1. CASE QueueIndication(c)
  <2> DEFINE l == [loc[c] EXCEPT !.done = <<>>]
             w == IF loc[c].more THEN "more" ELSE "drain"
  <2>1. pc[c] = "complete" /\ Moved(c, w, l)
    BY <1>1, QueueIndicationBase
  <2>2. draining' = draining /\ indication' = [indication EXCEPT ![loc[c].doneEp] = @ \o loc[c].done]
    BY <1>1 DEF QueueIndication
  <2>3. loc[c] \in LocalVars /\ HoldingContext("complete", loc[c]) /\ Holding("complete", loc[c])
    BY <2>1, ContextIs
  <2>4. l.done = <<>> /\ l.doneEp = loc[c].doneEp /\ l.from = loc[c].from /\ l.from # "drain" /\ w \in {"more", "drain"}
        /\ loc[c].done # <<>> /\ l.doneEp \in Eps
    BY <2>3 DEF LocalVars, HoldingContext, Holding
  <2>5. \A e \in Eps : e # loc[c].doneEp => indication'[e] = indication[e]
    BY <2>2 DEF Base, Types
  <2> HIDE DEF l, w
  <2>6. \A e \in Eps : /\ DrainsAt(w, l, e) <=> DrainsAt(pc[c], loc[c], e)
                       /\ ComingAt(pc[c], loc[c], e) => ComingAt(w, l, e)
                       /\ e = loc[c].doneEp => ComingAt(w, l, e)
    BY <2>1, <2>4 DEF DrainsAt, ComingAt
  <2> QED BY <1>0, <2>1, <2>2, <2>5, <2>6, DrainKept
<1>2. CASE BadHeader(c)
  <2> DEFINE L(i) == [loc[c] EXCEPT !.done = RemoveAt(@, i), !.fetch = 1, !.ep = loc[c].doneEp,
                                     !.la = 0, !.more = FALSE,
                                     !.doneEp = IF Len(loc[c].done) > 1 THEN @ ELSE NoEp]
  <2>1. PICK i \in DOMAIN loc[c].done : Moved(c, "recycle", L(i))
    BY <1>2, BadHeaderBase
  <2>2. pc[c] = "complete"
    BY <1>2, BadHeaderBase
  <2>3. draining' = draining /\ indication' = indication
    BY <1>2 DEF BadHeader, indVars
  <2>4. loc[c].done # <<>>
    BY <2>2, ContextIs DEF HoldingContext
  <2>5. PICK l : l = L(i)
    OBVIOUS
  <2> HIDE DEF L
  <2>6. \A e \in Eps : /\ DrainsAt("recycle", l, e) <=> DrainsAt(pc[c], loc[c], e)
                       /\ ComingAt(pc[c], loc[c], e) => ComingAt("recycle", l, e)
    BY <2>2, <2>4 DEF DrainsAt, ComingAt
  <2> QED BY <1>0, <2>1, <2>3, <2>5, <2>6, DrainKept
<1>3. CASE CheckMorePackets(c)
  <2> DEFINE k == [loc[c] EXCEPT !.from = "more"]
  <2>1. pc[c] = "more" /\ (Moved(c, "alloc", k) \/ Moved(c, "drain", loc[c]))
    BY <1>3, CheckMorePacketsBase
  <2>2. draining' = draining /\ indication' = indication
    BY <1>3 DEF CheckMorePackets, indVars
  <2>3. loc[c] \in LocalVars /\ loc[c].from # "drain"
    BY <2>1, ContextIs DEF HoldingContext
  <2>4. k.done = loc[c].done /\ k.doneEp = loc[c].doneEp
    BY <2>3 DEF LocalVars
  <2> HIDE DEF k
  <2>5. \A e \in Eps : /\ ~DrainsAt(pc[c], loc[c], e) /\ ~DrainsAt("alloc", k, e) /\ ~DrainsAt("drain", loc[c], e)
                       /\ ComingAt(pc[c], loc[c], e) => ComingAt("alloc", k, e) /\ ComingAt("drain", loc[c], e)
    BY <2>1, <2>3, <2>4 DEF DrainsAt, ComingAt
  <2> QED BY <1>0, <2>1, <2>2, <2>5, DrainKept
<1>4. CASE HandleEvents(c)
  <2> DEFINE k == [loc[c] EXCEPT !.from = "events"]
  <2>1. pc[c] = "events" /\ (Moved(c, "alloc", k) \/ Moved(c, "idle", NoLoc))
    BY <1>4, HandleEventsBase
  <2>2. draining' = draining /\ indication' = indication
    BY <1>4 DEF HandleEvents, indVars
  <2>3. loc[c] \in LocalVars /\ loc[c].doneEp = NoEp /\ NoEp \notin Eps
    BY <2>1, ContextIs, ThreadsAre DEF HoldingContext
  <2> HIDE DEF k
  <2>5. \A e \in Eps : /\ ~DrainsAt(pc[c], loc[c], e) /\ ~DrainsAt("alloc", k, e) /\ ~DrainsAt("idle", NoLoc, e)
                       /\ ~ComingAt(pc[c], loc[c], e)
    BY <2>1, <2>3 DEF DrainsAt, ComingAt
  <2> QED BY <1>0, <2>1, <2>2, <2>5, DrainKept
<1>5. CASE ChainContinues(c)
  <2>1. /\ pc[c] = "return"
        /\ \/ loc[c].from = "more" /\ Moved(c, "drain", loc[c])
           \/ loc[c].from = "events" /\ Moved(c, "idle", NoLoc)
    BY <1>5, ChainContinuesBase
  <2>2. draining' = draining /\ indication' = indication
    BY <1>5 DEF ChainContinues, indVars
  <2>3. loc[c].from = "events" => loc[c].doneEp \notin Eps
    BY <2>1, ContextIs, ThreadsAre DEF HoldingContext, Handling
  <2>4. CASE loc[c].from = "more" /\ Moved(c, "drain", loc[c])
    <3>1. \A e \in Eps : /\ DrainsAt("drain", loc[c], e) <=> DrainsAt(pc[c], loc[c], e)
                         /\ ComingAt(pc[c], loc[c], e) => ComingAt("drain", loc[c], e)
      BY <2>1, <2>4 DEF DrainsAt, ComingAt
    <3> QED BY <1>0, <2>2, <2>4, <3>1, DrainKept
  <2>5. CASE loc[c].from = "events" /\ Moved(c, "idle", NoLoc)
    <3>1. \A e \in Eps : /\ ~DrainsAt("idle", NoLoc, e) /\ ~DrainsAt(pc[c], loc[c], e)
                         /\ ~ComingAt(pc[c], loc[c], e)
      BY <2>1, <2>3, <2>5 DEF DrainsAt, ComingAt
    <3> QED BY <1>0, <2>2, <2>5, <3>1, DrainKept
  <2> QED BY <2>1, <2>4, <2>5
<1>6. CASE TakeIndications(c)
  <2>0. PICK e \in Eps : e = loc[c].doneEp
    BY <1>6, TakeIndicationsBase
  <2> DEFINE l == [NoLoc EXCEPT !.done = indication[e], !.doneEp = e, !.from = "drain"]
  <2>1. /\ pc[c] = "drain" /\ e \in Eps
        /\ IF MayDrain(c, e) /\ indication[e] # <<>> THEN Moved(c, "indicate", l) ELSE Moved(c, "idle", NoLoc)
    BY <1>6, <2>0, TakeIndicationsBase
  <2>2. IF MayDrain(c, e) /\ indication[e] # <<>>
        THEN /\ draining' = [draining EXCEPT ![e] = TRUE]
             /\ indication' = [indication EXCEPT ![e] = <<>>]
        ELSE /\ draining' = [draining EXCEPT ![e] = @ /\ ~MayDrain(c, e)]
             /\ indication' = indication
    BY <1>6, <2>0 DEF TakeIndications, Drained
  <2>3. draining \in [Eps -> BOOLEAN] /\ indication \in [Eps -> Seq(Messages)] /\ loc[c].done = <<>>
    BY <2>1, ContextIs DEF Base, Types, HoldingContext
  <2>4. ASSUME NEW d \in Contexts, d # c, NEW f
        PROVE  (Drains(d, f)' <=> Drains(d, f)) /\ (Coming(d, f)' <=> Coming(d, f))
    BY <2>1, <2>4, ThreadsAre DEF Moved, Drains, Coming
  <2>5. MayDrain(c, e) <=> loc[c].from = "drain" \/ ~draining[e]
    BY DEF MayDrain
  <2>6. \A f : Drains(c, f) <=> loc[c].from = "drain" /\ f = e
    BY <2>0, <2>1 DEF Drains, DrainsAt
  <2>7. \A d \in Contexts, f \in Eps : Drains(d, f) /\ d # c => Coming(d, f)
    <3>1. ASSUME NEW d \in Contexts, NEW f \in Eps, Drains(d, f) PROVE Coming(d, f)
      <4>1. pc[d] = "drain" => loc[d].done = <<>>
        BY ContextIs DEF HoldingContext
      <4> QED BY <3>1, <4>1 DEF Drains, DrainsAt, Coming, ComingAt
    <3> QED BY <3>1
  <2>8. CASE MayDrain(c, e) /\ indication[e] # <<>>
    <3>1. /\ draining' = [draining EXCEPT ![e] = TRUE]
          /\ indication' = [indication EXCEPT ![e] = <<>>]
          /\ pc'[c] = "indicate" /\ loc'[c] = l
      BY <2>1, <2>2, <2>8 DEF Moved
    <3>2. l.from = "drain" /\ l.doneEp = e
      BY DEF NoLoc
    <3>3. \A f : Drains(c, f)' <=> f = e
      BY <3>1, <3>2 DEF Drains, DrainsAt
    <3>4. \A d \in Contexts : d # c => ~Drains(d, e)
      BY <2>1, <2>5, <2>6, <2>8 DEF Draining
    <3>5. \A f \in Eps : f # e => draining'[f] = draining[f] /\ indication'[f] = indication[f]
      BY <2>3, <3>1
    <3>6. draining'[e] /\ indication'[e] = <<>>
      BY <2>1, <2>3, <3>1
    <3>7. \A f : Coming(c, f) => f = e
      BY <2>0 DEF Coming, ComingAt
    <3> HIDE DEF Drains, Coming
    <3>8. ASSUME NEW f \in Eps
          PROVE  /\ draining'[f] <=> \E d \in Contexts : Drains(d, f)'
                 /\ \A b, d \in Contexts : Drains(b, f)' /\ Drains(d, f)' => b = d
                 /\ indication'[f] # <<>> => \E d \in Contexts : Coming(d, f)'
      <4>1. CASE f = e
        <5>1. \A d \in Contexts : Drains(d, e)' <=> d = c
          BY <2>4, <3>3, <3>4
        <5> QED BY <3>6, <4>1, <5>1
      <4>2. CASE f # e
        <5>1. \A d \in Contexts : /\ Drains(d, f)' <=> Drains(d, f)
                                  /\ Coming(d, f) => Coming(d, f)'
          BY <2>4, <2>6, <3>3, <3>7, <4>2
        <5> QED BY <3>5, <4>2, <5>1 DEF Draining
      <4> QED BY <4>1, <4>2
    <3> QED BY <3>8 DEF Draining
  <2>9. CASE ~(MayDrain(c, e) /\ indication[e] # <<>>)
    <3>1. /\ draining' = [draining EXCEPT ![e] = @ /\ ~MayDrain(c, e)]
          /\ indication' = indication
          /\ pc'[c] = "idle" /\ loc'[c] = NoLoc
      BY <2>1, <2>2, <2>9 DEF Moved
    <3>2. \A f : ~Drains(c, f)'
      BY <3>1 DEF Drains, DrainsAt
    <3>3. \A f \in Eps : f # e => draining'[f] = draining[f]
      BY <2>3, <3>1
    <3>4. draining'[e] <=> draining[e] /\ ~MayDrain(c, e)
      BY <2>1, <2>3, <3>1
    <3>5. \A f : Coming(c, f) => f = e
      BY <2>0 DEF Coming, ComingAt
    <3> HIDE DEF Drains, Coming
    <3>6. ASSUME NEW f \in Eps
          PROVE  /\ draining'[f] <=> \E d \in Contexts : Drains(d, f)'
                 /\ \A b, d \in Contexts : Drains(b, f)' /\ Drains(d, f)' => b = d
                 /\ indication'[f] # <<>> => \E d \in Contexts : Coming(d, f)'
      <4>0. \A b, d \in Contexts : Drains(b, f)' /\ Drains(d, f)' => b = d
        BY <2>4, <3>2 DEF Draining
      <4>1. CASE f = e
        <5>1. CASE MayDrain(c, e)
          <6>1. indication'[e] = <<>> /\ ~draining'[e]
            BY <2>9, <3>1, <3>4, <5>1
          <6>2. \A d \in Contexts : d # c => ~Drains(d, e)
            BY <2>1, <2>5, <2>6, <5>1 DEF Draining
          <6>3. \A d \in Contexts : ~Drains(d, e)'
            BY <2>4, <3>2, <6>2
          <6> QED BY <4>0, <4>1, <6>1, <6>3
        <5>2. CASE ~MayDrain(c, e)
          <6>1. draining[e] /\ draining'[e] /\ loc[c].from # "drain"
            BY <2>5, <3>4, <5>2
          <6>2. PICK d \in Contexts : Drains(d, e)
            BY <2>1, <6>1 DEF Draining
          <6>3. d # c
            BY <2>6, <6>1, <6>2
          <6>4. Drains(d, e)' /\ Coming(d, e)'
            BY <2>1, <2>4, <2>7, <6>2, <6>3
          <6> QED BY <4>0, <4>1, <6>1, <6>4
        <5> QED BY <5>1, <5>2
      <4>2. CASE f # e
        <5>1. \A d \in Contexts : /\ Drains(d, f)' <=> Drains(d, f)
                                  /\ Coming(d, f) => Coming(d, f)'
          BY <2>4, <2>6, <3>2, <3>5, <4>2
        <5> QED BY <3>1, <3>3, <4>0, <4>2, <5>1 DEF Draining
      <4> QED BY <4>1, <4>2
    <3> QED BY <3>6 DEF Draining
  <2> QED BY <2>8, <2>9
<1>7. CASE Indicate(c)
  <2> DEFINE l == [loc[c] EXCEPT !.done = <<>>]
  <2>1. pc[c] = "indicate" /\ Moved(c, "drain", l)
    BY <1>7, IndicateBase
  <2>2. draining' = draining /\ indication' = indication
    BY <1>7 DEF Indicate
  <2>3. loc[c] \in LocalVars /\ loc[c].from = "drain"
    BY <2>1, ContextIs DEF HoldingContext
  <2>4. l.doneEp = loc[c].doneEp /\ l.from = loc[c].from /\ l.done = <<>>
    BY <2>3 DEF LocalVars
  <2> HIDE DEF l
  <2>5. \A e \in Eps : /\ DrainsAt("drain", l, e) <=> DrainsAt(pc[c], loc[c], e)
                       /\ ComingAt(pc[c], loc[c], e) => ComingAt("drain", l, e)
    BY <2>1, <2>3, <2>4 DEF DrainsAt, ComingAt
  <2> QED BY <1>0, <2>1, <2>2, <2>5, DrainKept
<1>8. CASE HandlerStep(c)
  BY <1>0, <1>8, HandlerDraining
<1> QED BY <1>1, <1>2, <1>3, <1>4, <1>5, <1>6, <1>7, <1>8 DEF ContextStep

LEMMA BusDraining ==
    ASSUME Base, Draining, BusStep
    PROVE  Draining'
<1>0. draining' = draining /\ indication' = indication
  BY DEF BusStep, BusWrite, BusStatus, BusRead, BusReadFails, indVars
<1>1. CASE BusWrite
  <2>1. /\ loc' = loc
        /\ \/ pc' = pc
           \/ \E t \in Threads : /\ pc[t] = "waiting" /\ Head(bus).by = t
                                 /\ Moved(t, IF Head(bus).val THEN Enabled(t) ELSE "return", loc[t])
                                 /\ Head(bus).val \/ (t = "dsr" /\ mode = "sync")
    BY <1>1, BusWriteBase
  <2>2. CASE pc' = pc
    BY <1>0, <2>1, <2>2 DEF Draining, Drains, Coming
  <2>3. ASSUME NEW t \in Threads, pc[t] = "waiting",
               Moved(t, IF Head(bus).val THEN Enabled(t) ELSE "return", loc[t]),
               Head(bus).val \/ (t = "dsr" /\ mode = "sync")
        PROVE  Draining'
    <3> DEFINE w == IF Head(bus).val THEN Enabled(t) ELSE "return"
    <3>1. ASSUME t \in Contexts
          PROVE  \A e \in Eps : /\ DrainsAt(w, loc[t], e) <=> DrainsAt(pc[t], loc[t], e)
                                /\ ComingAt(pc[t], loc[t], e) => ComingAt(w, loc[t], e)
      <4>1. w = Enabled(t) /\ t # "user" /\ t # "dsr" /\ loc[t].from # "drain"
        BY <2>3, <3>1, ContextIs, ThreadsAre DEF HoldingContext
      <4>2. w \in {"drain", "complete"} \/ (w = "idle" /\ loc[t].doneEp \notin Eps)
        BY <4>1, ThreadsAre DEF Enabled
      <4> HIDE DEF w
      <4> QED BY <2>3, <4>1, <4>2 DEF DrainsAt, ComingAt
    <3>2. Moved(t, w, loc[t])
      BY <2>3
    <3> HIDE DEF w
    <3> QED BY <1>0, <3>1, <3>2, DrainKept
  <2> QED BY <2>1, <2>2, <2>3
<1>2. ASSUME NEW t, NEW w, NEW l, t \in Threads, Moved(t, w, l), t \in Contexts => pc[t] = "idle" /\ w \notin {"drain", "indicate"}
      PROVE  Draining'
  BY <1>0, <1>2, DrainKept DEF DrainsAt, ComingAt
<1>3. ASSUME NEW t \in Handlers, BusStatus(t) PROVE Draining'
  BY <1>2, <1>3, BusStatusBase, ThreadsAre
<1>4. ASSUME NEW t \in Handlers, BusRead(t) PROVE Draining'
  BY <1>2, <1>4, BusReadBase, ThreadsAre
<1>5. ASSUME NEW t \in Handlers, BusReadFails(t) PROVE Draining'
  BY <1>2, <1>5, BusReadFailsBase, ThreadsAre
<1> QED BY <1>1, <1>3, <1>4, <1>5 DEF BusStep

\* The other steps do not concern it.
LEMMA OthersDraining ==
    ASSUME Base, Draining, NEW t \in {"dsr", "user"}, NEW w, NEW l, Moved(t, w, l),
           UNCHANGED <<draining, indication>>
    PROVE  Draining'
  BY DrainKept, ThreadsAre

LEMMA NextDraining ==
    ASSUME Base, Draining, Next
    PROVE  Draining'
<1>1. CASE (\E e \in Eps : TargetSends(e)) \/ OtherInterrupt
  BY <1>1 DEF TargetSends, OtherInterrupt, indVars, Draining, Drains, Coming
<1>2. ASSUME NEW e \in Eps, AddReceivePkts(e) PROVE Draining'
  <2>1. UNCHANGED <<draining, indication>>
    BY <1>2 DEF AddReceivePkts, indVars
  <2> QED BY <1>2, <2>1, AddReceivePktsBase, OthersDraining
<1>3. CASE UserStep
  <2>1. UNCHANGED <<draining, indication>>
    BY <1>3 DEF UserStep, SetShadow, WriteEnable, indVars
  <2> QED BY <1>3, <2>1, ThreadsAre, SetShadowBase, WriteEnableBase, OthersDraining DEF UserStep
<1>4. CASE DsrStep
  <2>1. CASE HandlerStep("dsr")
    BY <2>1, HandlerDraining, ThreadsAre
  <2>2. CASE ~HandlerStep("dsr")
    <3>1. UNCHANGED <<draining, indication>>
      BY <1>4, <2>2 DEF DsrStep, TakeInterrupt, ReadStatus, ProcessPendingIRQs, MessagesHandled,
        ServiceOthers, IndicateSync, BadHeaderSync, FollowLookAhead, indVars
    <3>2. \E w, l : Moved("dsr", w, l)
      BY <1>4, <2>2, TakeInterruptBase, ReadStatusBase, ProcessPendingIRQsBase, MessagesHandledBase,
         ServiceOthersBase, IndicateSyncBase, BadHeaderSyncBase, FollowLookAheadBase DEF DsrStep
    <3> QED BY <3>1, <3>2, OthersDraining
  <2> QED BY <2>1, <2>2
<1> QED BY <1>1, <1>2, <1>3, <1>4, BusDraining, ContextDraining DEF Next

LEMMA InitDraining == Init => Draining
  BY DEF Init, Draining, Drains, DrainsAt, NoLoc, Threads, Handlers

LEMMA StutterDraining == ASSUME Draining, UNCHANGED vars PROVE Draining'
  BY DEF Draining, Drains, Coming, vars, indVars

\* Every step keeps where the threads can be, and somebody who comes to drain
\* each queue of indications that is not empty.
THEOREM DrainingHolds == Spec => [](Base /\ Draining)
<1>1. Init => Base /\ Draining
  BY InitBase, InitDraining
<1>2. Base /\ Draining /\ [Next]_vars => Base' /\ Draining'
  BY NextBase, NextDraining, StutterBase, StutterDraining
<1> QED BY <1>1, <1>2, PTL DEF Spec

\* When no completion routine runs, DrainRecvIndicationQueue has left nothing to
\* indicate and nobody is taken for a drainer.
THEOREM DrainedWhenQuietCorrect == Spec => []DrainedWhenQuiet
<1>1. Base /\ Draining => DrainedWhenQuiet
  <2> SUFFICES ASSUME Draining, \A c \in Contexts : pc[c] = "idle", NEW e \in Eps
               PROVE  indication[e] = <<>> /\ ~draining[e]
    BY DEF DrainedWhenQuiet, At
  <2>1. \A c \in Contexts : ~Drains(c, e) /\ ~Coming(c, e)
    BY DEF Drains, DrainsAt, Coming, ComingAt
  <2> QED BY <2>1 DEF Draining
<1> QED BY <1>1, DrainingHolds, PTL

-----------------------------------------------------------------------------
(***************************************************************************)
(* What the steps do to messages and buffers.  Most of them move a thread  *)
(* and touch neither.                                                      *)
(***************************************************************************)
\* Nothing is read, and only the chain asks for the status.
QuietBus(t) ==
    \/ bus' = bus
    \/ \E r : bus' = Append(bus, r) /\ r.op # "read" /\ (Live(r) => pc[t] = "more" /\ loc[t].last)
    \/ bus # <<>> /\ bus' = Tail(bus) /\ Head(bus).op # "read"

Untouched == UNCHANGED <<mode, mbox, sent, faults, rxBuffers, withUser, lost, indication, indicated>>

Still == Untouched /\ UNCHANGED <<pc, loc, taken>> /\ \E t \in Threads : pc[t] # "more" /\ QuietBus(t)

\* Where a thread is that has looked ahead.
LooksAt(w) ==
    IF mode = "sync" THEN w # "idle"
    ELSE w \in {"pending", "alloc", "events", "complete", "more"}

\* A thread takes what it has along, or leaves with nothing.
Carried(t, l) ==
    \/ /\ l.done = loc[t].done /\ l.doneEp = loc[t].doneEp /\ l.fetch = loc[t].fetch
       /\ l.ep = loc[t].ep /\ l.last = loc[t].last /\ l.more = loc[t].more
       /\ l.la \in {0, loc[t].la}
    \/ l = NoLoc /\ pc[t] \in {"pending", "return", "others", "events", "drain"}

CalmPlaces(t, w, l) ==
    /\ pc[t] \notin {"indicate", "complete", "recycle", "alloc"}
    /\ w \notin {"indicate", "recycle", "fetch", "more"}
    /\ pc[t] = "fetch" => loc[t].fetch = 0 /\ (mode = "sync" => w = "process")
    /\ pc[t] = "process" => loc[t].done = <<>>
    /\ pc[t] = "waiting" => bus # <<>> /\ bus' = Tail(bus) /\ Head(bus).by = t /\ Head(bus).op = "write"
    /\ t \in Contexts /\ w = "idle" => l.done = <<>>
    /\ w = "complete" => pc[t] = "waiting"

CalmDuty(t, w, l) ==
    /\ mode = "async" /\ HoldsAt(t, w, l) => Holds(t) \/ (~taken /\ taken')
    /\ \/ taken' = taken
       \/ ~taken
       \/ mode = "async" => Holds(t)
    /\ t \in Handlers /\ l.la > 0 => LooksAt(w) \/ ~LooksAt(pc[t])

Calm(t, w, l) ==
    Moved(t, w, l) /\ Untouched /\ QuietBus(t) /\ Carried(t, l) /\ CalmPlaces(t, w, l) /\ CalmDuty(t, w, l)

LEMMA StillOthers == ASSUME Base, OtherInterrupt \/ UNCHANGED vars PROVE Still
<1>1. UNCHANGED <<mode, mbox, sent, faults, rxBuffers, withUser, lost, indication, indicated, pc, loc, taken, bus>>
  BY DEF OtherInterrupt, vars, deviceVars, bufVars, indVars, irqVars
<1>2. "user" \in Threads /\ pc["user"] # "more"
  BY ThreadIs, ThreadsAre DEF Good, MayBe, UserPlaces
<1> QED BY <1>1, <1>2 DEF Still, Untouched, QuietBus

LEMMA CalmWrite ==
    ASSUME Base, BusWrite
    PROVE  Still \/ \E t \in Threads : \E w, l : Calm(t, w, l)
<1>1. /\ UNCHANGED <<mode, mbox, sent, faults, rxBuffers, withUser, lost, indication, indicated, taken>>
      /\ bus # <<>> /\ bus' = Tail(bus) /\ Head(bus).op = "write" /\ loc' = loc
  BY BusWriteBase DEF BusWrite, irqVars, bufVars, indVars
<1>2. CASE pc' = pc
  <2>1. "user" \in Threads /\ pc["user"] # "more"
    BY ThreadIs, ThreadsAre DEF Good, MayBe, UserPlaces
  <2> QED BY <1>1, <1>2, <2>1 DEF Still, Untouched, QuietBus
<1>3. ASSUME NEW t \in Threads, pc[t] = "waiting", Head(bus).by = t,
             Moved(t, IF Head(bus).val THEN Enabled(t) ELSE "return", loc[t]),
             Head(bus).val \/ (t = "dsr" /\ mode = "sync"),
             t = "dsr" => mode = "sync"
      PROVE  \E w, l : Calm(t, w, l)
  <2> DEFINE w == IF Head(bus).val THEN Enabled(t) ELSE "return"
             l == loc[t]
  <2>1. Good(t, "waiting", loc[t]) /\ mode \in {"sync", "async"} /\ loc[t] \in LocalVars
    BY <1>3, ThreadIs
  <2>2. /\ w \in {"idle", "check", "complete", "drain", "return"}
        /\ w = "check" \/ w = "return" => t = "dsr"
        /\ t = "dsr" => w \in {"check", "return"}
        /\ w = "complete" => loc[t].done # <<>> /\ t \in Contexts
        /\ t \in Contexts /\ w = "idle" => loc[t].done = <<>>
    BY <1>3, ThreadsAre DEF Enabled
  <2>3. Untouched /\ QuietBus(t) /\ Carried(t, l)
    BY <1>1 DEF Untouched, QuietBus, Carried
  <2>4. CalmPlaces(t, w, l)
    BY <1>1, <1>3, <2>2 DEF CalmPlaces
  <2>5. mode = "async" => ~HoldsAt(t, w, l)
    <3>1. w = "complete" => ~l.more
      BY <2>1, <2>2 DEF Good, HoldingContext
    <3> QED BY <1>3, <2>2, <3>1 DEF HoldsAt
  <2>6. CalmDuty(t, w, l)
    <3>1. t \in Contexts => mode = "async"
      BY <2>1 DEF Good, MayBe
    <3>2. t \in Handlers => LooksAt(w) \/ ~LooksAt(pc[t])
      BY <1>3, <2>1, <2>2, <3>1, ThreadsAre DEF LooksAt
    <3> QED BY <1>1, <2>5, <3>2 DEF CalmDuty
  <2> HIDE DEF w, l
  <2> QED BY <1>3, <2>3, <2>4, <2>5, <2>6 DEF Calm, w, l
<1> QED BY <1>2, <1>3, BusWriteBase

\* The steps of a message handler that move nothing.
LEMMA CalmHandler ==
    ASSUME Base, NEW t \in Threads, AllFetched(t) \/ CheckWaiting(t) \/ SetShadow(t) \/ WriteEnable(t),
           t = "user" => SetShadow(t) \/ WriteEnable(t)
    PROVE  \E w, l : Calm(t, w, l)
<1>1. Good(t, pc[t], loc[t]) /\ mode \in {"sync", "async"} /\ loc[t] \in LocalVars
  BY ThreadIs
<1>2. Untouched /\ taken' = taken
  BY DEF AllFetched, CheckWaiting, SetShadow, WriteEnable, Untouched, deviceVars, irqVars, bufVars, indVars
<1>3. CASE AllFetched(t)
  <2> DEFINE w == IF mode = "sync" THEN "process" ELSE "check"
  <2>1. pc[t] = "fetch" /\ loc[t].fetch = 0 /\ Moved(t, w, loc[t]) /\ bus' = bus
    BY <1>3, AllFetchedBase DEF AllFetched
  <2>2. mode = "async" => (HoldsAt(t, w, loc[t]) => HoldsAt(t, "fetch", loc[t]))
    BY DEF HoldsAt
  <2>3. t \in Handlers
    BY <1>1, <2>1, ThreadsAre DEF Good, MayBe, UserPlaces
  <2>4. CalmDuty(t, w, loc[t])
    BY <1>1, <1>2, <2>1, <2>2, <2>3 DEF CalmDuty, LooksAt, Holds
  <2>5. CalmPlaces(t, w, loc[t]) /\ Carried(t, loc[t]) /\ QuietBus(t)
    BY <1>1, <2>1 DEF CalmPlaces, Carried, QuietBus
  <2> QED BY <1>2, <2>1, <2>4, <2>5 DEF Calm
<1>4. CASE CheckWaiting(t)
  <2> DEFINE w == IF waiting THEN "stop" ELSE "return"
  <2>1. pc[t] = "check" /\ Moved(t, w, loc[t]) /\ bus' = bus
    BY <1>4, CheckWaitingBase DEF CheckWaiting
  <2>2. mode = "async" => (HoldsAt(t, w, loc[t]) => HoldsAt(t, "check", loc[t]))
    BY DEF HoldsAt
  <2>3. t \in Handlers
    BY <1>1, <2>1, ThreadsAre DEF Good, MayBe, UserPlaces
  <2>4. CalmDuty(t, w, loc[t])
    BY <1>1, <1>2, <2>1, <2>2, <2>3 DEF CalmDuty, LooksAt, Holds
  <2>5. CalmPlaces(t, w, loc[t]) /\ Carried(t, loc[t]) /\ QuietBus(t)
    BY <1>1, <2>1 DEF CalmPlaces, Carried, QuietBus
  <2> QED BY <1>2, <2>1, <2>4, <2>5 DEF Calm
<1>5. CASE SetShadow(t)
  <2> DEFINE w == IF pc[t] = "enable" THEN "write on" ELSE "write off"
  <2>1. pc[t] \in {"enable", "stop"} /\ Moved(t, w, loc[t]) /\ bus' = bus
    BY <1>5, SetShadowBase DEF SetShadow
  <2>2. mode = "async" => (HoldsAt(t, w, loc[t]) => HoldsAt(t, pc[t], loc[t]))
    BY <2>1 DEF HoldsAt
  <2>3. mode = "async" /\ HoldsAt(t, w, loc[t]) => t \in Handlers
    BY <1>1, <2>1, ThreadsAre DEF Good, MayBe, UserPlaces, HoldsAt
  <2>4. CalmDuty(t, w, loc[t])
    BY <1>1, <1>2, <2>1, <2>2, <2>3 DEF CalmDuty, LooksAt, Holds
  <2>5. CalmPlaces(t, w, loc[t]) /\ Carried(t, loc[t]) /\ QuietBus(t)
    BY <1>1, <2>1 DEF CalmPlaces, Carried, QuietBus
  <2> QED BY <1>2, <2>1, <2>4, <2>5 DEF Calm
<1>6. CASE WriteEnable(t)
  <2>1. PICK r : bus' = Append(bus, r) /\ r.op = "write"
    BY <1>6, WriteEnableBase
  <2>2. PICK w \in {"waiting", "return"} :
           /\ Moved(t, w, loc[t]) /\ pc[t] \in {"write on", "write off"}
           /\ w = "waiting" /\ t = "dsr" => mode = "sync"
           /\ w = "return" => pc[t] = "write off"
    BY <1>6, WriteEnableBase
  <2>3. /\ mode = "async" => (HoldsAt(t, w, loc[t]) => HoldsAt(t, pc[t], loc[t]))
        /\ mode = "async" /\ HoldsAt(t, w, loc[t]) => t \in Handlers
    BY <1>1, <2>2, ThreadsAre DEF Good, MayBe, UserPlaces, HoldsAt
  <2>4. CalmDuty(t, w, loc[t])
    BY <1>1, <1>2, <2>2, <2>3 DEF CalmDuty, LooksAt, Holds
  <2>5. CalmPlaces(t, w, loc[t]) /\ Carried(t, loc[t])
    BY <1>1, <2>2 DEF CalmPlaces, Carried
  <2>6. QuietBus(t)
    BY <2>1 DEF QuietBus, Live
  <2> QED BY <1>2, <2>2, <2>4, <2>5, <2>6 DEF Calm
<1> QED BY <1>3, <1>4, <1>5, <1>6

\* Those of the handler.
LEMMA CalmDsr ==
    ASSUME Base, Chain, TakeInterrupt \/ ReadStatus \/ ProcessPendingIRQs \/ MessagesHandled
                        \/ ServiceOthers \/ FollowLookAhead
    PROVE  \E w, l : Calm("dsr", w, l)
<1> DEFINE t == "dsr"
           k == loc["dsr"]
<1>1. Good(t, pc[t], k) /\ mode \in {"sync", "async"} /\ k \in LocalVars /\ t \in Threads /\ t \in Handlers
      /\ t \notin Contexts
  BY ThreadIs, ThreadsAre
<1>2. Untouched
  BY DEF TakeInterrupt, ReadStatus, ProcessPendingIRQs, MessagesHandled, ServiceOthers, FollowLookAhead,
         Untouched, deviceVars, irqVars, bufVars, indVars
<1>3. Carried(t, k)
  BY DEF Carried
<1>a. ASSUME bus' = bus \/ \E r : bus' = Append(bus, r) /\ r.op = "status" /\ r.by = t PROVE QuietBus(t)
  BY <1>1, <1>a, ThreadsAre DEF QuietBus, Live
<1> HIDE DEF k
<1>4. CASE TakeInterrupt
  <2>1. pc[t] = "idle" /\ Moved(t, "status", k) /\ bus' = bus /\ ~taken /\ taken' = (mode = "async")
    BY <1>4, TakeInterruptBase DEF TakeInterrupt, k
  <2>2. CalmPlaces(t, "status", k) /\ CalmDuty(t, "status", k)
    BY <1>1, <2>1 DEF CalmPlaces, CalmDuty, LooksAt
  <2> QED BY <1>2, <1>3, <1>a, <2>1, <2>2 DEF Calm
<1>5. CASE ReadStatus
  <2>1. pc[t] = "status" /\ Moved(t, "waiting", k) /\ taken' = taken
        /\ \E r : bus' = Append(bus, r) /\ r.op = "status" /\ r.by = t
    BY <1>5, ReadStatusBase DEF ReadStatus, irqVars, k
  <2>2. CalmPlaces(t, "waiting", k) /\ CalmDuty(t, "waiting", k)
    BY <1>1, <2>1 DEF CalmPlaces, CalmDuty, LooksAt, Holds, HoldsAt
  <2> QED BY <1>2, <1>3, <1>a, <2>1, <2>2 DEF Calm
<1>6. CASE ProcessPendingIRQs
  <2>1. pc[t] = "pending" /\ bus' = bus /\ Holds(t)
    BY <1>1, <1>6, ProcessPendingIRQsBase, Zenon DEF ProcessPendingIRQs, Holds, HoldsAt
  <2>2. CASE Moved(t, "idle", NoLoc)
    <3>1. CalmPlaces(t, "idle", NoLoc) /\ CalmDuty(t, "idle", NoLoc) /\ Carried(t, NoLoc)
      BY <1>1, <2>1 DEF CalmPlaces, CalmDuty, LooksAt, HoldsAt, Carried, NoLoc
    <3> QED BY <1>2, <1>a, <2>1, <2>2, <3>1 DEF Calm
  <2>3. ASSUME NEW w \in {"alloc", "others"}, NEW l \in LocalVars, UNCHANGED <<taken, acks>>,
               Moved(t, w, l), SameBut(l, k), l.ep = k.ep, l.la \in {0, k.la}, w = "others" => l.la = 0
        PROVE  \E w2, l2 : Calm(t, w2, l2)
    <3>1. CalmPlaces(t, w, l) /\ CalmDuty(t, w, l) /\ Carried(t, l)
      BY <1>1, <2>1, <2>3 DEF CalmPlaces, CalmDuty, LooksAt, Carried, SameBut, k
    <3> QED BY <1>2, <1>a, <2>1, <2>3, <3>1 DEF Calm
  <2> QED BY <1>6, <2>2, <2>3, ProcessPendingIRQsBase DEF k
<1>7. CASE MessagesHandled
  <2>1. pc[t] = "return" /\ bus' = bus /\ taken' = taken
    BY <1>7, MessagesHandledBase DEF MessagesHandled
  <2>2. CASE Moved(t, "idle", NoLoc) /\ mode = "sync"
    <3>1. CalmPlaces(t, "idle", NoLoc) /\ CalmDuty(t, "idle", NoLoc) /\ Carried(t, NoLoc)
      BY <1>1, <2>1, <2>2 DEF CalmPlaces, CalmDuty, LooksAt, HoldsAt, Carried, NoLoc
    <3> QED BY <1>2, <1>a, <2>1, <2>2, <3>1 DEF Calm
  <2>3. CASE Moved(t, "others", [k EXCEPT !.async = mode = "async" /\ k.total # 0])
    <3>1. PICK l : l = [k EXCEPT !.async = mode = "async" /\ k.total # 0]
      OBVIOUS
    <3>2. /\ l.done = k.done /\ l.doneEp = k.doneEp /\ l.fetch = k.fetch /\ l.ep = k.ep /\ l.last = k.last
          /\ l.more = k.more /\ l.la = k.la /\ l.async = (mode = "async" /\ k.total # 0)
      BY <1>1, <3>1 DEF LocalVars
    <3>3. mode = "async" /\ HoldsAt(t, "others", l) => HoldsAt(t, "return", k)
      BY <3>2 DEF HoldsAt
    <3>4. CalmPlaces(t, "others", l) /\ CalmDuty(t, "others", l) /\ Carried(t, l)
      BY <1>1, <2>1, <3>2, <3>3 DEF CalmPlaces, CalmDuty, LooksAt, Carried, Holds, k
    <3> QED BY <1>2, <1>a, <2>1, <2>3, <3>1, <3>4 DEF Calm
  <2> QED BY <1>7, <2>2, <2>3, MessagesHandledBase DEF k
<1>8. CASE ServiceOthers
  <2>1. pc[t] = "others" /\ bus' = bus
    BY <1>8, ServiceOthersBase DEF ServiceOthers
  <2>2. PICK w \in {"status", "idle"} :
          /\ Moved(t, w, NoLoc) /\ (w = "status" => ~k.async)
          /\ taken' = taken \/ ~k.async
    BY <1>8, ServiceOthersBase DEF k
  <2>3. mode = "async" => (~k.async => Holds(t)) /\ ~HoldsAt(t, "idle", NoLoc)
    BY <1>1, <2>1 DEF Holds, HoldsAt, k
  <2>4. CalmPlaces(t, w, NoLoc) /\ CalmDuty(t, w, NoLoc) /\ Carried(t, NoLoc)
    BY <1>1, <2>1, <2>2, <2>3 DEF CalmPlaces, CalmDuty, LooksAt, Carried, NoLoc
  <2>5. QuietBus("dsr")
    BY <1>a, <2>1
  <2>6. Calm("dsr", w, NoLoc)
    BY <1>2, <2>2, <2>4, <2>5 DEF Calm
  <2> QED BY <2>6
<1>9. CASE FollowLookAhead
  <2> DEFINE w == IF k.la > 0 THEN "alloc" ELSE "check"
  <2>1. pc[t] = "process" /\ Moved(t, w, k) /\ bus' = bus /\ taken' = taken /\ mode = "sync" /\ k.done = <<>>
    BY <1>9, FollowLookAheadBase DEF FollowLookAhead, k
  <2>2. CalmPlaces(t, w, k) /\ CalmDuty(t, w, k)
    BY <1>1, <2>1 DEF CalmPlaces, CalmDuty, LooksAt, k
  <2> QED BY <1>2, <1>3, <1>a, <2>1, <2>2 DEF Calm
<1> QED BY <1>4, <1>5, <1>6, <1>7, <1>8, <1>9

\* Those of a completion routine.
TakesNone(c) == TakeIndications(c) /\ ~(MayDrain(c, loc[c].doneEp) /\ indication[loc[c].doneEp] # <<>>)
TakesAll(c) == TakeIndications(c) /\ MayDrain(c, loc[c].doneEp) /\ indication[loc[c].doneEp] # <<>>

LEMMA CalmContext ==
    ASSUME Base, Chain, NEW c \in Contexts,
           CheckMorePackets(c) \/ HandleEvents(c) \/ ChainContinues(c) \/ TakesNone(c)
    PROVE  \E w, l : Calm(c, w, l)
<1> DEFINE k == loc[c]
<1>0. pc[c] # "idle"
  BY DEF CheckMorePackets, HandleEvents, ChainContinues, TakesNone, TakeIndications, At
<1>1. /\ c \in Threads /\ mode = "async" /\ k \in LocalVars /\ Good(c, pc[c], k)
      /\ HoldingContext(pc[c], k) /\ c # "dsr" /\ c # "user" /\ c \in Handlers
  BY <1>0, ContextIs, ThreadsAre
<1>2. Untouched
  <2>1. UNCHANGED <<mode, mbox, sent, faults, rxBuffers, withUser, lost, indicated>>
    BY DEF CheckMorePackets, HandleEvents, ChainContinues, TakesNone, TakeIndications, deviceVars, bufVars, indVars
  <2>2. indication' = indication
    BY DEF CheckMorePackets, HandleEvents, ChainContinues, TakesNone, TakeIndications, indVars, Drained
  <2> QED BY <2>1, <2>2 DEF Untouched
<1> HIDE DEF k
<1>3. CASE CheckMorePackets(c)
  <2>1. pc[c] = "more" /\ (k.last => Holds(c)) /\ k.more
    BY <1>1, <1>3, CheckMorePacketsBase DEF Holds, HoldsAt, k, HoldingContext
  <2>2. CASE k.la > 0 /\ k.last /\ Moved(c, "alloc", [k EXCEPT !.from = "more"]) /\ UNCHANGED <<taken, acks, bus>>
    <3>1. PICK l : l = [k EXCEPT !.from = "more"]
      OBVIOUS
    <3>2. Carried(c, l) /\ CalmPlaces(c, "alloc", l) /\ CalmDuty(c, "alloc", l)
      BY <1>1, <2>1, <2>2, <3>1 DEF Carried, CalmPlaces, CalmDuty, LooksAt, LocalVars, k
    <3> QED BY <1>2, <2>2, <3>1, <3>2 DEF Calm, QuietBus
  <2>3. CASE /\ Moved(c, "drain", k) /\ k.la = 0
             /\ \/ k.last /\ UNCHANGED <<taken, acks>>
                   /\ bus' = Append(bus, Request("status", Nobody, NoEp, 0, FALSE, FALSE))
                \/ k.last /\ Ack /\ bus' = bus
                \/ ~k.last /\ UNCHANGED <<taken, acks, bus>>
    <3>1. Carried(c, k)
      BY DEF Carried, k
    <3>2. CalmPlaces(c, "drain", k)
      BY <1>1, <2>1 DEF CalmPlaces
    <3>3. taken' = taken \/ Holds(c)
      BY <2>1, <2>3
    <3>4. mode = "async" => ~HoldsAt(c, "drain", k)
      BY <1>1 DEF HoldsAt
    <3>5. CalmDuty(c, "drain", k)
      BY <1>1, <2>3, <3>3, <3>4 DEF CalmDuty
    <3>6. QuietBus(c)
      BY <2>1, <2>3 DEF QuietBus, Request, k
    <3>7. Calm(c, "drain", k)
      BY <1>2, <2>3, <3>1, <3>2, <3>5, <3>6 DEF Calm
    <3> QED BY <3>7
  <2>4. \/ k.la = 0
        \/ k.la > 0 /\ k.last /\ Moved(c, "alloc", [k EXCEPT !.from = "more"]) /\ UNCHANGED <<taken, acks, bus>>
    <3>1. k.la \in Nat
      BY <1>1, ThreadsAre DEF LocalVars
    <3>2. k.la > 0 => pc' = [pc EXCEPT ![c] = "alloc"]
      BY <1>3 DEF CheckMorePackets, Goto, k
    <3>3. pc'[c] = "drain" => ~(k.la > 0)
      BY <1>1, <3>2 DEF Base, Types
    <3>4. Moved(c, "drain", k) => ~(k.la > 0)
      BY <3>3 DEF Moved
    <3>5. CASE k.la > 0
      BY <1>3, <3>4, <3>5, CheckMorePacketsBase DEF k
    <3>6. CASE ~(k.la > 0)
      BY <3>1, <3>6
    <3> QED BY <3>5, <3>6
  <2> QED BY <1>3, <2>2, <2>3, <2>4, CheckMorePacketsBase DEF k, Moved
<1>4. CASE HandleEvents(c)
  <2>1. pc[c] = "events" /\ Holds(c) /\ bus' = bus
    BY <1>1, <1>4, HandleEventsBase DEF Holds, HoldsAt, HandleEvents
  <2>2. CASE Ack /\ Moved(c, "idle", NoLoc)
    <3>1. Carried(c, NoLoc) /\ CalmPlaces(c, "idle", NoLoc) /\ CalmDuty(c, "idle", NoLoc)
      BY <1>1, <2>1 DEF Carried, CalmPlaces, CalmDuty, LooksAt, HoldsAt, NoLoc
    <3> QED BY <1>2, <2>1, <2>2, <3>1 DEF Calm, QuietBus
  <2>3. CASE UNCHANGED <<taken, acks>> /\ Moved(c, "alloc", [k EXCEPT !.from = "events"])
    <3>1. PICK l : l = [k EXCEPT !.from = "events"]
      OBVIOUS
    <3>2. Carried(c, l) /\ CalmPlaces(c, "alloc", l) /\ CalmDuty(c, "alloc", l)
      BY <1>1, <2>1, <2>3, <3>1 DEF Carried, CalmPlaces, CalmDuty, LooksAt, LocalVars, k
    <3> QED BY <1>2, <2>1, <2>3, <3>1, <3>2 DEF Calm, QuietBus
  <2> QED BY <1>4, <2>2, <2>3, HandleEventsBase DEF k
<1>5. CASE ChainContinues(c)
  <2>1. pc[c] = "return" /\ bus' = bus /\ (k.total = 0 => Holds(c)) /\ (k.total # 0 => taken' = taken)
    BY <1>1, <1>5, ChainContinuesBase DEF Holds, HoldsAt, ChainContinues, k
  <2>2. ASSUME NEW w, NEW l, (w = "drain" /\ l = k) \/ (w = "idle" /\ l = NoLoc), Moved(c, w, l)
        PROVE  \E w2, l2 : Calm(c, w2, l2)
    <3>1. Carried(c, l)
      BY <2>1, <2>2 DEF Carried, k
    <3>2. CalmPlaces(c, w, l)
      <4>1. w = "idle" => l.done = <<>>
        BY <2>2 DEF NoLoc
      <4> QED BY <1>1, <2>1, <2>2, <4>1 DEF CalmPlaces
    <3>3. mode = "async" => ~HoldsAt(c, w, l)
      BY <1>1, <2>2 DEF HoldsAt
    <3>4. taken' = taken \/ Holds(c)
      BY <2>1
    <3>5. ~LooksAt(pc[c])
      BY <1>1, <2>1 DEF LooksAt
    <3>6. CalmDuty(c, w, l)
      BY <1>1, <3>3, <3>4, <3>5 DEF CalmDuty
    <3>7. QuietBus(c)
      BY <2>1 DEF QuietBus
    <3> QED BY <1>2, <2>2, <3>1, <3>2, <3>6, <3>7 DEF Calm
  <2>3. CASE Moved(c, "drain", k)
    <3>1. PICK w, l : w = "drain" /\ l = k /\ Moved(c, w, l)
      BY <2>3
    <3> QED BY <2>2, <3>1
  <2>4. CASE Moved(c, "idle", NoLoc)
    BY <2>2, <2>4
  <2> QED BY <1>5, <2>3, <2>4, ChainContinuesBase DEF k
<1>6. CASE TakesNone(c)
  <2>1. pc[c] = "drain" /\ bus' = bus /\ taken' = taken /\ Moved(c, "idle", NoLoc)
    BY <1>6, TakeIndicationsBase DEF TakesNone, TakeIndications, irqVars
  <2>2. Carried(c, NoLoc) /\ CalmPlaces(c, "idle", NoLoc) /\ CalmDuty(c, "idle", NoLoc)
    BY <1>1, <2>1 DEF Carried, CalmPlaces, CalmDuty, LooksAt, HoldsAt, NoLoc
  <2> QED BY <1>2, <2>1, <2>2 DEF Calm, QuietBus
<1> QED BY <1>3, <1>4, <1>5, <1>6

\* A step is calm, or it is one of these.
Busy ==
    \/ \E e \in Eps : TargetSends(e) \/ AddReceivePkts(e)
    \/ \E t \in Handlers : \/ BusStatus(t) \/ BusRead(t) \/ BusReadFails(t)
                            \/ RecyclePkts(t) \/ AllocPackets(t) \/ FetchPackets(t)
    \/ IndicateSync \/ BadHeaderSync
    \/ \E c \in Contexts : QueueIndication(c) \/ BadHeader(c) \/ TakesAll(c) \/ Indicate(c)

LEMMA NextIs ==
    ASSUME Base, Chain, [Next]_vars
    PROVE  Still \/ Busy \/ \E t \in Threads : \E w, l : Calm(t, w, l)
<1>1. CASE OtherInterrupt \/ UNCHANGED vars
  BY <1>1, StillOthers
<1>2. CASE \E e \in Eps : TargetSends(e) \/ AddReceivePkts(e)
  BY <1>2 DEF Busy
<1>3. CASE BusStep
  BY <1>3, CalmWrite DEF BusStep, Busy
<1>4. ASSUME NEW t \in Handlers, HandlerStep(t) PROVE Busy \/ \E w, l : Calm(t, w, l)
  <2>1. t \in Threads /\ t # "user"
    BY ThreadsAre
  <2>2. CASE AllFetched(t) \/ CheckWaiting(t) \/ SetShadow(t) \/ WriteEnable(t)
    BY <2>1, <2>2, CalmHandler
  <2>3. CASE AllocPackets(t) \/ FetchPackets(t) \/ RecyclePkts(t)
    BY <2>3 DEF Busy
  <2> QED BY <1>4, <2>2, <2>3 DEF HandlerStep
<1>5. CASE DsrStep
  BY <1>4, <1>5, ThreadsAre, CalmDsr DEF DsrStep, Busy
<1>6. CASE UserStep
  BY <1>6, ThreadsAre, CalmHandler DEF UserStep
<1>7. ASSUME NEW c \in Contexts, ContextStep(c) PROVE Busy \/ \E t \in Threads : \E w, l : Calm(t, w, l)
  <2>1. c \in Handlers /\ c \in Threads
    BY ThreadsAre
  <2>2. TakeIndications(c) => TakesNone(c) \/ TakesAll(c)
    BY DEF TakesNone, TakesAll
  <2>3. CASE CheckMorePackets(c) \/ HandleEvents(c) \/ ChainContinues(c) \/ TakesNone(c)
    BY <2>1, <2>3, CalmContext
  <2>4. CASE QueueIndication(c) \/ BadHeader(c) \/ TakesAll(c) \/ Indicate(c)
    BY <2>4 DEF Busy
  <2> QED BY <1>4, <1>7, <2>1, <2>2, <2>3, <2>4 DEF ContextStep
<1> QED BY <1>1, <1>2, <1>3, <1>5, <1>6, <1>7 DEF Next

-----------------------------------------------------------------------------
(***************************************************************************)
(* The reads on the bus, and how much they ask for.                        *)
(***************************************************************************)
NoReads == \A i \in DOMAIN bus : bus[i].op # "read"

\* What the requests of b ask of the endpoints in E.
Weights(b, E) == [i \in DOMAIN b |-> IF b[i].op = "read" /\ b[i].ep \in E THEN b[i].n ELSE 0]

LEMMA RequestType ==
    ASSUME NEW b \in Seq(BusRequests), NEW i \in DOMAIN b
    PROVE  b[i] \in BusRequests /\ b[i].n \in Nat /\ b[i].ep \in Eps \cup {NoEp}
<1>1. b[i] \in BusRequests
  OBVIOUS
<1> QED BY <1>1, ThreadsAre DEF BusRequests

LEMMA WeightsAre ==
    ASSUME NEW b \in Seq(BusRequests), NEW E
    PROVE  /\ Weights(b, E) \in [1..Len(b) -> Nat] /\ Total(Weights(b, E)) \in Nat
           /\ \A i \in DOMAIN b : Weights(b, E)[i] <= Total(Weights(b, E))
           /\ Total(Weights(b, E)) = 0 <=> \A i \in DOMAIN b : Weights(b, E)[i] = 0
<1>1. \A i \in DOMAIN b : b[i].n \in Nat
  BY RequestType
<1>2. DOMAIN b = 1..Len(b) /\ Len(b) \in Int /\ 1 \in Int
  OBVIOUS
<1>3. Weights(b, E) \in [1..Len(b) -> Nat]
  BY <1>1, <1>2 DEF Weights
<1>4. PICK S : S = 1..Len(b)
  OBVIOUS
<1>5. IsFiniteSet(S)
  BY <1>2, <1>4, FS_Interval
<1>6. PICK f \in [S -> Nat] : f = Weights(b, E)
  BY <1>3, <1>4
<1>7. Total(f) \in Nat /\ (Total(f) = 0 <=> \A i \in S : f[i] = 0)
  BY <1>5, <1>6, TotalIs, TotalZero
<1>8. ASSUME NEW i \in S PROVE f[i] <= Total(f)
  BY <1>5, <1>6, TotalStep
<1> QED BY <1>2, <1>3, <1>4, <1>6, <1>7, <1>8

LEMMA WeightsAppend ==
    ASSUME NEW b \in Seq(BusRequests), NEW E, NEW r \in BusRequests
    PROVE  /\ Total(Weights(Append(b, r), E)) =
                Total(Weights(b, E)) + (IF r.op = "read" /\ r.ep \in E THEN r.n ELSE 0)
<1>1. PICK d \in Seq(BusRequests) : d = Append(b, r)
  <2>1. Append(b, r) \in Seq(BusRequests)
    OBVIOUS
  <2> QED BY <2>1
<1>2. PICK n \in Nat : n = Len(b)
  OBVIOUS
<1>3. Len(d) = n + 1 /\ d[n + 1] = r /\ (\A i \in 1..n : d[i] = b[i]) /\ DOMAIN d = 1..(n + 1) /\ DOMAIN b = 1..n
  BY <1>1, <1>2
<1>4. PICK f \in [1..n -> Nat] : f = Weights(b, E)
  BY <1>2, WeightsAre
<1>5. PICK g \in [1..(n + 1) -> Nat] : g = Weights(d, E)
  BY <1>3, WeightsAre
<1>6. (\A i \in 1..n : g[i] = f[i]) /\ g[n + 1] = IF r.op = "read" /\ r.ep \in E THEN r.n ELSE 0
  BY <1>3, <1>4, <1>5 DEF Weights
<1>7. Total(g) = Total(f) + g[n + 1]
  BY <1>6, TotalAppend
<1> QED BY <1>1, <1>4, <1>5, <1>6, <1>7

LEMMA WeightsTail ==
    ASSUME NEW b \in Seq(BusRequests), NEW E, b # <<>>
    PROVE  /\ Total(Weights(b, E)) =
                Total(Weights(Tail(b), E)) + (IF b[1].op = "read" /\ b[1].ep \in E THEN b[1].n ELSE 0)
<1>1. PICK d \in Seq(BusRequests) : d = Tail(b)
  <2>1. Tail(b) \in Seq(BusRequests)
    OBVIOUS
  <2> QED BY <2>1
<1>2. PICK n \in Nat : n = Len(d)
  OBVIOUS
<1>3. Len(b) = n + 1 /\ (\A i \in 1..n : d[i] = b[i + 1]) /\ DOMAIN b = 1..(n + 1) /\ DOMAIN d = 1..n
  BY <1>1, <1>2
<1>4. PICK f \in [1..(n + 1) -> Nat] : f = Weights(b, E)
  BY <1>3, WeightsAre
<1>5. PICK g \in [1..n -> Nat] : g = Weights(d, E)
  BY <1>2, WeightsAre
<1>6. (\A i \in 1..n : g[i] = f[i + 1]) /\ f[1] = IF b[1].op = "read" /\ b[1].ep \in E THEN b[1].n ELSE 0
  BY <1>3, <1>4, <1>5 DEF Weights
<1>7. Total(f) = Total(g) + f[1]
  BY <1>6, TotalTail
<1> QED BY <1>1, <1>4, <1>5, <1>6, <1>7

\* All that is asked for, and what of an endpoint.
LEMMA Asks ==
    ASSUME NEW b \in Seq(BusRequests), \A i \in DOMAIN b : b[i].op = "read" => b[i].ep \in Eps /\ b[i].n > 0
    PROVE  /\ [i \in DOMAIN b |-> IF b[i].op = "read" THEN b[i].n ELSE 0] = Weights(b, Eps)
           /\ \A e \in Eps : /\ [i \in DOMAIN b |-> IF b[i].op = "read" /\ b[i].ep = e THEN b[i].n ELSE 0]
                                    = Weights(b, {e})
                              /\ Total(Weights(b, {e})) \in Nat
           /\ Total(Weights(b, Eps)) \in Nat
           /\ Total(Weights(b, Eps)) = 0 <=> \A i \in DOMAIN b : b[i].op # "read"
           /\ \A i \in DOMAIN b : b[i].op = "read" => b[i].n <= Total(Weights(b, Eps))
<1>1. [i \in DOMAIN b |-> IF b[i].op = "read" THEN b[i].n ELSE 0] = Weights(b, Eps)
  BY DEF Weights
<1>2. ASSUME NEW e \in Eps
      PROVE  /\ [i \in DOMAIN b |-> IF b[i].op = "read" /\ b[i].ep = e THEN b[i].n ELSE 0] = Weights(b, {e})
             /\ Total(Weights(b, {e})) \in Nat
  BY WeightsAre DEF Weights
<1>3. /\ Total(Weights(b, Eps)) \in Nat /\ \A i \in DOMAIN b : Weights(b, Eps)[i] <= Total(Weights(b, Eps))
      /\ Total(Weights(b, Eps)) = 0 <=> \A i \in DOMAIN b : Weights(b, Eps)[i] = 0
  BY WeightsAre
<1>4. \A i \in DOMAIN b : Weights(b, Eps)[i] = IF b[i].op = "read" THEN b[i].n ELSE 0
  BY <1>1
<1>5. \A i \in DOMAIN b : b[i].n \in Nat
  BY RequestType
<1>6. \A i \in DOMAIN b : Weights(b, Eps)[i] = 0 <=> b[i].op # "read"
  BY <1>4, <1>5
<1> QED BY <1>1, <1>2, <1>3, <1>4, <1>6

LEMMA AskedAre ==
    ASSUME Base
    PROVE  /\ AllAsked = Total(Weights(bus, Eps)) /\ AllAsked \in Nat
           /\ \A e \in Eps : Asked(e) = Total(Weights(bus, {e})) /\ Asked(e) \in Nat
           /\ AllAsked = 0 <=> NoReads
           /\ \A i \in DOMAIN bus : bus[i].op = "read" => bus[i].n <= AllAsked
<1>1. PICK b \in Seq(BusRequests) : b = bus
  BY DEF Base, Types
<1>2. \A i \in DOMAIN b : b[i].op = "read" => b[i].ep \in Eps /\ b[i].n > 0
  BY <1>1 DEF Base, Requests, Requested
<1> QED BY <1>1, <1>2, Asks DEF AllAsked, Asked, NoReads

LEMMA AskedAreNext ==
    ASSUME Base'
    PROVE  /\ AllAsked' = Total(Weights(bus', Eps)) /\ AllAsked' \in Nat
           /\ \A e \in Eps : Asked(e)' = Total(Weights(bus', {e})) /\ Asked(e)' \in Nat
           /\ AllAsked' = 0 <=> NoReads'
           /\ \A i \in DOMAIN bus' : bus'[i].op = "read" => bus'[i].n <= AllAsked'
<1>1. PICK b \in Seq(BusRequests) : b = bus'
  BY DEF Base, Types
<1>2. \A i \in DOMAIN b : b[i].op = "read" => b[i].ep \in Eps /\ b[i].n > 0
  BY <1>1 DEF Base, Requests, Requested
<1> QED BY <1>1, <1>2, Asks DEF AllAsked, Asked, NoReads

\* A request is submitted.
LEMMA AskedAppend ==
    ASSUME Base, Base', NEW r, bus' = Append(bus, r)
    PROVE  /\ r \in BusRequests /\ DOMAIN bus' = 1..(Len(bus) + 1) /\ bus'[Len(bus) + 1] = r
           /\ DOMAIN bus = 1..Len(bus) /\ Len(bus) \in Nat /\ \A i \in 1..Len(bus) : bus'[i] = bus[i]
           /\ AllAsked' = AllAsked + (IF r.op = "read" THEN r.n ELSE 0)
           /\ \A e \in Eps : Asked(e)' = Asked(e) + (IF r.op = "read" /\ r.ep = e THEN r.n ELSE 0)
<1>1. bus \in Seq(BusRequests) /\ bus' \in Seq(BusRequests)
  BY DEF Base, Types
<1>2. /\ DOMAIN bus' = 1..(Len(bus) + 1) /\ bus'[Len(bus) + 1] = r
      /\ DOMAIN bus = 1..Len(bus) /\ Len(bus) \in Nat /\ \A i \in 1..Len(bus) : bus'[i] = bus[i]
  BY <1>1
<1>3. r \in BusRequests /\ (r.op = "read" => r.ep \in Eps)
  <2>1. Len(bus) + 1 \in DOMAIN bus' /\ bus'[Len(bus) + 1] \in BusRequests
    BY <1>1, <1>2
  <2> QED BY <1>2, <2>1 DEF Base, Requests, Requested
<1>4. PICK b \in Seq(BusRequests) : b = bus
  BY <1>1
<1>5. PICK d \in Seq(BusRequests) : d = bus' /\ d = Append(b, r)
  BY <1>1, <1>4
<1>6. AllAsked' = AllAsked + (IF r.op = "read" THEN r.n ELSE 0)
  <2>1. AllAsked = Total(Weights(b, Eps)) /\ AllAsked' = Total(Weights(d, Eps))
    BY <1>4, <1>5, AskedAre, AskedAreNext
  <2> QED BY <1>3, <1>5, <2>1, WeightsAppend
<1>7. ASSUME NEW e \in Eps
      PROVE  Asked(e)' = Asked(e) + (IF r.op = "read" /\ r.ep = e THEN r.n ELSE 0)
  <2>1. Asked(e) = Total(Weights(b, {e})) /\ Asked(e)' = Total(Weights(d, {e}))
    BY <1>4, <1>5, AskedAre, AskedAreNext
  <2>2. Total(Weights(d, {e})) = Total(Weights(b, {e})) + (IF r.op = "read" /\ r.ep \in {e} THEN r.n ELSE 0)
    BY <1>3, <1>5, WeightsAppend
  <2> QED BY <2>1, <2>2
<1> QED BY <1>2, <1>3, <1>6, <1>7

\* The first request is carried out.
LEMMA AskedTail ==
    ASSUME Base, Base', bus # <<>>, bus' = Tail(bus)
    PROVE  /\ Head(bus) = bus[1] /\ 1 \in DOMAIN bus /\ bus[1] \in BusRequests /\ Requested(bus[1])
           /\ \A i \in DOMAIN bus' : i \in Nat /\ i + 1 \in DOMAIN bus /\ bus'[i] = bus[i + 1]
           /\ \A i \in DOMAIN bus : i \in Nat /\ (i # 1 => i - 1 \in DOMAIN bus' /\ bus'[i - 1] = bus[i])
           /\ AllAsked = AllAsked' + (IF bus[1].op = "read" THEN bus[1].n ELSE 0)
           /\ \A e \in Eps : Asked(e) = Asked(e)' + (IF bus[1].op = "read" /\ bus[1].ep = e THEN bus[1].n ELSE 0)
<1>1. bus \in Seq(BusRequests) /\ bus' \in Seq(BusRequests)
  BY DEF Base, Types
<1>2. /\ Head(bus) = bus[1] /\ 1 \in DOMAIN bus /\ bus[1] \in BusRequests
      /\ \A i \in DOMAIN bus' : i \in Nat /\ i + 1 \in DOMAIN bus /\ bus'[i] = bus[i + 1]
  BY <1>1
<1>8. ASSUME NEW i \in DOMAIN bus, i # 1 PROVE i - 1 \in DOMAIN bus' /\ bus'[i - 1] = bus[i]
  BY <1>1, <1>8
<1>3. Requested(bus[1]) /\ (bus[1].op = "read" => bus[1].ep \in Eps)
  BY <1>2 DEF Base, Requests, Requested
<1>4. PICK b \in Seq(BusRequests) : b = bus
  BY <1>1
<1>5. PICK d \in Seq(BusRequests) : d = bus' /\ d = Tail(b) /\ b # <<>>
  BY <1>1, <1>4
<1>6. AllAsked = AllAsked' + (IF bus[1].op = "read" THEN bus[1].n ELSE 0)
  <2>1. AllAsked = Total(Weights(b, Eps)) /\ AllAsked' = Total(Weights(d, Eps))
    BY <1>4, <1>5, AskedAre, AskedAreNext
  <2> QED BY <1>3, <1>4, <1>5, <2>1, WeightsTail
<1>7. ASSUME NEW e \in Eps
      PROVE  Asked(e) = Asked(e)' + (IF bus[1].op = "read" /\ bus[1].ep = e THEN bus[1].n ELSE 0)
  <2>1. Asked(e) = Total(Weights(b, {e})) /\ Asked(e)' = Total(Weights(d, {e}))
    BY <1>4, <1>5, AskedAre, AskedAreNext
  <2>2. Total(Weights(b, {e})) = Total(Weights(d, {e})) + (IF b[1].op = "read" /\ b[1].ep \in {e} THEN b[1].n ELSE 0)
    BY <1>5, WeightsTail
  <2> QED BY <1>4, <2>1, <2>2
<1> QED BY <1>1, <1>2, <1>3, <1>6, <1>7, <1>8

\* Where nothing is read, what is asked for stays.
LEMMA QuietAsked ==
    ASSUME Base, Base', NEW t, QuietBus(t)
    PROVE  /\ AllAsked' = AllAsked /\ \A e \in Eps : Asked(e)' = Asked(e)
           /\ \A i \in DOMAIN bus' : bus'[i].op = "read" => \E j \in DOMAIN bus : bus[j] = bus'[i]
           /\ \A j \in DOMAIN bus : bus[j].op = "read" => \E i \in DOMAIN bus' : bus[j] = bus'[i]
           /\ NoReads' <=> NoReads
<1>0. AllAsked \in Nat /\ AllAsked' \in Nat /\ \A e \in Eps : Asked(e) \in Nat /\ Asked(e)' \in Nat
  <2>1. AllAsked \in Nat /\ \A e \in Eps : Asked(e) \in Nat
    BY AskedAre
  <2>2. AllAsked' \in Nat /\ \A e \in Eps : Asked(e)' \in Nat
    BY AskedAreNext
  <2> QED BY <2>1, <2>2
<1>1. CASE bus' = bus
  BY <1>1 DEF AllAsked, Asked, NoReads
<1>2. CASE \E r : bus' = Append(bus, r) /\ r.op # "read"
  <2>1. PICK r : bus' = Append(bus, r) /\ r.op # "read"
    BY <1>2
  <2>2. /\ r \in BusRequests /\ DOMAIN bus' = 1..(Len(bus) + 1) /\ bus'[Len(bus) + 1] = r
        /\ DOMAIN bus = 1..Len(bus) /\ Len(bus) \in Nat /\ \A i \in 1..Len(bus) : bus'[i] = bus[i]
        /\ AllAsked' = AllAsked + 0
        /\ \A e \in Eps : Asked(e)' = Asked(e) + 0
    BY <2>1, AskedAppend
  <2>3. \A i \in DOMAIN bus' : i = Len(bus) + 1 \/ i \in 1..Len(bus)
    BY <2>2
  <2>4. \A i \in 1..Len(bus) : i \in DOMAIN bus'
    BY <2>2
  <2> QED BY <1>0, <2>1, <2>2, <2>3, <2>4 DEF NoReads
<1>3. CASE bus # <<>> /\ bus' = Tail(bus) /\ Head(bus).op # "read"
  <2>1. /\ Head(bus) = bus[1]
        /\ \A i \in DOMAIN bus' : i \in Nat /\ i + 1 \in DOMAIN bus /\ bus'[i] = bus[i + 1]
        /\ \A i \in DOMAIN bus : i # 1 => i - 1 \in DOMAIN bus' /\ bus'[i - 1] = bus[i]
        /\ AllAsked = AllAsked' + 0
        /\ \A e \in Eps : Asked(e) = Asked(e)' + 0
    BY <1>3, AskedTail
  <2>2. bus[1].op # "read"
    BY <1>3, <2>1
  <2>3. \A j \in DOMAIN bus : bus[j].op = "read" => j - 1 \in DOMAIN bus' /\ bus'[j - 1] = bus[j]
    BY <2>1, <2>2
  <2>4. AllAsked' = AllAsked /\ \A e \in Eps : Asked(e)' = Asked(e)
    <3>1. AllAsked' = AllAsked
      <4>1. AllAsked = AllAsked' + 0
        BY <2>1
      <4>2. PICK x \in Nat : x = AllAsked'
        BY <1>0
      <4>3. PICK y \in Nat : y = AllAsked
        BY <1>0
      <4>4. y = x + 0
        BY <4>1, <4>2, <4>3
      <4>5. y = x
        BY <4>4
      <4> QED BY <4>2, <4>3, <4>5
    <3>2. ASSUME NEW e \in Eps PROVE Asked(e)' = Asked(e)
      <4>1. Asked(e) = Asked(e)' + 0
        BY <2>1
      <4>2. PICK x \in Nat : x = Asked(e)'
        BY <1>0
      <4> QED BY <4>1, <4>2
    <3> QED BY <3>1, <3>2
  <2>5. \A j \in DOMAIN bus : bus[j].op = "read" => \E i \in DOMAIN bus' : bus[j] = bus'[i]
    BY <2>3
  <2>6. \A i \in DOMAIN bus' : bus'[i].op = "read" => \E j \in DOMAIN bus : bus[j] = bus'[i]
    BY <2>1
  <2> QED BY <2>4, <2>5, <2>6 DEF NoReads
<1> QED BY <1>1, <1>2, <1>3 DEF QuietBus

-----------------------------------------------------------------------------
(***************************************************************************)
(* Where a thread may be that has messages or packets to fetch.            *)
(***************************************************************************)
WaitsForRead(t) == pc[t] = "waiting" /\ \E i \in DOMAIN bus : bus[i].op = "read" /\ bus[i].by = t

Hands ==
    /\ \A c \in Contexts : pc[c] = "idle" => loc[c].done = <<>>
    /\ loc["user"].done = <<>> /\ loc["user"].fetch = 0
    /\ loc["dsr"].done # <<>> => mode = "sync" /\ (pc["dsr"] \in {"fetch", "process"} \/ WaitsForRead("dsr"))
    /\ loc["dsr"].fetch > 0 => pc["dsr"] \in {"fetch", "recycle"} \/ WaitsForRead("dsr")

LEMMA WaitsKept ==
    ASSUME Base, Base', NEW t \in Threads, QuietBus(t), pc'["dsr"] = pc["dsr"], WaitsForRead("dsr")
    PROVE  WaitsForRead("dsr")'
  BY QuietAsked DEF WaitsForRead

\* A thread that waits for the receiver to be enabled does not wait for messages.
LEMMA WaitsOnce ==
    ASSUME Base, NEW t \in Threads, bus # <<>>, Head(bus).by = t, Head(bus).op # "read"
    PROVE  \A i \in DOMAIN bus : bus[i].op = "read" => bus[i].by # t
<1>1. Head(bus) = bus[1] /\ 1 \in DOMAIN bus
  BY DEF Base, Types
<1> QED BY <1>1, ThreadsAre DEF Base, Requests

\* In asynchronous mode nobody waits for messages.
LEMMA WaitsInSync ==
    ASSUME Base, NEW t \in Threads, WaitsForRead(t)
    PROVE  mode = "sync" /\ t = "dsr"
  BY ThreadsAre DEF WaitsForRead, Base, Requests, Requested

LEMMA HandsStill ==
    ASSUME Base, Base', Hands, Still
    PROVE  Hands'
  BY WaitsKept DEF Hands, Still, Untouched

LEMMA HandsCalm ==
    ASSUME Base, Base', Hands, NEW t \in Threads, NEW w, NEW l, Calm(t, w, l)
    PROVE  Hands'
<1>1. Moved(t, w, l) /\ QuietBus(t) /\ mode' = mode /\ Carried(t, l) /\ CalmPlaces(t, w, l)
  BY DEF Calm, Untouched
<1>2. l.done = <<>> \/ l.done = loc[t].done
  BY <1>1 DEF Carried, NoLoc
<1>3. l.fetch = 0 \/ l.fetch = loc[t].fetch
  BY <1>1 DEF Carried, NoLoc
<1>4. CASE t # "dsr"
  <2>1. pc'["dsr"] = pc["dsr"] /\ loc'["dsr"] = loc["dsr"]
    BY <1>1, <1>4, ThreadsAre DEF Moved
  <2>2. WaitsForRead("dsr") => WaitsForRead("dsr")'
    BY <1>1, <2>1, WaitsKept
  <2>3. loc'["user"].done = <<>> /\ loc'["user"].fetch = 0
    BY <1>1, <1>2, <1>3, ThreadsAre DEF Moved, Hands
  <2>4. ASSUME NEW c \in Contexts, pc'[c] = "idle" PROVE loc'[c].done = <<>>
    BY <1>1, <2>4, ThreadsAre DEF Moved, Hands, CalmPlaces
  <2> QED BY <1>1, <2>1, <2>2, <2>3, <2>4 DEF Hands
<1>5. CASE t = "dsr"
  <2>1. ~WaitsForRead("dsr")
    BY <1>1, <1>5, WaitsOnce DEF CalmPlaces, WaitsForRead
  <2>2. l.done # <<>> => mode = "sync" /\ w = "process"
    BY <1>1, <1>2, <1>5, <2>1 DEF Hands, CalmPlaces
  <2>3. l.fetch = 0
    <3>1. loc["dsr"].fetch \in Nat
      BY ThreadIs, ThreadsAre DEF LocalVars
    <3> QED BY <1>1, <1>3, <1>5, <2>1, <3>1 DEF Hands, CalmPlaces
  <2>4. \A u \in Threads : u # "dsr" => pc'[u] = pc[u] /\ loc'[u] = loc[u]
    BY <1>1, <1>5 DEF Moved
  <2>5. pc'["dsr"] = w /\ loc'["dsr"] = l
    BY <1>1, <1>5 DEF Moved
  <2>6. /\ \A c \in Contexts : pc'[c] = "idle" => loc'[c].done = <<>>
        /\ loc'["user"].done = <<>> /\ loc'["user"].fetch = 0
    BY <2>4, ThreadsAre DEF Hands
  <2> QED BY <1>1, <2>2, <2>3, <2>5, <2>6 DEF Hands
<1> QED BY <1>4, <1>5

\* A context of the HIF moves; the handler does not wait.
LEMMA HandsContext ==
    ASSUME Base, Base', Hands, mode' = mode, NEW c \in Contexts, NEW w, NEW l, Moved(c, w, l),
           mode = "async", w = "idle" => l.done = <<>>
    PROVE  Hands'
<1>1. pc'["dsr"] = pc["dsr"] /\ loc'["dsr"] = loc["dsr"] /\ loc'["user"] = loc["user"]
  BY ThreadsAre DEF Moved
<1>2. ~WaitsForRead("dsr")
  BY WaitsInSync, ThreadsAre
<1>3. \A d \in Contexts : pc'[d] = "idle" => loc'[d].done = <<>>
  BY ThreadsAre DEF Moved, Hands
<1> QED BY <1>1, <1>2, <1>3 DEF Hands

LEMMA HandsDsr ==
    ASSUME Base, Base', Hands, mode' = mode, NEW w, NEW l, Moved("dsr", w, l),
           l.done # <<>> => mode = "sync" /\ (w \in {"fetch", "process"} \/ WaitsForRead("dsr")'),
           l.fetch > 0 => w \in {"fetch", "recycle"} \/ WaitsForRead("dsr")'
    PROVE  Hands'
<1>1. pc'["dsr"] = w /\ loc'["dsr"] = l /\ loc'["user"] = loc["user"]
  BY ThreadsAre DEF Moved
<1>3. \A d \in Contexts : pc'[d] = "idle" => loc'[d].done = <<>>
  BY ThreadsAre DEF Moved, Hands
<1> QED BY <1>1, <1>3 DEF Hands

LEMMA HandsBusy ==
    ASSUME Base, Base', Hands, Busy
    PROVE  Hands'
<1>0. mode' = mode
  BY DEF Busy, TargetSends, AddReceivePkts, BusStatus, BusRead, BusReadFails, RecyclePkts, AllocPackets,
         FetchPackets, IndicateSync, BadHeaderSync, QueueIndication, BadHeader, TakesAll, TakeIndications, Indicate
<1>1. ASSUME NEW e \in Eps, TargetSends(e) PROVE Hands'
  <2>1. UNCHANGED <<pc, loc, bus>>
    BY <1>1 DEF TargetSends
  <2> QED BY <1>0, <2>1 DEF Hands, WaitsForRead
<1>2. ASSUME NEW e \in Eps, AddReceivePkts(e) PROVE Hands'
  <2>1. PICK w : Moved("user", w, loc["user"])
    BY <1>2, AddReceivePktsBase
  <2>2. bus' = bus /\ pc'["dsr"] = pc["dsr"] /\ \A t \in Threads : loc'[t] = loc[t] /\ (t \in Contexts => pc'[t] = pc[t])
    BY <1>2, <2>1, ThreadsAre DEF AddReceivePkts, Moved
  <2> QED BY <1>0, <2>2, ThreadsAre DEF Hands, WaitsForRead
<1>3. ASSUME NEW t \in Handlers, BusStatus(t) PROVE Hands'
  <2>1. PICK w, l : /\ Moved(t, w, l) /\ SameBut(l, [NoLoc EXCEPT !.other = other])
                    /\ t = "dsr" => w = "pending"
                    /\ t # "dsr" => t \in Contexts /\ w = "events" /\ Head(bus).by = Nobody
    BY <1>3, BusStatusBase
  <2>2. l.done = <<>> /\ l.fetch = 0
    BY <2>1 DEF SameBut, NoLoc
  <2>3. CASE t = "dsr"
    BY <1>0, <2>1, <2>2, <2>3, HandsDsr
  <2>4. CASE t # "dsr"
    <3>1. mode = "async"
      <4>1. bus # <<>> /\ Head(bus).op = "status"
        BY <1>3 DEF BusStatus
      <4>2. Head(bus) = bus[1] /\ 1 \in DOMAIN bus
        BY <4>1 DEF Base, Types
      <4> QED BY <2>1, <2>4, <4>1, <4>2 DEF Base, Requests, Requested, Nobody
    <3> QED BY <1>0, <2>1, <2>2, <2>4, <3>1, HandsContext
  <2> QED BY <2>3, <2>4
<1>4. ASSUME NEW t \in Handlers, BusRead(t) PROVE Hands'
  <2>1. PICK w, l : /\ Moved(t, w, l)
                    /\ \/ t = "dsr" /\ mode = "sync" /\ w = "fetch"
                       \/ t \in Contexts /\ mode = "async" /\ w = "complete"
    BY <1>4, BusReadBase, ZenonT(30)
  <2> QED BY <1>0, <2>1, HandsDsr, HandsContext
<1>5. ASSUME NEW t \in Handlers, BusReadFails(t) PROVE Hands'
  <2>1. PICK l : /\ Moved(t, "recycle", l) /\ l.done = <<>>
                 /\ \/ t = "dsr" /\ mode = "sync"
                    \/ t \in Contexts /\ mode = "async"
    BY <1>5, BusReadFailsBase
  <2> QED BY <1>0, <2>1, HandsDsr, HandsContext
<1>6. ASSUME NEW t \in Handlers, RecyclePkts(t) PROVE Hands'
  <2>0. t \in Threads /\ loc[t] \in LocalVars
    BY ThreadsAre, ThreadIs
  <2>1. PICK w, l : /\ Moved(t, w, l) /\ l = [loc[t] EXCEPT !.fetch = 0] /\ w \in {"enable", Enabled(t)}
                    /\ pc[t] = "recycle"
    BY <1>6, <2>0, RecyclePktsBase
  <2>2. l.fetch = 0 /\ l.done = loc[t].done
    BY <2>0, <2>1 DEF LocalVars
  <2>3. CASE t = "dsr"
    <3>1. l.done = <<>>
      BY <2>1, <2>2, <2>3 DEF Hands, WaitsForRead
    <3>2. ~(l.fetch > 0)
      BY <2>2
    <3>3. Moved("dsr", w, l)
      BY <2>1, <2>3
    <3> QED BY <1>0, <3>1, <3>2, <3>3, HandsDsr
  <2>4. CASE t # "dsr"
    <3>1. t \in Contexts /\ t # "user"
      BY <2>4, ThreadsAre
    <3>2. w = "idle" => l.done = <<>>
      BY <2>1, <2>2, <2>4, <3>1 DEF Enabled
    <3>3. mode = "async"
      BY <2>1, <3>1, ContextIs
    <3> QED BY <1>0, <2>1, <3>1, <3>2, <3>3, HandsContext
  <2> QED BY <2>3, <2>4
<1>7. ASSUME NEW t \in Handlers, AllocPackets(t) PROVE Hands'
  <2>0. t \in Threads /\ loc[t] \in LocalVars
    BY ThreadsAre, ThreadIs
  <2>1. PICK l : /\ Moved(t, "fetch", l) /\ l = [loc[t] EXCEPT !.la = 0, !.fetch = Allocates(loc[t]),
                                                               !.total = @ + Allocates(loc[t])]
                 /\ pc[t] = "alloc"
    BY <1>7, <2>0, AllocPacketsBase
  <2>2. l.done = loc[t].done
    BY <2>0, <2>1 DEF LocalVars
  <2>3. CASE t = "dsr"
    <3>1. l.done = <<>>
      BY <2>1, <2>2, <2>3 DEF Hands, WaitsForRead
    <3> QED BY <1>0, <2>1, <2>3, <3>1, HandsDsr
  <2>4. CASE t # "dsr"
    <3>1. t \in Contexts /\ mode = "async"
      BY <2>1, <2>4, ThreadsAre, ContextIs
    <3> QED BY <1>0, <2>1, <3>1, HandsContext
  <2> QED BY <2>3, <2>4
<1>8. ASSUME NEW t \in Handlers, FetchPackets(t) PROVE Hands'
  <2>0. t \in Threads /\ loc[t] \in LocalVars
    BY ThreadsAre, ThreadIs
  <2>5. PICK n \in {1, loc[t].fetch} :
           /\ Moved(t, IF mode = "sync" THEN "waiting" ELSE "fetch", [loc[t] EXCEPT !.fetch = @ - n])
           /\ bus' = Append(bus, Request("read", IF mode = "sync" THEN t ELSE Nobody, loc[t].ep,
                                         n, n = loc[t].fetch, FALSE))
    BY <1>8, <2>0, FetchPacketsBase
  <2>6. pc[t] = "fetch" /\ (mode = "sync" => t = "dsr")
    BY <1>8, <2>0, FetchPacketsBase
  <2>1. PICK w, l :
           /\ Moved(t, w, l) /\ w = IF mode = "sync" THEN "waiting" ELSE "fetch"
           /\ l = [loc[t] EXCEPT !.fetch = @ - n]
           /\ bus' = Append(bus, Request("read", IF mode = "sync" THEN t ELSE Nobody, loc[t].ep,
                                         n, n = loc[t].fetch, FALSE))
           /\ pc[t] = "fetch" /\ (mode = "sync" => t = "dsr")
    BY <2>5, <2>6
  <2>2. l.done = loc[t].done
    BY <2>0, <2>1 DEF LocalVars
  <2>3. CASE t = "dsr"
    <3>1. mode = "sync" => WaitsForRead("dsr")'
      <4>1. ASSUME mode = "sync" PROVE WaitsForRead("dsr")'
        <5>1. PICK r : bus' = Append(bus, r) /\ r.op = "read" /\ r.by = "dsr"
          BY <2>1, <2>3, <4>1 DEF Request
        <5>2. bus'[Len(bus) + 1] = r /\ Len(bus) + 1 \in DOMAIN bus'
          BY <5>1, AskedAppend
        <5>3. pc'["dsr"] = "waiting"
          BY <2>1, <2>3, <4>1 DEF Moved
        <5> QED BY <5>1, <5>2, <5>3 DEF WaitsForRead
      <4> QED BY <4>1
    <3>2. l.done # <<>> => mode = "sync"
      BY <2>2, <2>3 DEF Hands
    <3>3. mode # "sync" => w = "fetch"
      BY <2>1
    <3> QED BY <1>0, <2>1, <2>3, <3>1, <3>2, <3>3, HandsDsr
  <2>4. CASE t # "dsr"
    <3>1. t \in Contexts /\ mode = "async" /\ w # "idle"
      BY <2>1, <2>4, ThreadsAre, ContextIs
    <3> QED BY <1>0, <2>1, <3>1, HandsContext
  <2> QED BY <2>3, <2>4
<1>9. CASE IndicateSync
  <2>0. "dsr" \in Threads /\ loc["dsr"] \in LocalVars
    BY ThreadsAre, ThreadIs
  <2>1. PICK l : /\ Moved("dsr", "process", l) /\ l = [loc["dsr"] EXCEPT !.done = Tail(@)] /\ mode = "sync"
                 /\ pc["dsr"] = "process"
    BY <1>9, IndicateSyncBase
  <2>2. l.fetch = loc["dsr"].fetch
    BY <2>0, <2>1 DEF LocalVars
  <2>3. ~(l.fetch > 0)
    BY <2>1, <2>2 DEF Hands, WaitsForRead
  <2> QED BY <1>0, <2>1, <2>3, HandsDsr
<1>10. CASE BadHeaderSync
  <2>0. "dsr" \in Threads /\ loc["dsr"] \in LocalVars
    BY ThreadsAre, ThreadIs
  <2>1. PICK l : /\ Moved("dsr", "recycle", l)
                 /\ l = [loc["dsr"] EXCEPT !.done = <<>>, !.ep = loc["dsr"].doneEp, !.la = 0, !.ok = FALSE,
                                           !.fetch = Len(loc["dsr"].done) - 1]
    BY <1>10, BadHeaderSyncBase
  <2>2. l.done = <<>>
    BY <2>0, <2>1 DEF LocalVars
  <2> QED BY <1>0, <2>1, <2>2, HandsDsr
<1>11. ASSUME NEW c \in Contexts, QueueIndication(c) \/ BadHeader(c) \/ TakesAll(c) \/ Indicate(c)
       PROVE  Hands'
  <2>1. pc[c] # "idle"
    BY <1>11 DEF QueueIndication, BadHeader, TakesAll, TakeIndications, Indicate, At
  <2>2. mode = "async" /\ c \in Threads
    BY <2>1, ContextIs
  <2>3. \E w, l : Moved(c, w, l) /\ w # "idle"
    <3>1. CASE QueueIndication(c)
      <4>1. PICK w : w = IF loc[c].more THEN "more" ELSE "drain"
        OBVIOUS
      <4>2. PICK l : Moved(c, w, l)
        BY <3>1, <4>1, QueueIndicationBase
      <4> QED BY <4>1, <4>2
    <3>2. CASE BadHeader(c)
      <4>1. PICK l : Moved(c, "recycle", l)
        BY <3>2, BadHeaderBase
      <4> QED BY <4>1
    <3>3. CASE TakesAll(c)
      <4>1. PICK l : Moved(c, "indicate", l)
        BY <3>3, TakeIndicationsBase DEF TakesAll
      <4> QED BY <4>1
    <3>4. CASE Indicate(c)
      <4>1. PICK l : Moved(c, "drain", l)
        BY <3>4, IndicateBase
      <4> QED BY <4>1
    <3> QED BY <1>11, <3>1, <3>2, <3>3, <3>4
  <2> QED BY <1>0, <2>2, <2>3, HandsContext
<1> QED BY <1>1, <1>2, <1>3, <1>4, <1>5, <1>6, <1>7, <1>8, <1>9, <1>10, <1>11 DEF Busy

LEMMA NextHands ==
    ASSUME Base, Chain, Base', Hands, [Next]_vars
    PROVE  Hands'
  BY NextIs, HandsStill, HandsCalm, HandsBusy

LEMMA InitHands == Init => Hands
  BY ThreadsAre DEF Init, Hands, NoLoc

-----------------------------------------------------------------------------
(***************************************************************************)
(* The messages asked for are the first of the mailbox.                    *)
(***************************************************************************)
Ahead(q, n, e) == n <= Len(q) /\ \A k \in 1..n : q[k].ep = e

ReadsFor(e) == \A i \in DOMAIN bus : bus[i].op = "read" => bus[i].ep = e

\* The request that continues the chain is the last read.
ReadsLast == \A i, j \in DOMAIN bus : Live(bus[i]) /\ bus[j].op = "read" => bus[i].op = "read" /\ j <= i

\* A thread is at its requests.
Asking(w, l) == w = "fetch" /\ l.fetch > 0

OnBus ==
    /\ ReadsLast
    /\ \A i \in DOMAIN bus : bus[i].op = "read" => bus[i].n = 1 \/ bus[i].last
    /\ mode = "async" /\ ~NoReads => taken
    /\ mode = "async" => \A t \in Handlers : Holds(t) /\ ~Asking(pc[t], loc[t]) => NoReads
    /\ FetchesAnnounced

\* What thread t is about to ask for, has looked at, and waits for.
Fetching(t) ==
    /\ Asking(pc[t], loc[t]) =>
         /\ Ahead(mbox, AllAsked + loc[t].fetch, loc[t].ep) /\ ReadsFor(loc[t].ep) /\ loc[t].la = 0
         /\ loc[t].done # <<>> => loc[t].doneEp = loc[t].ep
    /\ loc[t].la > 0 => LooksAt(pc[t]) /\ NoReads /\ Ahead(mbox, loc[t].la, loc[t].ep)
    /\ \A i \in DOMAIN bus : bus[i].op = "read" /\ bus[i].by = t =>
         /\ loc[t].ep = bus[i].ep /\ Ahead(mbox, AllAsked + loc[t].fetch, loc[t].ep)
         /\ bus[i].last <=> loc[t].fetch = 0
         /\ loc[t].done # <<>> => loc[t].doneEp = loc[t].ep

Reading == OnBus /\ \A t \in Handlers : Fetching(t)

LEMMA AnnouncedIs ==
    FetchesAnnounced <=> \A i \in DOMAIN bus : bus[i].op = "read" => Ahead(mbox, AllAsked, bus[i].ep)
  BY DEF FetchesAnnounced, Ahead

LEMMA AnnouncedNext ==
    FetchesAnnounced' <=> \A i \in DOMAIN bus' : bus'[i].op = "read" => Ahead(mbox', AllAsked', bus'[i].ep)
  BY DEF FetchesAnnounced, Ahead

LEMMA AheadLess ==
    ASSUME NEW q, NEW n \in Nat, NEW m \in Nat, m <= n, NEW e, Len(q) \in Nat, Ahead(q, n, e)
    PROVE  Ahead(q, m, e)
  BY DEF Ahead

LEMMA ReadsLastQuiet ==
    ASSUME Base, Base', ReadsLast, NEW t, QuietBus(t), pc[t] = "more" /\ loc[t].last => NoReads
    PROVE  ReadsLast'
<1> SUFFICES ASSUME NEW i \in DOMAIN bus', NEW j \in DOMAIN bus', Live(bus'[i]), bus'[j].op = "read"
             PROVE  bus'[i].op = "read" /\ j <= i
  BY DEF ReadsLast, Live
<1>0. ~NoReads'
  BY DEF NoReads
<1>1. CASE bus' = bus
  BY <1>1 DEF ReadsLast
<1>2. ASSUME NEW r, bus' = Append(bus, r), r.op # "read", Live(r) => pc[t] = "more" /\ loc[t].last
      PROVE  bus'[i].op = "read" /\ j <= i
  <2>1. /\ DOMAIN bus' = 1..(Len(bus) + 1) /\ bus'[Len(bus) + 1] = r
        /\ DOMAIN bus = 1..Len(bus) /\ Len(bus) \in Nat /\ \A k \in 1..Len(bus) : bus'[k] = bus[k]
    BY <1>2, AskedAppend
  <2>2. ~Live(r)
    BY <1>0, <1>2, QuietAsked
  <2>3. i # Len(bus) + 1 /\ j # Len(bus) + 1
    BY <1>2, <2>1, <2>2
  <2>4. i \in DOMAIN bus /\ j \in DOMAIN bus /\ bus'[i] = bus[i] /\ bus'[j] = bus[j]
    BY <2>1, <2>3
  <2> QED BY <2>4 DEF ReadsLast
<1>3. CASE bus # <<>> /\ bus' = Tail(bus)
  <2>1. /\ i \in Nat /\ i + 1 \in DOMAIN bus /\ bus'[i] = bus[i + 1]
        /\ j \in Nat /\ j + 1 \in DOMAIN bus /\ bus'[j] = bus[j + 1]
    BY <1>3, AskedTail
  <2>2. bus[i + 1].op = "read" /\ j + 1 <= i + 1
    BY <2>1 DEF ReadsLast
  <2> QED BY <2>1, <2>2
<1> QED BY <1>1, <1>2, <1>3 DEF QuietBus

LEMMA ReadsLastTail ==
    ASSUME Base, Base', ReadsLast, bus # <<>>, bus' = Tail(bus)
    PROVE  ReadsLast'
<1> SUFFICES ASSUME NEW i \in DOMAIN bus', NEW j \in DOMAIN bus', Live(bus'[i]), bus'[j].op = "read"
             PROVE  bus'[i].op = "read" /\ j <= i
  BY DEF ReadsLast, Live
<1>1. /\ i \in Nat /\ i + 1 \in DOMAIN bus /\ bus'[i] = bus[i + 1]
      /\ j \in Nat /\ j + 1 \in DOMAIN bus /\ bus'[j] = bus[j + 1]
  BY AskedTail
<1>2. bus[i + 1].op = "read" /\ j + 1 <= i + 1
  BY <1>1 DEF ReadsLast
<1> QED BY <1>1, <1>2

\* A thread to which nothing happens.
LEMMA FetchingKept ==
    ASSUME NEW u \in Handlers, Fetching(u), pc'[u] = pc[u], loc'[u] = loc[u], mode' = mode,
           loc[u].fetch \in Nat,
           \A n \in Nat : \A e : Ahead(mbox, AllAsked + n, e) => Ahead(mbox', AllAsked' + n, e),
           Asking(pc[u], loc[u]) => (ReadsFor(loc[u].ep) => ReadsFor(loc[u].ep)'),
           loc[u].la > 0 => NoReads' /\ (Ahead(mbox, loc[u].la, loc[u].ep) => Ahead(mbox', loc[u].la, loc[u].ep)),
           \A i \in DOMAIN bus' : bus'[i].op = "read" /\ bus'[i].by = u => \E j \in DOMAIN bus : bus[j] = bus'[i]
    PROVE  Fetching(u)'
<1>1. Asking(pc[u], loc[u])' <=> Asking(pc[u], loc[u])
  BY DEF Asking
<1>2. LooksAt(pc[u])' <=> LooksAt(pc[u])
  BY DEF LooksAt
<1>3. ASSUME Asking(pc[u], loc[u])
      PROVE  /\ Ahead(mbox', AllAsked' + loc'[u].fetch, loc'[u].ep) /\ ReadsFor(loc[u].ep)' /\ loc'[u].la = 0
             /\ loc'[u].done # <<>> => loc'[u].doneEp = loc'[u].ep
  BY <1>3 DEF Fetching
<1>4. ASSUME loc[u].la > 0
      PROVE  LooksAt(pc[u])' /\ NoReads' /\ Ahead(mbox', loc'[u].la, loc'[u].ep)
  BY <1>2, <1>4 DEF Fetching
<1>5. ASSUME NEW i \in DOMAIN bus', bus'[i].op = "read" /\ bus'[i].by = u
      PROVE  /\ loc'[u].ep = bus'[i].ep /\ Ahead(mbox', AllAsked' + loc'[u].fetch, loc'[u].ep)
             /\ bus'[i].last <=> loc'[u].fetch = 0
             /\ loc'[u].done # <<>> => loc'[u].doneEp = loc'[u].ep
  BY <1>5 DEF Fetching
<1> QED BY <1>1, <1>3, <1>4, <1>5 DEF Fetching

\* A step in which a thread takes its packets along and reads nothing.
Plain(t, w, l) ==
    /\ Moved(t, w, l) /\ UNCHANGED <<mode, mbox>> /\ QuietBus(t)
    /\ ~Asking(w, l)
    /\ t \in Handlers /\ l.la > 0 => l.la = loc[t].la /\ l.ep = loc[t].ep /\ (LooksAt(w) \/ ~LooksAt(pc[t]))
    /\ pc[t] = "waiting" => bus # <<>> /\ bus' = Tail(bus) /\ Head(bus).by = t /\ Head(bus).op = "write"
    /\ mode = "async" /\ t \in Handlers /\ HoldsAt(t, w, l) =>
         ~taken \/ (Holds(t) /\ ~Asking(pc[t], loc[t]))
    /\ \/ taken' = taken
       \/ ~taken
       \/ mode = "async" => Holds(t) /\ ~Asking(pc[t], loc[t])

LEMMA ReadingPlain ==
    ASSUME Base, Base', Chain, Reading, NEW t \in Threads, NEW w, NEW l, Plain(t, w, l)
    PROVE  Reading'
<1>1. /\ Moved(t, w, l) /\ mode' = mode /\ mbox' = mbox /\ QuietBus(t) /\ ~Asking(w, l)
      /\ mode \in {"sync", "async"}
  BY DEF Plain, Base, Types
<1>2. /\ AllAsked' = AllAsked /\ (NoReads' <=> NoReads)
      /\ \A i \in DOMAIN bus' : bus'[i].op = "read" => \E j \in DOMAIN bus : bus[j] = bus'[i]
  BY <1>1, QuietAsked
<1>3. mode = "async" /\ Holds(t) /\ ~Asking(pc[t], loc[t]) => NoReads
  BY DEF Reading, OnBus, Holds
<1>4. mode = "async" /\ ~taken => NoReads
  BY DEF Reading, OnBus
<1>5. ReadsLast'
  <2>1. ASSUME pc[t] = "more", loc[t].last PROVE NoReads
    <3>1. t \in Contexts
      BY <2>1, ThreadIs, ThreadsAre DEF Good, MayBe, UserPlaces, DsrPlaces, SyncPlaces
    <3>2. mode = "async" /\ Holds(t)
      BY <2>1, <3>1, ContextIs, ThreadsAre DEF Holds, HoldsAt
    <3> QED BY <1>3, <2>1, <3>2 DEF Asking
  <2> QED BY <1>1, <2>1, ReadsLastQuiet DEF Reading, OnBus
<1>6. \A i \in DOMAIN bus' : bus'[i].op = "read" => bus'[i].n = 1 \/ bus'[i].last
  BY <1>2 DEF Reading, OnBus
<1>7. mode = "async" /\ ~NoReads' => taken'
  BY <1>2, <1>3, <1>4 DEF Plain, Reading, OnBus
<1>8. ASSUME mode = "async", NEW u \in Handlers, Holds(u)', ~Asking(pc[u], loc[u])' PROVE NoReads'
  <2>1. CASE u = t
    <3>1. HoldsAt(t, w, l)
      BY <1>1, <1>8, <2>1 DEF Holds, HoldsAt, Moved
    <3> QED BY <1>2, <1>3, <1>4, <1>8, <2>1, <3>1 DEF Plain
  <2>2. CASE u # t
    <3>1. Holds(u) /\ ~Asking(pc[u], loc[u])
      BY <1>1, <1>8, <2>2, ThreadsAre DEF Holds, HoldsAt, Moved, Asking
    <3> QED BY <1>2, <1>8, <3>1 DEF Reading, OnBus
  <2> QED BY <2>1, <2>2
<1>9. FetchesAnnounced'
  BY <1>1, <1>2, AnnouncedIs, AnnouncedNext DEF Reading, OnBus
<1>10. ASSUME NEW u \in Handlers PROVE Fetching(u)'
  <2>0. u \in Threads /\ Fetching(u) /\ loc[u] \in LocalVars
    BY ThreadsAre, ThreadIs DEF Reading
  <2>1. CASE u # t
    <3>1. pc'[u] = pc[u] /\ loc'[u] = loc[u]
      BY <1>1, <2>0, <2>1 DEF Moved
    <3>2. loc[u].fetch \in Nat
      BY <2>0 DEF LocalVars
    <3>3. ReadsFor(loc[u].ep) => ReadsFor(loc[u].ep)'
      BY <1>2, <3>1 DEF ReadsFor
    <3>4. loc[u].la > 0 => NoReads'
      BY <1>2, <2>0 DEF Fetching
    <3>5. \A n \in Nat : \A e : Ahead(mbox, AllAsked + n, e) => Ahead(mbox', AllAsked' + n, e)
      BY <1>1, <1>2
    <3> QED BY <1>1, <1>2, <2>0, <3>1, <3>2, <3>3, <3>4, <3>5, FetchingKept
  <2>2. CASE u = t
    <3>1. pc'[t] = w /\ loc'[t] = l
      BY <1>1 DEF Moved
    <3>2. \A i \in DOMAIN bus' : ~(bus'[i].op = "read" /\ bus'[i].by = t)
      <4>1. CASE pc[t] = "waiting"
        <5>1. \A j \in DOMAIN bus : bus[j].op = "read" => bus[j].by # t
          BY <4>1, WaitsOnce DEF Plain
        <5> QED BY <1>2, <5>1
      <4>2. CASE pc[t] # "waiting"
        <5>1. \A j \in DOMAIN bus : bus[j].by # t
          BY <4>2 DEF Base, Requests
        <5> QED BY <1>2, <5>1
      <4> QED BY <4>1, <4>2
    <3>3. ASSUME l.la > 0 PROVE LooksAt(w)' /\ NoReads' /\ Ahead(mbox', l.la, l.ep)
      <4>1. l.la = loc[t].la /\ l.ep = loc[t].ep /\ (LooksAt(w) \/ ~LooksAt(pc[t]))
        BY <2>2, <3>3 DEF Plain
      <4>2. LooksAt(pc[t]) /\ NoReads /\ Ahead(mbox, loc[t].la, loc[t].ep)
        BY <2>0, <2>2, <3>3, <4>1 DEF Fetching
      <4> QED BY <1>1, <1>2, <4>1, <4>2 DEF LooksAt
    <3>4. LooksAt(pc[t])' <=> LooksAt(w)'
      BY <1>1, <3>1 DEF LooksAt
    <3>5. ~Asking(pc[t], loc[t])'
      BY <1>1, <3>1 DEF Asking
    <3> QED BY <2>2, <3>1, <3>2, <3>3, <3>4, <3>5 DEF Fetching
  <2> QED BY <2>1, <2>2
<1> QED BY <1>1, <1>5, <1>6, <1>7, <1>8, <1>9, <1>10 DEF Reading, OnBus

LEMMA ReadingStill ==
    ASSUME Base, Base', Reading, Still
    PROVE  Reading'
<1>1. PICK t \in Threads : pc[t] # "more" /\ QuietBus(t)
  BY DEF Still
<1>2. mode' = mode /\ mbox' = mbox /\ pc' = pc /\ loc' = loc /\ taken' = taken
  BY DEF Still, Untouched
<1>3. /\ AllAsked' = AllAsked /\ (NoReads' <=> NoReads)
      /\ \A i \in DOMAIN bus' : bus'[i].op = "read" => \E j \in DOMAIN bus : bus[j] = bus'[i]
  BY <1>1, QuietAsked
<1>4. ReadsLast'
  BY <1>1, ReadsLastQuiet DEF Reading, OnBus
<1>5. \A u \in Handlers : Holds(u)' => Holds(u)
  BY <1>2 DEF Holds, HoldsAt
<1>6. FetchesAnnounced'
  BY <1>2, <1>3, AnnouncedIs, AnnouncedNext DEF Reading, OnBus
<1>7. /\ mode' = "async" /\ ~NoReads' => taken'
      /\ mode' = "async" => \A u \in Handlers : Holds(u)' /\ ~Asking(pc[u], loc[u])' => NoReads'
      /\ \A i \in DOMAIN bus' : bus'[i].op = "read" => bus'[i].n = 1 \/ bus'[i].last
  BY <1>2, <1>3, <1>5 DEF Reading, OnBus, Asking
<1>8. ASSUME NEW u \in Handlers PROVE Fetching(u)'
  <2>0. u \in Threads /\ Fetching(u) /\ loc[u] \in LocalVars
    BY ThreadsAre, ThreadIs DEF Reading
  <2>2. loc[u].fetch \in Nat
    BY <2>0 DEF LocalVars
  <2>3. ReadsFor(loc[u].ep) => ReadsFor(loc[u].ep)'
    BY <1>2, <1>3 DEF ReadsFor
  <2>4. loc[u].la > 0 => NoReads'
    BY <1>3, <2>0 DEF Fetching
  <2>5. \A n \in Nat : \A e : Ahead(mbox, AllAsked + n, e) => Ahead(mbox', AllAsked' + n, e)
    BY <1>2, <1>3
  <2> QED BY <1>2, <1>3, <2>0, <2>2, <2>3, <2>4, <2>5, FetchingKept
<1> QED BY <1>4, <1>6, <1>7, <1>8 DEF Reading, OnBus

LEMMA CalmIsPlain ==
    ASSUME NEW t, NEW w, NEW l, Calm(t, w, l)
    PROVE  Plain(t, w, l)
<1>1. /\ Moved(t, w, l) /\ mode' = mode /\ mbox' = mbox /\ QuietBus(t) /\ w # "fetch"
      /\ Carried(t, l) /\ CalmDuty(t, w, l)
      /\ pc[t] = "waiting" => bus # <<>> /\ bus' = Tail(bus) /\ Head(bus).by = t /\ Head(bus).op = "write"
      /\ pc[t] = "fetch" => loc[t].fetch = 0
  BY DEF Calm, Untouched, CalmPlaces
<1>2. ~Asking(w, l) /\ ~Asking(pc[t], loc[t])
  BY <1>1 DEF Asking
<1>3. l.la > 0 => l.la = loc[t].la /\ l.ep = loc[t].ep
  BY <1>1 DEF Carried, NoLoc
<1> QED BY <1>1, <1>2, <1>3 DEF Plain, CalmDuty

LEMMA BusyPlain ==
    ASSUME Base, Reading,
           \/ \E e \in Eps : AddReceivePkts(e)
           \/ \E t \in Handlers : RecyclePkts(t)
           \/ IndicateSync \/ BadHeaderSync
           \/ \E c \in Contexts : QueueIndication(c) \/ BadHeader(c) \/ TakesAll(c) \/ Indicate(c)
    PROVE  \E t \in Threads : \E w, l : Plain(t, w, l)
<1>0. UNCHANGED <<mode, mbox, bus, taken>>
  BY DEF AddReceivePkts, RecyclePkts, IndicateSync, BadHeaderSync, QueueIndication, BadHeader, TakesAll,
         TakeIndications, Indicate, deviceVars, irqVars
<1>1. \A t : QuietBus(t)
  BY <1>0 DEF QuietBus
<1>a. \A t \in Handlers : loc[t].la > 0 => LooksAt(pc[t])
  BY DEF Reading, Fetching
<1>2. ASSUME NEW e \in Eps, AddReceivePkts(e) PROVE \E t \in Threads : \E w, l : Plain(t, w, l)
  <2>1. PICK w : Moved("user", w, loc["user"])
    BY <1>2, AddReceivePktsBase
  <2>2. "user" \in Threads /\ "user" \notin Handlers /\ loc["user"] \in LocalVars /\ pc["user"] # "waiting"
    BY <1>2, ThreadsAre, ThreadIs DEF AddReceivePkts, At
  <2>3. w # "fetch"
    <3>1. Base'
      BY <1>2, AddReceivePktsBase
    <3>2. pc'["user"] \in UserPlaces
      BY <2>2, <3>1 DEF Base, Control, Good, MayBe
    <3> QED BY <2>1, <3>2 DEF Moved, UserPlaces
  <2>4. Plain("user", w, loc["user"])
    BY <1>0, <1>1, <2>1, <2>2, <2>3 DEF Plain, Asking
  <2> QED BY <2>2, <2>4
<1>3. ASSUME NEW t \in Handlers, RecyclePkts(t) PROVE \E w, l : Plain(t, w, l)
  <2>0. t \in Threads /\ loc[t] \in LocalVars /\ t # "user" /\ mode \in {"sync", "async"}
    BY ThreadsAre, ThreadIs
  <2>1. PICK w, l : /\ Moved(t, w, l) /\ l = [loc[t] EXCEPT !.fetch = 0] /\ w \in {"enable", Enabled(t)}
                    /\ pc[t] = "recycle"
    BY <1>3, <2>0, RecyclePktsBase
  <2>2. l.fetch = 0 /\ l.done = loc[t].done /\ l.la = loc[t].la /\ l.ep = loc[t].ep /\ l.more = loc[t].more
    BY <2>0, <2>1 DEF LocalVars
  <2>3. /\ w \in {"enable", "check", "complete", "idle", "drain"}
        /\ w = "check" => t = "dsr"
        /\ w = "complete" => t \in Contexts /\ l.done # <<>>
        /\ t = "dsr" => w # "idle"
    BY <2>0, <2>1, <2>2, ThreadsAre DEF Enabled
  <2>4. Good(t, "recycle", loc[t])
    BY <2>0, <2>1, ThreadIs
  <2>5. mode = "async" => t # "dsr" /\ t \in Contexts
    BY <2>4, ThreadsAre DEF Good, MayBe, DsrPlaces
  <2>6. mode = "async" => ~HoldsAt(t, w, l)
    BY <2>2, <2>3, <2>4, <2>5 DEF HoldsAt, Good, HoldingContext
  <2>7. mode = "async" => ~(l.la > 0)
    BY <1>a, <2>1, <2>2 DEF LooksAt
  <2>8. mode = "sync" => t = "dsr"
    BY <2>4, ThreadsAre DEF Good, MayBe
  <2>9. mode = "sync" => LooksAt(w)
    BY <2>3, <2>8 DEF LooksAt
  <2>10. l.la > 0 => l.la = loc[t].la /\ l.ep = loc[t].ep /\ LooksAt(w)
    BY <2>0, <2>2, <2>7, <2>9
  <2>11. Plain(t, w, l)
    BY <1>0, <1>1, <2>1, <2>3, <2>6, <2>10 DEF Plain, Asking
  <2> QED BY <2>11
<1>4. CASE IndicateSync
  <2>0. "dsr" \in Threads /\ loc["dsr"] \in LocalVars
    BY ThreadsAre, ThreadIs
  <2>1. PICK l : Moved("dsr", "process", l) /\ l = [loc["dsr"] EXCEPT !.done = Tail(@)]
    BY <1>4, IndicateSyncBase
  <2>2. pc["dsr"] = "process" /\ mode = "sync"
    BY <1>4, IndicateSyncBase
  <2>3. l.la = loc["dsr"].la /\ l.ep = loc["dsr"].ep
    BY <2>0, <2>1 DEF LocalVars
  <2>4. Plain("dsr", "process", l)
    BY <1>0, <1>1, <2>1, <2>2, <2>3 DEF Plain, Asking, LooksAt
  <2> QED BY <2>0, <2>4
<1>5. CASE BadHeaderSync
  <2>0. "dsr" \in Threads /\ loc["dsr"] \in LocalVars
    BY ThreadsAre, ThreadIs
  <2>1. PICK l : Moved("dsr", "recycle", l)
                 /\ l = [loc["dsr"] EXCEPT !.done = <<>>, !.ep = loc["dsr"].doneEp, !.la = 0, !.ok = FALSE,
                                           !.fetch = Len(loc["dsr"].done) - 1]
    BY <1>5, BadHeaderSyncBase
  <2>2. pc["dsr"] = "process" /\ mode = "sync"
    BY <1>5, BadHeaderSyncBase
  <2>3. l.la = 0
    BY <2>0, <2>1 DEF LocalVars
  <2>4. Plain("dsr", "recycle", l)
    BY <1>0, <1>1, <2>1, <2>2, <2>3 DEF Plain, Asking
  <2> QED BY <2>0, <2>4
<1>6. ASSUME NEW c \in Contexts, QueueIndication(c) \/ BadHeader(c) \/ TakesAll(c) \/ Indicate(c)
      PROVE  \E w, l : Plain(c, w, l)
  <2>1. pc[c] \in {"complete", "drain", "indicate"}
    BY <1>6 DEF QueueIndication, BadHeader, TakesAll, TakeIndications, Indicate, At
  <2>2. mode = "async" /\ c \in Threads /\ c \in Handlers /\ loc[c] \in LocalVars /\ HoldingContext(pc[c], loc[c])
    BY <2>1, ContextIs, ThreadsAre
  <2>3. CASE QueueIndication(c)
    <3>1. PICK w : w = IF loc[c].more THEN "more" ELSE "drain"
      OBVIOUS
    <3>2. PICK l : Moved(c, w, l) /\ l = [loc[c] EXCEPT !.done = <<>>]
      BY <2>3, <3>1, QueueIndicationBase
    <3>3. pc[c] = "complete"
      BY <2>3, QueueIndicationBase
    <3>4. l.la = loc[c].la /\ l.ep = loc[c].ep /\ l.last = loc[c].last /\ l.fetch = loc[c].fetch
      BY <2>2, <3>2 DEF LocalVars
    <3>5. w \in {"more", "drain"} /\ (w = "more" => loc[c].more)
      BY <3>1
    <3>6. HoldsAt(c, w, l) => Holds(c)
      BY <2>2, <3>3, <3>4, <3>5 DEF HoldsAt, Holds
    <3>7. l.la > 0 => w = "more"
      BY <2>2, <3>1, <3>3, <3>4 DEF HoldingContext
    <3>8. Plain(c, w, l)
      BY <1>0, <1>1, <2>2, <3>2, <3>3, <3>4, <3>5, <3>6, <3>7 DEF Plain, Asking, LooksAt
    <3> QED BY <3>8
  <2>4. CASE BadHeader(c)
    <3>1. PICK i \in DOMAIN loc[c].done :
            Moved(c, "recycle",
                      [loc[c] EXCEPT !.done = RemoveAt(@, i), !.fetch = 1, !.ep = loc[c].doneEp,
                                     !.la = 0, !.more = FALSE,
                                     !.doneEp = IF Len(loc[c].done) > 1 THEN @ ELSE NoEp])
      BY <2>4, BadHeaderBase
    <3>2. PICK l : /\ Moved(c, "recycle", l)
                   /\ l = [loc[c] EXCEPT !.done = RemoveAt(@, i), !.fetch = 1, !.ep = loc[c].doneEp,
                                     !.la = 0, !.more = FALSE,
                                     !.doneEp = IF Len(loc[c].done) > 1 THEN @ ELSE NoEp]
      BY <3>1
    <3>3. l.la = 0
      BY <2>2, <3>2 DEF LocalVars
    <3>4. ~HoldsAt(c, "recycle", l) /\ pc[c] # "waiting"
      BY <2>1, <2>2 DEF HoldsAt
    <3>5. Plain(c, "recycle", l)
      BY <1>0, <1>1, <3>2, <3>3, <3>4 DEF Plain, Asking
    <3> QED BY <3>5
  <2>5. CASE TakesAll(c)
    <3>1. PICK l : /\ Moved(c, "indicate", l)
                   /\ l = [NoLoc EXCEPT !.done = indication[loc[c].doneEp],
                                                      !.doneEp = loc[c].doneEp, !.from = "drain"]
      BY <2>5, TakeIndicationsBase DEF TakesAll
    <3>2. l.la = 0
      BY <3>1 DEF NoLoc
    <3>3. ~HoldsAt(c, "indicate", l) /\ pc[c] # "waiting"
      BY <2>1, <2>2 DEF HoldsAt
    <3>4. Plain(c, "indicate", l)
      BY <1>0, <1>1, <3>1, <3>2, <3>3 DEF Plain, Asking
    <3> QED BY <3>4
  <2>6. CASE Indicate(c)
    <3>1. PICK l : Moved(c, "drain", l) /\ l = [loc[c] EXCEPT !.done = <<>>]
      BY <2>6, IndicateBase
    <3>2. pc[c] = "indicate"
      BY <2>6, IndicateBase
    <3>3. l.la = loc[c].la
      BY <2>2, <3>1 DEF LocalVars
    <3>4. ~(l.la > 0)
      BY <1>a, <2>2, <3>2, <3>3 DEF LooksAt
    <3>5. ~HoldsAt(c, "drain", l)
      BY <2>2 DEF HoldsAt
    <3>6. Plain(c, "drain", l)
      BY <1>0, <1>1, <3>1, <3>2, <3>4, <3>5 DEF Plain, Asking
    <3> QED BY <3>6
  <2> QED BY <1>6, <2>3, <2>4, <2>5, <2>6
<1> QED BY <1>2, <1>3, <1>4, <1>5, <1>6, ThreadsAre

LEMMA ReadingSends ==
    ASSUME Base, Base', Reading, NEW m \in Eps, TargetSends(m)
    PROVE  Reading'
<1>1. UNCHANGED <<mode, bus, taken, pc, loc>>
  BY DEF TargetSends, irqVars
<1>2. PICK x : mbox' = Append(mbox, x)
  BY DEF TargetSends
<1>3. mbox \in Seq(Messages) /\ AllAsked' = AllAsked /\ (NoReads' <=> NoReads)
  BY <1>1 DEF Base, Types, AllAsked, NoReads
<1>4. ASSUME NEW n \in Int, NEW e, Ahead(mbox, n, e) PROVE Ahead(mbox', n, e)
  <2>1. mbox' \in Seq(Messages)
    BY DEF Base, Types
  <2>2. Len(mbox') = Len(mbox) + 1 /\ \A k \in 1..Len(mbox) : mbox'[k] = mbox[k]
    BY <1>2, <1>3, <2>1
  <2>3. n <= Len(mbox) /\ \A k \in 1..n : mbox[k].ep = e
    BY <1>4 DEF Ahead
  <2> QED BY <1>3, <2>2, <2>3 DEF Ahead
<1>5. AllAsked \in Nat
  BY AskedAre
<1>6. FetchesAnnounced'
  BY <1>1, <1>3, <1>4, <1>5, AnnouncedIs, AnnouncedNext DEF Reading, OnBus
<1>7. ASSUME NEW u \in Handlers PROVE Fetching(u)'
  <2>0. u \in Threads /\ Fetching(u) /\ loc[u] \in LocalVars
    BY ThreadsAre, ThreadIs DEF Reading
  <2>2. loc[u].fetch \in Nat /\ loc[u].la \in Int
    BY <2>0, ThreadsAre DEF LocalVars
  <2>3. ReadsFor(loc[u].ep) => ReadsFor(loc[u].ep)'
    BY <1>1 DEF ReadsFor
  <2>4. loc[u].la > 0 => NoReads'
    BY <1>3, <2>0 DEF Fetching
  <2>5. \A n \in Nat : \A e : Ahead(mbox, AllAsked + n, e) => Ahead(mbox', AllAsked' + n, e)
    BY <1>3, <1>4, <1>5
  <2>6. Ahead(mbox, loc[u].la, loc[u].ep) => Ahead(mbox', loc[u].la, loc[u].ep)
    BY <1>4, <2>2
  <2> QED BY <1>1, <2>0, <2>2, <2>3, <2>4, <2>5, <2>6, FetchingKept
<1>8. OnBus'
  BY <1>1, <1>3, <1>6 DEF Reading, OnBus, ReadsLast, Live, Holds, HoldsAt, Asking
<1> QED BY <1>7, <1>8 DEF Reading

\* What a look-ahead in q announces.
LEMMA LookAhead ==
    ASSUME NEW q \in Seq(Messages), NEW k \in LocalVars, NEW l \in Trailers(q, k), l.la > 0
    PROVE  Ahead(q, l.la, l.ep)
  BY LookAheadsType DEF Ahead

\* The rest of the threads, when a request has been completed to t.
LEMMA OthersTail ==
    ASSUME Base, Base', Reading, NEW t \in Handlers, NEW w, NEW l, Moved(t, w, l), mode' = mode,
           taken' = taken, bus # <<>>, bus' = Tail(bus),
           \A n \in Nat : \A e : Ahead(mbox, AllAsked + n, e) => Ahead(mbox', AllAsked' + n, e),
           NoReads => \A n \in Nat : \A e : Ahead(mbox, n, e) => Ahead(mbox', n, e),
           mode = "async" /\ HoldsAt(t, w, l) /\ ~Asking(w, l) => NoReads',
           Fetching(t)'
    PROVE  Reading'
<1>1. /\ \A i \in DOMAIN bus' : i \in Nat /\ i + 1 \in DOMAIN bus /\ bus'[i] = bus[i + 1]
      /\ NoReads => NoReads'
      /\ \A u \in Threads : u # t => pc'[u] = pc[u] /\ loc'[u] = loc[u]
  BY AskedTail DEF NoReads, Moved
<1>2. pc'[t] = w /\ loc'[t] = l /\ t \in Threads
  BY ThreadsAre DEF Moved
<1>3. ReadsLast'
  BY ReadsLastTail DEF Reading, OnBus
<1>4. \A i \in DOMAIN bus' : bus'[i].op = "read" => bus'[i].n = 1 \/ bus'[i].last
  BY <1>1 DEF Reading, OnBus
<1>5. mode = "async" /\ ~NoReads' => taken'
  BY <1>1 DEF Reading, OnBus
<1>6. ASSUME mode = "async", NEW u \in Handlers, Holds(u)', ~Asking(pc[u], loc[u])' PROVE NoReads'
  <2>1. CASE u = t
    BY <1>2, <1>6, <2>1 DEF Holds, HoldsAt, Asking
  <2>2. CASE u # t
    <3>1. Holds(u) /\ ~Asking(pc[u], loc[u])
      BY <1>1, <1>6, <2>2, ThreadsAre DEF Holds, HoldsAt, Asking
    <3> QED BY <1>1, <1>6, <3>1 DEF Reading, OnBus
  <2> QED BY <2>1, <2>2
<1>7. FetchesAnnounced'
  <2>1. ASSUME NEW i \in DOMAIN bus', bus'[i].op = "read" PROVE Ahead(mbox', AllAsked', bus'[i].ep)
    <3>1. Ahead(mbox, AllAsked, bus'[i].ep)
      BY <1>1, <2>1, AnnouncedIs DEF Reading, OnBus
    <3>2. AllAsked \in Nat /\ AllAsked' \in Nat
      BY AskedAre, AskedAreNext
    <3>3. AllAsked + 0 = AllAsked /\ AllAsked' + 0 = AllAsked'
      <4>1. PICK x \in Nat : x = AllAsked
        BY <3>2
      <4>2. PICK y \in Nat : y = AllAsked'
        BY <3>2
      <4>3. x + 0 = x /\ y + 0 = y
        OBVIOUS
      <4> QED BY <4>1, <4>2, <4>3
    <3>4. Ahead(mbox, AllAsked + 0, bus'[i].ep)
      BY <3>1, <3>3
    <3>5. Ahead(mbox', AllAsked' + 0, bus'[i].ep)
      BY <3>4
    <3> QED BY <3>3, <3>5
  <2> QED BY <2>1, AnnouncedNext
<1>8. ASSUME NEW u \in Handlers, u # t PROVE Fetching(u)'
  <2>0. u \in Threads /\ Fetching(u) /\ loc[u] \in LocalVars
    BY ThreadsAre, ThreadIs DEF Reading
  <2>1. pc'[u] = pc[u] /\ loc'[u] = loc[u]
    BY <1>1, <1>8, <2>0
  <2>2. loc[u].fetch \in Nat /\ loc[u].la \in Nat
    BY <2>0, ThreadsAre DEF LocalVars
  <2>3. ReadsFor(loc[u].ep) => ReadsFor(loc[u].ep)'
    BY <1>1, <2>1 DEF ReadsFor
  <2>4. loc[u].la > 0 => NoReads' /\ (Ahead(mbox, loc[u].la, loc[u].ep) => Ahead(mbox', loc[u].la, loc[u].ep))
    BY <1>1, <2>0, <2>2 DEF Fetching
  <2>5. \A i \in DOMAIN bus' : bus'[i].op = "read" /\ bus'[i].by = u => \E j \in DOMAIN bus : bus[j] = bus'[i]
    BY <1>1
  <2> QED BY <2>0, <2>1, <2>2, <2>3, <2>4, <2>5, FetchingKept
<1> QED BY <1>3, <1>4, <1>5, <1>6, <1>7, <1>8 DEF Reading, OnBus

LEMMA AheadRest ==
    ASSUME NEW q \in Seq(Messages), NEW n \in 1..Len(q), NEW a \in Nat, NEW m \in Nat, NEW e, Ahead(q, n + a + m, e)
    PROVE  Ahead(SubSeq(q, n + 1, Len(q)), a + m, e)
<1> DEFINE d == SubSeq(q, n + 1, Len(q))
<1>1. Len(d) = Len(q) - n /\ \A k \in 1..Len(d) : d[k] = q[k + n]
  OBVIOUS
<1>2. n + a + m <= Len(q) /\ \A k \in 1..(n + a + m) : q[k].ep = e
  BY DEF Ahead
<1> HIDE DEF d
<1>3. a + m <= Len(d)
  BY <1>1, <1>2
<1>4. ASSUME NEW k \in 1..(a + m) PROVE d[k].ep = e
  <2>1. k \in 1..Len(d) /\ k + n \in 1..(n + a + m)
    BY <1>3, <1>1
  <2> QED BY <1>1, <1>2, <2>1
<1> QED BY <1>3, <1>4 DEF Ahead, d

\* The first request is a read.
LEMMA HeadRead ==
    ASSUME Base, Base', Reading, bus # <<>>, bus' = Tail(bus), Head(bus).op = "read"
    PROVE  /\ Head(bus) = bus[1] /\ 1 \in DOMAIN bus /\ Head(bus).n \in Nat /\ Head(bus).n > 0 /\ Head(bus).ep \in Eps
           /\ Head(bus).last \in BOOLEAN
           /\ Head(bus).by = IF mode = "sync" THEN "dsr" ELSE Nobody
           /\ AllAsked \in Nat /\ AllAsked' \in Nat /\ AllAsked = AllAsked' + Head(bus).n
           /\ ~NoReads
           /\ mode = "sync" \/ Head(bus).last => NoReads'
           /\ Ahead(mbox, AllAsked, Head(bus).ep)
<1>1. /\ Head(bus) = bus[1] /\ 1 \in DOMAIN bus /\ bus[1] \in BusRequests /\ Requested(bus[1])
      /\ AllAsked = AllAsked' + (IF bus[1].op = "read" THEN bus[1].n ELSE 0)
      /\ \A i \in DOMAIN bus' : i \in Nat /\ i + 1 \in DOMAIN bus /\ bus'[i] = bus[i + 1]
  BY AskedTail
<1>2. AllAsked \in Nat /\ AllAsked' \in Nat
  BY AskedAre, AskedAreNext
<1>3. AllAsked = AllAsked' + Head(bus).n
  BY <1>1
<1>4. Head(bus).n \in Nat /\ Head(bus).n > 0 /\ Head(bus).ep \in Eps /\ Head(bus).last \in BOOLEAN
  BY <1>1, ThreadsAre DEF BusRequests, Requested
<1>5. Head(bus).by = IF mode = "sync" THEN "dsr" ELSE Nobody
  BY <1>1 DEF Requested
<1>6. ASSUME mode = "sync" \/ Head(bus).last, NEW i \in DOMAIN bus', bus'[i].op = "read" PROVE FALSE
  <2>1. i + 1 # 1 /\ i + 1 \in DOMAIN bus /\ bus'[i] = bus[i + 1] /\ i \in DOMAIN bus'
    <3>1. bus' \in Seq(BusRequests)
      BY DEF Base, Types
    <3>2. i # 0
      BY <3>1
    <3> QED BY <1>1, <3>2
  <2>2. Requested(bus[i + 1])
    BY <2>1 DEF Base, Requests
  <2>3. CASE mode = "sync"
    <3>1. bus[i + 1].by = bus[1].by /\ bus[1].by = "dsr"
      BY <1>1, <1>5, <1>6, <2>1, <2>2, <2>3 DEF Requested
    <3>2. "dsr" # Nobody
      BY ThreadsAre
    <3> QED BY <1>1, <2>1, <3>1, <3>2 DEF Base, Requests
  <2>4. CASE mode # "sync"
    <3>1. Live(bus[1])
      BY <1>1, <1>5, <1>6, <2>4 DEF Live
    <3>2. i + 1 <= 1
      BY <1>1, <1>6, <2>1, <3>1 DEF Reading, OnBus, ReadsLast
    <3> QED BY <1>1, <2>1, <3>2
  <2> QED BY <2>3, <2>4
<1>7. Ahead(mbox, AllAsked, Head(bus).ep)
  BY <1>1, AnnouncedIs DEF Reading, OnBus
<1> QED BY <1>1, <1>2, <1>3, <1>4, <1>5, <1>6, <1>7 DEF NoReads

LEMMA ReadingStatus ==
    ASSUME Base, Reading, NEW t \in Handlers, BusStatus(t)
    PROVE  Reading'
<1>0. Base' /\ bus # <<>> /\ bus' = Tail(bus) /\ Head(bus).op = "status" /\ UNCHANGED <<mode, mbox, taken>>
  BY BusStatusBase DEF BusStatus, deviceVars, irqVars
<1>1. PICK w, l : /\ Moved(t, w, l) /\ SameBut(l, [NoLoc EXCEPT !.other = other])
                  /\ t = "dsr" => w = "pending"
                  /\ t # "dsr" => w = "events"
                  /\ l \in LookAheads(mbox, [NoLoc EXCEPT !.other = other])
  BY BusStatusBase
<1>2. l.fetch = 0 /\ l.done = <<>> /\ w \in {"pending", "events"}
  BY <1>1 DEF SameBut, NoLoc
<1>3. /\ Head(bus) = bus[1] /\ 1 \in DOMAIN bus /\ bus[1] \in BusRequests /\ Requested(bus[1])
      /\ \A i \in DOMAIN bus' : i \in Nat /\ i + 1 \in DOMAIN bus /\ bus'[i] = bus[i + 1]
      /\ AllAsked = AllAsked' + 0
  BY <1>0, AskedTail
<1>4. NoReads
  <2>1. CASE bus[1].by = Nobody
    <3>1. Live(bus[1])
      BY <1>0, <1>3, <2>1 DEF Live
    <3> QED BY <1>0, <1>3, <3>1 DEF Reading, OnBus, ReadsLast, NoReads
  <2>2. CASE bus[1].by = "dsr" /\ mode = "async"
    <3>1. pc["dsr"] = "waiting"
      BY <1>3, <2>2, ThreadsAre DEF Base, Requests
    <3>2. Holds("dsr") /\ ~Asking(pc["dsr"], loc["dsr"])
      BY <2>2, <3>1, ThreadsAre DEF Holds, HoldsAt, Asking
    <3> QED BY <2>2, <3>2, ThreadsAre DEF Reading, OnBus
  <2>3. CASE bus[1].by = "dsr" /\ mode = "sync"
    <3>1. ASSUME NEW i \in DOMAIN bus, bus[i].op = "read" PROVE FALSE
      <4>1. bus[i].by = bus[1].by /\ bus[1].by # Nobody
        BY <2>3, <3>1, ThreadsAre DEF Base, Requests, Requested
      <4>2. i = 1
        BY <1>3, <4>1 DEF Base, Requests
      <4> QED BY <1>0, <1>3, <3>1, <4>2
    <3> QED BY <3>1 DEF NoReads
  <2>4. mode \in {"sync", "async"} /\ (bus[1].by = "dsr" \/ bus[1].by = Nobody)
    BY <1>0, <1>3 DEF Base, Types, Requested
  <2> QED BY <2>1, <2>2, <2>3, <2>4
<1>5. NoReads'
  BY <1>3, <1>4 DEF NoReads
<1>6. AllAsked' = AllAsked
  <2>1. AllAsked' \in Nat /\ AllAsked \in Nat
    BY <1>0, AskedAreNext, AskedAre
  <2>2. PICK x \in Nat : x = AllAsked'
    BY <2>1
  <2>3. x + 0 = x
    OBVIOUS
  <2> QED BY <1>3, <2>2, <2>3
<1>7. Fetching(t)'
  <2>1. pc'[t] = w /\ loc'[t] = l
    BY <1>1 DEF Moved
  <2>2. ~Asking(pc[t], loc[t])'
    BY <1>2, <2>1 DEF Asking
  <2>3. mode \in {"sync", "async"}
    BY DEF Base, Types
  <2>4. LooksAt(pc[t])'
    BY <1>0, <1>2, <2>1, <2>3 DEF LooksAt
  <2>5. ASSUME l.la > 0 PROVE Ahead(mbox', l.la, l.ep)
    <3>1. mbox \in Seq(Messages) /\ other \in BOOLEAN
      BY DEF Base, Types
    <3>2. PICK k \in LocalVars : k = [NoLoc EXCEPT !.other = other]
      <4>1. [NoLoc EXCEPT !.other = other] \in LocalVars
        BY <3>1, NoLocType DEF LocalVars
      <4> QED BY <4>1
    <3>3. l \in Trailers(mbox, k)
      BY <1>1, <3>2, LookAheadsIn
    <3>4. Ahead(mbox, l.la, l.ep)
      BY <2>5, <3>1, <3>3, LookAhead
    <3> QED BY <1>0, <3>4
  <2> QED BY <1>5, <2>1, <2>2, <2>4, <2>5 DEF Fetching, NoReads
<1>8. \A n \in Nat : \A e : Ahead(mbox, AllAsked + n, e) => Ahead(mbox', AllAsked' + n, e)
  BY <1>0, <1>6
<1>9. \A n \in Nat : \A e : Ahead(mbox, n, e) => Ahead(mbox', n, e)
  BY <1>0
<1> QED BY <1>0, <1>1, <1>5, <1>7, <1>8, <1>9, OthersTail

LEMMA ReadingRead ==
    ASSUME Base, Reading, NEW t \in Handlers, BusRead(t)
    PROVE  Reading'
<1> DEFINE r == Head(bus)
<1>0. /\ Base' /\ bus # <<>> /\ bus' = Tail(bus) /\ r.op = "read" /\ UNCHANGED <<mode, taken>>
      /\ r.n \in 1..Len(mbox) /\ t \in Threads
  BY BusReadBase DEF BusRead, irqVars
<1>1. PICK w, l : /\ Moved(t, w, l)
                  /\ l.doneEp = r.ep /\ l.last = r.last
                  /\ ~r.last => l.la = 0 \/ t = "dsr"
                  /\ ~r.last /\ t = "dsr" => l.la = loc[t].la /\ l.ep = loc[t].ep
                  /\ r.last /\ l.la > 0 => l.la <= Len(mbox') /\ \A i \in 1..l.la : mbox'[i].ep = l.ep
                  /\ mbox' = SubSeq(mbox, r.n + 1, Len(mbox))
                  /\ \/ /\ t = "dsr" /\ mode = "sync" /\ w = "fetch" /\ pc[t] = "waiting"
                        /\ SameBut(l, [loc[t] EXCEPT !.done = @ \o SubSeq(mbox, 1, r.n), !.doneEp = r.ep, !.last = r.last])
                     \/ /\ t \in Contexts /\ mode = "async" /\ w = "complete"
                        /\ SameBut(l, [NoLoc EXCEPT !.done = SubSeq(mbox, 1, r.n), !.doneEp = r.ep, !.last = r.last])
  BY BusReadBase
<1>2. /\ r = bus[1] /\ 1 \in DOMAIN bus /\ r.n \in Nat /\ r.n > 0 /\ r.ep \in Eps
      /\ r.by = (IF mode = "sync" THEN "dsr" ELSE Nobody)
      /\ AllAsked \in Nat /\ AllAsked' \in Nat /\ AllAsked = AllAsked' + r.n
      /\ ~NoReads
      /\ mode = "sync" \/ r.last => NoReads'
      /\ Ahead(mbox, AllAsked, r.ep)
  BY <1>0, HeadRead
<1>3. mbox \in Seq(Messages)
  BY DEF Base, Types
<1> HIDE DEF r
<1>4. ASSUME NEW n \in Nat, NEW e, Ahead(mbox, AllAsked + n, e) PROVE Ahead(mbox', AllAsked' + n, e)
  <2>1. PICK a \in Nat : a = AllAsked'
    BY <1>2
  <2>2. AllAsked + n = r.n + a + n
    <3>1. PICK b \in Nat : b = AllAsked
      BY <1>2
    <3>2. b = a + r.n
      BY <1>2, <2>1, <3>1
    <3>3. b + n = r.n + a + n
      BY <1>2, <3>2
    <3> QED BY <3>1, <3>3
  <2>3. Ahead(mbox, r.n + a + n, e)
    BY <1>4, <2>2
  <2>4. Ahead(SubSeq(mbox, r.n + 1, Len(mbox)), a + n, e)
    BY <1>0, <1>3, <2>3, AheadRest
  <2> QED BY <1>1, <2>1, <2>4
<1>5. loc[t].la > 0 => NoReads
  BY DEF Reading, Fetching
<1>6. pc'[t] = w /\ loc'[t] = l /\ mode' = mode
  BY <1>0, <1>1 DEF Moved
<1>7. loc[t] \in LocalVars
  BY <1>0, ThreadIs
<1>8. CASE t = "dsr" /\ mode = "sync" /\ w = "fetch"
  <2>1. /\ l.fetch = loc[t].fetch
    <3>1. SameBut(l, [loc[t] EXCEPT !.done = @ \o SubSeq(mbox, 1, r.n), !.doneEp = r.ep, !.last = r.last])
      BY <1>1, <1>8, ThreadsAre
    <3> QED BY <1>7, <3>1 DEF SameBut, LocalVars
  <2>2. NoReads'
    BY <1>2, <1>8
  <2>3. /\ loc[t].ep = r.ep /\ Ahead(mbox, AllAsked + loc[t].fetch, loc[t].ep)
        /\ r.last <=> loc[t].fetch = 0
    BY <1>0, <1>2, <1>8 DEF Reading, Fetching
  <2>4. ~r.last => ~(l.la > 0) /\ l.la = loc[t].la
    BY <1>1, <1>2, <1>5, <1>8
  <2>5. ASSUME l.la > 0 PROVE LooksAt(pc[t])' /\ Ahead(mbox', l.la, l.ep)
    <3>1. r.last
      BY <2>4, <2>5
    <3> QED BY <1>1, <1>6, <1>8, <2>5, <3>1 DEF LooksAt, Ahead
  <2>6. loc[t].fetch \in Nat /\ loc[t].la \in Nat
    BY <1>7, ThreadsAre DEF LocalVars
  <2>7. ASSUME l.fetch > 0
        PROVE  /\ Ahead(mbox', AllAsked' + l.fetch, l.ep) /\ ReadsFor(loc[t].ep)' /\ l.la = 0
               /\ l.doneEp = l.ep
    <3>1. ~r.last
      BY <2>1, <2>3, <2>7
    <3>2. l.ep = loc[t].ep /\ l.la = 0
      BY <1>1, <1>8, <2>4, <2>6, <3>1
    <3>3. Ahead(mbox', AllAsked' + l.fetch, l.ep)
      BY <1>4, <2>1, <2>3, <2>6, <3>2
    <3> QED BY <1>1, <2>2, <2>3, <3>2, <3>3 DEF ReadsFor, NoReads
  <2>8. Fetching(t)'
    BY <1>6, <2>2, <2>5, <2>7 DEF Fetching, NoReads, Asking
  <2>9. ~NoReads
    BY <1>2
  <2> QED BY <1>0, <1>1, <1>4, <1>8, <2>8, <2>9, OthersTail
<1>9. CASE t \in Contexts /\ mode = "async" /\ w = "complete"
  <2>1. ~r.last => l.la = 0
    BY <1>1, <1>9, ThreadsAre
  <2>2. r.last => NoReads'
    BY <1>2
  <2>3. HoldsAt(t, w, l) => r.last
    BY <1>1, <1>9 DEF HoldsAt
  <2>4. ASSUME l.la > 0 PROVE LooksAt(pc[t])' /\ Ahead(mbox', l.la, l.ep) /\ NoReads'
    <3>1. r.last
      BY <2>1, <2>4
    <3> QED BY <1>1, <1>6, <1>9, <2>2, <2>4, <3>1 DEF LooksAt, Ahead
  <2>5. \A i \in DOMAIN bus' : bus'[i].op = "read" => bus'[i].by # t
    BY <1>0, <1>6, <1>9, ThreadsAre DEF Base, Requests, Requested
  <2>6. Fetching(t)'
    BY <1>6, <1>9, <2>4, <2>5 DEF Fetching, Asking
  <2>7. ~NoReads
    BY <1>2
  <2> QED BY <1>0, <1>1, <1>4, <2>2, <2>3, <2>6, <2>7, OthersTail
<1> QED BY <1>1, <1>8, <1>9

LEMMA ReadingReadFails ==
    ASSUME Base, Reading, NEW t \in Handlers, BusReadFails(t)
    PROVE  Reading'
<1>0. Base' /\ bus # <<>> /\ bus' = Tail(bus) /\ Head(bus).op = "read" /\ UNCHANGED <<mode, mbox, taken>>
  BY BusReadFailsBase DEF BusReadFails, irqVars, deviceVars
<1>1. PICK l : /\ Moved(t, "recycle", l)
               /\ \/ t = "dsr" /\ mode = "sync" /\ l.la = loc[t].la
                  \/ t \in Contexts /\ mode = "async" /\ l.la = 0
  BY BusReadFailsBase
<1>2. /\ AllAsked \in Nat /\ AllAsked' \in Nat /\ AllAsked = AllAsked' + Head(bus).n /\ Head(bus).n \in Nat
      /\ ~NoReads /\ (mode = "sync" => NoReads')
  BY <1>0, HeadRead
<1>3. mbox \in Seq(Messages) /\ Len(mbox) \in Nat
  BY DEF Base, Types
<1>4. ASSUME NEW n \in Nat, NEW e, Ahead(mbox, AllAsked + n, e) PROVE Ahead(mbox', AllAsked' + n, e)
  <2>1. PICK a \in Nat : a = AllAsked'
    BY <1>2
  <2>2. PICK b \in Nat : b = AllAsked
    BY <1>2
  <2>3. b = a + Head(bus).n
    BY <1>2, <2>1, <2>2
  <2>4. a + n <= b + n /\ a + n \in Nat /\ b + n \in Nat
    BY <1>2, <2>3
  <2>5. Ahead(mbox, a + n, e)
    BY <1>3, <1>4, <2>2, <2>4, AheadLess
  <2> QED BY <1>0, <2>1, <2>5
<1>5. pc'[t] = "recycle" /\ loc'[t] = l
  BY <1>1 DEF Moved
<1>6. ~(l.la > 0)
  BY <1>1, <1>2 DEF Reading, Fetching
<1>7. \A i \in DOMAIN bus' : bus'[i].op = "read" => bus'[i].by # t
  <2>1. CASE mode = "sync"
    BY <1>2, <2>1 DEF NoReads
  <2>2. CASE t \in Contexts /\ mode = "async"
    BY <1>0, <2>2, ThreadsAre DEF Base, Requests, Requested
  <2> QED BY <1>1, <2>1, <2>2
<1>8. Fetching(t)'
  BY <1>5, <1>6, <1>7 DEF Fetching, Asking
<1>9. mode = "async" => ~HoldsAt(t, "recycle", l)
  BY <1>1, ThreadsAre DEF HoldsAt
<1> QED BY <1>0, <1>1, <1>2, <1>4, <1>8, <1>9, OthersTail

LEMMA ReadingAlloc ==
    ASSUME Base, Chain, Hands, Reading, NEW t \in Handlers, AllocPackets(t)
    PROVE  Reading'
<1>0. t \in Threads /\ loc[t] \in LocalVars /\ mode \in {"sync", "async"}
  BY ThreadsAre, ThreadIs
<1> DEFINE n == Allocates(loc[t])
<1>1. /\ Base' /\ pc[t] = "alloc" /\ n \in Nat /\ loc[t].ep \in Eps
      /\ UNCHANGED <<mode, mbox, bus, taken>>
  BY <1>0, AllocPacketsBase DEF AllocPackets, deviceVars
<1>2. PICK l : Moved(t, "fetch", l) /\ l = [loc[t] EXCEPT !.la = 0, !.fetch = n, !.total = @ + n]
  BY <1>0, AllocPacketsBase
<1>3. l.la = 0 /\ l.fetch = n /\ l.done = loc[t].done /\ l.doneEp = loc[t].doneEp /\ l.ep = loc[t].ep
  BY <1>0, <1>2 DEF LocalVars
<1>4. n <= loc[t].la /\ loc[t].la \in Nat
  <2>1. loc[t].la \in Nat /\ rxBuffers[loc[t].ep] \in Nat
    <3>1. loc[t].la \in 0..MaxBundle
      BY <1>0 DEF LocalVars
    <3>2. rxBuffers[loc[t].ep] \in Nat
      BY <1>1 DEF Base, Types
    <3> QED BY <3>1, <3>2, ThreadsAre
  <2> QED BY <2>1 DEF Allocates
<1>5. loc[t].la > 0
  BY <1>0, <1>1, ThreadIs DEF Good, Holding
<1> HIDE DEF n
<1>6. NoReads /\ Ahead(mbox, loc[t].la, loc[t].ep) /\ Fetching(t)
  BY <1>5 DEF Reading, Fetching
<1>7. AllAsked' = AllAsked /\ AllAsked = 0 /\ NoReads'
  BY <1>1, <1>6, AskedAre DEF AllAsked, NoReads
<1>8. l.done = <<>>
  <2>1. CASE t = "dsr"
    BY <1>1, <1>3, <2>1 DEF Hands, WaitsForRead
  <2>2. CASE t \in Contexts
    BY <1>1, <1>3, <2>2, ContextIs DEF HoldingContext, Handling
  <2> QED BY <2>1, <2>2, ThreadsAre
<1>9. pc'[t] = "fetch" /\ loc'[t] = l /\ \A u \in Threads : u # t => pc'[u] = pc[u] /\ loc'[u] = loc[u]
  BY <1>2 DEF Moved
<1>10. Fetching(t)'
  <2>1. Ahead(mbox, n, l.ep)
    <3>1. Len(mbox) \in Nat
      BY DEF Base, Types
    <3> QED BY <1>1, <1>3, <1>4, <1>6, <3>1, AheadLess
  <2>2. AllAsked' + l.fetch = n
    <3>1. PICK m \in Nat : m = n
      BY <1>1
    <3>2. 0 + m = m
      OBVIOUS
    <3> QED BY <1>3, <1>7, <3>1, <3>2
  <2>3. Ahead(mbox', AllAsked' + l.fetch, l.ep)
    BY <1>1, <2>1, <2>2
  <2>4. ReadsFor(l.ep)'
    BY <1>7 DEF ReadsFor, NoReads
  <2>5. ReadsFor(loc[t].ep)'
    BY <1>9, <2>4
  <2> QED BY <1>3, <1>7, <1>8, <1>9, <2>3, <2>5 DEF Fetching, NoReads, Asking
<1>11. ASSUME NEW u \in Handlers, u # t PROVE Fetching(u)'
  <2>0. u \in Threads /\ Fetching(u) /\ loc[u] \in LocalVars
    BY ThreadsAre, ThreadIs DEF Reading
  <2>1. pc'[u] = pc[u] /\ loc'[u] = loc[u]
    BY <1>9, <1>11, <2>0
  <2>2. loc[u].fetch \in Nat
    BY <2>0 DEF LocalVars
  <2>3. ReadsFor(loc[u].ep) => ReadsFor(loc[u].ep)'
    BY <1>1, <2>1 DEF ReadsFor
  <2>4. \A m \in Nat : \A e : Ahead(mbox, AllAsked + m, e) => Ahead(mbox', AllAsked' + m, e)
    BY <1>1, <1>7
  <2> QED BY <1>1, <1>7, <2>0, <2>1, <2>2, <2>3, <2>4, FetchingKept
<1>12. ReadsLast' /\ FetchesAnnounced' /\ \A i \in DOMAIN bus' : bus'[i].op # "read"
  BY <1>7 DEF ReadsLast, FetchesAnnounced, NoReads
<1> QED BY <1>7, <1>10, <1>11, <1>12 DEF Reading, OnBus

LEMMA ReadingFetch ==
    ASSUME Base, Chain, Hands, Reading, NEW t \in Handlers, FetchPackets(t)
    PROVE  Reading'
<1>0. t \in Threads /\ loc[t] \in LocalVars /\ mode \in {"sync", "async"} /\ Good(t, pc[t], loc[t])
  BY ThreadsAre, ThreadIs
<1>1. /\ Base' /\ pc[t] = "fetch" /\ loc[t].fetch > 0 /\ loc[t].ep \in Eps /\ (mode = "sync" => t = "dsr")
      /\ UNCHANGED <<mode, mbox, taken>>
  BY <1>0, FetchPacketsBase DEF FetchPackets, deviceVars, irqVars
<1>2. PICK n \in {1, loc[t].fetch} :
         /\ Moved(t, IF mode = "sync" THEN "waiting" ELSE "fetch", [loc[t] EXCEPT !.fetch = @ - n])
         /\ bus' = Append(bus, Request("read", IF mode = "sync" THEN t ELSE Nobody, loc[t].ep,
                                       n, n = loc[t].fetch, FALSE))
  BY <1>0, FetchPacketsBase
<1>3. PICK w, l, r :
         /\ Moved(t, w, l) /\ bus' = Append(bus, r) /\ w = (IF mode = "sync" THEN "waiting" ELSE "fetch")
         /\ l = [loc[t] EXCEPT !.fetch = @ - n]
         /\ r = Request("read", IF mode = "sync" THEN t ELSE Nobody, loc[t].ep, n, n = loc[t].fetch, FALSE)
  BY <1>2
<1>4. /\ r.op = "read" /\ r.by = (IF mode = "sync" THEN t ELSE Nobody) /\ r.ep = loc[t].ep /\ r.n = n
      /\ r.last <=> n = loc[t].fetch
  BY <1>3 DEF Request
<1>5. /\ l.fetch = loc[t].fetch - n /\ l.la = loc[t].la /\ l.ep = loc[t].ep /\ l.done = loc[t].done
      /\ l.doneEp = loc[t].doneEp /\ l.total = loc[t].total
  BY <1>0, <1>3 DEF LocalVars
<1>6. loc[t].fetch \in Nat /\ n \in Nat /\ n > 0 /\ n <= loc[t].fetch /\ l.fetch \in Nat /\ (l.fetch = 0 <=> n = loc[t].fetch)
  <2>1. loc[t].fetch \in Nat
    BY <1>0 DEF LocalVars
  <2> QED BY <1>1, <1>5, <2>1
<1>7. /\ DOMAIN bus' = 1..(Len(bus) + 1) /\ bus'[Len(bus) + 1] = r
      /\ DOMAIN bus = 1..Len(bus) /\ Len(bus) \in Nat /\ \A i \in 1..Len(bus) : bus'[i] = bus[i]
      /\ AllAsked' = AllAsked + n
  <2>1. /\ DOMAIN bus' = 1..(Len(bus) + 1) /\ bus'[Len(bus) + 1] = r
        /\ DOMAIN bus = 1..Len(bus) /\ Len(bus) \in Nat /\ \A i \in 1..Len(bus) : bus'[i] = bus[i]
        /\ AllAsked' = AllAsked + (IF r.op = "read" THEN r.n ELSE 0)
    BY <1>1, <1>3, AskedAppend
  <2>2. (IF r.op = "read" THEN r.n ELSE 0) = n
    BY <1>4
  <2> QED BY <2>1, <2>2
<1>8. AllAsked \in Nat
  BY AskedAre
<1>9. /\ Ahead(mbox, AllAsked + loc[t].fetch, loc[t].ep) /\ ReadsFor(loc[t].ep) /\ loc[t].la = 0
      /\ loc[t].done # <<>> => loc[t].doneEp = loc[t].ep
  BY <1>1 DEF Reading, Fetching, Asking
<1>10. Len(mbox) \in Nat
  BY DEF Base, Types
<1>11. AllAsked' + l.fetch = AllAsked + loc[t].fetch /\ AllAsked' \in Nat
  <2>1. PICK a \in Nat : a = AllAsked
    BY <1>8
  <2>2. a + n + l.fetch = a + loc[t].fetch /\ a + n \in Nat
    BY <1>5, <1>6
  <2> QED BY <1>7, <2>1, <2>2
<1>12. Ahead(mbox', AllAsked' + l.fetch, l.ep)
  BY <1>1, <1>5, <1>9, <1>11
<1>13. Ahead(mbox', AllAsked', loc[t].ep)
  <2>1. PICK b \in Nat : b = AllAsked'
    BY <1>11
  <2>2. Len(mbox') \in Nat /\ b + l.fetch \in Nat /\ b <= b + l.fetch
    BY <1>1, <1>6, <1>10
  <2> QED BY <1>5, <1>12, <2>1, <2>2, AheadLess
<1>14. \A i \in DOMAIN bus' : i = Len(bus) + 1 \/ (i \in DOMAIN bus /\ i <= Len(bus))
  BY <1>7
<1>15. ReadsFor(loc[t].ep)'
  <2>1. loc'[t].ep = loc[t].ep
    BY <1>3, <1>5 DEF Moved
  <2>2. \A i \in DOMAIN bus' : bus'[i].op = "read" => bus'[i].ep = loc[t].ep
    BY <1>4, <1>7, <1>9, <1>14 DEF ReadsFor
  <2> QED BY <2>1, <2>2 DEF ReadsFor
<1>16. FetchesAnnounced'
  <2>1. loc'[t].ep = loc[t].ep
    BY <1>3, <1>5 DEF Moved
  <2> QED BY <1>13, <1>15, <2>1, AnnouncedNext DEF ReadsFor
<1>17. mode = "async" => Holds(t) /\ taken /\ ~SomeLive
  BY <1>1 DEF Chain, Holds, HoldsAt
<1>18. \A i \in DOMAIN bus : ~Live(bus[i])
  <2>1. CASE mode = "async"
    BY <1>17, <2>1 DEF SomeLive
  <2>2. CASE mode = "sync"
    BY <2>2, ThreadsAre DEF Live, Base, Requests, Requested
  <2> QED BY <1>0, <2>1, <2>2
<1>19. ReadsLast'
  <2> SUFFICES ASSUME NEW i \in DOMAIN bus', NEW j \in DOMAIN bus', Live(bus'[i]), bus'[j].op = "read"
               PROVE  bus'[i].op = "read" /\ j <= i
    BY DEF ReadsLast, Live
  <2>1. i = Len(bus) + 1
    BY <1>7, <1>14, <1>18
  <2> QED BY <1>4, <1>7, <2>1
<1>20. \A i \in DOMAIN bus' : bus'[i].op = "read" => bus'[i].n = 1 \/ bus'[i].last
  BY <1>4, <1>7, <1>14 DEF Reading, OnBus
<1>21. pc'[t] = w /\ loc'[t] = l /\ \A u \in Threads : u # t => pc'[u] = pc[u] /\ loc'[u] = loc[u]
  BY <1>3 DEF Moved
<1>22. ASSUME mode = "async", NEW u \in Handlers, Holds(u)', ~Asking(pc[u], loc[u])' PROVE FALSE
  <2>1. CASE u = t
    <3>1. w = "fetch" /\ HoldsAt(t, w, l) /\ ~Asking(w, l)
      BY <1>1, <1>3, <1>21, <1>22, <2>1 DEF Holds, HoldsAt, Asking
    <3>2. l.total = 0
      BY <1>22, <3>1 DEF HoldsAt, Asking
    <3>3. loc[t].total > 0
      BY <1>0, <1>1, <1>22, ThreadsAre DEF Good, HoldingContext, HoldingStarter
    <3>4. loc[t].total # 0
      BY <3>3
    <3> QED BY <1>5, <3>2, <3>4
  <2>2. CASE u # t
    <3>1. Holds(u)
      BY <1>1, <1>21, <1>22, <2>2, ThreadsAre DEF Holds, HoldsAt
    <3> QED BY <1>17, <1>22, <2>2, <3>1 DEF Chain
  <2> QED BY <2>1, <2>2
<1>23. Fetching(t)'
  <2>1. ~(l.la > 0)
    BY <1>5, <1>9
  <2>2. ASSUME NEW i \in DOMAIN bus', bus'[i].op = "read" /\ bus'[i].by = t
        PROVE  /\ l.ep = bus'[i].ep /\ Ahead(mbox', AllAsked' + l.fetch, l.ep)
               /\ bus'[i].last <=> l.fetch = 0
               /\ l.done # <<>> => l.doneEp = l.ep
    <3>1. i = Len(bus) + 1
      <4>1. ASSUME i \in DOMAIN bus, bus'[i] = bus[i] PROVE FALSE
        <5>1. pc[t] = "waiting"
          BY <1>0, <2>2, <4>1 DEF Base, Requests
        <5> QED BY <1>1, <5>1
      <4> QED BY <1>7, <1>14, <4>1
    <3> QED BY <1>4, <1>5, <1>6, <1>7, <1>9, <1>12, <3>1
  <2>3. l.done # <<>> => l.doneEp = l.ep
    BY <1>5, <1>9
  <2>4. l.la = 0
    BY <1>5, <1>9
  <2>5. loc'[t].ep = loc[t].ep
    BY <1>5, <1>21
  <2> QED BY <1>12, <1>15, <1>21, <2>1, <2>2, <2>3, <2>4, <2>5 DEF Fetching, Asking
<1>24. ASSUME NEW u \in Handlers, u # t PROVE Fetching(u)'
  <2>0. u \in Threads /\ Fetching(u) /\ loc[u] \in LocalVars /\ Good(u, pc[u], loc[u])
    BY ThreadsAre, ThreadIs DEF Reading
  <2>1. pc'[u] = pc[u] /\ loc'[u] = loc[u]
    BY <1>21, <1>24, <2>0
  <2>2. CASE mode = "async"
    <3>1. ~Holds(u)
      BY <1>17, <1>24, <2>2 DEF Chain
    <3>2. ~Asking(pc[u], loc[u])
      BY <2>2, <3>1 DEF Asking, Holds, HoldsAt
    <3>3. ~(loc[u].la > 0)
      <4> SUFFICES ASSUME loc[u].la > 0 PROVE FALSE
        OBVIOUS
      <4>1. pc[u] \in {"pending", "alloc", "events", "complete", "more"}
        BY <2>0, <2>2 DEF Fetching, LooksAt
      <4>2. pc[u] \in {"complete", "more"}
        BY <2>2, <3>1, <4>1 DEF Holds, HoldsAt
      <4>3. u \in Contexts
        BY <2>0, <4>2, ThreadsAre DEF Good, MayBe, DsrPlaces, SyncPlaces
      <4>4. loc[u].last /\ loc[u].more
        BY <2>0, <4>2, <4>3 DEF Good, HoldingContext
      <4> QED BY <2>2, <3>1, <4>2, <4>4 DEF Holds, HoldsAt
    <3>4. \A i \in DOMAIN bus' : bus'[i].op = "read" => bus'[i].by # u
      BY <1>1, <2>0, <2>2, ThreadsAre DEF Base, Requests, Requested
    <3> QED BY <2>1, <3>2, <3>3, <3>4 DEF Fetching, Asking
  <2>3. CASE mode = "sync"
    <3>1. pc[u] = "idle" /\ t = "dsr"
      BY <1>1, <1>24, <2>0, <2>3, ThreadsAre DEF Good, MayBe
    <3>2. ~(loc[u].la > 0)
      BY <2>0, <2>3, <3>1 DEF Fetching, LooksAt
    <3>3. \A i \in DOMAIN bus' : bus'[i].op = "read" => bus'[i].by # u
      BY <1>1, <1>24, <2>3, <3>1, ThreadsAre DEF Base, Requests, Requested
    <3> QED BY <2>1, <3>1, <3>2, <3>3 DEF Fetching, Asking
  <2> QED BY <1>0, <2>2, <2>3
<1> QED BY <1>1, <1>16, <1>17, <1>19, <1>20, <1>22, <1>23, <1>24 DEF Reading, OnBus

LEMMA NextReading ==
    ASSUME Base, Base', Chain, Hands, Reading, [Next]_vars
    PROVE  Reading'
<1>1. CASE Still
  BY <1>1, ReadingStill
<1>2. ASSUME NEW t \in Threads, NEW w, NEW l, Calm(t, w, l) PROVE Reading'
  BY <1>2, CalmIsPlain, ReadingPlain
<1>3. CASE Busy
  <2>1. ASSUME \/ \E e \in Eps : AddReceivePkts(e)
               \/ \E t \in Handlers : RecyclePkts(t)
               \/ IndicateSync \/ BadHeaderSync
               \/ \E c \in Contexts : QueueIndication(c) \/ BadHeader(c) \/ TakesAll(c) \/ Indicate(c)
        PROVE  Reading'
    BY <2>1, BusyPlain, ReadingPlain
  <2>2. ASSUME NEW e \in Eps, TargetSends(e) PROVE Reading'
    BY <2>2, ReadingSends
  <2>3. ASSUME NEW t \in Handlers, BusStatus(t) \/ BusRead(t) \/ BusReadFails(t) \/ AllocPackets(t) \/ FetchPackets(t)
        PROVE  Reading'
    BY <2>3, ReadingStatus, ReadingRead, ReadingReadFails, ReadingAlloc, ReadingFetch
  <2> QED BY <1>3, <2>1, <2>2, <2>3 DEF Busy
<1> QED BY <1>1, <1>2, <1>3, NextIs

LEMMA InitReading == Init => Reading
<1> SUFFICES ASSUME Init PROVE Reading
  OBVIOUS
<1>1. bus = <<>> /\ pc = [t \in Threads |-> "idle"] /\ loc = [t \in Threads |-> NoLoc]
  BY DEF Init
<1>2. DOMAIN bus = {}
  BY <1>1
<1>3. OnBus
  BY <1>2 DEF OnBus, ReadsLast, NoReads, FetchesAnnounced
<1>4. ASSUME NEW t \in Handlers PROVE Fetching(t)
  <2>1. t \in Threads
    BY ThreadsAre
  <2>2. pc[t] = "idle" /\ loc[t].la = 0
    BY <1>1, <2>1 DEF NoLoc
  <2> QED BY <1>2, <2>2 DEF Fetching, Asking
<1> QED BY <1>3, <1>4 DEF Reading

LEMMA NextBaseChain ==
    ASSUME Base, Chain, [Next]_vars
    PROVE  Base' /\ Chain'
  BY NextBase, NextChain, StutterBase, StutterChain

\* What is asked for on the bus is what the look-aheads announced.
THEOREM ReadingHolds == Spec => [](Base /\ Chain /\ Hands /\ Reading)
<1>1. Init => Base /\ Chain /\ Hands /\ Reading
  BY InitBase, InitChain, InitHands, InitReading
<1>2. Base /\ Chain /\ Hands /\ Reading /\ [Next]_vars => (Base /\ Chain /\ Hands /\ Reading)'
  <2> SUFFICES ASSUME Base, Chain, Hands, Reading, [Next]_vars PROVE (Base /\ Chain /\ Hands /\ Reading)'
    OBVIOUS
  <2>1. Base' /\ Chain'
    BY NextBaseChain
  <2>2. Hands'
    BY <2>1, NextHands
  <2>3. Reading'
    BY <2>1, NextReading
  <2> QED BY <2>1, <2>2, <2>3
<1> QED BY <1>1, <1>2, PTL DEF Spec

\* The messages that HTCIssueRecvPacketBundle and HTCIssueRecv ask the bus for
\* are at the head of the mailbox, and of the endpoint whose buffers they fill.
THEOREM FetchesAnnouncedCorrect == Spec => []FetchesAnnounced
<1>1. Base /\ Chain /\ Hands /\ Reading => FetchesAnnounced
  BY DEF Reading, OnBus
<1> QED BY <1>1, ReadingHolds, PTL
=============================================================================
