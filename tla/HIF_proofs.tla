----------------------------- MODULE HIF_proofs ------------------------------
(***************************************************************************)
(* Proofs about HIF, for any numbers of callers, requests and starts: once *)
(* HIFMaskInterrupt has returned no interrupt is being handled; a request  *)
(* is in one place; a caller that is woken has had its transfer made, and  *)
(* all those before it; and the list of requests is a queue.               *)
(***************************************************************************)
EXTENDS HIF, FiniteSetTheorems, WellFoundedInduction, TLAPS

Lists == INSTANCE Queues_proofs

\* Positions of Irq between the two accesses to irqHandling, and those of Task
\* while it holds the host.
Handling == {"status", "dsr", "add", "up", "wait", "woken"}
Carrying == {"pull", "perform", "callback", "add", "up"}

(***************************************************************************)
(* MaskedIsQuiet is not inductive: HIFMaskInterrupt sees only the host and *)
(* irqHandling.  From the moment it is called to the moment it returns,    *)
(* hifIRQHandler holds the host or has set the flag, and async_task, which *)
(* releases the host, releases only its own claim.                         *)
(***************************************************************************)
IrqKnown ==
    /\ at[Irq] \in {"none", "entered", "leaving"} \cup Handling
    /\ at[Irq] \in {"entered", "leaving"} => host = Irq
    /\ at[Irq] \in Handling => irqHandling
    /\ at[Irq] # "none" => irqClaimed

QuietInv ==
    /\ at \in [Threads -> Locations]
    /\ IrqKnown
    /\ at[Task] \in Carrying => host = Task

\* The threads of the model are distinct.
LEMMA Distinct ==
    /\ Irq \in Threads /\ Task \in Threads
    /\ Irq # Task /\ Irq # Admin /\ Task # Admin
    /\ Irq \notin Users \cup {Admin}
    /\ Irq # NoThread /\ Task # NoThread
    /\ ~Synchronous(Task) /\ Synchronous(Irq)
  BY HIFAssumption DEF HIFAssumption, Threads, Callers, Synchronous

LEMMA QuietInit == Init => QuietInv
  BY Distinct DEF Init, QuietInv, IrqKnown, Locations, Carrying, Handling

\* A call is made and waited for; the interrupt thread stays inside the DSR.
LEMMA QuietCall ==
    ASSUME QuietInv, NEW t \in Threads, CallStep(t) \/ BeginCall(t)
    PROVE  QuietInv'
<1> USE DEF At, Goto, QuietInv, IrqKnown, Locations, Handling, Carrying
<1>1. CASE AddToAsyncList(t)
  BY <1>1, Distinct DEF AddToAsyncList, hostVars
<1>2. CASE Wake(t)
  BY <1>2, Distinct DEF Wake, hostVars
<1>3. CASE Awake(t)
  BY <1>3, Distinct DEF Awake, hostVars
<1>4. CASE ReturnStatus(t)
  BY <1>4, Distinct DEF ReturnStatus, hostVars
<1>a. ASSUME MayCall(t)
      PROVE  /\ t = Irq => at[t] \in {"status", "dsr"}
             /\ t = Task => at[t] = "callback"
  BY <1>a, Distinct DEF MayCall
<1>5. CASE HIFReadWrite(t)
  <2>1. /\ UNCHANGED <<host, irqClaimed, irqHandling>>
        /\ \/ at' = at
           \/ at' = [at EXCEPT ![t] = "add"]
           \/ t = Irq /\ at' = [at EXCEPT ![t] = "dsr"]
    BY <1>5 DEF HIFReadWrite, hostVars
  <2>2. MayCall(t)
    BY <1>5 DEF HIFReadWrite
  <2> QED BY <2>1, <2>2, <1>a, Distinct
<1>6. CASE ReadWriteScatter(t)
  <2>1. /\ UNCHANGED <<host, irqClaimed, irqHandling>>
        /\ at' = [at EXCEPT ![t] = "add"]
    BY <1>6 DEF ReadWriteScatter, hostVars
  <2>2. MayCall(t)
    BY <1>6 DEF ReadWriteScatter
  <2> QED BY <2>1, <2>2, <1>a, Distinct
<1> QED BY <1>1, <1>2, <1>3, <1>4, <1>5, <1>6 DEF CallStep, BeginCall

\* A signal takes only threads in process context out of their wait.
LEMMA QuietInterrupted ==
    ASSUME QuietInv, NEW t \in Users \cup {Admin}, Interrupted(t)
    PROVE  QuietInv'
  BY Distinct, HIFAssumption
     DEF Interrupted, hostVars, At, Goto, QuietInv, IrqKnown, Locations, Handling,
         Carrying, HIFAssumption, Callers, Threads

\* async_task claims a free host and releases its own claim.
LEMMA QuietTask == ASSUME QuietInv, TaskStep PROVE QuietInv'
<1> USE DEF At, Goto, QuietInv, IrqKnown, Locations, Handling, Carrying
<1>1. CASE Down
  BY <1>1, Distinct DEF Down, hostVars
<1>2. CASE Claim
  BY <1>2, Distinct DEF Claim
<1>3. CASE Pull
  BY <1>3, Distinct DEF Pull, hostVars
<1>4. CASE Release
  BY <1>4, Distinct DEF Release
<1>5. CASE PerformSync
  BY <1>5, Distinct DEF PerformSync, hostVars
<1>6. CASE PerformAsync
  BY <1>6, Distinct DEF PerformAsync, hostVars
<1>7. CASE CallbackReturns
  BY <1>7, Distinct DEF CallbackReturns, hostVars
<1>8. CASE Exit
  BY <1>8, Distinct DEF Exit, hostVars
<1> QED BY <1>1, <1>2, <1>3, <1>4, <1>5, <1>6, <1>7, <1>8 DEF TaskStep

\* The handler gives up the host only while the flag is set.
LEMMA QuietIrq == ASSUME QuietInv, Interrupt \/ IrqStep PROVE QuietInv'
<1> USE DEF At, Goto, QuietInv, IrqKnown, Locations, Handling, Carrying
<1>1. CASE Interrupt
  BY <1>1, Distinct DEF Interrupt
<1>2. CASE EnterDsr
  BY <1>2, Distinct DEF EnterDsr, HostDuringDsr
<1>3. CASE LeaveDsr
  BY <1>3, Distinct DEF LeaveDsr
<1>4. CASE InterruptDone
  BY <1>4, Distinct DEF InterruptDone
<1> QED BY <1>1, <1>2, <1>3, <1>4 DEF IrqStep

\* HIFMaskInterrupt finds a free host and no flag: no interrupt is in between.
LEMMA QuietAdmin == ASSUME QuietInv, AdminStep PROVE QuietInv'
<1> USE DEF At, Goto, QuietInv, IrqKnown, Locations, Handling, Carrying
<1>1. CASE EnableFunc
  BY <1>1, Distinct DEF EnableFunc, hostVars
<1>2. CASE SetupScatter
  BY <1>2 DEF SetupScatter, hostVars
<1>3. CASE UnMaskInterrupt
  BY <1>3 DEF UnMaskInterrupt
<1>4. CASE MaskInterrupt
  BY <1>4, Distinct DEF MaskInterrupt, MayMask
<1>5. CASE StopTask
  BY <1>5 DEF StopTask, hostVars
<1>6. CASE TaskStopped
  BY <1>6 DEF TaskStopped, hostVars
<1>7. CASE \E outcome \in Outcomes : DisableFunc(outcome)
  BY <1>7 DEF DisableFunc, hostVars
<1>8. CASE CleanupScatter
  BY <1>8 DEF CleanupScatter, hostVars
<1> QED BY <1>1, <1>2, <1>3, <1>4, <1>5, <1>6, <1>7, <1>8 DEF AdminStep

LEMMA QuietNext == QuietInv /\ [Next]_vars => QuietInv'
<1> SUFFICES ASSUME QuietInv, [Next]_vars PROVE QuietInv'
  OBVIOUS
<1>1. CASE UNCHANGED vars
  BY <1>1 DEF vars, hostVars, QuietInv, IrqKnown
<1>2. CASE Next
  BY <1>2, QuietCall, QuietInterrupted, QuietTask, QuietIrq, QuietAdmin DEF Next
<1> QED BY <1>1, <1>2

(***************************************************************************)
(* "We don't want a stray interrupt taken while we zero out our shadow     *)
(* registers" (DevMaskInterrupts, ar6k.c): after HIFMaskInterrupt no       *)
(* interrupt is in progress, however the handler, its transfers and        *)
(* async_task hand the host to one another.                                *)
(***************************************************************************)
THEOREM MaskedIsQuietCorrect == Spec => []MaskedIsQuiet
<1>1. QuietInv => MaskedIsQuiet
  BY DEF QuietInv, IrqKnown, MaskedIsQuiet, At
<1> QED BY <1>1, QuietInit, QuietNext, PTL DEF Spec

-----------------------------------------------------------------------------
(***************************************************************************)
(* The links of the queued requests as a sequence.                         *)
(***************************************************************************)

\* The links starting at head lead through the requests of s, and end there.
Chain(s, head, links) ==
    /\ s \in Seq(Requests) /\ Lists!Distinct(s)
    /\ s = <<>> => head = NoRequest
    /\ s # <<>> => head = s[1] /\ links[s[Len(s)]] = NoRequest
    /\ \A i \in 1..(Len(s) - 1) : links[s[i]] = s[i + 1]

LEMMA NatMin ==
    ASSUME NEW T \in SUBSET Nat, T # {}
    PROVE  \E n \in T : \A m \in T : n <= m
<1> DEFINE R == OpToRel(<, Nat)
<1>1. IsWellFoundedOn(R, Nat)
  BY NatLessThanWellFounded
<1>2. \A x, y \in Nat : x < y => <<x, y>> \in R
  BY DEF OpToRel
<1> HIDE DEF R
<1>3. PICK x \in T : \A y \in T : ~(<<y, x>> \in R)
  BY <1>1, WFMin
<1>4. \A y \in T : ~(y < x)
  BY <1>2, <1>3
<1> QED BY <1>4

\* Two functions on 1..n that agree on 1, and on i + 1 if on i, are the same.
LEMMA SameByInduction ==
    ASSUME NEW n \in Nat, NEW f, NEW g,
           1 \in 1..n => f[1] = g[1],
           \A i \in 1..n : i + 1 \in 1..n /\ f[i] = g[i] => f[i + 1] = g[i + 1]
    PROVE  \A i \in 1..n : f[i] = g[i]
<1> DEFINE T == {i \in 1..n : f[i] # g[i]}
<1> SUFFICES ASSUME T # {} PROVE FALSE
  OBVIOUS
<1>0. T \in SUBSET Nat
  OBVIOUS
<1>1. PICK i \in T : \A m \in T : i <= m
  BY <1>0, NatMin
<1>2. i # 1 /\ i - 1 \in 1..n /\ i - 1 \notin T
  BY <1>1
<1>3. f[i - 1] = g[i - 1] /\ (i - 1) + 1 = i
  BY <1>2
<1> QED BY <1>1, <1>2, <1>3

LEMMA Bound == Cardinality(Requests) \in Nat
  BY HIFAssumption, FS_CardinalityType DEF HIFAssumption

\* A list without repetitions has at most all the requests.
LEMMA DistinctLen ==
    ASSUME NEW s \in Seq(Requests), Lists!Distinct(s)
    PROVE  Len(s) \in 0..Cardinality(Requests)
<1>1. s \in Injection(1..Len(s), Requests)
  BY DEF Lists!Distinct, Injection, IsInjective
<1>2. IsFiniteSet(1..Len(s)) /\ Cardinality(1..Len(s)) = Len(s) /\ Len(s) \in Nat
  <2>1. Len(s) \in Nat /\ Len(s) \in Int /\ 1 \in Int
    OBVIOUS
  <2> QED BY <2>1, FS_Interval
<1>3. Cardinality(1..Len(s)) <= Cardinality(Requests)
  BY <1>1, FS_Injection, HIFAssumption DEF HIFAssumption
<1> QED BY <1>2, <1>3, Bound

\* nth is what Followed follows the links with.
Follows(nth, head, links) ==
    nth = [i \in 1..Cardinality(Requests) |->
             IF i = 1 THEN head
             ELSE IF nth[i - 1] = NoRequest THEN NoRequest ELSE links[nth[i - 1]]]

LEMMA FollowedDef ==
    ASSUME NEW head, NEW links, NEW f, Follows(f, head, links)
    PROVE  \E nth : /\ Follows(nth, head, links)
                    /\ Followed(head, links) =
                         [i \in {j \in 1..Cardinality(Requests) : nth[j] # NoRequest} |-> nth[i]]
  BY DEF Followed, Follows

LEMMA FollowedChain ==
    ASSUME NEW s, NEW head, NEW links, Chain(s, head, links)
    PROVE  Followed(head, links) = s
<1> DEFINE n == Cardinality(Requests)
           f == [i \in 1..n |-> IF i <= Len(s) THEN s[i] ELSE NoRequest]
<1>1. /\ s \in Seq(Requests) /\ Len(s) \in Nat /\ Len(s) <= n /\ n \in Nat
      /\ \A i \in 1..Len(s) : s[i] \in Requests /\ s[i] # NoRequest
  BY DistinctLen, Bound, HIFAssumption DEF Chain, HIFAssumption
<1>2. ASSUME NEW i \in 1..n
      PROVE  f[i] = IF i = 1 THEN head
                    ELSE IF f[i - 1] = NoRequest THEN NoRequest ELSE links[f[i - 1]]
  <2>1. CASE i = 1
    BY <1>1, <2>1 DEF Chain
  <2>2. CASE i # 1
    <3>1. i - 1 \in 1..n /\ (i - 1) + 1 = i
      BY <2>2, <1>1
    <3>2. CASE i <= Len(s)
      <4>1. i - 1 \in 1..(Len(s) - 1)
        BY <3>1, <3>2, <1>1
      <4>2. f[i - 1] = s[i - 1] /\ s[i - 1] # NoRequest /\ links[s[i - 1]] = s[i]
        BY <3>1, <4>1, <1>1 DEF Chain
      <4> QED BY <2>2, <3>2, <4>2
    <3>3. CASE i - 1 = Len(s)
      <4>1. f[i - 1] = s[i - 1] /\ s[i - 1] # NoRequest /\ s # <<>>
        BY <3>1, <3>3, <1>1
      <4>2. links[s[i - 1]] = NoRequest
        BY <3>3, <4>1 DEF Chain
      <4>3. f[i] = NoRequest
        BY <3>3, <3>1, <1>1
      <4> QED BY <2>2, <4>1, <4>2, <4>3
    <3>4. CASE i - 1 > Len(s)
      BY <3>4, <3>1, <2>2, <1>1
    <3> QED BY <3>1, <3>2, <3>3, <3>4, <1>1
  <2> QED BY <2>1, <2>2
<1> HIDE DEF f
<1>3. Follows(f, head, links)
  <2>1. f = [i \in 1..n |-> f[i]]
    BY DEF f
  <2> QED BY <2>1, <1>2 DEF Follows
<1>4. PICK nth :
         /\ Follows(nth, head, links)
         /\ Followed(head, links) = [i \in {j \in 1..n : nth[j] # NoRequest} |-> nth[i]]
  BY <1>3, FollowedDef
<1>5. \A i \in 1..n : nth[i] = IF i = 1 THEN head
                ELSE IF nth[i - 1] = NoRequest THEN NoRequest ELSE links[nth[i - 1]]
  BY <1>4 DEF Follows
<1>6. \A i \in 1..n : nth[i] = f[i]
  <2>1. 1 \in 1..n => nth[1] = f[1]
    BY <1>2, <1>5
  <2>2. ASSUME NEW i \in 1..n, i + 1 \in 1..n, nth[i] = f[i] PROVE nth[i + 1] = f[i + 1]
    <3>1. i + 1 # 1 /\ (i + 1) - 1 = i
      OBVIOUS
    <3> QED BY <1>2, <1>5, <2>2, <3>1
  <2>3. n \in Nat /\ \A i \in 1..n : i + 1 \in 1..n /\ nth[i] = f[i] => nth[i + 1] = f[i + 1]
    BY <2>2, <1>1
  <2> HIDE DEF n
  <2> QED BY <2>1, <2>3, SameByInduction
<1>7. {j \in 1..n : nth[j] # NoRequest} = 1..Len(s)
  BY <1>1, <1>6 DEF f
<1>8. \A i \in 1..Len(s) : nth[i] = s[i]
  BY <1>1, <1>6 DEF f
<1>9. s = [i \in 1..Len(s) |-> s[i]]
  BY <1>1
<1> QED BY <1>4, <1>7, <1>8, <1>9

LEMMA ChainAppend ==
    ASSUME NEW s, NEW head, NEW links \in [Requests -> MaybeRequest], Chain(s, head, links),
           NEW r \in Requests, r \notin Lists!Elems(s)
    PROVE  Chain(Append(s, r), IF head = NoRequest THEN r ELSE head,
                 IF head = NoRequest THEN [links EXCEPT ![r] = NoRequest]
                 ELSE [links EXCEPT ![Last(s)] = r, ![r] = NoRequest])
<1> DEFINE q == Append(s, r)
           l == IF head = NoRequest THEN [links EXCEPT ![r] = NoRequest]
                ELSE [links EXCEPT ![Last(s)] = r, ![r] = NoRequest]
<1>1. /\ s \in Seq(Requests) /\ Lists!Distinct(s)
      /\ s = <<>> => head = NoRequest
      /\ s # <<>> => head = s[1] /\ links[s[Len(s)]] = NoRequest
      /\ \A i \in 1..(Len(s) - 1) : links[s[i]] = s[i + 1]
  BY DEF Chain
<1>2. s = <<>> <=> head = NoRequest
  BY <1>1, HIFAssumption DEF HIFAssumption
<1>3. q \in Seq(Requests) /\ Lists!Distinct(q)
  BY <1>1, Lists!ElemsAppend
<1>4. /\ Len(q) = Len(s) + 1 /\ q[Len(q)] = r /\ Len(s) \in Nat
      /\ \A i \in 1..Len(s) : q[i] = s[i] /\ s[i] \in Requests /\ s[i] # r
  BY <1>1 DEF Lists!Elems
<1>5. l[r] = NoRequest
  BY <1>1
<1>6. ASSUME NEW i \in 1..Len(s) PROVE l[q[i]] = q[i + 1]
  <2>1. head # NoRequest /\ Last(s) = s[Len(s)]
    BY <1>2, <1>4 DEF Last
  <2>2. CASE i = Len(s)
    BY <2>1, <2>2, <1>4
  <2>3. CASE i # Len(s)
    <3>1. i \in 1..(Len(s) - 1) /\ i + 1 \in 1..Len(s) /\ Len(s) \in 1..Len(s)
      BY <2>3, <1>4
    <3>2. s[i] # s[Len(s)]
      BY <3>1, <2>3, <1>1 DEF Lists!Distinct
    <3>3. l[s[i]] = links[s[i]]
      BY <2>1, <3>1, <3>2, <1>4
    <3> QED BY <3>1, <3>3, <1>1, <1>4
  <2> QED BY <2>2, <2>3
<1> HIDE DEF l
<1>7. (IF head = NoRequest THEN r ELSE head) = q[1]
  <2>1. CASE s = <<>>
    BY <2>1, <1>2, <1>4
  <2>2. CASE s # <<>>
    <3>1. 1 \in 1..Len(s)
      BY <2>2, <1>1
    <3> QED BY <2>2, <3>1, <1>1, <1>2, <1>4
  <2> QED BY <2>1, <2>2
<1>8. /\ q # <<>> /\ l[q[Len(q)]] = NoRequest
      /\ \A i \in 1..(Len(q) - 1) : l[q[i]] = q[i + 1]
  <2>1. Len(q) - 1 = Len(s) /\ Len(q) # 0 /\ l[q[Len(q)]] = NoRequest
    BY <1>4, <1>5
  <2>2. q # <<>>
    BY <2>1
  <2> HIDE DEF q
  <2> QED BY <2>1, <2>2, <1>6
<1>9. Chain(q, IF head = NoRequest THEN r ELSE head, l)
  <2> HIDE DEF q
  <2> QED BY <1>3, <1>7, <1>8 DEF Chain
<1> QED BY <1>9 DEF l

LEMMA ChainTail ==
    ASSUME NEW s, NEW head, NEW links, Chain(s, head, links), head # NoRequest
    PROVE  /\ s # <<>> /\ head = Head(s) /\ head \in Requests
           /\ Chain(Tail(s), links[head], links)
<1> DEFINE q == Tail(s)
<1>1. /\ s \in Seq(Requests) /\ Lists!Distinct(s)
      /\ s # <<>> /\ head = s[1] /\ links[s[Len(s)]] = NoRequest
      /\ \A i \in 1..(Len(s) - 1) : links[s[i]] = s[i + 1]
  BY DEF Chain
<1>2. /\ q \in Seq(Requests) /\ Len(q) = Len(s) - 1 /\ Len(s) \in Nat
      /\ \A i \in 1..Len(q) : q[i] = s[i + 1]
  BY <1>1
<1>3. Lists!Distinct(q)
  BY <1>1, Lists!ElemsTail
<1>4. q = <<>> => links[head] = NoRequest
  <2>1. q = <<>> => Len(s) = 1
    <3> HIDE DEF q
    <3> QED BY <1>2
  <2> QED BY <2>1, <1>1
<1>5. q # <<>> => links[head] = q[1] /\ links[q[Len(q)]] = NoRequest
  <2> SUFFICES ASSUME q # <<>> PROVE links[head] = q[1] /\ links[q[Len(q)]] = NoRequest
    OBVIOUS
  <2>1. 1 \in 1..(Len(s) - 1) /\ 1 \in 1..Len(q) /\ Len(q) \in 1..Len(q) /\ Len(q) + 1 = Len(s)
    BY <1>2
  <2> HIDE DEF q
  <2>2. q[1] = s[1 + 1] /\ q[Len(q)] = s[Len(s)]
    BY <1>2, <2>1
  <2> QED BY <2>1, <2>2, <1>1
<1>6. \A i \in 1..(Len(q) - 1) : links[q[i]] = q[i + 1]
  <2> TAKE i \in 1..(Len(q) - 1)
  <2> HIDE DEF q
  <2>1. i + 1 \in 1..(Len(s) - 1) /\ i \in 1..Len(q) /\ i + 1 \in 1..Len(q)
    BY <1>2
  <2> QED BY <2>1, <1>1, <1>2
<1> QED BY <1>1, <1>2, <1>3, <1>4, <1>5, <1>6 DEF Chain

\* Other links may change.
LEMMA ChainOther ==
    ASSUME NEW s, NEW head, NEW links, NEW others, Chain(s, head, links),
           \A r \in Lists!Elems(s) : others[r] = links[r]
    PROVE  Chain(s, head, others)
<1>1. s \in Seq(Requests) /\ \A i \in 1..Len(s) : s[i] \in Lists!Elems(s)
  BY DEF Chain, Lists!Elems
<1>2. \A i \in 1..(Len(s) - 1) : i \in 1..Len(s)
  BY <1>1
<1>3. s # <<>> => Len(s) \in 1..Len(s)
  BY <1>1
<1> QED BY <1>1, <1>2, <1>3 DEF Chain

LEMMA ReverseSeq ==
    ASSUME NEW S, NEW q \in Seq(S)
    PROVE  /\ Reverse(q) \in Seq(S)
           /\ Lists!Elems(Reverse(q)) = Lists!Elems(q)
           /\ Lists!Distinct(q) => Lists!Distinct(Reverse(q))
<1> DEFINE n == Len(q)
           w == Reverse(q)
<1>1. /\ n \in Nat /\ w = [i \in 1..n |-> q[(n - i) + 1]]
      /\ \A i \in 1..n : (n - i) + 1 \in 1..n /\ q[i] \in S
  BY DEF Reverse
<1>2. w \in Seq(S) /\ Len(w) = n
  BY <1>1
<1>3. \A i \in 1..n : w[i] = q[(n - i) + 1] /\ q[i] = w[(n - i) + 1]
  <2> TAKE i \in 1..n
  <2> HIDE DEF n, w
  <2>1. (n - i) + 1 \in 1..n /\ (n - ((n - i) + 1)) + 1 = i
    BY <1>1
  <2> QED BY <2>1, <1>1
<1>4. DOMAIN w = 1..n /\ DOMAIN q = 1..n
  BY <1>1
<1> HIDE DEF w, n
<1>5. Lists!Elems(w) = Lists!Elems(q)
  BY <1>1, <1>3, <1>4 DEF Lists!Elems
<1>6. Lists!Distinct(q) => Lists!Distinct(w)
  <2> SUFFICES ASSUME Lists!Distinct(q), NEW i \in 1..n, NEW j \in 1..n, i # j
               PROVE  w[i] # w[j]
    BY <1>4 DEF Lists!Distinct
  <2>1. (n - i) + 1 # (n - j) + 1
    BY <1>1
  <2> QED BY <2>1, <1>1, <1>3, <1>4 DEF Lists!Distinct
<1> QED BY <1>2, <1>5, <1>6 DEF w

LEMMA ConsSeq ==
    ASSUME NEW S, NEW q \in Seq(S), NEW r \in S
    PROVE  /\ <<r>> \o q \in Seq(S)
           /\ Lists!Elems(<<r>> \o q) = Lists!Elems(q) \cup {r}
           /\ Lists!Distinct(q) /\ r \notin Lists!Elems(q) => Lists!Distinct(<<r>> \o q)
<1> DEFINE h == <<r>>
<1>1. h \in Seq(S) /\ Lists!Elems(h) = {r} /\ Lists!Distinct(h)
  BY Lists!ElemsSingle
<1> HIDE DEF h
<1>2. /\ h \o q \in Seq(S) /\ Lists!Elems(h \o q) = Lists!Elems(h) \cup Lists!Elems(q)
      /\ Lists!Distinct(h \o q) <=> Lists!Distinct(h) /\ Lists!Distinct(q)
                                    /\ Lists!Elems(h) \cap Lists!Elems(q) = {}
  BY <1>1, Lists!ElemsConcat
<1> QED BY <1>1, <1>2 DEF h

LEMMA InitialList ==
    /\ SetToSeq(Requests) \in Seq(Requests)
    /\ Lists!Elems(SetToSeq(Requests)) = Requests
    /\ Lists!Distinct(SetToSeq(Requests))
<1> DEFINE n == Cardinality(Requests)
           q == SetToSeq(Requests)
<1>1. IsFiniteSet(Requests) /\ n \in Nat /\ ExistsBijection(1..n, Requests)
  BY HIFAssumption, FS_CardinalityType DEF HIFAssumption
<1>2. \E f \in [1..n -> Requests] : IsInjective(f)
  BY <1>1 DEF ExistsBijection, Bijection, Injection
<1>3. q \in [1..n -> Requests] /\ IsInjective(q)
  BY <1>2 DEF SetToSeq
<1> HIDE DEF q
<1>4. q \in Injection(1..n, Requests)
  BY <1>3 DEF Injection
<1>5. Cardinality(1..n) = n
  BY <1>1, FS_Interval
<1>6. q \in Surjection(1..n, Requests)
  BY <1>1, <1>4, <1>5, FS_Injection
<1>7. q \in Seq(Requests) /\ DOMAIN q = 1..n
  BY <1>1, <1>3
<1>8. Lists!Elems(q) = Requests
  BY <1>3, <1>6, <1>7 DEF Surjection, Lists!Elems
<1>9. Lists!Distinct(q)
  BY <1>3 DEF IsInjective, Lists!Distinct
<1> QED BY <1>7, <1>8, <1>9 DEF q

-----------------------------------------------------------------------------
(***************************************************************************)
(* Where the requests are.  RequestsAccounted is not inductive: that a     *)
(* request is in one place at a time rests on the links (a request on the  *)
(* list is not linked again), on the callers (one who waits for a request  *)
(* still owns it) and on the life of async_task (there is a request in its *)
(* hands just while it carries one out).  HIFInv is their conjunction.     *)
(***************************************************************************)

\* The links from asyncreq are those of Queue.
Listed == Chain(Queue, asyncreq, inusenext)

\* Where a request is, when it is with a thread.
Held(r) == \E t \in Threads : Submitting(t) /\ hand[t] = r
Served(r) == At(Task, "perform") /\ current = r

ExactlyOne(f, p, q, h, s, c) ==
    /\ f \/ p \/ q \/ h \/ s \/ c
    /\ f => ~p /\ ~q /\ ~h /\ ~s /\ ~c
    /\ p => ~q /\ ~h /\ ~s /\ ~c
    /\ q => ~h /\ ~s /\ ~c
    /\ h => ~s /\ ~c
    /\ s => ~c

\* Every request is in one place, and no two threads submit the same one.
Pools ==
    /\ Lists!Distinct(freeList) /\ Lists!Distinct(scatterReqs)
    /\ \A r \in Requests :
          ExactlyOne(r \in Lists!Elems(freeList), r \in Lists!Elems(scatterReqs),
                     r \in Lists!Elems(Queue), Held(r), Served(r), semReq[r] = 1)
    /\ \A t, u \in Threads :
          Submitting(t) /\ Submitting(u) /\ hand[t] = hand[u] => t = u

\* In a call with a request; and among them those whose request is out of their hands.
Calling == {"add", "up", "wait", "woken"}
Waits(t) == Synchronous(t) /\ at[t] \in {"up", "wait"}

\* A request that a thread waits for stays its own, and synchronous, until it is woken; what
\* counts as complete has been transferred.
Calls ==
    /\ \A t \in Threads :
          /\ at[t] \in Calling => hand[t] \in Requests
          /\ at[t] \in {"wait", "woken"} => Synchronous(t)
          /\ at[t] = "add" => (hand[t] \in sync <=> Synchronous(t))
          /\ Waits(t) => /\ hand[t] \in sync
                         /\ \/ hand[t] \in Lists!Elems(Queue) \/ Served(hand[t])
                            \/ semReq[hand[t]] = 1
          /\ at[t] = "woken" => hand[t] \in done
    /\ \A t, u \in Threads : Waits(t) /\ Waits(u) /\ hand[t] = hand[u] => t = u
    /\ \A r \in Requests : semReq[r] = 1 => r \in done

\* The life of async_task: it has a request while it carries one out, and it ends only when
\* hifDisableFunc waits for it.
Life ==
    /\ \A t \in Callers \ {Irq} : at[t] \in {"out"} \cup Calling
    /\ at[Task] \in {"none", "down", "claim", "exit"} \cup Carrying \cup {"perform"}
    /\ at[Admin] # "out" => stage = "stopping"
    /\ current # NoRequest <=> at[Task] \in {"perform", "callback", "add", "up"}
    /\ ~asyncTask => at[Task] = "none"
    /\ completion > 0 => stage = "awaitTask" /\ at[Task] = "none"
    /\ at[Task] = "exit" => shutdown
    /\ shutdown /\ asyncTask => stage = "awaitTask"

\* TypeOK, but for the bound on ahead, which follows from where the requests are.
Types ==
    /\ freeList \in Seq(Requests) /\ scatterReqs \in Seq(Requests)
    /\ scatter \subseteq Requests /\ sync \subseteq Requests /\ done \subseteq Requests
    /\ asyncreq \in MaybeRequest
    /\ inusenext \in [Requests -> MaybeRequest]
    /\ semReq \in [Requests -> 0..1]
    /\ semAsync \in Nat
    /\ completion \in 0..1
    /\ shutdown \in BOOLEAN /\ asyncTask \in BOOLEAN /\ disabled \in BOOLEAN
    /\ irqClaimed \in BOOLEAN /\ irqHandling \in BOOLEAN /\ stranded \in BOOLEAN
    /\ host \in {Irq, Task, NoThread}
    /\ at \in [Threads -> Locations]
    /\ hand \in [Threads -> MaybeRequest]
    /\ current \in MaybeRequest
    /\ stage \in Stages
    /\ calls \in Nat /\ starts \in Nat
    /\ ahead \in [Threads -> Nat]

HIFInv == Types /\ QuietInv /\ Listed /\ Pools /\ Calls /\ Life

LEMMA Members ==
    /\ NoRequest \notin Requests
    /\ Irq \in Threads /\ Task \in Threads /\ Admin \in Threads
    /\ Irq # Task /\ Irq # Admin /\ Task # Admin
    /\ Callers \subseteq Threads /\ Threads = Callers \cup {Task}
    /\ Senders \subseteq Callers /\ Users \subseteq Callers
    /\ \A t \in Users : t # Irq /\ t # Admin /\ t # Task /\ t \notin Senders
    /\ \A t \in Senders : t # Irq /\ t # Admin /\ t # Task
    /\ ~Synchronous(Task) /\ Synchronous(Irq) /\ Synchronous(Admin)
    /\ \A t \in Users : Synchronous(t)
    /\ \A t \in Senders : ~Synchronous(t)
    /\ Admin \in Callers /\ Irq \in Callers /\ Task \notin Callers
    /\ 0 \in Nat /\ 1 \in Nat
  BY HIFAssumption DEF HIFAssumption, Threads, Callers, Synchronous

\* The list is disturbed by nothing that leaves its head and the links of its members.
LEMMA ListKept ==
    ASSUME Listed, asyncreq' = asyncreq,
           \A r \in Lists!Elems(Queue) : inusenext'[r] = inusenext[r]
    PROVE  Listed' /\ Queue' = Queue
<1>1. Chain(Queue, asyncreq', inusenext')
  BY ChainOther DEF Listed
<1>2. Queue' = Queue
  BY <1>1, FollowedChain DEF Queue
<1> QED BY <1>1, <1>2 DEF Listed

LEMMA ListAppend ==
    ASSUME HIFInv, NEW t \in Threads, AddToAsyncList(t)
    PROVE  /\ Listed' /\ Queue' = Append(Queue, hand[t])
           /\ hand[t] \in Requests /\ hand[t] \notin Lists!Elems(Queue)
<1>1. hand[t] \in Requests /\ Submitting(t)
  BY DEF AddToAsyncList, HIFInv, Calls, Calling, At, Submitting
<1>2. hand[t] \notin Lists!Elems(Queue)
  BY <1>1 DEF HIFInv, Pools, ExactlyOne, Held
<1>3. Chain(Append(Queue, hand[t]), asyncreq', inusenext')
  <2>1. /\ Chain(Queue, asyncreq, inusenext)
        /\ inusenext \in [Requests -> MaybeRequest]
        /\ asyncreq' = IF asyncreq = NoRequest THEN hand[t] ELSE asyncreq
        /\ inusenext' = IF asyncreq = NoRequest THEN [inusenext EXCEPT ![hand[t]] = NoRequest]
                        ELSE [inusenext EXCEPT ![Last(Queue)] = hand[t], ![hand[t]] = NoRequest]
    BY DEF AddToAsyncList, HIFInv, Listed, Linked, Types
  <2> QED BY <1>1, <1>2, <2>1, ChainAppend
<1>4. Queue' = Append(Queue, hand[t])
  BY <1>3, FollowedChain DEF Queue
<1> QED BY <1>1, <1>2, <1>3, <1>4 DEF Listed

LEMMA ListPull ==
    ASSUME HIFInv, Pull
    PROVE  /\ Listed' /\ Queue # <<>> /\ Queue' = Tail(Queue)
           /\ asyncreq = Head(Queue) /\ asyncreq \in Requests
<1>1. Chain(Queue, asyncreq, inusenext) /\ asyncreq # NoRequest
  BY DEF Pull, HIFInv, Listed
<1>2. /\ Queue # <<>> /\ asyncreq = Head(Queue) /\ asyncreq \in Requests
      /\ Chain(Tail(Queue), inusenext[asyncreq], inusenext)
  BY <1>1, ChainTail
<1>3. Chain(Tail(Queue), asyncreq', inusenext')
  BY <1>2 DEF Pull
<1>4. Queue' = Tail(Queue)
  BY <1>3, FollowedChain DEF Queue
<1> QED BY <1>2, <1>3, <1>4 DEF Listed

LEMMA QueueType ==
    ASSUME Listed
    PROVE  /\ Queue \in Seq(Requests) /\ Lists!Distinct(Queue)
           /\ Queue = <<>> <=> asyncreq = NoRequest
           /\ Len(Queue) \in 0..Cardinality(Requests)
<1>1. Queue \in Seq(Requests) /\ Lists!Distinct(Queue)
  BY DEF Listed, Chain
<1>2. Queue = <<>> <=> asyncreq = NoRequest
  BY <1>1, Members DEF Listed, Chain
<1> QED BY <1>1, <1>2, DistinctLen

\* What is free, or held by a thread, is not on the list.
LEMMA FreeRequestList ==
    ASSUME HIFInv, NEW r \in Requests, r \notin Lists!Elems(Queue), asyncreq' = asyncreq,
           inusenext' = inusenext \/ inusenext' = [inusenext EXCEPT ![r] = NoRequest]
    PROVE  Listed' /\ Queue' = Queue
<1>1. \A x \in Lists!Elems(Queue) : inusenext'[x] = inusenext[x]
  <2>1. Lists!Elems(Queue) \subseteq Requests
    BY QueueType, Lists!ElemsType DEF HIFInv
  <2> QED BY <2>1 DEF HIFInv, Types
<1> QED BY <1>1, ListKept DEF HIFInv

\* Where a request that is given back goes.
LEMMA GiveBackStep ==
    ASSUME HIFInv, NEW r \in Requests, GiveBack(r),
           r \notin Lists!Elems(freeList), r \notin Lists!Elems(scatterReqs)
    PROVE  /\ freeList' \in Seq(Requests) /\ scatterReqs' \in Seq(Requests)
           /\ Lists!Distinct(freeList') /\ Lists!Distinct(scatterReqs')
           /\ \/ /\ Lists!Elems(freeList') = Lists!Elems(freeList) \cup {r}
                 /\ scatterReqs' = scatterReqs
              \/ /\ Lists!Elems(scatterReqs') = Lists!Elems(scatterReqs) \cup {r}
                 /\ freeList' = freeList
           /\ inusenext' = inusenext \/ inusenext' = [inusenext EXCEPT ![r] = NoRequest]
<1>1. /\ freeList \in Seq(Requests) /\ scatterReqs \in Seq(Requests)
      /\ Lists!Distinct(freeList) /\ Lists!Distinct(scatterReqs)
  BY DEF HIFInv, Types, Pools
<1>2. CASE r \in scatter
  <2>1. scatterReqs' = Append(scatterReqs, r) /\ UNCHANGED <<freeList, inusenext>>
    BY <1>2 DEF GiveBack
  <2> QED BY <1>1, <2>1, Lists!ElemsAppend
<1>3. CASE r \notin scatter
  <2>1. /\ freeList' = <<r>> \o freeList /\ scatterReqs' = scatterReqs
        /\ inusenext' = [inusenext EXCEPT ![r] = NoRequest]
    BY <1>3 DEF GiveBack, FreeBusRequest
  <2> QED BY <1>1, <2>1, ConsSeq
<1> QED BY <1>2, <1>3

\* The request of a thread that is submitting, and that of the transfer.
LEMMA HeldOnly ==
    ASSUME HIFInv, NEW t \in Threads, Submitting(t)
    PROVE  /\ hand[t] \in Requests /\ Held(hand[t]) /\ ~Served(hand[t]) /\ semReq[hand[t]] # 1
           /\ hand[t] \notin Lists!Elems(freeList) /\ hand[t] \notin Lists!Elems(scatterReqs)
           /\ hand[t] \notin Lists!Elems(Queue)
<1>1. hand[t] \in Requests
  BY DEF HIFInv, Calls, Calling, At, Submitting
<1>2. Held(hand[t])
  BY DEF Held
<1> QED BY <1>1, <1>2 DEF HIFInv, Pools, ExactlyOne

LEMMA ServedOnly ==
    ASSUME HIFInv, At(Task, "perform")
    PROVE  /\ current \in Requests /\ ~Held(current) /\ semReq[current] # 1
           /\ current \notin Lists!Elems(freeList) /\ current \notin Lists!Elems(scatterReqs)
           /\ current \notin Lists!Elems(Queue)
<1>1. current \in Requests
  BY DEF HIFInv, Types, Life, At, MaybeRequest
<1>2. Served(current)
  BY DEF Served
<1> QED BY <1>1, <1>2 DEF HIFInv, Pools, ExactlyOne

LEMMA FreeOnly ==
    ASSUME HIFInv, freeList # <<>>
    PROVE  /\ Head(freeList) \in Requests /\ Tail(freeList) \in Seq(Requests)
           /\ Lists!Elems(freeList) = Lists!Elems(Tail(freeList)) \cup {Head(freeList)}
           /\ Head(freeList) \notin Lists!Elems(Tail(freeList)) /\ Lists!Distinct(Tail(freeList))
           /\ ~Held(Head(freeList)) /\ ~Served(Head(freeList)) /\ semReq[Head(freeList)] # 1
           /\ Head(freeList) \notin Lists!Elems(scatterReqs)
           /\ Head(freeList) \notin Lists!Elems(Queue)
<1>1. freeList \in Seq(Requests) /\ Lists!Distinct(freeList)
  BY DEF HIFInv, Types, Pools
<1>2. /\ Head(freeList) \in Requests /\ Tail(freeList) \in Seq(Requests)
      /\ Lists!Elems(freeList) = Lists!Elems(Tail(freeList)) \cup {Head(freeList)}
      /\ Head(freeList) \notin Lists!Elems(Tail(freeList)) /\ Lists!Distinct(Tail(freeList))
  BY <1>1, Lists!ElemsTail
<1> QED BY <1>2 DEF HIFInv, Pools, ExactlyOne

LEMMA PoolOnly ==
    ASSUME HIFInv, scatterReqs # <<>>
    PROVE  /\ Head(scatterReqs) \in Requests /\ Tail(scatterReqs) \in Seq(Requests)
           /\ Lists!Elems(scatterReqs) = Lists!Elems(Tail(scatterReqs)) \cup {Head(scatterReqs)}
           /\ Head(scatterReqs) \notin Lists!Elems(Tail(scatterReqs))
           /\ Lists!Distinct(Tail(scatterReqs))
           /\ ~Held(Head(scatterReqs)) /\ ~Served(Head(scatterReqs))
           /\ semReq[Head(scatterReqs)] # 1
           /\ Head(scatterReqs) \notin Lists!Elems(freeList)
           /\ Head(scatterReqs) \notin Lists!Elems(Queue)
<1>1. scatterReqs \in Seq(Requests) /\ Lists!Distinct(scatterReqs)
  BY DEF HIFInv, Types, Pools
<1>2. /\ Head(scatterReqs) \in Requests /\ Tail(scatterReqs) \in Seq(Requests)
      /\ Lists!Elems(scatterReqs) = Lists!Elems(Tail(scatterReqs)) \cup {Head(scatterReqs)}
      /\ Head(scatterReqs) \notin Lists!Elems(Tail(scatterReqs))
      /\ Lists!Distinct(Tail(scatterReqs))
  BY <1>1, Lists!ElemsTail
<1> QED BY <1>2 DEF HIFInv, Pools, ExactlyOne

\* SetupHIFScatterSupport only moves requests between the two pools.
LEMMA SetupScatterStep ==
    ASSUME HIFInv, SetupScatter
    PROVE  /\ freeList' \in Seq(Requests) /\ scatterReqs' \in Seq(Requests)
           /\ Lists!Distinct(freeList') /\ Lists!Distinct(scatterReqs')
           /\ Lists!Elems(freeList') \cap Lists!Elems(scatterReqs') = {}
           /\ Lists!Elems(freeList') \cup Lists!Elems(scatterReqs')
                = Lists!Elems(freeList) \cup Lists!Elems(scatterReqs)
           /\ scatter' \subseteq Requests /\ inusenext' \in [Requests -> MaybeRequest]
           /\ \A r \in Requests \ (Lists!Elems(freeList) \cup Lists!Elems(scatterReqs)) :
                 inusenext'[r] = inusenext[r]
<1>1. /\ freeList \in Seq(Requests) /\ scatterReqs \in Seq(Requests)
      /\ Lists!Distinct(freeList) /\ Lists!Distinct(scatterReqs)
      /\ scatter \subseteq Requests /\ inusenext \in [Requests -> MaybeRequest]
  BY DEF HIFInv, Types, Pools
<1>2. Lists!Elems(freeList) \cap Lists!Elems(scatterReqs) = {}
  <2>1. \A r \in Requests : r \in Lists!Elems(freeList) => r \notin Lists!Elems(scatterReqs)
    BY DEF HIFInv, Pools, ExactlyOne
  <2>2. Lists!Elems(freeList) \subseteq Requests
    BY <1>1, Lists!ElemsType
  <2> QED BY <2>1, <2>2
<1>3. CASE Len(freeList) >= ScatterRequests
  <2> DEFINE mine == SubSeq(freeList, 1, ScatterRequests)
             rest == SubSeq(freeList, ScatterRequests + 1, Len(freeList))
  <2>1. /\ freeList' = rest /\ scatterReqs' = scatterReqs \o mine
        /\ scatter' = scatter \cup Range(mine) /\ UNCHANGED inusenext
    BY <1>3 DEF SetupScatter
  <2>2. ScatterRequests \in 0..Len(freeList)
    BY <1>1, <1>3, Bound, HIFAssumption DEF HIFAssumption
  <2>3. mine = Lists!Front(freeList, ScatterRequests) /\ rest = Lists!Rest(freeList, ScatterRequests)
    BY DEF Lists!Front, Lists!Rest
  <2>4. /\ mine \in Seq(Requests) /\ rest \in Seq(Requests)
        /\ Lists!Elems(freeList) = Lists!Elems(mine) \cup Lists!Elems(rest)
        /\ Lists!Distinct(mine) /\ Lists!Distinct(rest)
        /\ Lists!Elems(mine) \cap Lists!Elems(rest) = {}
    <3>1. LET f == Lists!Front(freeList, ScatterRequests)
              r == Lists!Rest(freeList, ScatterRequests)
          IN  /\ f \in Seq(Requests) /\ r \in Seq(Requests)
              /\ Lists!Elems(freeList) = Lists!Elems(f) \cup Lists!Elems(r)
              /\ Lists!Distinct(f) /\ Lists!Distinct(r)
              /\ Lists!Elems(f) \cap Lists!Elems(r) = {}
      BY <1>1, <2>2, Lists!ElemsSplit
    <3> HIDE DEF mine, rest
    <3> QED BY <2>3, <3>1
  <2> HIDE DEF mine, rest
  <2>5. /\ scatterReqs \o mine \in Seq(Requests)
        /\ Lists!Elems(scatterReqs \o mine) = Lists!Elems(scatterReqs) \cup Lists!Elems(mine)
        /\ Lists!Distinct(scatterReqs \o mine)
    <3>1. Lists!Elems(scatterReqs) \cap Lists!Elems(mine) = {}
      BY <1>2, <2>4
    <3> QED BY <1>1, <2>4, <3>1, Lists!ElemsConcat
  <2>6. Range(mine) \subseteq Requests
    BY <2>4 DEF Range
  <2> QED BY <1>1, <1>2, <2>1, <2>4, <2>5, <2>6
<1>4. CASE ~(Len(freeList) >= ScatterRequests)
  <2> DEFINE all == scatterReqs \o freeList
  <2>1. /\ freeList' = Reverse(all) /\ scatterReqs' = <<>>
        /\ scatter' = scatter \ Range(scatterReqs)
        /\ inusenext' = [r \in Requests |-> IF r \in Range(all) THEN NoRequest ELSE inusenext[r]]
    BY <1>4 DEF SetupScatter
  <2>2. /\ all \in Seq(Requests) /\ Lists!Distinct(all)
        /\ Lists!Elems(all) = Lists!Elems(scatterReqs) \cup Lists!Elems(freeList)
    BY <1>1, <1>2, Lists!ElemsConcat
  <2> HIDE DEF all
  <2>3. /\ Reverse(all) \in Seq(Requests) /\ Lists!Distinct(Reverse(all))
        /\ Lists!Elems(Reverse(all)) = Lists!Elems(all)
    BY <2>2, ReverseSeq
  <2>4. Range(all) = Lists!Elems(all)
    BY DEF Range, Lists!Elems
  <2>5. Lists!Elems(<<>>) = {} /\ Lists!Distinct(<<>>) /\ <<>> \in Seq(Requests)
    BY Lists!ElemsEmpty
  <2> QED BY <1>1, <2>1, <2>2, <2>3, <2>4, <2>5 DEF MaybeRequest
<1> QED BY <1>3, <1>4

LEMMA CleanupStep ==
    ASSUME HIFInv, CleanupScatter, scatterReqs # <<>>
    PROVE  /\ freeList' \in Seq(Requests) /\ scatterReqs' = Tail(scatterReqs)
           /\ Lists!Distinct(freeList')
           /\ Lists!Elems(freeList') = Lists!Elems(freeList) \cup {Head(scatterReqs)}
           /\ scatter' \subseteq Requests
           /\ inusenext' = [inusenext EXCEPT ![Head(scatterReqs)] = NoRequest]
<1>1. /\ scatterReqs' = Tail(scatterReqs) /\ freeList' = <<Head(scatterReqs)>> \o freeList
      /\ inusenext' = [inusenext EXCEPT ![Head(scatterReqs)] = NoRequest]
      /\ scatter' = scatter \ {Head(scatterReqs)}
  BY DEF CleanupScatter, FreeBusRequest
<1>2. freeList \in Seq(Requests) /\ Lists!Distinct(freeList) /\ scatter \subseteq Requests
  BY DEF HIFInv, Types, Pools
<1> QED BY <1>1, <1>2, PoolOnly, ConsSeq

\* Only two steps change the list of queued requests.
LEMMA ListSame ==
    ASSUME HIFInv,
           \/ UNCHANGED listVars
           \/ \E t \in Threads : ReturnStatus(t)
           \/ PerformAsync \/ SetupScatter \/ CleanupScatter
    PROVE  Listed' /\ Queue' = Queue
<1>1. CASE UNCHANGED listVars
  BY <1>1, ListKept DEF listVars, HIFInv
<1>4. ASSUME NEW t \in Threads, ReturnStatus(t) PROVE Listed' /\ Queue' = Queue
  <2>1. Submitting(t) /\ GiveBack(hand[t]) /\ asyncreq' = asyncreq
    BY <1>4 DEF ReturnStatus, Submitting
  <2> QED BY <2>1, HeldOnly, GiveBackStep, FreeRequestList
<1>5. CASE PerformAsync
  <2>1. At(Task, "perform") /\ GiveBack(current) /\ asyncreq' = asyncreq
    BY <1>5 DEF PerformAsync
  <2> QED BY <2>1, ServedOnly, GiveBackStep, FreeRequestList
<1>6. CASE SetupScatter
  <2>1. asyncreq' = asyncreq
    BY <1>6 DEF SetupScatter
  <2>2. \A r \in Lists!Elems(Queue) :
           r \in Requests /\ r \notin Lists!Elems(freeList) /\ r \notin Lists!Elems(scatterReqs)
    <3>1. Lists!Elems(Queue) \subseteq Requests
      BY QueueType, Lists!ElemsType DEF HIFInv
    <3> QED BY <3>1 DEF HIFInv, Pools, ExactlyOne
  <2> QED BY <1>6, <2>1, <2>2, SetupScatterStep, ListKept DEF HIFInv
<1>7. CASE CleanupScatter
  <2>1. asyncreq' = asyncreq
    BY <1>7 DEF CleanupScatter
  <2>2. CASE scatterReqs = <<>>
    BY <1>7, <2>1, <2>2, ListKept DEF CleanupScatter, HIFInv
  <2>3. CASE scatterReqs # <<>>
    BY <1>7, <2>1, <2>3, CleanupStep, PoolOnly, FreeRequestList
  <2> QED BY <2>2, <2>3
<1> QED BY <1>1, <1>4, <1>5, <1>6, <1>7

-----------------------------------------------------------------------------
(***************************************************************************)
(* The calls, async_task, the interrupt thread, and starting and stopping. *)
(***************************************************************************)

Core == Types /\ Pools /\ Calls /\ Life

\* A thread moves on with its request where it is.
LEMMA PoolsKept ==
    ASSUME HIFInv, NEW t \in Threads, NEW where \in Locations,
           at' = [at EXCEPT ![t] = where],
           ~Submitting(t), where \notin {"add", "woken", "perform"}, ~At(t, "perform"),
           hand' = hand \/ hand' = [hand EXCEPT ![t] = NoRequest],
           current' = current \/ ~At(Task, "perform"),
           UNCHANGED <<freeList, scatterReqs, semReq>>, Queue' = Queue
    PROVE  Pools'
<1>1. \A u \in Threads : /\ Submitting(u)' <=> Submitting(u)
                         /\ Submitting(u) => hand'[u] = hand[u]
  BY DEF HIFInv, Types, Submitting, At
<1>2. \A r \in Requests : /\ Held(r)' <=> Held(r)
                          /\ Served(r)' <=> Served(r)
  BY <1>1, Members DEF HIFInv, Types, Held, Served, At
<1>3. \A r \in Requests :
          ExactlyOne(r \in Lists!Elems(freeList), r \in Lists!Elems(scatterReqs),
                     r \in Lists!Elems(Queue), Held(r), Served(r), semReq[r] = 1)'
  BY <1>2 DEF HIFInv, Pools, ExactlyOne
<1>4. \A u, v \in Threads :
          (Submitting(u) /\ Submitting(v) /\ hand[u] = hand[v] => u = v)'
  BY <1>1 DEF HIFInv, Pools
<1> QED BY <1>3, <1>4 DEF HIFInv, Pools

LEMMA WakeCore ==
    ASSUME HIFInv, NEW t \in Threads, Wake(t), Queue' = Queue PROVE Core'
<1> USE DEF HIFInv
<1>1. /\ At(t, "up") /\ semAsync' = semAsync + 1
      /\ at' = [at EXCEPT ![t] = IF Synchronous(t) THEN "wait"
                                 ELSE IF t = Task THEN "callback" ELSE "out"]
      /\ hand' = IF Synchronous(t) THEN hand ELSE [hand EXCEPT ![t] = NoRequest]
  BY DEF Wake, Goto, Hold
<1>2. Types'
  BY <1>1 DEF Wake, Types, poolVars, listVars, taskVars, hostVars, boundVars, Locations, MaybeRequest
<1>3. Pools'
  <2> DEFINE w == IF Synchronous(t) THEN "wait" ELSE IF t = Task THEN "callback" ELSE "out"
  <2>1. w \in Locations /\ w \notin {"add", "woken", "perform"}
    BY DEF Locations
  <2>2. at' = [at EXCEPT ![t] = w]
    BY <1>1
  <2> HIDE DEF w
  <2> QED BY <1>1, <2>1, <2>2, PoolsKept DEF Wake, poolVars, At, Submitting
<1>4. Calls'
  BY <1>1, Members DEF Wake, poolVars, Calls, Types, Calling, Waits, At, Served, Synchronous
<1>5. Life'
  BY <1>1, Members DEF Wake, taskVars, Life, Types, Calling, At, Carrying
<1> QED BY <1>2, <1>3, <1>4, <1>5 DEF Core

\* A request that is complete becomes its submitter's again.
LEMMA AwakeCore ==
    ASSUME HIFInv, NEW t \in Threads, Awake(t), Queue' = Queue PROVE Core'
<1> USE DEF HIFInv
<1>1. /\ At(t, "wait") /\ semReq[hand[t]] = 1 /\ hand[t] \in Requests /\ Synchronous(t)
      /\ at' = [at EXCEPT ![t] = "woken"]
      /\ semReq' = [semReq EXCEPT ![hand[t]] = 0]
  <2>1. At(t, "wait") /\ at' = [at EXCEPT ![t] = "woken"] /\ semReq[hand[t]] > 0
    BY DEF Awake, Goto
  <2>2. hand[t] \in Requests /\ Synchronous(t)
    BY <2>1 DEF Calls, Calling, At
  <2>3. semReq[hand[t]] = 1
    BY <2>1, <2>2 DEF Types
  <2>4. semReq' = [semReq EXCEPT ![hand[t]] = semReq[hand[t]] - 1] /\ 1 - 1 = 0
    BY DEF Awake
  <2> QED BY <2>1, <2>2, <2>3, <2>4
<1>2. Types'
  BY <1>1 DEF Awake, Types, poolVars, listVars, taskVars, hostVars, boundVars, Locations
<1>3. Pools'
  <2>1. \A u \in Threads : /\ Submitting(u)' <=> Submitting(u) \/ u = t
                           /\ hand'[u] = hand[u]
                           /\ Submitting(u) => hand[u] # hand[t]
    BY <1>1 DEF Awake, Types, Submitting, At, Held, Pools, ExactlyOne
  <2>2. \A r \in Requests : /\ Held(r)' <=> Held(r) \/ r = hand[t]
                            /\ Served(r)' <=> Served(r)
    BY <1>1, <2>1, Members DEF Awake, Types, Held, Served, At
  <2>3. \A r \in Requests :
          ExactlyOne(r \in Lists!Elems(freeList), r \in Lists!Elems(scatterReqs),
                     r \in Lists!Elems(Queue), Held(r), Served(r), semReq[r] = 1)'
    BY <1>1, <2>2 DEF Awake, Types, poolVars, Pools, ExactlyOne
  <2> QED BY <2>1, <2>3 DEF Awake, poolVars, Pools
<1>4. Calls'
  BY <1>1, Members DEF Awake, poolVars, Calls, Types, Calling, Waits, At, Served, Synchronous
<1>5. Life'
  BY <1>1, Members DEF Awake, taskVars, Life, Types, Calling, At, Carrying
<1> QED BY <1>2, <1>3, <1>4, <1>5 DEF Core

LEMMA InterruptedCore ==
    ASSUME HIFInv, NEW t \in Users \cup {Admin}, Interrupted(t), Queue' = Queue PROVE Core'
<1> USE DEF HIFInv
<1>0. t \in Threads /\ t # Irq /\ t # Task
  BY Members
<1>1. /\ At(t, "wait") /\ freeList' = freeList
      /\ at' = [at EXCEPT ![t] = "out"]
      /\ hand' = [hand EXCEPT ![t] = NoRequest]
      /\ ahead' = [ahead EXCEPT ![t] = 0]
  BY DEF Interrupted, Goto, Hold, FreeAfterSignal
<1>2. Types'
  BY <1>0, <1>1 DEF Interrupted, Types, poolVars, listVars, taskVars, hostVars, boundVars, Locations, MaybeRequest
<1>3. Pools'
  <2>1. "out" \in Locations
    BY DEF Locations
  <2> QED BY <1>0, <1>1, <2>1, PoolsKept DEF Interrupted, At, Submitting
<1>4. Calls'
  BY <1>0, <1>1, Members DEF Interrupted, Calls, Types, Calling, Waits, At, Served, Synchronous
<1>5. Life'
  BY <1>0, <1>1, Members DEF Interrupted, taskVars, Life, Types, Calling, At, Carrying
<1> QED BY <1>2, <1>3, <1>4, <1>5 DEF Core

LEMMA CallMade ==
    ASSUME HIFInv, NEW t \in Threads, MayCall(t)
    PROVE  /\ at[t] \notin {"add", "up", "wait", "woken", "perform", "exit", "none"}
           /\ t = Irq => at[t] \in {"status", "dsr"}
           /\ t = Task => at[t] = "callback"
           /\ at[t] \in {"status", "dsr"} => t = Irq
           /\ t = Admin => stage = "masked"
           /\ Counted(t) => calls > 0
<1>1. t = Admin => stage = "masked" /\ at[t] = "out"
  BY Members DEF MayCall, HIFInv, Life
<1>2. t = Irq => at[t] \in {"status", "dsr"}
  BY Members DEF MayCall, At
<1>3. t = Task => at[t] = "callback"
  BY Members DEF MayCall, At
<1>4. t \notin {Irq, Task, Admin} => at[t] = "out"
  BY DEF MayCall, At
<1>5. Counted(t) => calls > 0
  BY DEF MayCall
<1> QED BY <1>1, <1>2, <1>3, <1>4, <1>5, Members

\* A call takes a free request, from either pool.
LEMMA TakenCore ==
    ASSUME HIFInv, NEW t \in Threads, MayCall(t), CountCall(t), NEW r \in Requests,
           r \notin Lists!Elems(Queue), ~Held(r), ~Served(r), semReq[r] # 1,
           r \notin Lists!Elems(freeList'), r \notin Lists!Elems(scatterReqs'),
           Lists!Elems(freeList) \cup Lists!Elems(scatterReqs)
             = Lists!Elems(freeList') \cup Lists!Elems(scatterReqs') \cup {r},
           Lists!Elems(freeList') \subseteq Lists!Elems(freeList),
           Lists!Elems(scatterReqs') \subseteq Lists!Elems(scatterReqs),
           freeList' \in Seq(Requests), scatterReqs' \in Seq(Requests),
           Lists!Distinct(freeList'), Lists!Distinct(scatterReqs'),
           sync' = IF Synchronous(t) THEN sync \cup {r} ELSE sync \ {r},
           Hold(t, r), Goto(t, "add"),
           UNCHANGED <<scatter, listVars, semReq, semAsync, taskVars, hostVars, current, starts,
                       done, ahead, stranded>>, Queue' = Queue
    PROVE  Core'
<1> USE DEF HIFInv
<1>1. /\ at' = [at EXCEPT ![t] = "add"] /\ hand' = [hand EXCEPT ![t] = r]
      /\ calls' = (IF Counted(t) THEN calls - 1 ELSE calls)
      /\ stage' = (IF t = Admin THEN "stopping" ELSE stage)
  BY DEF Goto, Hold, CountCall
<1>2. Types'
  <2>1. calls' \in Nat
    BY <1>1, CallMade DEF Types
  <2> QED BY <1>1, <2>1 DEF Types, listVars, taskVars, hostVars, Locations, MaybeRequest, Stages
<1>3. Pools'
  <2>1. \A u \in Threads : /\ Submitting(u)' <=> Submitting(u) \/ u = t
                           /\ u # t => hand'[u] = hand[u]
                           /\ Submitting(u) => hand[u] # r
    BY <1>1, CallMade DEF Types, Submitting, At, Held
  <2>2. ~Submitting(t) /\ hand'[t] = r
    BY <1>1, CallMade DEF Submitting, At, Types
  <2>3. \A x \in Requests : /\ Held(x)' <=> Held(x) \/ x = r
                            /\ Served(x)' <=> Served(x)
    BY <1>1, <2>1, <2>2, CallMade, Members DEF Types, Held, Served, At
  <2>4. \A x \in Requests :
          ExactlyOne(x \in Lists!Elems(freeList), x \in Lists!Elems(scatterReqs),
                     x \in Lists!Elems(Queue), Held(x), Served(x), semReq[x] = 1)'
    BY <2>3 DEF Pools, ExactlyOne
  <2>5. \A u, v \in Threads :
          (Submitting(u) /\ Submitting(v) /\ hand[u] = hand[v] => u = v)'
    BY <2>1, <2>2 DEF Pools
  <2> QED BY <2>4, <2>5 DEF Pools
<1>4. Calls'
  <2>1. \A u \in Threads : Waits(u) => u # t /\ hand[u] # r /\ hand[u] \in Requests
    BY CallMade DEF Waits, Calls, Calling, Served
  <2>2. \A u \in Threads \ {t} : /\ at'[u] = at[u] /\ hand'[u] = hand[u]
                                 /\ at[u] = "add" => hand[u] # r
    BY <1>1 DEF Types, Held, Submitting, At
  <2>3. at'[t] = "add" /\ hand'[t] = r
    BY <1>1 DEF Types
  <2>4. \A x \in Requests \ {r} : x \in sync' <=> x \in sync
    OBVIOUS
  <2>5. \A x \in Requests : Served(x)' <=> Served(x)
    BY <1>1, CallMade, Members DEF Types, Served, At
  <2>6. \A u \in Threads : Waits(u)' <=> Waits(u)
    BY <2>1, <2>2, <2>3 DEF Waits, Synchronous
  <2>7. r \in sync' <=> Synchronous(t)
    OBVIOUS
  <2> QED BY <2>1, <2>2, <2>3, <2>4, <2>5, <2>6, <2>7 DEF Calls, Calling, Synchronous
<1>5. Life'
  BY <1>1, CallMade, Members DEF taskVars, Life, Types, Calling, Carrying
<1> QED BY <1>2, <1>3, <1>4, <1>5 DEF Core

LEMMA BeginCore ==
    ASSUME HIFInv, NEW t \in Threads, BeginCall(t), Queue' = Queue PROVE Core'
<1> USE DEF HIFInv
<1>1. CASE HIFReadWrite(t) /\ freeList # <<>>
  <2>1. /\ MayCall(t) /\ CountCall(t) /\ freeList' = Tail(freeList) /\ scatterReqs' = scatterReqs
        /\ sync' = IF Synchronous(t) THEN sync \cup {Head(freeList)} ELSE sync \ {Head(freeList)}
        /\ Hold(t, Head(freeList)) /\ Goto(t, "add")
        /\ UNCHANGED <<scatter, listVars, semReq, semAsync, taskVars, hostVars, current, starts,
                       done, ahead, stranded>>
    BY <1>1 DEF HIFReadWrite
  <2>2. scatterReqs \in Seq(Requests) /\ Lists!Distinct(scatterReqs)
    BY DEF Types, Pools
  <2>3. /\ Lists!Elems(freeList') \subseteq Lists!Elems(freeList)
        /\ Lists!Elems(freeList) \cup Lists!Elems(scatterReqs)
             = Lists!Elems(freeList') \cup Lists!Elems(scatterReqs') \cup {Head(freeList)}
        /\ Lists!Elems(scatterReqs') \subseteq Lists!Elems(scatterReqs)
        /\ Head(freeList) \notin Lists!Elems(freeList')
        /\ Head(freeList) \notin Lists!Elems(scatterReqs')
        /\ freeList' \in Seq(Requests) /\ Lists!Distinct(freeList')
        /\ scatterReqs' \in Seq(Requests) /\ Lists!Distinct(scatterReqs')
    BY <1>1, <2>1, <2>2, FreeOnly
  <2> QED BY <1>1, <2>1, <2>3, FreeOnly, TakenCore
<1>2. CASE ReadWriteScatter(t)
  <2>1. /\ scatterReqs # <<>>
        /\ MayCall(t) /\ CountCall(t) /\ scatterReqs' = Tail(scatterReqs) /\ freeList' = freeList
        /\ sync' = IF Synchronous(t) THEN sync \cup {Head(scatterReqs)}
                   ELSE sync \ {Head(scatterReqs)}
        /\ Hold(t, Head(scatterReqs)) /\ Goto(t, "add")
        /\ UNCHANGED <<scatter, listVars, semReq, semAsync, taskVars, hostVars, current, starts,
                       done, ahead, stranded>>
    BY <1>2 DEF ReadWriteScatter
  <2>2. freeList \in Seq(Requests) /\ Lists!Distinct(freeList)
    BY DEF Types, Pools
  <2>3. /\ Lists!Elems(freeList') \subseteq Lists!Elems(freeList)
        /\ Lists!Elems(freeList) \cup Lists!Elems(scatterReqs)
             = Lists!Elems(freeList') \cup Lists!Elems(scatterReqs') \cup {Head(scatterReqs)}
        /\ Lists!Elems(scatterReqs') \subseteq Lists!Elems(scatterReqs)
        /\ Head(scatterReqs) \notin Lists!Elems(freeList')
        /\ Head(scatterReqs) \notin Lists!Elems(scatterReqs')
        /\ freeList' \in Seq(Requests) /\ Lists!Distinct(freeList')
        /\ scatterReqs' \in Seq(Requests) /\ Lists!Distinct(scatterReqs')
    BY <1>2, <2>1, <2>2, PoolOnly
  <2> QED BY <1>2, <2>1, <2>3, PoolOnly, TakenCore
<1>3. CASE HIFReadWrite(t) /\ freeList = <<>>
  <2>1. /\ MayCall(t) /\ CountCall(t)
        /\ \/ t = Irq /\ at' = [at EXCEPT ![t] = "dsr"]
           \/ at' = at /\ at' = [at EXCEPT ![t] = at[t]]
        /\ UNCHANGED <<poolVars, hand, sync, listVars, semReq, semAsync, taskVars, hostVars,
                       current, starts, done, ahead, stranded>>
    BY <1>3 DEF HIFReadWrite, Goto, poolVars, Types
  <2>2. /\ calls' = (IF Counted(t) THEN calls - 1 ELSE calls)
        /\ stage' = (IF t = Admin THEN "stopping" ELSE stage)
    BY <2>1 DEF CountCall
  <2>3. Types'
    <3>1. calls' \in Nat
      BY <2>1, <2>2, CallMade DEF Types
    <3> QED BY <2>1, <2>2, <3>1
          DEF Types, poolVars, listVars, taskVars, hostVars, Locations, Stages
  <2>4. Pools'
    <3>1. CASE t = Irq /\ at' = [at EXCEPT ![t] = "dsr"]
      <4>1. "dsr" \in Locations
        BY DEF Locations
      <4> QED BY <2>1, <3>1, <4>1, CallMade, PoolsKept DEF poolVars, At, Submitting
    <3>2. CASE at' = [at EXCEPT ![t] = at[t]]
      <4>1. at[t] \in Locations
        BY DEF Types
      <4> QED BY <2>1, <3>2, <4>1, CallMade, PoolsKept DEF poolVars, At, Submitting
    <3> QED BY <2>1, <3>1, <3>2
  <2>5. \A u \in Threads : /\ \/ at'[u] = at[u]
                              \/ at[u] \in {"status", "dsr"} /\ at'[u] = "dsr"
                           /\ u # Irq => at'[u] = at[u]
    BY <2>1, CallMade DEF Types
  <2>6. Calls'
    <3>1. \A x \in Requests : Served(x)' <=> Served(x)
      BY <2>1, <2>5, Members DEF Served, At
    <3>2. \A u \in Threads : Waits(u)' <=> Waits(u)
      BY <2>5 DEF Waits, Synchronous
    <3> QED BY <2>1, <2>5, <3>1, <3>2 DEF Calls, Calling, Waits, Synchronous
  <2>7. Life'
    BY <2>1, <2>2, <2>5, CallMade, Members DEF taskVars, Life, Types, Calling, Carrying
  <2> QED BY <2>3, <2>4, <2>6, <2>7 DEF Core
<1> QED BY <1>1, <1>2, <1>3 DEF BeginCall

LEMMA AddCore ==
    ASSUME HIFInv, NEW t \in Threads, AddToAsyncList(t) PROVE Core'
<1> USE DEF HIFInv
<1>1. /\ At(t, "add") /\ at' = [at EXCEPT ![t] = "up"]
      /\ hand[t] \in Requests /\ Submitting(t) /\ done' = done \ {hand[t]}
      /\ Queue' = Append(Queue, hand[t])
      /\ Lists!Elems(Queue') = Lists!Elems(Queue) \cup {hand[t]}
      /\ semReq[hand[t]] # 1 /\ ~Served(hand[t])
      /\ UNCHANGED <<poolVars, sync, semReq, semAsync, taskVars, hostVars, hand, current, stage,
                     boundVars, stranded>>
  <2>1. Submitting(t)
    BY DEF AddToAsyncList, Submitting
  <2>2. Lists!Elems(Append(Queue, hand[t])) = Lists!Elems(Queue) \cup {hand[t]}
    BY ListAppend, QueueType, Lists!ElemsAppend
  <2> QED BY <2>1, <2>2, ListAppend, HeldOnly DEF AddToAsyncList, Goto
<1>2. Types'
  <2>1. ahead' \in [Threads -> Nat]
    <3>1. Len(Queue) + (IF current = NoRequest THEN 0 ELSE 1) \in Nat /\ 0 \in Nat
      BY QueueType
    <3> QED BY <3>1 DEF AddToAsyncList, Types
  <2>2. inusenext' \in [Requests -> MaybeRequest] /\ asyncreq' \in MaybeRequest
    BY <1>1 DEF AddToAsyncList, Types, Linked, MaybeRequest
  <2> QED BY <1>1, <2>1, <2>2
        DEF Types, poolVars, taskVars, hostVars, boundVars, Locations
<1>3. Pools'
  <2>1. \A u \in Threads : /\ Submitting(u)' <=> Submitting(u) /\ u # t
                           /\ Submitting(u) /\ u # t => hand[u] # hand[t]
    BY <1>1 DEF Types, Submitting, At, Pools
  <2>2. \A x \in Requests : /\ Held(x)' <=> Held(x) /\ x # hand[t]
                            /\ Served(x)' <=> Served(x)
    BY <1>1, <2>1, Members DEF Types, Held, Served, At
  <2>3. \A x \in Requests :
          ExactlyOne(x \in Lists!Elems(freeList), x \in Lists!Elems(scatterReqs),
                     x \in Lists!Elems(Queue), Held(x), Served(x), semReq[x] = 1)'
    BY <1>1, <2>2, HeldOnly DEF Pools, ExactlyOne, poolVars
  <2> QED BY <1>1, <2>1, <2>3 DEF Pools, poolVars
<1>4. Calls'
  <2>1. \A u \in Threads \ {t} : /\ at'[u] = at[u]
                                 /\ Waits(u) \/ Submitting(u) => hand[u] # hand[t]
    BY <1>1, HeldOnly DEF Types, Waits, Calls, Pools
  <2>2. at'[t] = "up" /\ at[t] = "add"
    BY <1>1 DEF Types, At
  <2>3. \A x \in Requests : Served(x)' <=> Served(x)
    BY <1>1, Members DEF Types, Served, At
  <2>4. \A u \in Threads : Waits(u)' <=> Waits(u) \/ (u = t /\ Synchronous(t))
    BY <2>1, <2>2 DEF Waits, Synchronous
  <2>5. Calls /\ Lists!Elems(Queue) \subseteq Lists!Elems(Queue')
    BY <1>1
  <2>6. \A u \in Threads : at[u] = "woken" => u # t /\ hand[u] # hand[t]
    BY <2>1, <2>2 DEF Submitting, At
  <2>7. \A u \in Threads :
           (/\ at[u] \in Calling => hand[u] \in Requests
            /\ at[u] \in {"wait", "woken"} => Synchronous(u)
            /\ at[u] = "add" => (hand[u] \in sync <=> Synchronous(u)))'
    BY <1>1, <2>1, <2>2, <2>5 DEF Calls, Calling, Synchronous
  <2>8. \A u \in Threads :
           (Waits(u) => /\ hand[u] \in sync
                        /\ \/ hand[u] \in Lists!Elems(Queue) \/ Served(hand[u])
                           \/ semReq[hand[u]] = 1)'
    <3> SUFFICES ASSUME NEW u \in Threads, Waits(u)'
                 PROVE (/\ hand[u] \in sync
                        /\ \/ hand[u] \in Lists!Elems(Queue) \/ Served(hand[u])
                           \/ semReq[hand[u]] = 1)'
      OBVIOUS
    <3>1. CASE u = t
      BY <1>1, <2>2, <2>4, <2>5, <3>1 DEF Calls
    <3>2. CASE u # t
      <4>1. Waits(u) /\ hand'[u] = hand[u] /\ hand[u] \in Requests
        BY <1>1, <2>4, <2>5, <3>2 DEF Calls, Calling, Waits
      <4> QED BY <1>1, <2>3, <2>5, <4>1 DEF Calls
    <3> QED BY <3>1, <3>2
  <2>9. \A u \in Threads : (at[u] = "woken" => hand[u] \in done)'
    BY <1>1, <2>1, <2>2, <2>5, <2>6 DEF Calls
  <2>10. \A u, v \in Threads : (Waits(u) /\ Waits(v) /\ hand[u] = hand[v] => u = v)'
    BY <1>1, <2>1, <2>4, <2>5 DEF Calls
  <2>11. \A r \in Requests : (semReq[r] = 1 => r \in done)'
    BY <1>1, <2>5 DEF Calls
  <2> QED BY <2>7, <2>8, <2>9, <2>10, <2>11 DEF Calls
<1>5. Life'
  BY <1>1, Members DEF taskVars, Life, Types, Calling, Carrying, At
<1> QED BY <1>2, <1>3, <1>4, <1>5 DEF Core

\* A request leaves a thread, or the transfer, for one of the pools.
LEMMA ReturnCore ==
    ASSUME HIFInv, NEW t \in Threads, ReturnStatus(t), Queue' = Queue PROVE Core'
<1> USE DEF HIFInv
<1>1. /\ at[t] = "woken" /\ Submitting(t) /\ Synchronous(t) /\ GiveBack(hand[t])
      /\ sync' = sync \ {hand[t]} /\ done' = done \ {hand[t]}
      /\ hand' = [hand EXCEPT ![t] = NoRequest]
      /\ at' = [at EXCEPT ![t] = IF t = Irq THEN "dsr" ELSE "out"]
      /\ ahead' = [ahead EXCEPT ![t] = 0]
      /\ UNCHANGED <<scatter, asyncreq, semReq, semAsync, taskVars, hostVars, current, stage,
                     boundVars, stranded>>
  BY DEF ReturnStatus, At, Submitting, Forget, Hold, Goto, Calls
<1>2. /\ hand[t] \in Requests /\ semReq[hand[t]] # 1 /\ ~Served(hand[t])
      /\ hand[t] \notin Lists!Elems(Queue)
      /\ freeList' \in Seq(Requests) /\ scatterReqs' \in Seq(Requests)
      /\ Lists!Distinct(freeList') /\ Lists!Distinct(scatterReqs')
      /\ \/ /\ Lists!Elems(freeList') = Lists!Elems(freeList) \cup {hand[t]}
            /\ scatterReqs' = scatterReqs
         \/ /\ Lists!Elems(scatterReqs') = Lists!Elems(scatterReqs) \cup {hand[t]}
            /\ freeList' = freeList
      /\ inusenext' = inusenext \/ inusenext' = [inusenext EXCEPT ![hand[t]] = NoRequest]
  BY <1>1, HeldOnly, GiveBackStep
<1>3. Types'
  BY <1>1, <1>2 DEF Types, taskVars, hostVars, boundVars, Locations, MaybeRequest
<1>4. /\ \A u \in Threads \ {t} : /\ at'[u] = at[u] /\ hand'[u] = hand[u]
                                  /\ Submitting(u) \/ Waits(u) => hand[u] # hand[t]
      /\ at'[t] \in {"out", "dsr"}
      /\ at'[t] = "dsr" => t = Irq
      /\ \A x \in Requests : Served(x)' <=> Served(x)
  <2>1. \A u \in Threads \ {t} : at'[u] = at[u] /\ hand'[u] = hand[u]
    BY <1>1 DEF Types
  <2>2. \A u \in Threads \ {t} : Submitting(u) \/ Waits(u) => hand[u] # hand[t]
    BY <1>1, <1>2 DEF Pools, Calls
  <2>3. at'[t] = IF t = Irq THEN "dsr" ELSE "out"
    BY <1>1 DEF Types
  <2>4. at'[Task] = "perform" <=> at[Task] = "perform"
    BY <1>1, <2>1, <2>3, Members
  <2> QED BY <1>1, <2>1, <2>2, <2>3, <2>4 DEF Served, At
<1>5. Pools'
  <2>1. \A u \in Threads : Submitting(u)' <=> Submitting(u) /\ u # t
    BY <1>4 DEF Submitting, At
  <2>2. \A x \in Requests : Held(x)' <=> Held(x) /\ x # hand[t]
    BY <1>1, <1>4, <2>1 DEF Held
  <2>3. \A x \in Requests :
          ExactlyOne(x \in Lists!Elems(freeList), x \in Lists!Elems(scatterReqs),
                     x \in Lists!Elems(Queue), Held(x), Served(x), semReq[x] = 1)'
    BY <1>1, <1>2, <1>4, <2>2, HeldOnly DEF Pools, ExactlyOne
  <2>4. \A u, v \in Threads :
          (Submitting(u) /\ Submitting(v) /\ hand[u] = hand[v] => u = v)'
    BY <1>4, <2>1 DEF Pools
  <2> QED BY <1>2, <2>3, <2>4 DEF Pools
<1>6. Calls'
  <2>1. \A u \in Threads : Waits(u)' <=> Waits(u) /\ u # t
    BY <1>1, <1>4 DEF Waits, Synchronous
  <2>2. \A u \in Threads : at[u] \in {"add", "woken"} => Submitting(u)
    BY DEF Submitting, At
  <2>3. \A x \in Requests : semReq[x] = 1 => x # hand[t]
    BY <1>2
  <2>4. \A u \in Threads : at'[u] \in Calling => u # t
    BY <1>4 DEF Calling
  <2>5. \A x \in Requests \ {hand[t]} : /\ x \in sync' <=> x \in sync
                                        /\ x \in done' <=> x \in done
    BY <1>1
  <2>6. \A u \in Threads :
           (/\ at[u] \in Calling => hand[u] \in Requests
            /\ at[u] \in {"wait", "woken"} => Synchronous(u)
            /\ at[u] = "add" => (hand[u] \in sync <=> Synchronous(u))
            /\ at[u] = "woken" => hand[u] \in done)'
    BY <1>4, <2>2, <2>4, <2>5 DEF Calls, Calling, Synchronous
  <2>7. \A u \in Threads :
           (Waits(u) => /\ hand[u] \in sync
                        /\ \/ hand[u] \in Lists!Elems(Queue) \/ Served(hand[u])
                           \/ semReq[hand[u]] = 1)'
    <3> SUFFICES ASSUME NEW u \in Threads, Waits(u)'
                 PROVE (/\ hand[u] \in sync
                        /\ \/ hand[u] \in Lists!Elems(Queue) \/ Served(hand[u])
                           \/ semReq[hand[u]] = 1)'
      OBVIOUS
    <3>1. Waits(u) /\ hand'[u] = hand[u] /\ hand[u] \in Requests \ {hand[t]}
      BY <1>4, <2>1 DEF Calls, Waits, Calling
    <3> QED BY <1>1, <1>4, <2>5, <3>1 DEF Calls
  <2>8. \A u, v \in Threads : (Waits(u) /\ Waits(v) /\ hand[u] = hand[v] => u = v)'
    BY <1>4, <2>1 DEF Calls
  <2>9. \A x \in Requests : (semReq[x] = 1 => x \in done)'
    BY <1>1, <2>3, <2>5 DEF Calls
  <2> QED BY <2>6, <2>7, <2>8, <2>9 DEF Calls
<1>7. Life'
  BY <1>1, <1>4, Members DEF taskVars, Life, Types, Calling, Carrying, At
<1> QED BY <1>3, <1>5, <1>6, <1>7 DEF Core

\* async_task between transfers.
LEMMA TaskMoves ==
    ASSUME HIFInv, Down \/ Claim \/ Release \/ CallbackReturns \/ Exit, Queue' = Queue
    PROVE  Core'
<1> USE DEF HIFInv
<1>1. \E w \in {"exit", "claim", "pull", "down", "none"} : at' = [at EXCEPT ![Task] = w]
  BY DEF Down, Claim, Release, CallbackReturns, Exit, Goto
<1>2. PICK w \in {"exit", "claim", "pull", "down", "none"} : at' = [at EXCEPT ![Task] = w]
  BY <1>1
<1>3. /\ UNCHANGED <<poolVars, listVars, sync, semReq, shutdown, asyncTask, disabled, irqClaimed,
                     irqHandling, hand, stage, boundVars, done>>
      /\ at[Task] \in {"down", "claim", "pull", "callback", "exit"}
      /\ at'[Task] = w /\ \A u \in Threads \ {Task} : at'[u] = at[u]
      /\ \A u \in Threads : at[u] \in {"add", "woken"} <=> at'[u] \in {"add", "woken"}
      /\ at[Task] # "perform" /\ at'[Task] # "perform"
  BY <1>2, Members DEF Types, Down, Claim, Release, CallbackReturns, Exit, At, taskVars, hostVars
<1>4. Types'
  <2>1. semAsync' \in Nat
    BY DEF Down, Claim, Release, CallbackReturns, Exit, Types
  <2>2. completion' \in 0..1
    BY DEF Down, Claim, Release, CallbackReturns, Exit, Types, Life, taskVars, At
  <2>3. ahead' \in [Threads -> Nat]
    <3>1. CASE CallbackReturns
      <4>1. \A t \in Threads :
               (IF t \in Threads /\ ahead[t] > 0 THEN ahead[t] - 1 ELSE ahead[t]) \in Nat
        BY DEF Types
      <4> QED BY <3>1, <4>1 DEF CallbackReturns, Completed
    <3>2. CASE ~CallbackReturns
      BY <3>2 DEF Down, Claim, Release, Exit, Types
    <3> QED BY <3>1, <3>2
  <2>4. /\ host' \in {Irq, Task, NoThread} /\ stranded' \in BOOLEAN
        /\ current' \in MaybeRequest
    BY DEF Down, Claim, Release, CallbackReturns, Exit, Types, hostVars, Completed, MaybeRequest
  <2>5. at' \in [Threads -> Locations]
    BY <1>2 DEF Types, Locations
  <2> QED BY <1>3, <2>1, <2>2, <2>3, <2>4, <2>5 DEF Types, poolVars, listVars, boundVars
<1>5. Pools'
  <2>1. w \in Locations /\ Task \in Threads
    BY Members DEF Locations
  <2> QED BY <1>2, <1>3, <2>1, PoolsKept DEF poolVars, At, Submitting
<1>6. Calls'
  <2>1. \A u \in Threads : Waits(u)' <=> Waits(u)
    BY <1>3, Members DEF Waits, Synchronous
  <2>2. \A x \in Requests : ~Served(x)' /\ ~Served(x)
    BY <1>3 DEF Served, At
  <2>3. \A u \in Threads : at'[u] \in Calling \cup {"wait", "woken", "add"} => at'[u] = at[u]
    BY <1>3 DEF Calling
  <2> QED BY <1>3, <2>1, <2>2, <2>3 DEF Calls, Calling, Waits, Synchronous
<1>7. Life'
  <2>1. CASE Down
    BY <1>3, <2>1, Members DEF Down, taskVars, Life, Types, Calling, Carrying, At, Goto
  <2>2. CASE Claim
    BY <1>3, <2>2, Members DEF Claim, taskVars, Life, Types, Calling, Carrying, At, Goto
  <2>3. CASE Release
    BY <1>3, <2>3, Members DEF Release, taskVars, Life, Types, Calling, Carrying, At, Goto
  <2>4. CASE CallbackReturns
    BY <1>3, <2>4, Members
       DEF CallbackReturns, Completed, taskVars, Life, Types, Calling, Carrying, At, Goto
  <2>5. CASE Exit
    BY <1>3, <2>5, Members DEF Exit, taskVars, Life, Types, Calling, Carrying, At, Goto
  <2> QED BY <2>1, <2>2, <2>3, <2>4, <2>5
<1> QED BY <1>4, <1>5, <1>6, <1>7 DEF Core

LEMMA PullCore == ASSUME HIFInv, Pull PROVE Core'
<1> USE DEF HIFInv
<1>1. /\ asyncreq \in Requests /\ Queue # <<>> /\ Queue' = Tail(Queue) /\ asyncreq = Head(Queue)
      /\ Lists!Elems(Queue) = {asyncreq} \cup Lists!Elems(Queue')
      /\ asyncreq \notin Lists!Elems(Queue') /\ asyncreq \in Lists!Elems(Queue)
  BY ListPull, QueueType, Lists!ElemsTail
<1>2. /\ at' = [at EXCEPT ![Task] = "perform"] /\ current' = asyncreq
      /\ at[Task] = "pull" /\ at'[Task] = "perform"
      /\ \A u \in Threads \ {Task} : at'[u] = at[u]
      /\ UNCHANGED <<poolVars, inusenext, sync, semReq, semAsync, taskVars, hostVars, hand, stage,
                     boundVars, done, ahead, stranded>>
  BY Members DEF Pull, Goto, At, Types
<1>3. Types'
  <2>1. asyncreq' \in MaybeRequest
    BY <1>1 DEF Pull, Types
  <2> QED BY <1>1, <1>2, <2>1
       DEF Types, poolVars, taskVars, hostVars, boundVars, Locations, MaybeRequest
<1>4. \A x \in Requests : /\ Served(x)' <=> x = asyncreq
                          /\ ~Served(x)
                          /\ Held(x)' <=> Held(x)
  <2>1. \A u \in Threads : Submitting(u)' <=> Submitting(u)
    BY <1>2 DEF Submitting, At
  <2> QED BY <1>2, <2>1 DEF Served, Held, At
<1>5. Pools'
  <2>1. \A x \in Requests :
          ExactlyOne(x \in Lists!Elems(freeList), x \in Lists!Elems(scatterReqs),
                     x \in Lists!Elems(Queue), Held(x), Served(x), semReq[x] = 1)'
    BY <1>1, <1>2, <1>4 DEF Pools, ExactlyOne, poolVars
  <2>2. \A u \in Threads : (Submitting(u)' <=> Submitting(u)) /\ hand'[u] = hand[u]
    BY <1>2 DEF Submitting, At
  <2> QED BY <1>2, <2>1, <2>2 DEF Pools, poolVars
<1>6. Calls'
  <2>1. \A u \in Threads : /\ Waits(u)' <=> Waits(u)
                           /\ Waits(u) => hand[u] \in Requests
    BY <1>2, Members DEF Waits, Synchronous, Calls, Calling
  <2> QED BY <1>1, <1>2, <1>4, <2>1 DEF Calls, Calling, Synchronous, poolVars
<1>7. Life'
  BY <1>1, <1>2, Members DEF taskVars, Life, Types, Calling, Carrying, At
<1> QED BY <1>3, <1>5, <1>6, <1>7 DEF Core

LEMMA PerformSyncCore == ASSUME HIFInv, PerformSync, Queue' = Queue PROVE Core'
<1> USE DEF HIFInv
<1>1. /\ at[Task] = "perform" /\ current \in sync /\ done' = done \cup {current}
      /\ at' = [at EXCEPT ![Task] = "pull"] /\ current' = NoRequest
      /\ at'[Task] = "pull" /\ \A u \in Threads \ {Task} : at'[u] = at[u]
      /\ UNCHANGED <<poolVars, listVars, sync, semAsync, taskVars, hostVars, hand, stage,
                     boundVars, stranded>>
  BY Members DEF PerformSync, Goto, At, Types, Completed
<1>2. /\ current \in Requests /\ semReq[current] = 0 /\ ~Held(current)
      /\ current \notin Lists!Elems(freeList) /\ current \notin Lists!Elems(scatterReqs)
      /\ current \notin Lists!Elems(Queue)
  BY <1>1, ServedOnly DEF At, Types
<1>3. semReq' = [semReq EXCEPT ![current] = 1]
  <2>1. semReq' = [semReq EXCEPT ![current] = semReq[current] + 1] /\ 0 + 1 = 1
    BY DEF PerformSync
  <2> QED BY <1>2, <2>1
<1>4. Types'
  <2>1. ahead' \in [Threads -> Nat]
    <3>1. \A t \in Threads : ahead[t] \in Nat /\ (ahead[t] > 0 => ahead[t] - 1 \in Nat)
      BY DEF Types
    <3> QED BY <3>1 DEF PerformSync, Completed
  <2>2. semReq' \in [Requests -> 0..1] /\ done' \subseteq Requests
    BY <1>1, <1>2, <1>3 DEF Types
  <2>3. at' \in [Threads -> Locations] /\ current' \in MaybeRequest
    BY <1>1 DEF Types, Locations, MaybeRequest
  <2> QED BY <1>1, <2>1, <2>2, <2>3 DEF Types, poolVars, listVars, taskVars, hostVars, boundVars
<1>5. \A x \in Requests : /\ Served(x) <=> x = current
                          /\ ~Served(x)'
                          /\ Held(x)' <=> Held(x)
  <2>1. \A u \in Threads : Submitting(u)' <=> Submitting(u)
    BY <1>1 DEF Submitting, At
  <2> QED BY <1>1, <2>1 DEF Served, Held, At
<1>6. Pools'
  <2>1. \A x \in Requests : semReq'[x] = 1 <=> semReq[x] = 1 \/ x = current
    BY <1>2, <1>3 DEF Types
  <2>2. \A x \in Requests :
          ExactlyOne(x \in Lists!Elems(freeList), x \in Lists!Elems(scatterReqs),
                     x \in Lists!Elems(Queue), Held(x), Served(x), semReq[x] = 1)'
    BY <1>1, <1>2, <1>5, <2>1 DEF Pools, ExactlyOne, poolVars
  <2>3. \A u \in Threads : (Submitting(u)' <=> Submitting(u)) /\ hand'[u] = hand[u]
    BY <1>1 DEF Submitting, At
  <2> QED BY <1>1, <2>2, <2>3 DEF Pools, poolVars
<1>7. Calls'
  <2>1. \A u \in Threads : Waits(u)' <=> Waits(u)
    BY <1>1, Members DEF Waits, Synchronous
  <2>2. \A x \in Requests : semReq'[x] = 1 <=> semReq[x] = 1 \/ x = current
    BY <1>2, <1>3 DEF Types
  <2>3. \A u \in Threads : Waits(u) => hand[u] \in Requests
    BY DEF Calls, Waits, Calling
  <2> QED BY <1>1, <1>2, <1>5, <2>1, <2>2, <2>3 DEF Calls, Calling, Synchronous
<1>8. Life'
  BY <1>1, <1>2, Members DEF taskVars, Life, Types, Calling, Carrying, At
<1> QED BY <1>4, <1>6, <1>7, <1>8 DEF Core

LEMMA PerformAsyncCore == ASSUME HIFInv, PerformAsync, Queue' = Queue PROVE Core'
<1> USE DEF HIFInv
<1>1. /\ at[Task] = "perform" /\ At(Task, "perform") /\ current \notin sync /\ GiveBack(current)
      /\ sync' = sync \ {current} /\ done' = done \ {current}
      /\ at' = [at EXCEPT ![Task] = "callback"]
      /\ at'[Task] = "callback" /\ \A u \in Threads \ {Task} : at'[u] = at[u]
      /\ UNCHANGED <<scatter, asyncreq, semReq, semAsync, taskVars, hostVars, hand, current, stage,
                     boundVars, ahead, stranded>>
  BY Members DEF PerformAsync, Goto, At, Types, Forget
<1>2. /\ current \in Requests /\ semReq[current] # 1 /\ ~Held(current)
      /\ current \notin Lists!Elems(Queue)
      /\ freeList' \in Seq(Requests) /\ scatterReqs' \in Seq(Requests)
      /\ Lists!Distinct(freeList') /\ Lists!Distinct(scatterReqs')
      /\ \/ /\ Lists!Elems(freeList') = Lists!Elems(freeList) \cup {current}
            /\ scatterReqs' = scatterReqs
         \/ /\ Lists!Elems(scatterReqs') = Lists!Elems(scatterReqs) \cup {current}
            /\ freeList' = freeList
      /\ inusenext' = inusenext \/ inusenext' = [inusenext EXCEPT ![current] = NoRequest]
  BY <1>1, ServedOnly, GiveBackStep
<1>3. Types'
  BY <1>1, <1>2 DEF Types, taskVars, hostVars, boundVars, Locations, MaybeRequest
<1>4. \A x \in Requests : /\ Served(x) <=> x = current
                          /\ ~Served(x)'
                          /\ Held(x)' <=> Held(x)
  <2>1. \A u \in Threads : Submitting(u)' <=> Submitting(u)
    BY <1>1 DEF Submitting, At
  <2> QED BY <1>1, <2>1 DEF Served, Held, At
<1>5. Pools'
  <2>1. \A x \in Requests :
          ExactlyOne(x \in Lists!Elems(freeList), x \in Lists!Elems(scatterReqs),
                     x \in Lists!Elems(Queue), Held(x), Served(x), semReq[x] = 1)'
    BY <1>1, <1>2, <1>4, ServedOnly DEF Pools, ExactlyOne
  <2>2. \A u \in Threads : (Submitting(u)' <=> Submitting(u)) /\ hand'[u] = hand[u]
    BY <1>1 DEF Submitting, At
  <2> QED BY <1>2, <2>1, <2>2 DEF Pools
<1>6. Calls'
  <2>1. \A u \in Threads : Waits(u)' <=> Waits(u)
    BY <1>1, Members DEF Waits, Synchronous
  <2>2. \A u \in Threads : at[u] \in {"add", "woken"} => hand[u] # current
    BY <1>2 DEF Held, Submitting, At
  <2>3. \A u \in Threads : Waits(u) => hand[u] \in Requests /\ hand[u] # current
    BY <1>1 DEF Calls, Waits, Calling
  <2> QED BY <1>1, <1>2, <1>4, <2>1, <2>2, <2>3 DEF Calls, Calling, Synchronous
<1>7. Life'
  BY <1>1, <1>2, Members DEF taskVars, Life, Types, Calling, Carrying, At
<1> QED BY <1>3, <1>5, <1>6, <1>7 DEF Core

LEMMA IrqCore == ASSUME HIFInv, Interrupt \/ IrqStep, Queue' = Queue PROVE Core'
<1> USE DEF HIFInv
<1>1. PICK w \in {"entered", "status", "leaving", "none"} : at' = [at EXCEPT ![Irq] = w]
  BY DEF Interrupt, IrqStep, EnterDsr, LeaveDsr, InterruptDone, Goto
<1>2. /\ UNCHANGED <<poolVars, listVars, sync, semReq, semAsync, taskVars, irqClaimed, hand, current,
                     stage, starts, done, ahead, stranded>>
      /\ at[Irq] \in {"none", "entered", "dsr", "leaving"}
      /\ at'[Irq] = w /\ \A u \in Threads \ {Irq} : at'[u] = at[u]
  BY <1>1, Members
     DEF Interrupt, IrqStep, EnterDsr, LeaveDsr, InterruptDone, At, Types, boundVars
<1>3. Types'
  <2>1. calls' \in Nat
    BY DEF Interrupt, IrqStep, EnterDsr, LeaveDsr, InterruptDone, Types, boundVars
  <2>2. host' \in {Irq, Task, NoThread} /\ irqHandling' \in BOOLEAN
    BY DEF Interrupt, IrqStep, EnterDsr, LeaveDsr, InterruptDone, Types, HostDuringDsr
  <2>3. at' \in [Threads -> Locations]
    BY <1>1 DEF Types, Locations
  <2> QED BY <1>2, <2>1, <2>2, <2>3 DEF Types, poolVars, listVars, taskVars
<1>4. Pools'
  <2>1. w \in Locations
    BY DEF Locations
  <2> QED BY <1>1, <1>2, <2>1, Members, PoolsKept DEF poolVars, At, Submitting
<1>5. Calls'
  <2>1. \A u \in Threads : /\ Waits(u)' <=> Waits(u)
                           /\ at'[u] \in Calling => at'[u] = at[u]
                           /\ Waits(u) => hand[u] \in Requests
    BY <1>2, Members DEF Waits, Synchronous, Calls, Calling
  <2>2. \A x \in Requests : Served(x)' <=> Served(x)
    BY <1>2, Members DEF Served, At
  <2> QED BY <1>2, <2>1, <2>2 DEF Calls, Calling, Synchronous, poolVars
<1>6. Life'
  BY <1>2, Members DEF taskVars, Life, Types, Calling, Carrying
<1> QED BY <1>3, <1>4, <1>5, <1>6 DEF Core

\* Starting and stopping, but for what moves requests between the pools.
LEMMA AdminCore ==
    ASSUME HIFInv, Queue' = Queue,
           \/ EnableFunc \/ UnMaskInterrupt \/ MaskInterrupt \/ StopTask \/ TaskStopped
           \/ \E outcome \in Outcomes : DisableFunc(outcome)
    PROVE  Core'
<1> USE DEF HIFInv
<1>1. /\ UNCHANGED <<poolVars, listVars, sync, semReq, hand, current, calls, done, ahead>>
      /\ \/ at' = at
         \/ EnableFunc /\ ~asyncTask /\ at' = [at EXCEPT ![Task] = "down"]
  BY DEF EnableFunc, UnMaskInterrupt, MaskInterrupt, StopTask, TaskStopped, DisableFunc, Goto,
         boundVars
<1>2. /\ \A u \in Threads \ {Task} : at'[u] = at[u]
      /\ \/ at'[Task] = at[Task]
         \/ at[Task] = "none" /\ at'[Task] = "down"
  BY <1>1, Members DEF Types, Life
<1>3. Types'
  <2>1. semAsync' \in Nat /\ starts' \in Nat
    <3>1. semAsync \in Nat /\ starts \in Nat
      BY DEF Types
    <3>2. semAsync' = semAsync \/ semAsync' = semAsync + 1 \/ semAsync' = 0
      BY DEF EnableFunc, UnMaskInterrupt, MaskInterrupt, StopTask, TaskStopped, DisableFunc,
             WokenToStop
    <3>3. \/ starts' = starts
          \/ starts > 0 /\ starts' = starts - 1
      BY DEF EnableFunc, UnMaskInterrupt, MaskInterrupt, StopTask, TaskStopped, DisableFunc,
             boundVars
    <3> QED BY <3>1, <3>2, <3>3
  <2>5. stage' \in Stages
    BY DEF EnableFunc, UnMaskInterrupt, MaskInterrupt, StopTask, TaskStopped, DisableFunc, Stages
  <2>2. completion' \in 0..1
    <3>1. \/ completion' = completion
          \/ completion' = 0
          \/ completion > 0 /\ completion' = completion - 1
      BY DEF EnableFunc, UnMaskInterrupt, MaskInterrupt, StopTask, TaskStopped, DisableFunc,
             taskVars
    <3> QED BY <3>1 DEF Types
  <2>3. /\ shutdown' \in BOOLEAN /\ asyncTask' \in BOOLEAN /\ disabled' \in BOOLEAN
        /\ irqClaimed' \in BOOLEAN /\ irqHandling' \in BOOLEAN /\ stranded' \in BOOLEAN
        /\ host' = host
    BY DEF EnableFunc, UnMaskInterrupt, MaskInterrupt, StopTask, TaskStopped, DisableFunc, Types,
           taskVars, hostVars
  <2>4. at' \in [Threads -> Locations]
    BY <1>1 DEF Types, Locations
  <2> QED BY <1>1, <2>1, <2>2, <2>3, <2>4, <2>5 DEF Types, poolVars, listVars
<1>4. Pools'
  <2>1. CASE at' = at
    BY <1>1, <2>1 DEF Pools, ExactlyOne, Held, Served, Submitting, At, poolVars
  <2>2. CASE EnableFunc /\ ~asyncTask /\ at' = [at EXCEPT ![Task] = "down"]
    <3>1. "down" \in Locations /\ at[Task] = "none"
      BY <2>2 DEF Locations, Life
    <3> QED BY <1>1, <2>2, <3>1, Members, PoolsKept DEF poolVars, At, Submitting
  <2> QED BY <1>1, <2>1, <2>2
<1>5. Calls'
  <2>1. \A u \in Threads : /\ Waits(u)' <=> Waits(u)
                           /\ at'[u] \in Calling => at'[u] = at[u]
                           /\ Waits(u) => hand[u] \in Requests
    BY <1>2, Members DEF Waits, Synchronous, Calls, Calling
  <2>2. \A x \in Requests : Served(x)' <=> Served(x)
    BY <1>1, <1>2, Members DEF Served, At
  <2> QED BY <1>1, <2>1, <2>2 DEF Calls, Calling, Synchronous, poolVars
<1>6. Life'
  <2>1. CASE EnableFunc
    <3>1. completion = 0
      BY <2>1 DEF EnableFunc, Life, Types
    <3> QED BY <1>1, <1>2, <2>1, <3>1, Members DEF EnableFunc, Life, Types, Calling, Carrying, At, Goto
  <2>2. CASE StopTask
    BY <1>1, <1>2, <2>2, Members DEF StopTask, Life, Types, Calling, Carrying, At
  <2>3. CASE TaskStopped
    BY <1>1, <1>2, <2>3, Members DEF TaskStopped, Life, Types, Calling, Carrying, At
  <2>4. CASE UnMaskInterrupt \/ MaskInterrupt \/ \E outcome \in Outcomes : DisableFunc(outcome)
    <3>1. /\ UNCHANGED <<shutdown, completion, asyncTask, current, at>>
          /\ stage \notin {"stopping", "awaitTask"}
      BY <2>4 DEF UnMaskInterrupt, MaskInterrupt, DisableFunc, taskVars
    <3> QED BY <3>1 DEF Life, Calling, Carrying, Types
  <2> QED BY <2>1, <2>2, <2>3, <2>4
<1> QED BY <1>3, <1>4, <1>5, <1>6 DEF Core

\* Requests move between the pools.
LEMMA PoolsMoved ==
    ASSUME HIFInv, Queue' = Queue,
           freeList' \in Seq(Requests), scatterReqs' \in Seq(Requests),
           Lists!Distinct(freeList'), Lists!Distinct(scatterReqs'),
           Lists!Elems(freeList') \cap Lists!Elems(scatterReqs') = {},
           Lists!Elems(freeList') \cup Lists!Elems(scatterReqs')
             = Lists!Elems(freeList) \cup Lists!Elems(scatterReqs),
           scatter' \subseteq Requests, inusenext' \in [Requests -> MaybeRequest],
           stage' \in Stages, stage' = stage \/ at[Admin] = "out", stage # "awaitTask",
           UNCHANGED <<asyncreq, sync, semReq, semAsync, taskVars, hostVars, at, hand, current,
                       boundVars, done, ahead, stranded>>
    PROVE  Core'
<1> USE DEF HIFInv
<1>1. Types'
  BY DEF Types, taskVars, hostVars, boundVars
<1>2. \A x \in Requests : (Held(x)' <=> Held(x)) /\ (Served(x)' <=> Served(x))
  BY DEF Held, Served, Submitting, At
<1>3. Pools'
  <2>1. \A x \in Requests :
          ExactlyOne(x \in Lists!Elems(freeList), x \in Lists!Elems(scatterReqs),
                     x \in Lists!Elems(Queue), Held(x), Served(x), semReq[x] = 1)'
    BY <1>2 DEF Pools, ExactlyOne
  <2>2. \A u \in Threads : (Submitting(u)' <=> Submitting(u)) /\ hand'[u] = hand[u]
    BY DEF Submitting, At
  <2> QED BY <2>1, <2>2 DEF Pools
<1>4. Calls'
  <2>1. \A u \in Threads : Waits(u)' <=> Waits(u)
    BY DEF Waits, Synchronous
  <2>2. \A u \in Threads : Served(hand[u])' <=> Served(hand[u])
    BY DEF Served, At
  <2> QED BY <2>1, <2>2 DEF Calls, Calling, Synchronous
<1>5. Life'
  BY DEF taskVars, Life, Calling, Carrying
<1> QED BY <1>1, <1>3, <1>4, <1>5 DEF Core

LEMMA PoolsCore == ASSUME HIFInv, SetupScatter \/ CleanupScatter, Queue' = Queue PROVE Core'
<1> USE DEF HIFInv
<1>0. at[Admin] = "out" \/ stage = "stopping"
  BY DEF Life
<1>1. CASE SetupScatter
  <2>1. /\ stage = "setup" /\ stage' = "unmask"
        /\ UNCHANGED <<asyncreq, sync, semReq, semAsync, taskVars, hostVars, at, hand, current,
                       boundVars, done, ahead, stranded>>
    BY <1>1 DEF SetupScatter
  <2>2. stage' \in Stages /\ stage # "awaitTask" /\ at[Admin] = "out"
    BY <1>0, <2>1 DEF Stages
  <2> QED BY <1>1, <2>1, <2>2, SetupScatterStep, PoolsMoved
<1>2. CASE CleanupScatter /\ scatterReqs # <<>>
  <2>1. /\ stage = "cleanup" /\ stage' = stage
        /\ UNCHANGED <<asyncreq, sync, semReq, semAsync, taskVars, hostVars, at, hand, current,
                       boundVars, done, ahead, stranded>>
    BY <1>2 DEF CleanupScatter
  <2>2. stage' \in Stages /\ stage # "awaitTask"
    BY <2>1 DEF Stages
  <2>3. inusenext' \in [Requests -> MaybeRequest]
    BY <1>2, CleanupStep DEF Types, MaybeRequest
  <2>4. \A x \in Requests : x \in Lists!Elems(freeList) => x \notin Lists!Elems(scatterReqs)
    BY DEF Pools, ExactlyOne
  <2>5. Lists!Elems(freeList) \subseteq Requests
    BY Lists!ElemsType DEF Types
  <2>6. /\ Lists!Elems(freeList') \cap Lists!Elems(scatterReqs') = {}
        /\ Lists!Elems(freeList') \cup Lists!Elems(scatterReqs')
             = Lists!Elems(freeList) \cup Lists!Elems(scatterReqs)
        /\ scatterReqs' \in Seq(Requests) /\ Lists!Distinct(scatterReqs')
    BY <1>2, <2>4, <2>5, CleanupStep, PoolOnly
  <2> QED BY <1>2, <2>1, <2>2, <2>3, <2>6, CleanupStep, PoolsMoved
<1>3. CASE CleanupScatter /\ scatterReqs = <<>>
  <2>1. /\ stage = "cleanup" /\ stage' = "off" /\ UNCHANGED <<poolVars, inusenext>>
        /\ UNCHANGED <<asyncreq, sync, semReq, semAsync, taskVars, hostVars, at, hand, current,
                       boundVars, done, ahead, stranded>>
    BY <1>3 DEF CleanupScatter
  <2>2. stage' \in Stages /\ stage # "awaitTask" /\ at[Admin] = "out"
    BY <1>0, <2>1 DEF Stages
  <2>3. \A x \in Requests : x \in Lists!Elems(freeList) => x \notin Lists!Elems(scatterReqs)
    BY DEF Pools, ExactlyOne
  <2>4. Lists!Elems(freeList) \subseteq Requests
    BY Lists!ElemsType DEF Types
  <2>5. Lists!Elems(freeList) \cap Lists!Elems(scatterReqs) = {}
    BY <2>3, <2>4
  <2> QED BY <2>1, <2>2, <2>5, PoolsMoved DEF poolVars, Types, Pools
<1> QED BY <1>1, <1>2, <1>3

LEMMA HIFInit == Init => HIFInv
<1> SUFFICES ASSUME Init PROVE HIFInv
  OBVIOUS
<1>1. /\ freeList \in Seq(Requests) /\ Lists!Elems(freeList) = Requests
      /\ Lists!Distinct(freeList)
  BY InitialList DEF Init
<1>2. /\ \A t \in Threads : at[t] \in {"none", "out"} /\ hand[t] = NoRequest
      /\ at[Irq] = "none" /\ at[Task] = "none"
      /\ \A t \in Threads \ {Irq, Task} : at[t] = "out"
  BY Members DEF Init
<1>3. Types
  <2>1. /\ semReq \in [Requests -> 0..1] /\ ahead \in [Threads -> Nat]
        /\ semAsync \in Nat /\ completion \in 0..1 /\ calls \in Nat /\ starts \in Nat
    BY HIFAssumption DEF Init, HIFAssumption
  <2>2. scatterReqs \in Seq(Requests)
    BY Lists!ElemsEmpty DEF Init
  <2>3. at \in [Threads -> Locations] /\ stage \in Stages
    BY DEF Init, Locations, Stages
  <2> QED BY <1>1, <2>1, <2>2, <2>3 DEF Init, Types, MaybeRequest
<1>4. Chain(<<>>, asyncreq, inusenext)
  <2>1. Lists!Distinct(<<>>) /\ <<>> \in Seq(Requests)
    BY Lists!ElemsEmpty
  <2>2. \A i \in 1..(Len(<<>>) - 1) : FALSE
    OBVIOUS
  <2> QED BY <2>1, <2>2 DEF Chain, Init
<1>5. Queue = <<>> /\ Listed
  <2>1. Queue = <<>>
    BY <1>4, FollowedChain DEF Queue
  <2> QED BY <1>4, <2>1 DEF Listed
<1>6. Pools
  <2>1. Lists!Elems(<<>>) = {} /\ Lists!Distinct(<<>>)
    BY Lists!ElemsEmpty
  <2>2. \A t \in Threads : ~Submitting(t)
    BY <1>2 DEF Submitting, At
  <2>3. \A r \in Requests : ~Held(r) /\ ~Served(r) /\ semReq[r] # 1
    BY <1>2, <2>2 DEF Held, Served, At, Init
  <2> QED BY <1>1, <1>5, <2>1, <2>2, <2>3 DEF Pools, ExactlyOne, Init
<1>7. Calls
  BY <1>2 DEF Calls, Calling, Waits, Init
<1>8. Life
  BY <1>2, Members DEF Life, Calling, Carrying, Init
<1> QED BY <1>3, <1>5, <1>6, <1>7, <1>8, QuietInit DEF HIFInv

LEMMA HIFNext == HIFInv /\ [Next]_vars => HIFInv'
<1> SUFFICES ASSUME HIFInv, [Next]_vars PROVE HIFInv'
  OBVIOUS
<1>1. QuietInv'
  BY QuietNext DEF HIFInv
<1>2. ASSUME Queue' = Queue /\ Listed' => Core', Queue' = Queue /\ Listed' PROVE HIFInv'
  BY <1>1, <1>2 DEF HIFInv, Core
<1>3. ASSUME NEW t \in Threads, AddToAsyncList(t) PROVE HIFInv'
  BY <1>1, <1>3, ListAppend, AddCore DEF HIFInv, Core
<1>4. CASE Pull
  BY <1>1, <1>4, ListPull, PullCore DEF HIFInv, Core
<1>5. ASSUME NEW t \in Threads, BeginCall(t) \/ Wake(t) \/ Awake(t) PROVE HIFInv'
  <2>1. UNCHANGED listVars
    BY <1>5 DEF BeginCall, HIFReadWrite, ReadWriteScatter, Wake, Awake
  <2> QED BY <1>2, <1>5, <2>1, ListSame, BeginCore, WakeCore, AwakeCore
<1>6. ASSUME NEW t \in Threads, ReturnStatus(t) PROVE HIFInv'
  BY <1>2, <1>6, ListSame, ReturnCore
<1>7. ASSUME NEW t \in Users \cup {Admin}, Interrupted(t) PROVE HIFInv'
  <2>1. UNCHANGED listVars
    BY <1>7 DEF Interrupted
  <2> QED BY <1>2, <1>7, <2>1, ListSame, InterruptedCore
<1>8. CASE Down \/ Claim \/ Release \/ CallbackReturns \/ Exit
  <2>1. UNCHANGED listVars
    BY <1>8 DEF Down, Claim, Release, CallbackReturns, Exit
  <2> QED BY <1>2, <1>8, <2>1, ListSame, TaskMoves
<1>9. CASE PerformSync
  <2>1. UNCHANGED listVars
    BY <1>9 DEF PerformSync
  <2> QED BY <1>2, <1>9, <2>1, ListSame, PerformSyncCore
<1>10. CASE PerformAsync
  BY <1>2, <1>10, ListSame, PerformAsyncCore
<1>11. CASE Interrupt \/ IrqStep
  <2>1. UNCHANGED listVars
    BY <1>11 DEF Interrupt, IrqStep, EnterDsr, LeaveDsr, InterruptDone
  <2> QED BY <1>2, <1>11, <2>1, ListSame, IrqCore
<1>12. CASE EnableFunc \/ UnMaskInterrupt \/ MaskInterrupt \/ StopTask \/ TaskStopped
            \/ \E outcome \in Outcomes : DisableFunc(outcome)
  <2>1. UNCHANGED listVars
    BY <1>12 DEF EnableFunc, UnMaskInterrupt, MaskInterrupt, StopTask, TaskStopped, DisableFunc
  <2> QED BY <1>2, <1>12, <2>1, ListSame, AdminCore
<1>13. CASE SetupScatter \/ CleanupScatter
  BY <1>2, <1>13, ListSame, PoolsCore
<1>14. CASE UNCHANGED vars
  <2>1. Queue' = Queue
    BY <1>14, ListSame DEF vars
  <2> QED BY <1>14, <2>1
        DEF vars, poolVars, listVars, taskVars, hostVars, boundVars, HIFInv, Types, QuietInv,
            IrqKnown, Listed, Pools, ExactlyOne, Held, Served, Submitting, At, Calls, Waits, Life
<1> QED BY <1>3, <1>4, <1>5, <1>6, <1>7, <1>8, <1>9, <1>10, <1>11, <1>12, <1>13, <1>14
        DEF Next, CallStep, TaskStep, AdminStep

LEMMA HIFInvCorrect == Spec => []HIFInv
  BY HIFInit, HIFNext, PTL DEF Spec

-----------------------------------------------------------------------------
(***************************************************************************)
(* How many requests are ahead of one that is waited for, and the theorems. *)
(***************************************************************************)

\* The requests ahead of one that is waited for are those before it in the queue, and the one
\* being carried out.
Rank ==
    \A t \in Threads :
       /\ \A k \in DOMAIN Queue : Waits(t) /\ hand[t] = Queue[k] =>
             ahead[t] = k - 1 + (IF current = NoRequest THEN 0 ELSE 1)
       /\ ~(Waits(t) /\ hand[t] \in Lists!Elems(Queue)) => ahead[t] = 0

LEMMA RankKept ==
    ASSUME Rank, Queue' = Queue, current' = current,
           \A t \in Threads :
              \/ Waits(t)' /\ Waits(t) /\ hand'[t] = hand[t] /\ ahead'[t] = ahead[t]
              \/ ~Waits(t)' /\ ahead'[t] = 0
              \/ ~Waits(t)' /\ ~Waits(t) /\ ahead'[t] = ahead[t]
    PROVE  Rank'
  BY DEF Rank

LEMMA CallRank ==
    ASSUME HIFInv, Rank, NEW t \in Threads, Queue' = Queue,
           BeginCall(t) \/ Wake(t) \/ Awake(t) \/ ReturnStatus(t) \/ Interrupted(t)
    PROVE  Rank'
<1> USE DEF HIFInv
<1>1. CASE BeginCall(t)
  <2>1. /\ MayCall(t) /\ UNCHANGED <<current, ahead>>
        /\ at' = at \/ at' = [at EXCEPT ![t] = "add"] \/ at' = [at EXCEPT ![t] = "dsr"]
        /\ hand' = hand \/ \E r : hand' = [hand EXCEPT ![t] = r]
    BY <1>1 DEF BeginCall, HIFReadWrite, ReadWriteScatter, Goto, Hold
  <2>2. /\ ~Waits(t) /\ ~Waits(t)'
        /\ \A u \in Threads \ {t} : (Waits(u)' <=> Waits(u)) /\ hand'[u] = hand[u]
    BY <2>1, CallMade DEF Waits, Types, Synchronous
  <2> QED BY <2>1, <2>2, RankKept
<1>2. CASE Wake(t)
  <2>1. /\ at[t] = "up" /\ UNCHANGED <<current, ahead>>
        /\ Synchronous(t) => at' = [at EXCEPT ![t] = "wait"] /\ hand' = hand
        /\ ~Synchronous(t) => hand' = [hand EXCEPT ![t] = NoRequest]
        /\ \E w : at' = [at EXCEPT ![t] = w]
    BY <1>2 DEF Wake, At, Goto, Hold
  <2>2. \A u \in Threads : (Waits(u)' <=> Waits(u)) /\ (Waits(u) => hand'[u] = hand[u])
    BY <2>1 DEF Waits, Types, Synchronous
  <2> QED BY <2>1, <2>2, RankKept
<1>3. CASE Awake(t)
  <2>1. /\ at[t] = "wait" /\ at' = [at EXCEPT ![t] = "woken"] /\ semReq[hand[t]] > 0
        /\ UNCHANGED <<current, ahead, hand>>
    BY <1>3 DEF Awake, At, Goto
  <2>2. ahead[t] = 0
    <3>1. hand[t] \in Requests /\ Synchronous(t)
      BY <2>1 DEF Calls, Calling
    <3>2. semReq[hand[t]] = 1
      BY <2>1, <3>1 DEF Types
    <3>3. hand[t] \notin Lists!Elems(Queue)
      BY <3>1, <3>2 DEF Pools, ExactlyOne
    <3> QED BY <3>3 DEF Rank
  <2>3. ~Waits(t)' /\ \A u \in Threads \ {t} : Waits(u)' <=> Waits(u)
    BY <2>1 DEF Waits, Types, Synchronous
  <2> QED BY <2>1, <2>2, <2>3, RankKept
<1>4. CASE ReturnStatus(t) \/ Interrupted(t)
  <2>1. /\ \E w \in {"dsr", "out"} : at' = [at EXCEPT ![t] = w]
        /\ hand' = [hand EXCEPT ![t] = NoRequest]
        /\ ahead' = [ahead EXCEPT ![t] = 0]
        /\ current' = current
    BY <1>4 DEF ReturnStatus, Interrupted, Goto, Hold
  <2>2. /\ ~Waits(t)' /\ ahead'[t] = 0
        /\ \A u \in Threads \ {t} : /\ Waits(u)' <=> Waits(u)
                                    /\ hand'[u] = hand[u] /\ ahead'[u] = ahead[u]
    BY <2>1 DEF Waits, Types, Synchronous
  <2> QED BY <2>1, <2>2, RankKept
<1> QED BY <1>1, <1>2, <1>3, <1>4

LEMMA AddRank == ASSUME HIFInv, Rank, NEW t \in Threads, AddToAsyncList(t) PROVE Rank'
<1> USE DEF HIFInv
<1>1. /\ Queue' = Append(Queue, hand[t]) /\ hand[t] \in Requests
      /\ hand[t] \notin Lists!Elems(Queue)
      /\ Queue \in Seq(Requests) /\ Len(Queue) \in Nat
  BY ListAppend, QueueType
<1>2. /\ at[t] = "add" /\ at' = [at EXCEPT ![t] = "up"] /\ UNCHANGED <<hand, current>>
      /\ ahead' = [ahead EXCEPT ![t] =
             IF Synchronous(t) THEN Len(Queue) + (IF current = NoRequest THEN 0 ELSE 1) ELSE 0]
  BY DEF AddToAsyncList, At, Goto
<1>3. /\ at'[t] = "up"
      /\ ahead'[t] = IF Synchronous(t) THEN Len(Queue) + (IF current = NoRequest THEN 0 ELSE 1)
                     ELSE 0
      /\ \A u \in Threads \ {t} : /\ Waits(u)' <=> Waits(u)
                                  /\ Waits(u) => hand[u] # hand[t]
                                  /\ hand'[u] = hand[u] /\ ahead'[u] = ahead[u]
  <2>1. \A u \in Threads : Waits(u) => hand[u] # hand[t]
    BY <1>1, <1>2, HeldOnly DEF Calls, Submitting, At
  <2>2. \A u \in Threads \ {t} : /\ at'[u] = at[u] /\ hand'[u] = hand[u]
                                 /\ ahead'[u] = ahead[u]
    BY <1>2 DEF Types
  <2>3. at'[t] = "up" /\ ahead'[t] = IF Synchronous(t) THEN Len(Queue) + (IF current = NoRequest THEN 0 ELSE 1)
                     ELSE 0
    BY <1>2 DEF Types
  <2> QED BY <2>1, <2>2, <2>3 DEF Waits, Synchronous
<1> DEFINE q == Append(Queue, hand[t])
<1>4. /\ DOMAIN q = 1..(Len(Queue) + 1) /\ q[Len(Queue) + 1] = hand[t]
      /\ DOMAIN Queue = 1..Len(Queue)
      /\ \A k \in 1..Len(Queue) : q[k] = Queue[k] /\ q[k] \in Lists!Elems(Queue)
      /\ Lists!Elems(q) = Lists!Elems(Queue) \cup {hand[t]}
  BY <1>1, Lists!ElemsAppend DEF Lists!Elems
<1> HIDE DEF q
<1>5. Queue' = q
  BY <1>1 DEF q
<1>6. ASSUME NEW u \in Threads, u # t
      PROVE  /\ \A k \in DOMAIN q : Waits(u)' /\ hand'[u] = q[k] =>
                   ahead'[u] = k - 1 + (IF current' = NoRequest THEN 0 ELSE 1)
             /\ ~(Waits(u)' /\ hand'[u] \in Lists!Elems(q)) => ahead'[u] = 0
  <2>1. ASSUME NEW k \in DOMAIN q, Waits(u)', hand'[u] = q[k]
        PROVE  ahead'[u] = k - 1 + (IF current' = NoRequest THEN 0 ELSE 1)
    <3>1. Waits(u) /\ hand[u] = q[k] /\ k \in 1..Len(Queue)
      BY <1>1, <1>3, <1>4, <1>6, <2>1
    <3> QED BY <1>2, <1>3, <1>4, <1>6, <3>1 DEF Rank
  <2>2. ASSUME ~(Waits(u)' /\ hand'[u] \in Lists!Elems(q)) PROVE ahead'[u] = 0
    BY <1>3, <1>4, <1>6, <2>2 DEF Rank
  <2> QED BY <2>1, <2>2
<1>7. /\ \A k \in DOMAIN q : Waits(t)' /\ hand'[t] = q[k] =>
             ahead'[t] = k - 1 + (IF current' = NoRequest THEN 0 ELSE 1)
      /\ ~(Waits(t)' /\ hand'[t] \in Lists!Elems(q)) => ahead'[t] = 0
  <2>1. ASSUME NEW k \in DOMAIN q, Waits(t)', hand'[t] = q[k]
        PROVE  ahead'[t] = k - 1 + (IF current' = NoRequest THEN 0 ELSE 1)
    <3>1. Synchronous(t) /\ q[k] = hand[t]
      BY <1>2, <2>1 DEF Waits, Synchronous
    <3>2. k = Len(Queue) + 1
      BY <1>1, <1>4, <2>1, <3>1
    <3> QED BY <1>1, <1>2, <1>3, <3>1, <3>2
  <2>2. ASSUME ~(Waits(t)' /\ hand'[t] \in Lists!Elems(q)) PROVE ahead'[t] = 0
    <3>1. Synchronous(t)' <=> Synchronous(t)
      BY DEF Synchronous
    <3> QED BY <1>2, <1>3, <1>4, <2>2, <3>1 DEF Waits
  <2> QED BY <2>1, <2>2
<1> QED BY <1>5, <1>6, <1>7 DEF Rank

LEMMA PullRank == ASSUME HIFInv, Rank, Pull PROVE Rank'
<1> USE DEF HIFInv
<1>1. /\ Queue' = Tail(Queue) /\ Queue # <<>> /\ Queue \in Seq(Requests) /\ asyncreq = Head(Queue)
      /\ asyncreq \in Requests /\ Lists!Distinct(Queue)
  BY ListPull, QueueType
<1>2. /\ current = NoRequest /\ current' # NoRequest /\ UNCHANGED <<hand, ahead>>
      /\ \A u \in Threads : Waits(u)' <=> Waits(u)
  <2>1. /\ at[Task] = "pull" /\ at' = [at EXCEPT ![Task] = "perform"] /\ current' = asyncreq
        /\ UNCHANGED <<hand, ahead>>
    BY DEF Pull, At, Goto
  <2>2. \A u \in Threads : Waits(u)' <=> Waits(u)
    BY <2>1, Members DEF Waits, Types, Synchronous
  <2> QED BY <1>1, <2>1, <2>2, Members DEF Life
<1> DEFINE q == Tail(Queue)
<1>3. /\ DOMAIN q = 1..(Len(Queue) - 1) /\ Len(Queue) \in Nat /\ 1 \in DOMAIN Queue
      /\ \A k \in DOMAIN q : k + 1 \in DOMAIN Queue /\ q[k] = Queue[k + 1]
      /\ asyncreq = Queue[1]
      /\ Lists!Elems(Queue) = {asyncreq} \cup Lists!Elems(q)
  BY <1>1, Lists!ElemsTail
<1> HIDE DEF q
<1>4. Queue' = q
  BY <1>1 DEF q
<1>5. ASSUME NEW u \in Threads, NEW k \in DOMAIN q, Waits(u)', hand'[u] = q[k]
      PROVE  ahead'[u] = k - 1 + (IF current' = NoRequest THEN 0 ELSE 1)
  <2>1. Waits(u) /\ hand[u] = Queue[k + 1] /\ k + 1 \in DOMAIN Queue
    BY <1>2, <1>3, <1>5
  <2>2. ahead[u] = (k + 1) - 1 + 0 /\ k \in Nat
    BY <1>2, <1>3, <2>1 DEF Rank
  <2> QED BY <1>2, <2>2
<1>6. ASSUME NEW u \in Threads, ~(Waits(u)' /\ hand'[u] \in Lists!Elems(q)) PROVE ahead'[u] = 0
  <2>1. CASE Waits(u) /\ hand[u] = Queue[1]
    BY <1>2, <1>3, <2>1 DEF Rank
  <2>2. CASE ~(Waits(u) /\ hand[u] = Queue[1])
    BY <1>2, <1>3, <1>6, <2>2 DEF Rank
  <2> QED BY <2>1, <2>2
<1> QED BY <1>4, <1>5, <1>6 DEF Rank

\* The request being carried out is complete: one less is ahead of every other.
LEMMA CompletedRank ==
    ASSUME HIFInv, Rank, PerformSync \/ CallbackReturns, Queue' = Queue PROVE Rank'
<1> USE DEF HIFInv
<1>1. /\ current # NoRequest /\ current' = NoRequest /\ hand' = hand
      /\ \A u \in Threads : Waits(u)' <=> Waits(u)
  <2>1. /\ at[Task] \in {"perform", "callback"} /\ at' = [at EXCEPT ![Task] = "pull"]
        /\ current' = NoRequest /\ hand' = hand
    BY DEF PerformSync, CallbackReturns, Completed, At, Goto
  <2>2. \A u \in Threads : Waits(u)' <=> Waits(u)
    BY <2>1, Members DEF Waits, Types, Synchronous
  <2> QED BY <2>1, <2>2 DEF Life
<1>2. \A u \in Threads :
         /\ ahead[u] = 0 => ahead'[u] = 0
         /\ Waits(u) /\ hand[u] \in Lists!Elems(Queue) /\ ahead[u] > 0
               => ahead'[u] = ahead[u] - 1
  <2>1. CASE CallbackReturns
    BY <2>1 DEF CallbackReturns, Completed
  <2>2. CASE PerformSync
    <3>1. current \notin Lists!Elems(Queue)
      BY <2>2, ServedOnly DEF PerformSync
    <3> QED BY <2>2, <3>1 DEF PerformSync, Completed
  <2> QED BY <2>1, <2>2
<1>3. DOMAIN Queue = 1..Len(Queue) /\ Len(Queue) \in Nat
      /\ \A k \in DOMAIN Queue : Queue[k] \in Lists!Elems(Queue)
  BY QueueType DEF Lists!Elems
<1>4. ASSUME NEW u \in Threads, NEW k \in DOMAIN Queue, Waits(u), hand[u] = Queue[k]
      PROVE  ahead'[u] = k - 1 + 0
  <2>1. ahead[u] = k - 1 + 1 /\ k \in Nat /\ k > 0
    BY <1>1, <1>3, <1>4 DEF Rank
  <2> QED BY <1>2, <1>3, <1>4, <2>1
<1>5. ASSUME NEW u \in Threads, ~(Waits(u) /\ hand[u] \in Lists!Elems(Queue))
      PROVE  ahead'[u] = 0
  BY <1>2, <1>5 DEF Rank
<1> QED BY <1>1, <1>4, <1>5 DEF Rank

LEMMA RankInit == Init => Rank
<1> SUFFICES ASSUME Init PROVE Rank
  OBVIOUS
<1>1. \A t \in Threads : ahead[t] = 0 /\ ~Waits(t)
  BY DEF Init, Waits
<1> QED BY <1>1 DEF Rank

LEMMA RankNext == HIFInv /\ Rank /\ [Next]_vars => Rank'
<1> SUFFICES ASSUME HIFInv, Rank, [Next]_vars PROVE Rank'
  OBVIOUS
<1>1. ASSUME UNCHANGED <<ahead, current, hand>>, Queue' = Queue,
             \/ at' = at
             \/ \E t \in {Irq, Task} : \E w : at' = [at EXCEPT ![t] = w] /\ ~Waits(t) /\ w \notin {"up", "wait"}
      PROVE  Rank'
  <2>1. \A u \in Threads : Waits(u)' <=> Waits(u)
    BY <1>1, Members DEF Waits, Synchronous, HIFInv, Types
  <2> QED BY <1>1, <2>1, RankKept
<1>2. ASSUME NEW t \in Threads, CallStep(t) \/ BeginCall(t) PROVE Rank'
  <2>1. CASE AddToAsyncList(t)
    BY <2>1, AddRank
  <2>2. CASE BeginCall(t) \/ Wake(t) \/ Awake(t)
    <3>1. UNCHANGED listVars
      BY <2>2 DEF BeginCall, HIFReadWrite, ReadWriteScatter, Wake, Awake
    <3> QED BY <2>2, <3>1, ListSame, CallRank
  <2>3. CASE ReturnStatus(t)
    BY <2>3, ListSame, CallRank
  <2> QED BY <1>2, <2>1, <2>2, <2>3 DEF CallStep
<1>3. ASSUME NEW t \in Users \cup {Admin}, Interrupted(t) PROVE Rank'
  <2>1. UNCHANGED listVars /\ t \in Threads
    BY <1>3, Members DEF Interrupted
  <2> QED BY <1>3, <2>1, ListSame, CallRank
<1>4. CASE TaskStep
  <2>1. CASE Pull
    BY <2>1, PullRank
  <2>2. CASE PerformSync \/ CallbackReturns
    <3>1. UNCHANGED listVars
      BY <2>2 DEF PerformSync, CallbackReturns
    <3> QED BY <2>2, <3>1, ListSame, CompletedRank
  <2>3. CASE Down \/ Claim \/ Release \/ PerformAsync \/ Exit
    <3>1. UNCHANGED listVars \/ PerformAsync
      BY <2>3 DEF Down, Claim, Release, Exit
    <3>2. UNCHANGED <<ahead, current, hand>>
      BY <2>3 DEF Down, Claim, Release, PerformAsync, Exit
    <3>3. \E w \in {"exit", "claim", "pull", "down", "callback", "none"} :
             at' = [at EXCEPT ![Task] = w]
      BY <2>3 DEF Down, Claim, Release, PerformAsync, Exit, Goto
    <3>4. ~Waits(Task)
      BY Members DEF Waits
    <3> QED BY <1>1, <3>1, <3>2, <3>3, <3>4, ListSame
  <2> QED BY <1>4, <2>1, <2>2, <2>3 DEF TaskStep
<1>5. CASE Interrupt \/ IrqStep
  <2>1. UNCHANGED listVars /\ UNCHANGED <<ahead, current, hand>>
    BY <1>5 DEF Interrupt, IrqStep, EnterDsr, LeaveDsr, InterruptDone
  <2>2. /\ \E w \in {"entered", "status", "leaving", "none"} : at' = [at EXCEPT ![Irq] = w]
        /\ at[Irq] \in {"none", "entered", "dsr", "leaving"}
    BY <1>5 DEF Interrupt, IrqStep, EnterDsr, LeaveDsr, InterruptDone, Goto, At
  <2>3. ~Waits(Irq)
    BY <2>2 DEF Waits
  <2> QED BY <1>1, <2>1, <2>2, <2>3, ListSame
<1>6. CASE AdminStep
  <2>1. UNCHANGED listVars \/ SetupScatter \/ CleanupScatter
    BY <1>6 DEF AdminStep, EnableFunc, UnMaskInterrupt, MaskInterrupt, StopTask, TaskStopped,
                DisableFunc
  <2>2. UNCHANGED <<ahead, current, hand>>
    BY <1>6 DEF AdminStep, EnableFunc, SetupScatter, UnMaskInterrupt, MaskInterrupt, StopTask,
                TaskStopped, DisableFunc, CleanupScatter
  <2>3. at' = at \/ at' = [at EXCEPT ![Task] = "down"]
    BY <1>6 DEF AdminStep, EnableFunc, SetupScatter, UnMaskInterrupt, MaskInterrupt, StopTask,
                TaskStopped, DisableFunc, CleanupScatter, Goto
  <2>4. ~Waits(Task)
    BY Members DEF Waits
  <2> QED BY <1>1, <2>1, <2>2, <2>3, <2>4, ListSame
<1>7. CASE UNCHANGED vars
  <2>1. UNCHANGED listVars /\ UNCHANGED <<ahead, current, hand, at>>
    BY <1>7 DEF vars
  <2> QED BY <1>1, <2>1, ListSame
<1> QED BY <1>2, <1>3, <1>4, <1>5, <1>6, <1>7 DEF Next

LEMMA RankCorrect == Spec => []Rank
  BY RankInit, RankNext, HIFInvCorrect, PTL DEF Spec

\* The variables keep their types; a semaphore of a request never holds more than one wake-up,
\* and the completion of the thread is signalled at most once.
THEOREM TypeCorrect == Spec => []TypeOK
<1>1. HIFInv /\ Rank => TypeOK
  <2> SUFFICES ASSUME HIFInv, Rank PROVE TypeOK
    OBVIOUS
  <2>1. ahead \in [Threads -> 0..Cardinality(Requests)]
    <3>1. /\ Queue \in Seq(Requests) /\ Len(Queue) \in 0..Cardinality(Requests)
          /\ Cardinality(Requests) \in Nat
      BY QueueType, Bound DEF HIFInv
    <3>2. ASSUME NEW t \in Threads PROVE ahead[t] \in 0..Cardinality(Requests)
      <4>1. CASE \E k \in DOMAIN Queue : Waits(t) /\ hand[t] = Queue[k]
        <5>1. PICK k \in 1..Len(Queue) : Waits(t) /\ hand[t] = Queue[k]
          BY <3>1, <4>1
        <5>2. ahead[t] = k - 1 + (IF current = NoRequest THEN 0 ELSE 1)
          BY <3>1, <5>1 DEF Rank
        <5> QED BY <3>1, <5>2
      <4>2. CASE ~\E k \in DOMAIN Queue : Waits(t) /\ hand[t] = Queue[k]
        <5>1. ahead[t] = 0
          BY <4>2 DEF Rank, Lists!Elems
        <5> QED BY <3>1, <5>1
      <4> QED BY <4>1, <4>2
    <3> QED BY <3>2 DEF HIFInv, Types
  <2> QED BY <2>1 DEF HIFInv, Types, TypeOK
<1> QED BY <1>1, HIFInvCorrect, RankCorrect, PTL

LEMMA AtMostOne ==
    ASSUME NEW S, \A x, y \in S : x = y
    PROVE  S = {} \/ \E x : S = {x}
<1>1. ASSUME NEW x \in S PROVE S = {x}
  OBVIOUS
<1> QED BY <1>1

\* Every bus request is in exactly one place, whatever calls, signals, interrupts and stops do:
\* none is given to two callers, and none is lost.
THEOREM Accounted == Spec => []RequestsAccounted
<1>1. HIFInv => RequestsAccounted
  <2> SUFFICES ASSUME HIFInv, NEW r \in Requests PROVE Cardinality(Places(r)) = 1
    BY DEF RequestsAccounted
  <2>1. \E p : Places(r) = {p}
    <3>1. /\ \A i, j \in DOMAIN freeList : freeList[i] = r /\ freeList[j] = r => i = j
          /\ \A i, j \in DOMAIN scatterReqs : scatterReqs[i] = r /\ scatterReqs[j] = r => i = j
          /\ \A i, j \in DOMAIN Queue : Queue[i] = r /\ Queue[j] = r => i = j
      BY QueueType DEF HIFInv, Pools, Lists!Distinct
    <3>2. /\ r \in Lists!Elems(freeList) <=> \E i \in DOMAIN freeList : freeList[i] = r
          /\ r \in Lists!Elems(scatterReqs) <=> \E i \in DOMAIN scatterReqs : scatterReqs[i] = r
          /\ r \in Lists!Elems(Queue) <=> \E i \in DOMAIN Queue : Queue[i] = r
      BY DEF Lists!Elems
    <3>3. 1..semReq[r] = IF semReq[r] = 1 THEN {1} ELSE {}
      <4>1. semReq[r] \in 0..1 /\ 1..1 = {1} /\ 1..0 = {}
        BY DEF HIFInv, Types
      <4>2. semReq[r] = 0 \/ semReq[r] = 1
        BY <4>1
      <4> QED BY <4>1, <4>2
    <3>4. \A t, u \in Threads :
             Submitting(t) /\ hand[t] = r /\ Submitting(u) /\ hand[u] = r => t = u
      BY DEF HIFInv, Pools
    <3> DEFINE A == {i \in DOMAIN freeList : freeList[i] = r}
               B == {i \in DOMAIN scatterReqs : scatterReqs[i] = r}
               C == {i \in DOMAIN Queue : Queue[i] = r}
               D == {t \in Threads : Submitting(t) /\ hand[t] = r}
               E == {i \in {1} : At(Task, "perform") /\ current = r}
               F == 1..semReq[r]
    <3>5. /\ A = {} <=> r \notin Lists!Elems(freeList)
          /\ B = {} <=> r \notin Lists!Elems(scatterReqs)
          /\ C = {} <=> r \notin Lists!Elems(Queue)
          /\ D = {} <=> ~Held(r)
          /\ E = {} <=> ~Served(r)
          /\ F = {} <=> semReq[r] # 1
      BY <3>2, <3>3 DEF Held, Served
    <3>6. /\ A = {} \/ \E x : A = {x}
          /\ B = {} \/ \E x : B = {x}
          /\ C = {} \/ \E x : C = {x}
          /\ D = {} \/ \E x : D = {x}
          /\ E = {} \/ \E x : E = {x}
          /\ F = {} \/ \E x : F = {x}
      <4>1. /\ \A x, y \in A : x = y
            /\ \A x, y \in B : x = y
            /\ \A x, y \in C : x = y
            /\ \A x, y \in D : x = y
            /\ \A x, y \in E : x = y
        BY <3>1, <3>4
      <4>2. \A x, y \in F : x = y
        BY <3>3
      <4> HIDE DEF A, B, C, D, E, F
      <4> QED BY <4>1, <4>2, AtMostOne
    <3>7. ExactlyOne(A # {}, B # {}, C # {}, D # {}, E # {}, F # {})
      BY <3>5 DEF HIFInv, Pools, ExactlyOne
    <3>8. Places(r) = {<<"free", x>> : x \in A} \cup {<<"pool", x>> : x \in B}
                      \cup {<<"queue", x>> : x \in C} \cup {<<"caller", x>> : x \in D}
                      \cup {<<"task", x>> : x \in E} \cup {<<"complete", x>> : x \in F}
      BY DEF Places
    <3> HIDE DEF A, B, C, D, E, F
    <3>a. CASE A # {}
      <4>1. B = {} /\ C = {} /\ D = {} /\ E = {} /\ F = {}
        BY <3>a, <3>7 DEF ExactlyOne
      <4>2. PICK x : A = {x}
        BY <3>a, <3>6
      <4>3. Places(r) = {<<"free", y>> : y \in A}
        BY <3>8, <4>1
      <4>4. Places(r) = {<<"free", x>>}
        BY <4>2, <4>3
      <4> QED BY <4>4
    <3>b. CASE B # {}
      <4>1. A = {} /\ C = {} /\ D = {} /\ E = {} /\ F = {}
        BY <3>b, <3>7 DEF ExactlyOne
      <4>2. PICK x : B = {x}
        BY <3>b, <3>6
      <4>3. Places(r) = {<<"pool", y>> : y \in B}
        BY <3>8, <4>1
      <4>4. Places(r) = {<<"pool", x>>}
        BY <4>2, <4>3
      <4> QED BY <4>4
    <3>c. CASE C # {}
      <4>1. A = {} /\ B = {} /\ D = {} /\ E = {} /\ F = {}
        BY <3>c, <3>7 DEF ExactlyOne
      <4>2. PICK x : C = {x}
        BY <3>c, <3>6
      <4>3. Places(r) = {<<"queue", y>> : y \in C}
        BY <3>8, <4>1
      <4>4. Places(r) = {<<"queue", x>>}
        BY <4>2, <4>3
      <4> QED BY <4>4
    <3>d. CASE D # {}
      <4>1. A = {} /\ B = {} /\ C = {} /\ E = {} /\ F = {}
        BY <3>d, <3>7 DEF ExactlyOne
      <4>2. PICK x : D = {x}
        BY <3>d, <3>6
      <4>3. Places(r) = {<<"caller", y>> : y \in D}
        BY <3>8, <4>1
      <4>4. Places(r) = {<<"caller", x>>}
        BY <4>2, <4>3
      <4> QED BY <4>4
    <3>e. CASE E # {}
      <4>1. A = {} /\ B = {} /\ C = {} /\ D = {} /\ F = {}
        BY <3>e, <3>7 DEF ExactlyOne
      <4>2. PICK x : E = {x}
        BY <3>e, <3>6
      <4>3. Places(r) = {<<"task", y>> : y \in E}
        BY <3>8, <4>1
      <4>4. Places(r) = {<<"task", x>>}
        BY <4>2, <4>3
      <4> QED BY <4>4
    <3>f. CASE F # {}
      <4>1. A = {} /\ B = {} /\ C = {} /\ D = {} /\ E = {}
        BY <3>f, <3>7 DEF ExactlyOne
      <4>2. PICK x : F = {x}
        BY <3>f, <3>6
      <4>3. Places(r) = {<<"complete", y>> : y \in F}
        BY <3>8, <4>1
      <4>4. Places(r) = {<<"complete", x>>}
        BY <4>2, <4>3
      <4> QED BY <4>4
    <3> QED BY <3>a, <3>b, <3>c, <3>d, <3>e, <3>f, <3>7 DEF ExactlyOne
  <2> QED BY <2>1, FS_Singleton
<1> QED BY <1>1, HIFInvCorrect, PTL

\* A synchronous __HIFReadWrite returns only after its own transfer.
THEOREM WokenCorrect == Spec => []WokenAfterTransfer
<1>1. HIFInv => WokenAfterTransfer
  BY DEF HIFInv, Calls, WokenAfterTransfer, At
<1> QED BY <1>1, HIFInvCorrect, PTL

\* When a synchronous call returns, every request queued before its own is complete.
THEOREM Flushed == Spec => []FlushedOnReturn
<1>1. Rank => FlushedOnReturn
  BY DEF Rank, Waits, FlushedOnReturn, At
<1> QED BY <1>1, RankCorrect, PTL

\* The list of bus requests implements the queue of BusQueue: a step of the HIF is a step of
\* the queue, or leaves it alone.
THEOREM OrderCorrect == Spec => KeepsOrder
<1>1. Init => Order!Init
  <2> SUFFICES ASSUME Init PROVE Order!Init
    OBVIOUS
  <2>1. Listed /\ asyncreq = NoRequest /\ at[Task] # "perform"
    BY HIFInit, Members DEF HIFInv, Init
  <2> QED BY <2>1, QueueType DEF Order!Init, At
<1>2. HIFInv /\ [Next]_vars => [Order!Next]_<<Queue, IF At(Task, "perform") THEN current ELSE NoRequest>>
  <2> SUFFICES ASSUME HIFInv, [Next]_vars
               PROVE  \/ Order!Next
                      \/ UNCHANGED <<Queue, IF At(Task, "perform") THEN current ELSE NoRequest>>
    OBVIOUS
  <2>1. ASSUME Queue' = Queue, at'[Task] # "perform", at[Task] # "perform"
        PROVE  UNCHANGED <<Queue, IF At(Task, "perform") THEN current ELSE NoRequest>>
    BY <2>1 DEF At
  <2>2. ASSUME Queue' = Queue, at'[Task] = at[Task], current' = current
        PROVE  UNCHANGED <<Queue, IF At(Task, "perform") THEN current ELSE NoRequest>>
    BY <2>2 DEF At
  <2>3. ASSUME NEW t \in Threads, AddToAsyncList(t) PROVE Order!Next
    <3>1. /\ Queue' = Append(Queue, hand[t]) /\ hand[t] \in Requests
          /\ \A i \in DOMAIN Queue : Queue[i] # hand[t]
      BY <2>3, ListAppend DEF Lists!Elems
    <3>2. /\ ~Served(hand[t]) /\ hand[t] # NoRequest
          /\ at'[Task] = "perform" <=> at[Task] = "perform"
          /\ current' = current
      <4>1. at[t] = "add" /\ at' = [at EXCEPT ![t] = "up"] /\ Submitting(t) /\ current' = current
        BY <2>3 DEF AddToAsyncList, At, Goto, Submitting
      <4>2. at'[Task] = "perform" <=> at[Task] = "perform"
        BY <4>1, Members DEF HIFInv, Types
      <4> QED BY <3>1, <4>1, <4>2, HeldOnly, Members
    <3>3. hand[t] # IF At(Task, "perform") THEN current ELSE NoRequest
      BY <3>2 DEF Served
    <3> QED BY <3>1, <3>2, <3>3 DEF Order!Next, Order!Submit, At
  <2>4. CASE Pull
    <3>1. /\ Queue' = Tail(Queue) /\ Queue # <<>> /\ asyncreq = Head(Queue)
          /\ asyncreq \in Requests
      BY <2>4, ListPull
    <3>2. at[Task] = "pull" /\ at'[Task] = "perform" /\ current' = asyncreq
      BY <2>4, Members DEF Pull, At, Goto, HIFInv, Types
    <3> QED BY <3>1, <3>2 DEF Order!Next, Order!Begin, At
  <2>5. CASE PerformSync \/ PerformAsync
    <3>1. Queue' = Queue
      <4>1. UNCHANGED listVars \/ PerformAsync
        BY <2>5 DEF PerformSync
      <4> QED BY <4>1, ListSame
    <3>2. /\ At(Task, "perform") /\ at'[Task] # "perform"
      BY <2>5, Members DEF PerformSync, PerformAsync, At, Goto, HIFInv, Types
    <3>3. current # NoRequest
      BY <3>2, ServedOnly, Members
    <3> QED BY <3>1, <3>2, <3>3 DEF Order!Next, Order!Finish, At
  <2>6. ASSUME NEW t \in Threads, BeginCall(t) \/ Wake(t) \/ Awake(t) \/ ReturnStatus(t)
        PROVE  UNCHANGED <<Queue, IF At(Task, "perform") THEN current ELSE NoRequest>>
    <3>1. UNCHANGED listVars \/ ReturnStatus(t)
      BY <2>6 DEF BeginCall, HIFReadWrite, ReadWriteScatter, Wake, Awake
    <3>2. Queue' = Queue
      BY <3>1, ListSame
    <3>3. current' = current
      BY <2>6 DEF BeginCall, HIFReadWrite, ReadWriteScatter, Wake, Awake, ReturnStatus
    <3>4. at' = at \/ \E w \in Locations \ {"perform"} : at' = [at EXCEPT ![t] = w]
      BY <2>6 DEF BeginCall, HIFReadWrite, ReadWriteScatter, Wake, Awake, ReturnStatus, Goto, Locations
    <3>5. t = Task => at[t] # "perform"
      <4>1. at[t] \in {"up", "wait", "woken"} \/ MayCall(t)
        BY <2>6 DEF BeginCall, HIFReadWrite, ReadWriteScatter, Wake, Awake, ReturnStatus, At
      <4> QED BY <4>1, CallMade
    <3>6. at'[Task] = "perform" <=> at[Task] = "perform"
      BY <3>4, <3>5, Members DEF HIFInv, Types
    <3> QED BY <3>2, <3>3, <3>6 DEF At
  <2>7. ASSUME NEW t \in Users \cup {Admin}, Interrupted(t)
        PROVE  UNCHANGED <<Queue, IF At(Task, "perform") THEN current ELSE NoRequest>>
    <3>1. UNCHANGED listVars /\ current' = current /\ at' = [at EXCEPT ![t] = "out"]
      BY <2>7 DEF Interrupted, Goto
    <3> QED BY <2>2, <3>1, ListSame, Members DEF HIFInv, Types
  <2>8. CASE Down \/ Claim \/ Release \/ CallbackReturns \/ Exit
    <3>1. UNCHANGED listVars
      BY <2>8 DEF Down, Claim, Release, CallbackReturns, Exit
    <3>2. at[Task] # "perform" /\ at'[Task] # "perform"
      BY <2>8, Members DEF Down, Claim, Release, CallbackReturns, Exit, At, Goto, HIFInv, Types
    <3> QED BY <2>1, <3>1, <3>2, ListSame
  <2>9. CASE Interrupt \/ IrqStep
    <3>1. UNCHANGED listVars /\ current' = current
      BY <2>9 DEF Interrupt, IrqStep, EnterDsr, LeaveDsr, InterruptDone
    <3>2. at'[Task] = at[Task]
      BY <2>9, Members
         DEF Interrupt, IrqStep, EnterDsr, LeaveDsr, InterruptDone, Goto, HIFInv, Types
    <3> QED BY <2>2, <3>1, <3>2, ListSame
  <2>10. CASE AdminStep
    <3>1. UNCHANGED listVars \/ SetupScatter \/ CleanupScatter
      BY <2>10 DEF AdminStep, EnableFunc, UnMaskInterrupt, MaskInterrupt, StopTask, TaskStopped,
                   DisableFunc
    <3>2. /\ current' = current
          /\ \/ at' = at
             \/ ~asyncTask /\ at' = [at EXCEPT ![Task] = "down"]
      BY <2>10 DEF AdminStep, EnableFunc, SetupScatter, UnMaskInterrupt, MaskInterrupt, StopTask,
                   TaskStopped, DisableFunc, CleanupScatter, Goto
    <3>3. \/ at'[Task] = at[Task]
          \/ at[Task] # "perform" /\ at'[Task] # "perform"
      BY <3>2, Members DEF HIFInv, Types, Life
    <3> QED BY <2>1, <2>2, <3>1, <3>2, <3>3, ListSame
  <2>11. CASE UNCHANGED vars
    <3>1. UNCHANGED listVars /\ UNCHANGED <<current, at>>
      BY <2>11 DEF vars
    <3> QED BY <2>2, <3>1, ListSame
  <2> QED BY <2>3, <2>4, <2>5, <2>6, <2>7, <2>8, <2>9, <2>10, <2>11
          DEF Next, CallStep, TaskStep
<1> QED BY <1>1, <1>2, HIFInvCorrect, PTL DEF Spec, KeepsOrder, Order!Spec
=============================================================================
