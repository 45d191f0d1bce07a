-------------------------- MODULE DriverTx_proofs --------------------------
(***************************************************************************)
(* Proofs of the invariants of DriverTx, for any number of cookies,        *)
(* devices and access classes.                                             *)
(*                                                                         *)
(* Cookies: a cookie is in a thread's hand exactly in the stages of        *)
(* HTCSendPkt, so the three sets of CookiesAccounted exchange members one  *)
(* at a time; the counts, and the packet that will clear                   *)
(* arWMIControlEpFull, follow from where the cookies are.                  *)
(*                                                                         *)
(* Then the types, with the steps of a thread as each names what it needs, *)
(* and the priority of the active streams; what will wake a stopped        *)
(* network queue; and where the one pipe of an access class is.            *)
(***************************************************************************)
EXTENDS DriverTx, FiniteSetTheorems, SequenceTheorems, NaturalsInduction,
        WellFoundedInduction, TLAPS

Sending == {"send", "full", "stop", "keep", "drop"}

Staged ==
    /\ freeCookies \subseteq Cookies /\ htc \subseteq Cookies
    /\ msg = [c \in Cookies |-> msg[c]]
    /\ pending \in [Endpoints -> Int] /\ totalPending \in Int
    /\ ctlFull \in BOOLEAN
    /\ hand \in [Threads -> Cookies \cup {NoCookie}]
    /\ stage \in [Threads -> Sending \cup {"go", "wake"}]
    /\ verdict \in [Threads -> {"keep", "drop"}]
    /\ \A th \in Threads : hand[th] = NoCookie <=> stage[th] \notin Sending

CookieInv == Staged /\ CookiesAccounted /\ PendingCounted /\ ControlEpFullClears

\* The packets of endpoint e that are out, and those of all data endpoints.
Out(e) == {c \in Cookies \ freeCookies : msg[c].ep = e}
OutData == {c \in Cookies \ freeCookies : msg[c].ep # Control}

LEMMA OutFinite ==
    /\ \A e \in Endpoints : IsFiniteSet(Out(e)) /\ Cardinality(Out(e)) \in Nat
    /\ IsFiniteSet(OutData) /\ Cardinality(OutData) \in Nat
<1>1. IsFiniteSet(Cookies)
  BY DriverAssumption
<1>2. ASSUME NEW S \in SUBSET Cookies PROVE IsFiniteSet(S) /\ Cardinality(S) \in Nat
  BY <1>1, FS_Subset, FS_CardinalityType
<1>3. OutData \in SUBSET Cookies /\ \A e \in Endpoints : Out(e) \in SUBSET Cookies
  BY DEF OutData, Out
<1> QED
  BY <1>2, <1>3

LEMMA CountsOut ==
    PendingCounted <=>
        /\ \A e \in Endpoints : pending[e] = Cardinality(Out(e))
        /\ scenario.net # "bypass" => totalPending = Cardinality(OutData)
  BY DEF PendingCounted, Out, OutData

\* Nobody holds a cookie at first.
LEMMA InitCookieInv == Init => CookieInv
<1> SUFFICES ASSUME Init PROVE CookieInv
  OBVIOUS
<1> USE DEF Init
<1>1. InHand = {}
  BY DEF InHand
<1>2. Staged
  <2>1. msg = [c \in Cookies |-> msg[c]]
    OBVIOUS
  <2>2. \A th \in Threads : hand[th] = NoCookie /\ stage[th] = "go"
    OBVIOUS
  <2>3. hand \in [Threads -> Cookies \cup {NoCookie}]
    OBVIOUS
  <2>4. stage \in [Threads -> Sending \cup {"go", "wake"}]
    OBVIOUS
  <2>5. verdict \in [Threads -> {"keep", "drop"}]
    OBVIOUS
  <2>6. pending \in [Endpoints -> Int]
    OBVIOUS
  <2>7. ctlFull \in BOOLEAN
    OBVIOUS
  <2>8. freeCookies \subseteq Cookies /\ htc \subseteq Cookies /\ totalPending = 0
    OBVIOUS
  <2> QED
    BY <2>1, <2>2, <2>3, <2>4, <2>5, <2>6, <2>7, <2>8 DEF Staged, Sending
<1>3. CookiesAccounted
  BY <1>1 DEF CookiesAccounted
<1>4. \A e \in Endpoints : Out(e) = {}
  BY DEF Out
<1>5. OutData = {}
  BY DEF OutData
<1>6. PendingCounted
  BY <1>4, <1>5, CountsOut, FS_EmptySet
<1> QED
  BY <1>2, <1>3, <1>6 DEF CookieInv, ControlEpFullClears

(***************************************************************************)
(* Steps that leave the cookies alone.                                     *)
(***************************************************************************)
LEMMA UntouchedKeeps ==
    ASSUME CookieInv, UNCHANGED <<countVars, hand, stage, verdict, scenario>>
    PROVE  CookieInv'
<1> USE DEF CookieInv, countVars
<1>1. Staged'
  BY DEF Staged
<1>2. InHand' = InHand
  BY DEF InHand
<1>3. CookiesAccounted'
  BY <1>2 DEF CookiesAccounted
<1>4. PendingCounted'
  BY DEF PendingCounted
<1>5. ControlEpFullClears'
  BY DEF ControlEpFullClears
<1> QED
  BY <1>1, <1>3, <1>4, <1>5

\* A thread may go to another stage with the same cookie, or none, in hand.
LEMMA RestagedKeeps ==
    ASSUME CookieInv, UNCHANGED <<freeCookies, msg, htc, pending, totalPending, hand, scenario>>,
           Staged', ControlEpFullClears'
    PROVE  CookieInv'
<1>1. InHand' = InHand
  BY DEF InHand
<1>2. CookiesAccounted'
  BY <1>1 DEF CookieInv, CookiesAccounted
<1>3. PendingCounted'
  BY DEF CookieInv, PendingCounted
<1> QED
  BY <1>2, <1>3 DEF CookieInv

(***************************************************************************)
(* A packet goes from a thread to HTC.                                     *)
(***************************************************************************)
LEMMA HandToHtcKeeps ==
    ASSUME CookieInv, NEW th \in Threads, stage[th] \in Sending,
           htc' = htc \cup {hand[th]},
           hand' = [hand EXCEPT ![th] = NoCookie],
           stage' = [stage EXCEPT ![th] = "go"],
           UNCHANGED <<freeCookies, msg, pending, totalPending, ctlFull, verdict, scenario>>
    PROVE  CookieInv'
<1> USE DEF CookieInv
<1>1. hand[th] \in Cookies /\ NoCookie \notin Cookies
  BY DriverAssumption DEF Staged
<1>2. Staged'
  BY <1>1 DEF Staged, Sending
<1>3. InHand' = InHand \ {hand[th]} /\ hand[th] \in InHand
  <2>1. \A u \in Threads : hand'[u] = IF u = th THEN NoCookie ELSE hand[u]
    BY DEF Staged
  <2>2. \A u \in Threads : u # th => hand[u] # hand[th]
    BY <1>1 DEF CookiesAccounted
  <2> QED
    BY <1>1, <2>1, <2>2 DEF InHand
<1>4. CookiesAccounted'
  <2>1. \A u, v \in Threads : u # v /\ hand'[u] = hand'[v] => hand'[u] = NoCookie
    BY DEF Staged, CookiesAccounted
  <2> QED
    BY <1>1, <1>3, <2>1 DEF CookiesAccounted
<1>5. PendingCounted'
  BY DEF PendingCounted
<1>6. ControlEpFullClears'
  BY DEF ControlEpFullClears
<1> QED
  BY <1>2, <1>4, <1>5, <1>6

LEMMA ExceptIsFunction ==
    ASSUME NEW S, NEW f, f = [x \in S |-> f[x]], NEW c, NEW m
    PROVE  [f EXCEPT ![c] = m] = [x \in S |-> [f EXCEPT ![c] = m][x]]
  OBVIOUS

(***************************************************************************)
(* A cookie is allocated.                                                  *)
(***************************************************************************)
LEMMA AllocateKeeps ==
    ASSUME CookieInv, NEW th \in Threads, stage[th] = "go", NEW m, Allocate(th, m),
           UNCHANGED <<htc, ctlFull, verdict, scenario>>
    PROVE  CookieInv'
<1> USE DEF CookieInv
<1>1. PICK c \in freeCookies :
        /\ freeCookies' = freeCookies \ {c}
        /\ msg' = [msg EXCEPT ![c] = m]
        /\ pending' = [pending EXCEPT ![m.ep] = @ + 1]
        /\ totalPending' = totalPending + (IF CountsAsData(m) THEN 1 ELSE 0)
        /\ hand' = [hand EXCEPT ![th] = c]
        /\ stage' = [stage EXCEPT ![th] = "send"]
  BY DEF Allocate
<1>2. c \in Cookies /\ c # NoCookie /\ hand[th] = NoCookie
  BY DriverAssumption DEF Staged, Sending
<1>3. \A d \in Cookies : msg'[d] = IF d = c THEN m ELSE msg[d]
  BY <1>1, <1>2 DEF Staged
<1>4. Staged'
  <2>1. msg' = [d \in Cookies |-> msg'[d]]
    <3>1. msg = [d \in Cookies |-> msg[d]] /\ msg' = [msg EXCEPT ![c] = m]
      BY <1>1 DEF Staged
    <3> QED
      BY <3>1, ExceptIsFunction
  <2>2. pending' \in [Endpoints -> Int]
    <3>1. CASE m.ep \in Endpoints
      BY <1>1, <3>1 DEF Staged
    <3>2. CASE m.ep \notin Endpoints
      <4>1. pending' = pending
        BY <1>1, <3>2 DEF Staged
      <4> QED
        BY <4>1 DEF Staged
    <3> QED
      BY <3>1, <3>2
  <2>3. /\ hand' \in [Threads -> Cookies \cup {NoCookie}]
        /\ stage' \in [Threads -> Sending \cup {"go", "wake"}]
        /\ \A u \in Threads : hand'[u] = NoCookie <=> stage'[u] \notin Sending
    BY <1>1, <1>2 DEF Staged, Sending
  <2>4. totalPending' \in Int
    BY <1>1 DEF Staged
  <2> QED
    BY <1>1, <2>1, <2>2, <2>3, <2>4 DEF Staged
<1>5. \A u \in Threads : hand'[u] = IF u = th THEN c ELSE hand[u]
  BY <1>1 DEF Staged
<1>6. InHand' = InHand \cup {c}
  BY <1>2, <1>5 DEF InHand
<1>7. CookiesAccounted'
  <2>1. \A u \in Threads : hand[u] # c
    BY <1>1, <1>2 DEF CookiesAccounted, InHand
  <2>2. \A u, v \in Threads : u # v /\ hand'[u] = hand'[v] => hand'[u] = NoCookie
    BY <1>5, <2>1 DEF CookiesAccounted
  <2> QED
    BY <1>1, <1>6, <2>2 DEF CookiesAccounted
<1>8. PendingCounted'
  <2>1. \A e \in Endpoints : Out(e)' = IF m.ep = e THEN Out(e) \cup {c} ELSE Out(e)
    BY <1>1, <1>2, <1>3 DEF Out
  <2>2. OutData' = IF m.ep # Control THEN OutData \cup {c} ELSE OutData
    BY <1>1, <1>2, <1>3 DEF OutData
  <2>3. c \notin OutData /\ \A e \in Endpoints : c \notin Out(e)
    BY <1>1 DEF Out, OutData
  <2>4. \A e \in Endpoints : Cardinality(Out(e))' =
            Cardinality(Out(e)) + (IF m.ep = e THEN 1 ELSE 0)
    BY <2>1, <2>3, OutFinite, FS_AddElement
  <2>5. Cardinality(OutData)' = Cardinality(OutData) + (IF m.ep # Control THEN 1 ELSE 0)
    BY <2>2, <2>3, OutFinite, FS_AddElement, SMTT(30)
  <2>6. \A e \in Endpoints : pending'[e] = pending[e] + (IF m.ep = e THEN 1 ELSE 0)
    BY <1>1 DEF Staged
  <2>7. /\ \A e \in Endpoints : pending'[e] = Cardinality(Out(e))'
        /\ scenario'.net # "bypass" => totalPending' = Cardinality(OutData)'
    BY <1>1, <2>4, <2>5, <2>6, CountsOut DEF CountsAsData
  <2> QED
    BY <2>7 DEF PendingCounted, Out, OutData
<1>9. ControlEpFullClears'
  <2> SUFFICES ASSUME ctlFull PROVE \E d \in Cookies \ freeCookies' : msg'[d].ep = Control
    BY DEF ControlEpFullClears
  <2>1. PICK d \in Cookies \ freeCookies : msg[d].ep = Control
    BY DEF ControlEpFullClears
  <2> QED
    BY <1>1, <1>3, <2>1
<1> QED
  BY <1>4, <1>7, <1>8, <1>9

(***************************************************************************)
(* Packets are completed: the counts lose what the free list gains, and a  *)
(* control packet among them clears the flag.                              *)
(***************************************************************************)
LEMMA CompleteCounts ==
    ASSUME CookieInv, NEW th \in Threads, NEW batch \in SUBSET (Cookies \ freeCookies),
           NEW status, Complete(th, batch, status), scenario' = scenario
    PROVE  /\ freeCookies' = freeCookies \cup batch
           /\ msg' = [c \in Cookies |-> msg'[c]]
           /\ pending' \in [Endpoints -> Int] /\ totalPending' \in Int /\ ctlFull' \in BOOLEAN
           /\ PendingCounted' /\ ControlEpFullClears'
<1> USE DEF CookieInv
<1>1. /\ freeCookies' = freeCookies \cup batch
      /\ msg' = [c \in Cookies |-> IF c \in batch THEN NoMsg ELSE msg[c]]
      /\ pending' = [e \in Endpoints |->
                         pending[e] - Cardinality({c \in batch : msg[c].ep = e})]
      /\ totalPending' =
             IF scenario.net = "bypass" THEN totalPending
             ELSE totalPending - Cardinality({c \in batch : msg[c].ep # Control})
      /\ ctlFull' = (ctlFull /\ ~(\E c \in batch : msg[c].ep = Control))
  BY DEF Complete, Reaped, Completed, ClearsFull
<1>2. \A c \in Cookies \ freeCookies' : msg'[c] = msg[c] /\ c \notin batch
  BY <1>1
<1>3. \A e \in Endpoints : /\ Out(e)' = Out(e) \ batch
                           /\ Out(e) \cap batch = {c \in batch : msg[c].ep = e}
  BY <1>1, <1>2 DEF Out
<1>4. /\ OutData' = OutData \ batch
      /\ OutData \cap batch = {c \in batch : msg[c].ep # Control}
  BY <1>1, <1>2 DEF OutData
<1>5. \A e \in Endpoints :
         /\ Cardinality({c \in batch : msg[c].ep = e}) \in Nat
         /\ Cardinality(Out(e))' =
               Cardinality(Out(e)) - Cardinality({c \in batch : msg[c].ep = e})
  <2> TAKE e \in Endpoints
  <2>1. Cardinality(Out(e) \cap batch) \in Nat
    BY OutFinite, FS_Subset, FS_CardinalityType
  <2>2. Cardinality(Out(e) \ batch) = Cardinality(Out(e)) - Cardinality(Out(e) \cap batch)
    BY OutFinite, FS_Difference
  <2> QED
    BY <1>3, <2>1, <2>2
<1>6. /\ Cardinality({c \in batch : msg[c].ep # Control}) \in Nat
      /\ Cardinality(OutData)' =
            Cardinality(OutData) - Cardinality({c \in batch : msg[c].ep # Control})
  <2>1. Cardinality(OutData \cap batch) \in Nat
    BY OutFinite, FS_Subset, FS_CardinalityType
  <2>2. Cardinality(OutData \ batch) = Cardinality(OutData) - Cardinality(OutData \cap batch)
    BY OutFinite, FS_Difference
  <2> QED
    BY <1>4, <2>1, <2>2
<1>7. PendingCounted'
  <2>1. /\ \A e \in Endpoints : pending'[e] = Cardinality(Out(e))'
        /\ scenario'.net # "bypass" => totalPending' = Cardinality(OutData)'
    BY <1>1, <1>5, <1>6, CountsOut
  <2> QED
    BY <2>1 DEF PendingCounted, Out, OutData
<1>8. ControlEpFullClears'
  <2> SUFFICES ASSUME ctlFull' PROVE \E c \in Cookies \ freeCookies' : msg'[c].ep = Control
    BY DEF ControlEpFullClears
  <2>1. ctlFull /\ \A c \in batch : msg[c].ep # Control
    BY <1>1 DEF Staged
  <2>2. PICK c \in Cookies \ freeCookies : msg[c].ep = Control
    BY <2>1 DEF ControlEpFullClears
  <2> QED
    BY <1>1, <2>1, <2>2
<1>9. msg' = [c \in Cookies |-> msg'[c]]
  BY <1>1
<1>10. pending' \in [Endpoints -> Int]
  <2>1. \A e \in Endpoints : pending[e] \in Int
    BY DEF Staged
  <2>2. \A e \in Endpoints : pending[e] - Cardinality({c \in batch : msg[c].ep = e}) \in Int
    BY <1>5, <2>1
  <2> QED
    BY <1>1, <2>2
<1>11. totalPending' \in Int
  BY <1>1, <1>6 DEF Staged
<1>12. ctlFull' \in BOOLEAN
  BY <1>1
<1> QED
  BY <1>1, <1>7, <1>8, <1>9, <1>10, <1>11, <1>12

LEMMA TxCompleteKeeps ==
    ASSUME CookieInv, "hif" \in Threads, NEW batch \in SUBSET htc, NEW status,
           TxComplete(batch, status)
    PROVE  CookieInv'
<1> USE DEF CookieInv
<1>1. /\ Complete("hif", batch, status) /\ scenario' = scenario
      /\ htc' = htc \ batch
      /\ hand' = hand /\ verdict' = verdict
      /\ stage["hif"] = "go" /\ stage' = [stage EXCEPT !["hif"] = "wake"]
  BY DEF TxComplete, boundVars, Idle, Complete
<1>2. batch \in SUBSET (Cookies \ freeCookies)
  BY DEF Staged, CookiesAccounted
<1>3. /\ freeCookies' = freeCookies \cup batch
      /\ msg' = [c \in Cookies |-> msg'[c]]
      /\ pending' \in [Endpoints -> Int] /\ totalPending' \in Int /\ ctlFull' \in BOOLEAN
      /\ PendingCounted' /\ ControlEpFullClears'
  BY <1>1, <1>2, CompleteCounts
<1>4. Staged'
  <2>1. /\ stage' \in [Threads -> Sending \cup {"go", "wake"}]
        /\ \A u \in Threads : hand[u] = NoCookie <=> stage'[u] \notin Sending
    BY <1>1 DEF Staged, Sending
  <2> QED
    BY <1>1, <1>2, <1>3, <2>1 DEF Staged
<1>5. InHand' = InHand
  BY <1>1 DEF InHand
<1>6. CookiesAccounted'
  <2>1. /\ freeCookies' \cap (htc' \cup InHand') = {} /\ htc' \cap InHand' = {}
        /\ freeCookies' \cup htc' \cup InHand' = Cookies
    BY <1>1, <1>3, <1>5 DEF CookiesAccounted
  <2> QED
    BY <1>1, <2>1 DEF CookiesAccounted
<1> QED
  BY <1>3, <1>4, <1>6

LEMMA DropKeeps ==
    ASSUME CookieInv, NEW th \in Threads, DropPkt(th)
    PROVE  CookieInv'
<1> USE DEF CookieInv
<1>1. /\ stage[th] = "drop" /\ Complete(th, {hand[th]}, "failed") /\ scenario' = scenario
      /\ htc' = htc /\ verdict' = verdict
      /\ hand' = [hand EXCEPT ![th] = NoCookie]
      /\ stage' = [stage EXCEPT ![th] = "wake"]
  BY DEF DropPkt, boundVars, Complete
<1>2. hand[th] \in Cookies /\ NoCookie \notin Cookies
  BY <1>1, DriverAssumption DEF Staged, Sending
<1>3. hand[th] \in InHand
  BY <1>2 DEF InHand
<1>4. {hand[th]} \in SUBSET (Cookies \ freeCookies)
  BY <1>2, <1>3 DEF CookiesAccounted
<1>5. /\ freeCookies' = freeCookies \cup {hand[th]}
      /\ msg' = [c \in Cookies |-> msg'[c]]
      /\ pending' \in [Endpoints -> Int] /\ totalPending' \in Int /\ ctlFull' \in BOOLEAN
      /\ PendingCounted' /\ ControlEpFullClears'
  BY <1>1, <1>4, CompleteCounts
<1>6. Staged'
  <2>1. hand' \in [Threads -> Cookies \cup {NoCookie}]
    BY <1>1 DEF Staged
  <2>2. stage' \in [Threads -> Sending \cup {"go", "wake"}]
    BY <1>1 DEF Staged
  <2>3. \A u \in Threads : hand'[u] = NoCookie <=> stage'[u] \notin Sending
    BY <1>1 DEF Staged, Sending
  <2> QED
    BY <1>1, <1>4, <1>5, <2>1, <2>2, <2>3 DEF Staged
<1>7. InHand' = InHand \ {hand[th]}
  <2>1. \A u \in Threads : hand'[u] = IF u = th THEN NoCookie ELSE hand[u]
    BY <1>1 DEF Staged
  <2>2. \A u \in Threads : u # th => hand[u] # hand[th]
    BY <1>2 DEF CookiesAccounted
  <2> QED
    BY <1>2, <2>1, <2>2 DEF InHand
<1>8. CookiesAccounted'
  <2>1. \A u, v \in Threads : u # v /\ hand'[u] = hand'[v] => hand'[u] = NoCookie
    BY <1>1 DEF Staged, CookiesAccounted
  <2> QED
    BY <1>1, <1>3, <1>5, <1>7, <2>1 DEF CookiesAccounted
<1> QED
  BY <1>5, <1>6, <1>8

(***************************************************************************)
(* The steps of HTCSendPkt and of the full callback.                       *)
(***************************************************************************)
LEMMA SendKeeps ==
    ASSUME CookieInv, NEW th \in Threads,
           SendPkt(th) \/ TxQueueFull(th) \/ StopQueues(th) \/ KeepPkt(th) \/ WakeQueues(th)
    PROVE  CookieInv'
<1> USE DEF CookieInv
<1>1. CASE SendPkt(th)
  <2>1. stage[th] = "send" /\ UNCHANGED <<freeCookies, msg, pending, totalPending, ctlFull,
                                         verdict, scenario>>
    BY <1>1 DEF SendPkt, boundVars
  <2>2. CASE htc' = htc \cup {hand[th]} /\ hand' = [hand EXCEPT ![th] = NoCookie]
             /\ stage' = [stage EXCEPT ![th] = "go"]
    BY <2>1, <2>2, HandToHtcKeeps DEF Sending
  <2>3. CASE stage' = [stage EXCEPT ![th] = "full"] /\ UNCHANGED <<htc, hand>>
    <3>1. Staged'
      BY <2>1, <2>3 DEF Staged, Sending
    <3>2. ControlEpFullClears'
      BY <2>1 DEF ControlEpFullClears
    <3> QED
      BY <2>1, <2>3, <3>1, <3>2, RestagedKeeps
  <2> QED
    BY <1>1, <2>2, <2>3 DEF SendPkt
<1>2. CASE TxQueueFull(th)
  <2>1. PICK what \in {"keep", "drop"} :
          /\ verdict' = [verdict EXCEPT ![th] = what]
          /\ \/ stage' = [stage EXCEPT ![th] = "stop"]
             \/ stage' = [stage EXCEPT ![th] = what]
    BY <1>2 DEF TxQueueFull
  <2>2. /\ stage[th] = "full"
        /\ ctlFull' = (ctlFull \/ (~(scenario.net = "bypass") /\ msg[hand[th]].ep = Control))
        /\ UNCHANGED <<freeCookies, msg, htc, pending, totalPending, hand, scenario>>
    BY <1>2 DEF TxQueueFull, boundVars
  <2>3. Staged'
    <3>1. ctlFull' \in BOOLEAN
      BY <2>2
    <3>2. verdict' \in [Threads -> {"keep", "drop"}]
      BY <2>1 DEF Staged
    <3>3. /\ stage' \in [Threads -> Sending \cup {"go", "wake"}]
          /\ \A u \in Threads : stage'[u] = stage[u] \/ (u = th /\ stage'[u] \in Sending)
      BY <2>1 DEF Staged, Sending
    <3>4. stage[th] \in Sending
      BY <2>2 DEF Sending
    <3> QED
      BY <2>2, <3>1, <3>2, <3>3, <3>4 DEF Staged
  <2>4. ControlEpFullClears'
    <3>1. hand[th] \in InHand
      BY <2>2 DEF InHand, Staged, Sending
    <3>2. hand[th] \in Cookies \ freeCookies
      BY <3>1 DEF CookiesAccounted
    <3> QED
      BY <2>2, <3>2 DEF ControlEpFullClears
  <2> QED
    BY <2>2, <2>3, <2>4, RestagedKeeps
<1>3. CASE StopQueues(th)
  <2>1. /\ stage[th] = "stop" /\ stage' = [stage EXCEPT ![th] = verdict[th]]
        /\ UNCHANGED <<freeCookies, msg, htc, pending, totalPending, ctlFull, hand, verdict,
                      scenario>>
    BY <1>3 DEF StopQueues, countVars, boundVars
  <2>2. verdict[th] \in {"keep", "drop"}
    BY DEF Staged
  <2>3. Staged'
    BY <2>1, <2>2 DEF Staged, Sending
  <2>4. ControlEpFullClears'
    BY <2>1 DEF ControlEpFullClears
  <2> QED
    BY <2>1, <2>3, <2>4, RestagedKeeps
<1>4. CASE KeepPkt(th)
  BY <1>4, HandToHtcKeeps DEF KeepPkt, boundVars, Sending
<1>5. CASE WakeQueues(th)
  <2>1. /\ stage[th] = "wake" /\ stage' = [stage EXCEPT ![th] = "go"]
        /\ UNCHANGED <<freeCookies, msg, htc, pending, totalPending, ctlFull, hand, verdict,
                      scenario>>
    BY <1>5 DEF WakeQueues, countVars, boundVars
  <2>2. Staged'
    BY <2>1 DEF Staged, Sending
  <2>3. ControlEpFullClears'
    BY <2>1 DEF ControlEpFullClears
  <2> QED
    BY <2>1, <2>2, <2>3, RestagedKeeps
<1> QED
  BY <1>1, <1>2, <1>3, <1>4, <1>5

LEMMA ControlTxKeeps ==
    ASSUME CookieInv, NEW th \in Threads, ControlTx(th)
    PROVE  CookieInv'
<1> DEFINE s == Now(th)
           m == IF s.do = "dataSync"
                THEN [ep |-> s.ac, tag |-> "control", cmd |-> "none", ac |-> NoAC,
                      dev |-> serves[th]]
                ELSE [ep |-> Control, tag |-> "control", cmd |-> s.what, ac |-> s.ac,
                      dev |-> serves[th]]
           refused == freeCookies = {} \/ (ctlFull /\ m.ep = Control)
<1>1. stage[th] = "go" /\ UNCHANGED <<htc, ctlFull, verdict, scenario>>
  BY DEF ControlTx, Does, boundVars
<1>2. CASE refused
  <2>1. UNCHANGED <<freeCookies, msg, pending, totalPending, hand, stage>>
    BY <1>2 DEF ControlTx
  <2> QED
    BY <1>1, <2>1, UntouchedKeeps DEF countVars
<1>3. CASE ~refused
  <2>1. Allocate(th, m)
    BY <1>3 DEF ControlTx
  <2> HIDE DEF m
  <2> QED
    BY <1>1, <2>1, AllocateKeeps
<1> QED
  BY <1>2, <1>3

LEMMA DataTxKeeps ==
    ASSUME CookieInv, NEW th \in Threads, DataTx(th)
    PROVE  CookieInv'
<1> DEFINE m == [ep |-> Now(th).ac, tag |-> Now(th).what, cmd |-> "none", ac |-> NoAC,
                 dev |-> serves[th]]
<1>1. stage[th] = "go" /\ UNCHANGED <<htc, ctlFull, verdict, scenario>>
  BY DEF DataTx, Does, boundVars
<1>2. CASE freeCookies = {}
  <2>1. UNCHANGED <<freeCookies, msg, pending, totalPending, hand, stage>>
    BY <1>2 DEF DataTx
  <2> QED
    BY <1>1, <2>1, UntouchedKeeps DEF countVars
<1>3. CASE freeCookies # {}
  <2>1. Allocate(th, m)
    BY <1>3 DEF DataTx
  <2> HIDE DEF m
  <2> QED
    BY <1>1, <2>1, AllocateKeeps
<1> QED
  BY <1>2, <1>3

(***************************************************************************)
(* The streams, the ioctls and the events use cookies through commands     *)
(* only.                                                                   *)
(***************************************************************************)
LEMMA StreamStepUntouched ==
    ASSUME NEW th \in Threads,
           \/ IndicateActive(th) \/ IndicateInactive(th) \/ LookUpPipe(th)
           \/ CreatePstream(th) \/ DeletePstream(th) \/ SyncPoint(th) \/ ForgetTsid(th)
           \/ ReadMap(th) \/ WriteMap(th) \/ KeepThin(th)
    PROVE  UNCHANGED <<countVars, hand, stage, verdict, scenario>>
  BY DEF IndicateActive, IndicateInactive, LookUpPipe, CreatePstream, DeletePstream,
         SyncPoint, ForgetTsid, ReadMap, WriteMap, KeepThin, sendVars, boundVars

LEMMA EventUntouched ==
    ASSUME NEW ac, NEW tsid,
           \/ HostSleep \/ TargetTimesOut(ac) \/ PstreamTimeout(ac) \/ CacNoResponse(ac)
           \/ CreateQos(ac, tsid) \/ DeleteQos(ac, tsid)
           \/ CacRefused(ac, tsid) \/ CacDeleted(ac, tsid)
    PROVE  UNCHANGED <<countVars, hand, stage, verdict, scenario>>
  BY DEF HostSleep, TargetTimesOut, PstreamTimeout, CacNoResponse, CreateQos, DeleteQos,
         CacRefused, CacDeleted, CacEvent, Ioctl, sendVars, boundVars

LEMMA NextCookieInv == CookieInv /\ [Next]_vars => CookieInv'
<1> SUFFICES ASSUME CookieInv, [Next]_vars PROVE CookieInv'
  OBVIOUS
<1>1. ASSUME NEW th \in Threads, ThreadStep(th) PROVE CookieInv'
  <2>1. CASE ControlTx(th)
    BY <2>1, ControlTxKeeps
  <2>2. CASE DataTx(th)
    BY <2>2, DataTxKeeps
  <2>3. CASE SendPkt(th) \/ TxQueueFull(th) \/ StopQueues(th) \/ KeepPkt(th) \/ WakeQueues(th)
    BY <2>3, SendKeeps
  <2>4. CASE DropPkt(th)
    BY <2>4, DropKeeps
  <2>5. CASE \/ IndicateActive(th) \/ IndicateInactive(th) \/ LookUpPipe(th)
             \/ CreatePstream(th) \/ DeletePstream(th) \/ SyncPoint(th) \/ ForgetTsid(th)
             \/ ReadMap(th) \/ WriteMap(th) \/ KeepThin(th)
    BY <2>5, StreamStepUntouched, UntouchedKeeps
  <2> QED
    BY <1>1, <2>1, <2>2, <2>3, <2>4, <2>5 DEF ThreadStep
<1>2. ASSUME NEW d \in Devs, NEW ac \in ACs, NEW tag \in {"data", "control"},
             StartTransmit(d, ac, tag)
      PROVE  CookieInv'
  <2>1. UNCHANGED <<countVars, hand, stage, verdict, scenario>>
    BY <1>2 DEF StartTransmit, sendVars
  <2> QED
    BY <2>1, UntouchedKeeps
<1>3. ASSUME NEW batch \in SUBSET htc, NEW status \in {"ok", "flushed", "failed"},
             TxComplete(batch, status)
      PROVE  CookieInv'
  BY <1>3, TxCompleteKeeps DEF Threads
<1>4. CASE HostSleep
  BY <1>4, EventUntouched, UntouchedKeeps
<1>5. ASSUME NEW ac \in ACs,
             TargetTimesOut(ac) \/ PstreamTimeout(ac) \/ CacNoResponse(ac)
      PROVE  CookieInv'
  BY <1>5, EventUntouched, UntouchedKeeps
<1>6. ASSUME NEW ac \in ACs, NEW tsid \in Tsids,
             \/ CreateQos(ac, tsid) \/ DeleteQos(ac, tsid)
             \/ CacRefused(ac, tsid) \/ CacDeleted(ac, tsid)
      PROVE  CookieInv'
  BY <1>6, EventUntouched, UntouchedKeeps
<1>7. CASE UNCHANGED vars
  BY <1>7, UntouchedKeeps DEF vars, sendVars, boundVars
<1> QED
  BY <1>1, <1>2, <1>3, <1>4, <1>5, <1>6, <1>7 DEF Next

LEMMA CookieInvCorrect == Spec => []CookieInv
  BY InitCookieInv, NextCookieInv, PTL DEF Spec

\* No path of ar6000_data_tx, ar6000_control_tx, ar6000_tx_queue_full and
\* ar6000_tx_complete loses a cookie or gives it to two packets.
THEOREM CookiesAccountedCorrect == Spec => []CookiesAccounted
<1>1. CookieInv => CookiesAccounted
  BY DEF CookieInv
<1> QED
  BY <1>1, CookieInvCorrect, PTL

\* arTxPending and, except with bypasswmi, arTotalTxDataPending are the numbers
\* of packets that are out: what waits for zero waits for packets really out.
THEOREM PendingCountedCorrect == Spec => []PendingCounted
<1>1. CookieInv => PendingCounted
  BY DEF CookieInv
<1> QED
  BY <1>1, CookieInvCorrect, PTL

\* arWMIControlEpFull is only set while a command is out that will clear it: the
\* command interface is never closed for good.
THEOREM ControlEpFullClearsCorrect == Spec => []ControlEpFullClears
<1>1. CookieInv => ControlEpFullClears
  BY DEF CookieInv
<1> QED
  BY <1>1, CookieInvCorrect, PTL

-----------------------------------------------------------------------------
(***************************************************************************)
(* Types.  A step names the class, the stream and the command it needs:    *)
(* that is what makes the maps of the WMI layer keep their types.          *)
(***************************************************************************)
Usable(s) ==
    /\ s.do \notin {"sync", "readMap", "writeMap", "command", "noResponse"} => s.ac \in ACs
    /\ s.do \in {"delete", "forget"} => s.tsid \in Tsids
    /\ s.do = "data" => s.what \in {"data", "control"}
    /\ s.do = "command" => /\ s.what \in {"none", "implicit", "explicit", "sleep"}
                           /\ s.what \in {"implicit", "explicit"} => s.ac \in ACs

UsableSteps == {s \in Steps : Usable(s)}

\* Commands go to the control endpoint, and those about a pipe name its class.
Sendable(m) ==
    /\ m.cmd # "none" => m.ep = Control
    /\ m.cmd \in {"implicit", "explicit"} => m.ac \in ACs

SendableMsgs == {m \in Msgs : Sendable(m)}

\* TypeOK, with usable steps and messages; CookieInv bounds the counts.
Types ==
    /\ msg \in [Cookies -> SendableMsgs]
    /\ scenario.net = "bypass" => totalPending \in Nat
    /\ active \subseteq ACs /\ hiPri = Highest(active)
    /\ stopped \subseteq Devs
    /\ fat \subseteq ACs /\ thin \in [ACs -> SUBSET Tsids]
    /\ pipes \subseteq ACs /\ timeouts \subseteq ACs
    /\ todo \in [Threads -> Seq(UsableSteps)]
    /\ flushing \in [Threads -> [Devs -> {"unset", "yes", "no"}]]
    /\ serves \in [Threads -> Devs]
    /\ copy \in [Threads -> SUBSET ACs]
    /\ scenario \in Scenarios
    /\ packets \in 0..scenario.packets /\ calls \in 0..scenario.calls
    /\ cacs \in 0..scenario.events

LEMMA StepTypes ==
    /\ \A ac \in ACs, do \in Kinds \ {"delete", "forget", "data"} : Step(do, ac) \in Seq(UsableSteps)
    /\ \A do \in {"sync", "readMap", "writeMap"} : Step(do, NoAC) \in Seq(UsableSteps)
    /\ \A ac \in ACs, tsid \in Tsids, do \in Kinds \ {"data"} : OnStream(do, ac, tsid) \in Seq(UsableSteps)
    /\ \A ac \in ACs : OnStream("create", ac, Implicit) \in Seq(UsableSteps)
    /\ \A ac \in ACs, what \in {"implicit", "explicit"} : Command(what, ac) \in Seq(UsableSteps)
    /\ \A what \in {"none", "sleep"} : Command(what, NoAC) \in Seq(UsableSteps)
    /\ \A ac \in ACs, tag \in {"data", "control"} : Data(ac, tag) \in Seq(UsableSteps)
    /\ <<>> \in Seq(UsableSteps)
<1>1. \A s \in UsableSteps : <<s>> \in Seq(UsableSteps)
  OBVIOUS
<1>2. \A do \in Kinds, ac \in ACs \cup {NoAC}, tsid \in Tsids \cup {Implicit},
         what \in {"none", "implicit", "explicit", "sleep", "data", "control"} :
         LET s == [do |-> do, ac |-> ac, tsid |-> tsid, what |-> what]
         IN  s \in Steps /\ (Usable(s) => <<s>> \in Seq(UsableSteps))
  BY <1>1 DEF Steps, UsableSteps
<1>3. \A ac \in ACs, do \in Kinds \ {"delete", "forget", "data"} : Step(do, ac) \in Seq(UsableSteps)
  <2> TAKE ac \in ACs, do \in Kinds \ {"delete", "forget", "data"}
  <2>1. Usable([do |-> do, ac |-> ac, tsid |-> Implicit, what |-> "none"])
    BY DEF Usable, Kinds
  <2> QED BY <1>2, <2>1 DEF Step, Kinds
<1>4. \A do \in {"sync", "readMap", "writeMap"} : Step(do, NoAC) \in Seq(UsableSteps)
  <2> TAKE do \in {"sync", "readMap", "writeMap"}
  <2>1. Usable([do |-> do, ac |-> NoAC, tsid |-> Implicit, what |-> "none"])
    BY DEF Usable, Kinds
  <2> QED BY <1>2, <2>1 DEF Step, Kinds
<1>5. \A ac \in ACs, tsid \in Tsids, do \in Kinds \ {"data"} : OnStream(do, ac, tsid) \in Seq(UsableSteps)
  <2> TAKE ac \in ACs, tsid \in Tsids, do \in Kinds \ {"data"}
  <2>1. Usable([do |-> do, ac |-> ac, tsid |-> tsid, what |-> "none"])
    BY DEF Usable, Kinds
  <2> QED BY <1>2, <2>1 DEF OnStream, Kinds
<1>6. \A ac \in ACs : OnStream("create", ac, Implicit) \in Seq(UsableSteps)
  <2> TAKE ac \in ACs
  <2>1. Usable([do |-> "create", ac |-> ac, tsid |-> Implicit, what |-> "none"])
    BY DEF Usable, Kinds
  <2> QED BY <1>2, <2>1 DEF OnStream, Kinds
<1>7. \A ac \in ACs, what \in {"implicit", "explicit"} : Command(what, ac) \in Seq(UsableSteps)
  <2> TAKE ac \in ACs, what \in {"implicit", "explicit"}
  <2>1. Usable([do |-> "command", ac |-> ac, tsid |-> Implicit, what |-> what])
    BY DEF Usable, Kinds
  <2> QED BY <1>2, <2>1 DEF Command, Kinds
<1>8. \A what \in {"none", "sleep"} : Command(what, NoAC) \in Seq(UsableSteps)
  <2> TAKE what \in {"none", "sleep"}
  <2>1. Usable([do |-> "command", ac |-> NoAC, tsid |-> Implicit, what |-> what])
    BY DEF Usable, Kinds
  <2> QED BY <1>2, <2>1 DEF Command, Kinds
<1>9. \A ac \in ACs, tag \in {"data", "control"} : Data(ac, tag) \in Seq(UsableSteps)
  <2> TAKE ac \in ACs, tag \in {"data", "control"}
  <2>1. Usable([do |-> "data", ac |-> ac, tsid |-> Implicit, what |-> tag])
    BY DEF Usable, Kinds
  <2> QED BY <1>2, <2>1 DEF Data, Kinds
<1> QED BY <1>3, <1>4, <1>5, <1>6, <1>7, <1>8, <1>9

LEMMA NatMin ==
    ASSUME NEW T \in SUBSET Nat, T # {}
    PROVE  \E n \in T : \A m \in T : n <= m
<1> DEFINE R == OpToRel(<, Nat)
<1>1. IsWellFoundedOn(R, Nat)
  BY NatLessThanWellFounded
<1>2. \A x, y \in Nat : x < y => <<x, y>> \in R
  BY DEF OpToRel
<1> HIDE DEF R
<1>3. PICK x \in T : \A y \in T : ~(<<y, x>> \in R)
  BY <1>1, WFMin
<1>4. \A y \in T : ~(y < x)
  BY <1>2, <1>3
<1> QED BY <1>4

LEMMA ConcatType ==
    ASSUME NEW S, NEW s \in Seq(S), NEW t \in Seq(S) PROVE s \o t \in Seq(S)
  OBVIOUS

\* The loops over the access classes visit those of S.
LEMMA InOrderType ==
    ASSUME NEW S PROVE InOrder(S) \in Seq(S)
<1> DEFINE Class(ac) == IF ac \in S THEN <<ac>> ELSE <<>>
<1>1. \A ac : Class(ac) \in Seq(S)
  OBVIOUS
<1>2. InOrder(S) = Class("BE") \o Class("BK") \o Class("VI") \o Class("VO")
  BY DEF InOrder
<1> HIDE DEF Class
<1>3. Class("BE") \o Class("BK") \in Seq(S)
  BY <1>1, ConcatType
<1>4. (Class("BE") \o Class("BK")) \o Class("VI") \in Seq(S)
  BY <1>1, <1>3, ConcatType
<1> QED BY <1>1, <1>2, <1>4, ConcatType

\* One step for each class in a sequence of them.
LEMMA LoopType ==
    ASSUME NEW s \in Seq(ACs), NEW do \in {"dataSync", "keepThin"}
    PROVE  [i \in DOMAIN s |-> Step(do, s[i])[1]] \in Seq(UsableSteps)
<1>1. \A ac \in ACs : Step(do, ac)[1] \in UsableSteps
  <2> SUFFICES ASSUME NEW ac \in ACs PROVE Step(do, ac)[1] \in UsableSteps
    OBVIOUS
  <2>1. Step(do, ac) \in Seq(UsableSteps) /\ Len(Step(do, ac)) = 1
    BY StepTypes DEF Kinds, Step
  <2> QED BY <2>1
<1>2. DOMAIN s = 1..Len(s) /\ Len(s) \in Nat
  OBVIOUS
<1> QED BY <1>1, <1>2

\* A refused command leaves a later part of the steps.
LEMMA AfterCommandsType ==
    ASSUME NEW S, NEW s \in Seq(S)
    PROVE  AfterCommands(s) \in Seq(S)
<1> DEFINE First(i) == /\ \A j \in 1..(i - 1) : IsCommand(s[j])
                       /\ i \in DOMAIN s => ~IsCommand(s[i])
           T == {i \in 1..(Len(s) + 1) : i \in DOMAIN s => ~IsCommand(s[i])}
<1>1. \E n \in 1..(Len(s) + 1) : First(n)
  <2>1. Len(s) + 1 \in T /\ T \subseteq Nat
    OBVIOUS
  <2>2. PICK n \in T : \A m \in T : n <= m
    BY <2>1, NatMin
  <2>3. \A j \in 1..(n - 1) : j \notin T
    BY <2>2
  <2> QED BY <2>2, <2>3
<1>2. PICK n \in 1..(Len(s) + 1) : AfterCommands(s) = SubSeq(s, n, Len(s))
  BY <1>1 DEF AfterCommands
<1>3. \A i \in n..Len(s) : s[i] \in S
  OBVIOUS
<1> QED BY <1>2, <1>3, SubSeqProperties

(***************************************************************************)
(* The highest of a set of access classes.                                 *)
(***************************************************************************)
IsHighest(p, S) ==
    /\ p \in 0..3
    /\ \A ac \in S : Pri(ac) <= p
    /\ p = 0 \/ \E ac \in S : Pri(ac) = p

LEMMA PriType == \A ac \in ACs : Pri(ac) \in 0..3
  BY DriverAssumption DEF Pri

LEMMA HighestIs ==
    ASSUME NEW S \in SUBSET ACs
    PROVE  IsHighest(Highest(S), S) /\ \A p : IsHighest(p, S) => p = Highest(S)
<1>1. \E p \in 0..3 : IsHighest(p, S)
  <2>1. CASE \E ac \in S : Pri(ac) = 3
    BY <2>1, PriType DEF IsHighest
  <2>2. CASE (\A ac \in S : Pri(ac) # 3) /\ \E ac \in S : Pri(ac) = 2
    BY <2>2, PriType DEF IsHighest
  <2>3. CASE (\A ac \in S : Pri(ac) \notin {2, 3}) /\ \E ac \in S : Pri(ac) = 1
    BY <2>3, PriType DEF IsHighest
  <2>4. CASE \A ac \in S : Pri(ac) \notin {1, 2, 3}
    BY <2>4, PriType DEF IsHighest
  <2> QED BY <2>1, <2>2, <2>3, <2>4
<1>2. IsHighest(Highest(S), S)
  BY <1>1 DEF Highest, IsHighest
<1>3. ASSUME NEW p, IsHighest(p, S) PROVE p = Highest(S)
  <2>1. \A ac \in S : Pri(ac) \in 0..3
    BY PriType
  <2> QED BY <1>2, <1>3, <2>1 DEF IsHighest
<1> QED BY <1>2, <1>3

LEMMA HighestAdd ==
    ASSUME NEW S \in SUBSET ACs, NEW ac \in ACs
    PROVE  Highest(S \cup {ac}) = IF Pri(ac) > Highest(S) THEN Pri(ac) ELSE Highest(S)
<1>1. IsHighest(Highest(S), S) /\ Pri(ac) \in 0..3 /\ \A b \in S : Pri(b) \in 0..3
  BY HighestIs, PriType
<1>2. IsHighest(IF Pri(ac) > Highest(S) THEN Pri(ac) ELSE Highest(S), S \cup {ac})
  BY <1>1 DEF IsHighest
<1> QED BY <1>2, HighestIs

LEMMA HighestRemove ==
    ASSUME NEW S \in SUBSET ACs, NEW ac \in ACs, Highest(S) # Pri(ac)
    PROVE  Highest(S \ {ac}) = Highest(S)
<1>1. IsHighest(Highest(S), S)
  BY HighestIs
<1>2. IsHighest(Highest(S), S \ {ac})
  BY <1>1 DEF IsHighest
<1> QED BY <1>2, HighestIs

LEMMA HighestNone == Highest({}) = 0
  BY HighestIs DEF IsHighest

-----------------------------------------------------------------------------
LEMMA InitTypes == Init => Types
<1> SUFFICES ASSUME Init PROVE Types
  OBVIOUS
<1> USE DEF Init
<1>1. msg \in [Cookies -> SendableMsgs]
  BY DriverAssumption DEF SendableMsgs, Sendable, NoMsg, Msgs, Endpoints
<1>2. active \subseteq ACs /\ hiPri = Highest(active)
  BY HighestNone
<1>3. todo \in [Threads -> Seq(UsableSteps)]
  OBVIOUS
<1>4. scenario \in Scenarios /\ packets \in 0..scenario.packets /\ calls \in 0..scenario.calls
      /\ cacs \in 0..scenario.events
  BY DriverAssumption
<1>5. flushing \in [Threads -> [Devs -> {"unset", "yes", "no"}]] /\ serves \in [Threads -> Devs]
  BY DriverAssumption DEF Unset
<1> QED BY <1>1, <1>2, <1>3, <1>4, <1>5 DEF Types

LEMMA ScenarioType ==
    ASSUME Types
    PROVE  /\ scenario.devs \subseteq Devs /\ FirstDev \in scenario.devs
           /\ scenario.packets \in Nat /\ scenario.calls \in Nat /\ scenario.events \in Nat
  BY DriverAssumption DEF Types

LEMMA ServeType ==
    ASSUME Types, NEW th \in Threads, Serve(th) PROVE serves' \in [Threads -> Devs]
  BY ScenarioType DEF Serve, Types

LEMMA NowType ==
    ASSUME Types, NEW th \in Threads, todo[th] # <<>>
    PROVE  /\ Now(th) \in UsableSteps /\ Tail(todo[th]) \in Seq(UsableSteps)
           /\ todo[th] = <<Now(th)>> \o Tail(todo[th])
<1>1. todo[th] \in Seq(UsableSteps)
  BY DEF Types
<1> QED BY <1>1 DEF Now

LEMMA ContinueType ==
    ASSUME Types, NEW th \in Threads, todo[th] # <<>>, NEW first \in Seq(UsableSteps),
           Continue(th, first)
    PROVE  /\ todo' \in [Threads -> Seq(UsableSteps)]
           /\ todo'[th] = first \o Tail(todo[th])
           /\ \A u \in Threads : u # th => todo'[u] = todo[u]
<1>1. first \o Tail(todo[th]) \in Seq(UsableSteps)
  BY NowType, ConcatType
<1> QED BY <1>1 DEF Continue, Types

LEMMA BeginType ==
    ASSUME Types, NEW th \in Threads, NEW steps \in Seq(UsableSteps), Begin(th, steps)
    PROVE  /\ todo' \in [Threads -> Seq(UsableSteps)]
           /\ todo'[th] = steps /\ todo[th] = <<>>
           /\ \A u \in Threads : u # th => todo'[u] = todo[u]
  BY DEF Begin, Idle, Types

LEMMA AllocateType ==
    ASSUME Types, NEW th \in Threads, NEW m \in SendableMsgs, Allocate(th, m), scenario' = scenario
    PROVE  /\ msg' \in [Cookies -> SendableMsgs]
           /\ scenario'.net = "bypass" => totalPending' \in Nat
<1>1. PICK c \in freeCookies : msg' = [msg EXCEPT ![c] = m]
  BY DEF Allocate
<1>2. totalPending' = totalPending + (IF CountsAsData(m) THEN 1 ELSE 0)
  BY DEF Allocate
<1>3. msg' \in [Cookies -> SendableMsgs]
  BY <1>1 DEF Types
<1> QED BY <1>2, <1>3 DEF Types

LEMMA SendTypes ==
    ASSUME Types, NEW th \in Threads,
           SendPkt(th) \/ TxQueueFull(th) \/ StopQueues(th) \/ KeepPkt(th) \/ WakeQueues(th)
    PROVE  Types'
<1>1. /\ UNCHANGED <<msg, totalPending, activeVars, wmiVars, targetVars, todo, copy, boundVars>>
      /\ stopped' \subseteq stopped \/ stopped' = scenario.devs
      /\ flushing' = flushing \/ flushing' = [flushing EXCEPT ![th] = Unset]
  BY DEF SendPkt, TxQueueFull, StopQueues, KeepPkt, WakeQueues, countVars
<1>2. flushing' \in [Threads -> [Devs -> {"unset", "yes", "no"}]]
  <2>1. Unset \in [Devs -> {"unset", "yes", "no"}]
    BY DEF Unset
  <2> QED BY <1>1, <2>1 DEF Types
<1>3. stopped' \subseteq Devs
  BY <1>1, ScenarioType DEF Types
<1> QED BY <1>1, <1>2, <1>3 DEF Types, activeVars, wmiVars, targetVars, boundVars

LEMMA ControlTxTypes ==
    ASSUME Types, NEW th \in Threads, ControlTx(th)
    PROVE  Types'
<1> DEFINE s == Now(th)
           m == IF s.do = "dataSync"
                THEN [ep |-> s.ac, tag |-> "control", cmd |-> "none", ac |-> NoAC,
                      dev |-> serves[th]]
                ELSE [ep |-> Control, tag |-> "control", cmd |-> s.what, ac |-> s.ac,
                      dev |-> serves[th]]
           refused == freeCookies = {} \/ (ctlFull /\ m.ep = Control)
<1>1. /\ UNCHANGED <<activeVars, stopped, wmiVars, targetVars, flushing, copy, boundVars>>
      /\ todo[th] # <<>> /\ s.do \in {"command", "dataSync"}
  BY DEF ControlTx, Does, Now
<1>2. /\ msg' \in [Cookies -> SendableMsgs] /\ (scenario'.net = "bypass" => totalPending' \in Nat)
      /\ todo' \in [Threads -> Seq(UsableSteps)]
  <2>1. CASE refused
    <3>1. UNCHANGED <<msg, totalPending>> /\ todo' = [todo EXCEPT ![th] = AfterCommands(@)]
      BY <2>1 DEF ControlTx
    <3>2. AfterCommands(todo[th]) \in Seq(UsableSteps)
      BY AfterCommandsType DEF Types
    <3> QED BY <1>1, <3>1, <3>2 DEF Types, boundVars
  <2>2. CASE ~refused
    <3>1. Allocate(th, m) /\ Continue(th, <<>>)
      BY <2>2 DEF ControlTx
    <3>2. m \in SendableMsgs
      <4>1. s \in UsableSteps
        BY <1>1, NowType
      <4> HIDE DEF s
      <4>2. serves[th] \in Devs
        BY DEF Types
      <4> QED BY <1>1, <4>1, <4>2 DEF SendableMsgs, Sendable, Msgs, UsableSteps, Usable, Steps, Endpoints
    <3> HIDE DEF m
    <3> QED BY <1>1, <3>1, <3>2, AllocateType, ContinueType, StepTypes DEF boundVars
  <2> QED BY <2>1, <2>2
<1> QED BY <1>1, <1>2 DEF Types, activeVars, wmiVars, targetVars, boundVars

LEMMA DataTxTypes ==
    ASSUME Types, NEW th \in Threads, DataTx(th)
    PROVE  Types'
<1> DEFINE m == [ep |-> Now(th).ac, tag |-> Now(th).what, cmd |-> "none", ac |-> NoAC,
                 dev |-> serves[th]]
<1>1. /\ UNCHANGED <<activeVars, stopped, wmiVars, targetVars, flushing, copy, boundVars>>
      /\ todo[th] # <<>> /\ Now(th).do = "data" /\ Continue(th, <<>>)
      /\ Allocate(th, m) \/ UNCHANGED <<msg, totalPending>>
  BY DEF DataTx, Does, Now
<1>2. m \in SendableMsgs
  <2>1. Now(th) \in UsableSteps /\ serves[th] \in Devs
    BY <1>1, NowType DEF Types
  <2> QED BY <1>1, <2>1 DEF SendableMsgs, Sendable, Msgs, UsableSteps, Usable, Steps, Endpoints
<1> HIDE DEF m
<1>3. /\ msg' \in [Cookies -> SendableMsgs] /\ (scenario'.net = "bypass" => totalPending' \in Nat)
  BY <1>1, <1>2, AllocateType DEF Types, boundVars
<1>4. todo' \in [Threads -> Seq(UsableSteps)]
  BY <1>1, ContinueType, StepTypes
<1> QED BY <1>1, <1>3, <1>4 DEF Types, activeVars, wmiVars, targetVars, boundVars

LEMMA CompleteType ==
    ASSUME Types, NEW th \in Threads, NEW batch, NEW status \in {"ok", "flushed", "failed"},
           Complete(th, batch, status), scenario' = scenario
    PROVE  /\ msg' \in [Cookies -> SendableMsgs]
           /\ scenario'.net = "bypass" => totalPending' \in Nat
           /\ flushing' \in [Threads -> [Devs -> {"unset", "yes", "no"}]]
           /\ status = "ok" /\ scenario.net = "bypass" /\ batch # {} =>
                  flushing'[th][FirstDev] = "no"
           /\ \A u \in Threads : u # th => flushing'[u] = flushing[u]
<1>1. NoMsg \in SendableMsgs
  BY DriverAssumption DEF SendableMsgs, Sendable, NoMsg, Msgs, Endpoints
<1>2. msg' \in [Cookies -> SendableMsgs]
  BY <1>1 DEF Complete, Types
<1>3. flushing' = [flushing EXCEPT ![th] = Flushing(batch, status)]
  BY DEF Complete
<1>4. /\ Flushing(batch, status) \in [Devs -> {"unset", "yes", "no"}]
      /\ status = "ok" /\ scenario.net = "bypass" /\ batch # {} =>
             Flushing(batch, status)[FirstDev] = "no"
  BY DriverAssumption DEF Flushing, DevId
<1> HIDE DEF Flushing
<1> QED BY <1>2, <1>3, <1>4 DEF Complete, Types

LEMMA CompletionTypes ==
    ASSUME Types, htc \subseteq Cookies,
           \/ \E th \in Threads : DropPkt(th)
           \/ \E batch \in SUBSET htc, status \in {"ok", "flushed", "failed"} : TxComplete(batch, status)
    PROVE  Types'
<1>1. CASE \E th \in Threads : DropPkt(th)
  <2>1. PICK th \in Threads : DropPkt(th)
    BY <1>1
  <2>2. /\ Complete(th, {hand[th]}, "failed")
        /\ UNCHANGED <<activeVars, stopped, wmiVars, targetVars, todo, copy, boundVars>>
    BY <2>1 DEF DropPkt
  <2> QED BY <2>2, CompleteType DEF Types, activeVars, wmiVars, targetVars, boundVars
<1>2. ASSUME NEW batch \in SUBSET htc, NEW status \in {"ok", "flushed", "failed"}, TxComplete(batch, status)
      PROVE  Types'
  <2>1. /\ Complete("hif", batch, status) /\ batch # {}
        /\ UNCHANGED <<activeVars, stopped, wmiVars, timeouts, todo, copy, boundVars>>
        /\ pipes' = IF status = "ok" THEN Learns(msg[CHOOSE c \in batch : TRUE]) ELSE pipes
    BY <1>2 DEF TxComplete
  <2>2. (CHOOSE c \in batch : TRUE) \in Cookies
    BY <1>2, <2>1
  <2>3. \A m \in SendableMsgs : Learns(m) \subseteq ACs
    BY DEF Learns, SendableMsgs, Sendable, Msgs, Types
  <2>4. pipes' \subseteq ACs
    BY <2>1, <2>2, <2>3 DEF Types
  <2>5. /\ msg' \in [Cookies -> SendableMsgs]
        /\ flushing' \in [Threads -> [Devs -> {"unset", "yes", "no"}]]
        /\ scenario'.net = "bypass" => totalPending' \in Nat
    BY <2>1, CompleteType DEF Threads, boundVars
  <2> QED BY <2>1, <2>4, <2>5 DEF Types, activeVars, wmiVars, boundVars
<1> QED BY <1>1, <1>2

\* What a step of the streams leaves alone.
StreamRest ==
    UNCHANGED <<countVars, stopped, targetVars, sendVars, boundVars>>

LEMMA StreamTypes ==
    ASSUME Types, StreamRest,
           active' \subseteq ACs /\ hiPri' = Highest(active'),
           fat' \subseteq ACs, thin' \in [ACs -> SUBSET Tsids],
           copy' \in [Threads -> SUBSET ACs],
           todo' \in [Threads -> Seq(UsableSteps)]
    PROVE  Types'
  BY DEF Types, StreamRest, countVars, targetVars, sendVars, boundVars

LEMMA NowAC ==
    ASSUME Types, NEW th \in Threads, todo[th] # <<>>,
           Now(th).do \notin {"sync", "readMap", "writeMap", "command", "noResponse"}
    PROVE  Now(th).ac \in ACs
  BY NowType DEF UsableSteps, Usable

LEMMA StreamStepTypes ==
    ASSUME Types, NEW th \in Threads,
           \/ IndicateActive(th) \/ IndicateInactive(th) \/ LookUpPipe(th)
           \/ CreatePstream(th) \/ DeletePstream(th) \/ SyncPoint(th) \/ ForgetTsid(th)
           \/ ReadMap(th) \/ WriteMap(th) \/ KeepThin(th)
    PROVE  Types'
<1> DEFINE ac == Now(th).ac
           tsid == Now(th).tsid
<1> USE DEF Does
<1>0. Types /\ todo[th] # <<>> /\ <<>> \in Seq(UsableSteps)
  BY DEF IndicateActive, IndicateInactive, LookUpPipe,
         CreatePstream, DeletePstream, SyncPoint, ForgetTsid, ReadMap, WriteMap, KeepThin
<1>t. /\ fat \subseteq ACs /\ thin \in [ACs -> SUBSET Tsids] /\ copy \in [Threads -> SUBSET ACs]
      /\ active \subseteq ACs /\ hiPri = Highest(active)
  BY DEF Types
<1>n. /\ Now(th) \in UsableSteps /\ Now(th).do = Head(todo[th]).do
  BY <1>0, NowType DEF Now
<1>1. CASE IndicateActive(th)
  <2>1. /\ StreamRest /\ Continue(th, <<>>) /\ active' = active \cup {ac} /\ UNCHANGED <<wmiVars, copy>>
        /\ hiPri' = (IF Pri(ac) > hiPri THEN Pri(ac) ELSE hiPri) /\ Head(todo[th]).do = "active"
    BY <1>1 DEF IndicateActive, StreamRest
  <2>2. ac \in ACs
    BY <1>0, <1>n, <2>1, NowAC
  <2> HIDE DEF ac
  <2>3. active' \subseteq ACs /\ hiPri' = Highest(active')
    BY <1>t, <2>1, <2>2, HighestAdd
  <2>4. todo' \in [Threads -> Seq(UsableSteps)]
    BY <1>0, <2>1, ContinueType
  <2> QED BY <1>t, <2>1, <2>3, <2>4, StreamTypes DEF wmiVars
<1>2. CASE IndicateInactive(th)
  <2>1. /\ StreamRest /\ Continue(th, <<>>) /\ active' = active \ {ac} /\ UNCHANGED <<wmiVars, copy>>
        /\ hiPri' = (IF hiPri = Pri(ac) THEN Highest(active \ {ac}) ELSE hiPri)
        /\ Head(todo[th]).do = "inactive"
    BY <1>2 DEF IndicateInactive, StreamRest, NextHighest
  <2>2. ac \in ACs
    BY <1>0, <1>n, <2>1, NowAC
  <2> HIDE DEF ac
  <2>3. active' \subseteq ACs /\ hiPri' = Highest(active')
    BY <1>t, <2>1, <2>2, HighestRemove
  <2>4. todo' \in [Threads -> Seq(UsableSteps)]
    BY <1>0, <2>1, ContinueType
  <2> QED BY <1>t, <2>1, <2>3, <2>4, StreamTypes DEF wmiVars
<1>3. CASE LookUpPipe(th)
  <2>1. /\ StreamRest /\ UNCHANGED <<activeVars, wmiVars, copy>> /\ Head(todo[th]).do = "lookup"
        /\ Continue(th, IF ac \in fat THEN <<>> ELSE OnStream("create", ac, Implicit))
    BY <1>3 DEF LookUpPipe, StreamRest
  <2>2. ac \in ACs
    BY <1>0, <1>n, <2>1, NowAC
  <2>3. (IF ac \in fat THEN <<>> ELSE OnStream("create", ac, Implicit)) \in Seq(UsableSteps)
    BY <2>2, StepTypes
  <2> HIDE DEF ac
  <2>4. todo' \in [Threads -> Seq(UsableSteps)]
    BY <1>0, <2>1, <2>3, ContinueType
  <2> QED BY <1>t, <2>1, <2>4, StreamTypes DEF activeVars, wmiVars
<1>4. CASE CreatePstream(th)
  <2>1. /\ StreamRest /\ UNCHANGED <<activeVars, copy>> /\ Head(todo[th]).do = "create"
        /\ \/ Continue(th, <<>>) /\ UNCHANGED wmiVars
           \/ /\ fat' = fat \cup {ac}
              /\ thin' = IF tsid = Implicit THEN thin ELSE [thin EXCEPT ![ac] = @ \cup {tsid}]
              /\ Continue(th, CreateSteps(ac, IF tsid = Implicit THEN "implicit" ELSE "explicit"))
    BY <1>4 DEF CreatePstream, StreamRest
  <2>2. ac \in ACs /\ tsid \in Tsids \cup {Implicit}
    BY <1>0, <1>n, <2>1, NowAC DEF UsableSteps, Steps
  <2>3. CASE Continue(th, <<>>) /\ UNCHANGED wmiVars
    BY <1>0, <1>t, <2>1, <2>3, ContinueType, StreamTypes DEF activeVars, wmiVars
  <2>4. CASE /\ fat' = fat \cup {ac}
             /\ thin' = IF tsid = Implicit THEN thin ELSE [thin EXCEPT ![ac] = @ \cup {tsid}]
             /\ Continue(th, CreateSteps(ac, IF tsid = Implicit THEN "implicit" ELSE "explicit"))
    <3>1. \A cmd \in {"implicit", "explicit"} : CreateSteps(ac, cmd) \in Seq(UsableSteps)
      <4> SUFFICES ASSUME NEW cmd \in {"implicit", "explicit"} PROVE CreateSteps(ac, cmd) \in Seq(UsableSteps)
        OBVIOUS
      <4>1. Step("active", ac) \in Seq(UsableSteps) /\ Command(cmd, ac) \in Seq(UsableSteps)
        BY <2>2, StepTypes DEF Kinds
      <4> HIDE DEF ac
      <4> QED BY <1>0, <4>1, ConcatType DEF CreateSteps
    <3> HIDE DEF ac, tsid
    <3>2. todo' \in [Threads -> Seq(UsableSteps)]
      BY <1>0, <2>4, <3>1, ContinueType
    <3>3. fat' \subseteq ACs /\ thin' \in [ACs -> SUBSET Tsids]
      BY <1>t, <2>2, <2>4
    <3> QED BY <1>t, <2>1, <3>2, <3>3, StreamTypes DEF activeVars
  <2> QED BY <2>1, <2>3, <2>4
<1>5. CASE DeletePstream(th)
  <2>1. /\ StreamRest /\ UNCHANGED <<activeVars, wmiVars, copy>> /\ Head(todo[th]).do = "delete"
        /\ Continue(th, IF tsid \notin thin[ac] THEN <<>>
                        ELSE Step("sync", NoAC) \o Command("none", NoAC) \o OnStream("forget", ac, tsid))
    BY <1>5 DEF DeletePstream, StreamRest
  <2>2. ac \in ACs /\ tsid \in Tsids
    BY <1>0, <1>n, <2>1, NowAC DEF UsableSteps, Usable
  <2>3. /\ Step("sync", NoAC) \in Seq(UsableSteps) /\ Command("none", NoAC) \in Seq(UsableSteps)
        /\ OnStream("forget", ac, tsid) \in Seq(UsableSteps)
    BY <2>2, StepTypes DEF Kinds
  <2> HIDE DEF ac, tsid
  <2>4. Step("sync", NoAC) \o Command("none", NoAC) \o OnStream("forget", ac, tsid) \in Seq(UsableSteps)
    BY <2>3, ConcatType
  <2>5. todo' \in [Threads -> Seq(UsableSteps)]
    BY <1>0, <2>1, <2>4, ContinueType
  <2> QED BY <1>t, <2>1, <2>5, StreamTypes DEF activeVars, wmiVars
<1>6. CASE SyncPoint(th)
  <2>1. /\ StreamRest /\ UNCHANGED <<activeVars, wmiVars, copy>>
        /\ Continue(th, Command("none", NoAC)
                            \o [i \in DOMAIN InOrder(fat) |-> Step("dataSync", InOrder(fat)[i])[1]])
    BY <1>6 DEF SyncPoint, StreamRest
  <2>2. InOrder(fat) \in Seq(ACs)
    <3>1. InOrder(fat) \in Seq(fat)
      BY InOrderType
    <3> QED BY <1>t, <3>1
  <2>3. [i \in DOMAIN InOrder(fat) |-> Step("dataSync", InOrder(fat)[i])[1]] \in Seq(UsableSteps)
    BY <2>2, LoopType
  <2>4. Command("none", NoAC) \o [i \in DOMAIN InOrder(fat) |-> Step("dataSync", InOrder(fat)[i])[1]]
          \in Seq(UsableSteps)
    BY <2>3, StepTypes, ConcatType
  <2>5. todo' \in [Threads -> Seq(UsableSteps)]
    BY <1>0, <2>1, <2>4, ContinueType
  <2> QED BY <1>t, <2>1, <2>5, StreamTypes DEF activeVars, wmiVars
<1>7. CASE ForgetTsid(th)
  <2>1. /\ StreamRest /\ UNCHANGED <<activeVars, fat, copy>> /\ Head(todo[th]).do = "forget"
        /\ thin' = [thin EXCEPT ![ac] = @ \ {tsid}]
        /\ Continue(th, IF thin[ac] \subseteq {tsid}
                        THEN Step("inactive", ac) \o Step("readMap", NoAC) \o Step("writeMap", ac)
                        ELSE <<>>)
    BY <1>7 DEF ForgetTsid, StreamRest
  <2>2. ac \in ACs
    BY <1>0, <1>n, <2>1, NowAC
  <2>3. /\ Step("inactive", ac) \in Seq(UsableSteps) /\ Step("readMap", NoAC) \in Seq(UsableSteps)
        /\ Step("writeMap", ac) \in Seq(UsableSteps)
    BY <2>2, StepTypes DEF Kinds
  <2> HIDE DEF ac, tsid
  <2>4. Step("inactive", ac) \o Step("readMap", NoAC) \o Step("writeMap", ac) \in Seq(UsableSteps)
    BY <2>3, ConcatType
  <2>5. todo' \in [Threads -> Seq(UsableSteps)]
    BY <1>0, <2>1, <2>4, ContinueType
  <2>6. thin' \in [ACs -> SUBSET Tsids]
    BY <1>t, <2>1
  <2> QED BY <1>t, <2>1, <2>5, <2>6, StreamTypes DEF activeVars
<1>8. CASE ReadMap(th)
  <2>1. /\ StreamRest /\ UNCHANGED <<activeVars, wmiVars>> /\ copy' = [copy EXCEPT ![th] = fat]
        /\ Continue(th, <<>>)
    BY <1>8 DEF ReadMap, StreamRest
  <2>2. todo' \in [Threads -> Seq(UsableSteps)] /\ copy' \in [Threads -> SUBSET ACs]
    BY <1>0, <1>t, <2>1, ContinueType
  <2> QED BY <1>t, <2>1, <2>2, StreamTypes DEF activeVars, wmiVars
<1>9. CASE WriteMap(th)
  <2>1. /\ StreamRest /\ UNCHANGED <<activeVars, thin>> /\ copy' = [copy EXCEPT ![th] = {}]
        /\ fat' = copy[th] \ {ac} /\ Continue(th, <<>>)
    BY <1>9 DEF WriteMap, StreamRest
  <2>2. /\ todo' \in [Threads -> Seq(UsableSteps)] /\ copy' \in [Threads -> SUBSET ACs]
        /\ fat' \subseteq ACs
    BY <1>0, <1>t, <2>1, ContinueType
  <2> QED BY <1>t, <2>1, <2>2, StreamTypes DEF activeVars
<1>10. CASE KeepThin(th)
  <2>1. /\ StreamRest /\ UNCHANGED <<activeVars, wmiVars>> /\ Head(todo[th]).do = "keepThin"
        /\ copy' \in [Threads -> SUBSET ACs]
        /\ \/ Continue(th, <<>>) \/ Continue(th, Step("inactive", ac))
    <3>1. copy' = [copy EXCEPT ![th] = IF ac \in copy[th] /\ thin[ac] = {} THEN @ \ {ac} ELSE @]
      BY <1>10 DEF KeepThin
    <3>2. copy' \in [Threads -> SUBSET ACs]
      BY <1>t, <3>1
    <3> QED BY <1>10, <3>2 DEF KeepThin, StreamRest
  <2>2. ac \in ACs
    BY <1>0, <1>n, <2>1, NowAC
  <2>3. Step("inactive", ac) \in Seq(UsableSteps)
    BY <2>2, StepTypes DEF Kinds
  <2> HIDE DEF ac
  <2>4. todo' \in [Threads -> Seq(UsableSteps)]
    BY <1>0, <2>1, <2>3, ContinueType
  <2> QED BY <1>t, <2>1, <2>4, StreamTypes DEF activeVars, wmiVars
<1> QED BY <1>1, <1>2, <1>3, <1>4, <1>5, <1>6, <1>7, <1>8, <1>9, <1>10

\* Transmissions, ioctls and events.
LEMMA EventTypes ==
    ASSUME Types,
           \/ \E d \in Devs, ac \in ACs, tag \in {"data", "control"} : StartTransmit(d, ac, tag)
           \/ HostSleep
           \/ \E ac \in ACs :
                 \/ TargetTimesOut(ac) \/ PstreamTimeout(ac) \/ CacNoResponse(ac)
                 \/ \E tsid \in Tsids : \/ CreateQos(ac, tsid) \/ DeleteQos(ac, tsid)
                                        \/ CacRefused(ac, tsid) \/ CacDeleted(ac, tsid)
    PROVE  Types'
<1>t. /\ fat \subseteq ACs /\ thin \in [ACs -> SUBSET Tsids] /\ <<>> \in Seq(UsableSteps)
      /\ pipes \subseteq ACs /\ timeouts \subseteq ACs /\ {"ioctl", "rx", "hif"} \cup Devs = Threads
  BY DEF Types, Threads
<1>i. ASSUME NEW steps \in Seq(UsableSteps), Ioctl(steps) PROVE Types'
  <2>1. todo' \in [Threads -> Seq(UsableSteps)]
    BY <1>i, <1>t, BeginType DEF Ioctl
  <2>2. calls' \in 0..scenario.calls
    BY <1>i, ScenarioType DEF Ioctl, Types
  <2>3. serves' \in [Threads -> Devs]
    BY <1>i, <1>t, ServeType DEF Ioctl
  <2> QED BY <1>i, <2>1, <2>2, <2>3 DEF Ioctl, Types, countVars, activeVars, wmiVars, targetVars, sendVars
<1>c. ASSUME CacEvent, NEW steps \in Seq(UsableSteps), Begin("rx", steps), thin' \in [ACs -> SUBSET Tsids]
      PROVE  Types'
  <2>1. todo' \in [Threads -> Seq(UsableSteps)]
    BY <1>c, <1>t, BeginType
  <2>2. cacs' \in 0..scenario.events
    BY <1>c, ScenarioType DEF CacEvent, Types
  <2>3. serves' \in [Threads -> Devs]
    BY <1>c, <1>t, ServeType DEF CacEvent
  <2> QED BY <1>c, <2>1, <2>2, <2>3 DEF CacEvent, Types, countVars, activeVars, targetVars, sendVars
<1>1. ASSUME NEW d \in Devs, NEW ac \in ACs, NEW tag \in {"data", "control"}, StartTransmit(d, ac, tag)
      PROVE  Types'
  <2>1. PICK steps \in {Data(ac, tag), Step("lookup", ac) \o Data(ac, tag)} : Begin(d, steps)
    BY <1>1 DEF StartTransmit
  <2>2. Data(ac, tag) \in Seq(UsableSteps) /\ Step("lookup", ac) \in Seq(UsableSteps)
    BY StepTypes DEF Kinds
  <2>3. steps \in Seq(UsableSteps)
    BY <2>1, <2>2, ConcatType
  <2>4. todo' \in [Threads -> Seq(UsableSteps)]
    BY <2>1, <2>3, BeginType DEF Threads
  <2>5. packets' \in 0..scenario.packets
    BY <1>1, ScenarioType DEF StartTransmit, Types
  <2> QED BY <1>1, <2>4, <2>5
          DEF StartTransmit, Types, countVars, activeVars, wmiVars, targetVars, sendVars
<1>2. CASE HostSleep
  <2> DEFINE loop == [i \in DOMAIN InOrder(ACs) |-> Step("keepThin", InOrder(ACs)[i])[1]]
  <2>1. loop \in Seq(UsableSteps)
    BY InOrderType, LoopType
  <2>2. /\ Step("readMap", NoAC) \in Seq(UsableSteps) /\ Step("writeMap", NoAC) \in Seq(UsableSteps)
        /\ Command("sleep", NoAC) \in Seq(UsableSteps)
    BY StepTypes
  <2>3. Ioctl(Step("readMap", NoAC) \o loop \o Step("writeMap", NoAC) \o Command("sleep", NoAC))
    BY <1>2 DEF HostSleep
  <2> HIDE DEF loop
  <2>4. Step("readMap", NoAC) \o loop \o Step("writeMap", NoAC) \o Command("sleep", NoAC)
          \in Seq(UsableSteps)
    BY <2>1, <2>2, ConcatType
  <2> QED BY <1>i, <2>3, <2>4
<1>3. ASSUME NEW ac \in ACs, TargetTimesOut(ac) PROVE Types'
  BY <1>3 DEF TargetTimesOut, Types, countVars, activeVars, wmiVars, sendVars, boundVars
<1>4. ASSUME NEW ac \in ACs, PstreamTimeout(ac) PROVE Types'
  <2>1. Step("inactive", ac) \in Seq(UsableSteps)
    BY StepTypes DEF Kinds
  <2>2. todo' \in [Threads -> Seq(UsableSteps)]
    BY <1>4, <1>t, <2>1, BeginType DEF PstreamTimeout
  <2> QED BY <1>4, <2>2 DEF PstreamTimeout, Types, countVars, activeVars, sendVars, boundVars
<1>5. ASSUME NEW ac \in ACs, CacNoResponse(ac) PROVE Types'
  <2> DEFINE first == CHOOSE t \in thin[ac] : \A u \in thin[ac] : t <= u
  <2>1. CacEvent /\ thin' = thin /\ Begin("rx", IF thin[ac] = {} THEN <<>> ELSE OnStream("delete", ac, first))
    BY <1>5 DEF CacNoResponse
  <2>2. thin[ac] # {} => first \in Tsids
    <3> SUFFICES ASSUME thin[ac] # {} PROVE first \in Tsids
      OBVIOUS
    <3>0. Tsids \subseteq Nat
      BY DriverAssumption
    <3>1. thin[ac] \subseteq Tsids /\ thin[ac] \subseteq Nat
      BY <1>t, <3>0
    <3>2. \E t \in thin[ac] : \A u \in thin[ac] : t <= u
      BY <3>1, NatMin
    <3> QED BY <3>1, <3>2
  <2> HIDE DEF first
  <2>3. thin[ac] # {} => OnStream("delete", ac, first) \in Seq(UsableSteps)
    BY <2>2, StepTypes DEF Kinds
  <2> QED BY <1>c, <1>t, <2>1, <2>3
<1>6. ASSUME NEW ac \in ACs, NEW tsid \in Tsids, CreateQos(ac, tsid) \/ DeleteQos(ac, tsid) PROVE Types'
  <2>1. /\ OnStream("create", ac, tsid) \in Seq(UsableSteps)
        /\ OnStream("delete", ac, tsid) \in Seq(UsableSteps)
    BY StepTypes DEF Kinds
  <2> QED BY <1>6, <1>i, <2>1 DEF CreateQos, DeleteQos
<1>7. ASSUME NEW ac \in ACs, NEW tsid \in Tsids, CacRefused(ac, tsid) PROVE Types'
  <2>1. OnStream("delete", ac, tsid) \in Seq(UsableSteps)
    BY StepTypes DEF Kinds
  <2> QED BY <1>7, <1>c, <1>t, <2>1 DEF CacRefused
<1>8. ASSUME NEW ac \in ACs, NEW tsid \in Tsids, CacDeleted(ac, tsid) PROVE Types'
  <2>1. /\ Step("inactive", ac) \in Seq(UsableSteps) /\ Step("readMap", NoAC) \in Seq(UsableSteps)
        /\ Step("writeMap", ac) \in Seq(UsableSteps)
    BY StepTypes DEF Kinds
  <2>2. Step("inactive", ac) \o Step("readMap", NoAC) \o Step("writeMap", ac) \in Seq(UsableSteps)
    BY <2>1, ConcatType
  <2>3. PICK steps \in {<<>>, Step("inactive", ac) \o Step("readMap", NoAC) \o Step("writeMap", ac)} :
           Begin("rx", steps)
    BY <1>8 DEF CacDeleted
  <2>4. thin' \in [ACs -> SUBSET Tsids] /\ CacEvent
    BY <1>8, <1>t DEF CacDeleted
  <2> QED BY <1>c, <1>t, <2>2, <2>3, <2>4
<1> QED BY <1>1, <1>2, <1>3, <1>4, <1>5, <1>6, <1>7, <1>8

LEMMA NextTypes == CookieInv /\ Types /\ [Next]_vars => Types'
<1> SUFFICES ASSUME CookieInv, Types, [Next]_vars PROVE Types'
  OBVIOUS
<1>1. ASSUME NEW th \in Threads, ThreadStep(th), ~DropPkt(th) PROVE Types'
  BY <1>1, ControlTxTypes, DataTxTypes, SendTypes, StreamStepTypes DEF ThreadStep
<1>2. htc \subseteq Cookies
  BY DEF CookieInv, Staged
<1>3. CASE UNCHANGED vars
  BY <1>3 DEF vars, countVars, activeVars, wmiVars, targetVars, sendVars, boundVars, Types
<1> QED BY <1>1, <1>2, <1>3, CompletionTypes, EventTypes DEF Next

LEMMA TypesCorrect == Spec => []Types
<1>1. Init => Types
  BY InitTypes
<1> QED BY <1>1, NextTypes, CookieInvCorrect, PTL DEF Spec

\* The variables keep their types, whatever streams, ioctls and events there are.
THEOREM TypeCorrect == Spec => []TypeOK
<1>1. CookieInv /\ Types => TypeOK
  <2> SUFFICES ASSUME CookieInv, Types PROVE TypeOK
    OBVIOUS
  <2>1. pending \in [Endpoints -> 0..Cardinality(Cookies)]
    <3>1. \A e \in Endpoints : Out(e) \subseteq Cookies
      BY DEF Out
    <3>2. \A e \in Endpoints : Cardinality(Out(e)) \in 0..Cardinality(Cookies)
      BY <3>1, OutFinite, FS_Subset, FS_CardinalityType, DriverAssumption
    <3>3. \A e \in Endpoints : pending[e] \in 0..Cardinality(Cookies)
      BY <3>2, CountsOut DEF CookieInv
    <3> QED BY <3>3 DEF CookieInv, Staged
  <2>2. totalPending \in Nat
    BY CountsOut, OutFinite DEF CookieInv, Types
  <2>3. hiPri \in 0..3
    BY HighestIs DEF Types, IsHighest
  <2>4. todo \in [Threads -> Seq(Steps)] /\ msg \in [Cookies -> Msgs]
    <3>1. UsableSteps \subseteq Steps /\ SendableMsgs \subseteq Msgs
      BY DEF UsableSteps, SendableMsgs
    <3>2. \A s \in Seq(UsableSteps) : s \in Seq(Steps)
      BY <3>1
    <3>3. todo \in [Threads -> Seq(UsableSteps)] /\ msg \in [Cookies -> SendableMsgs]
      BY DEF Types
    <3>4. todo \in [Threads -> Seq(Steps)]
      <4> HIDE DEF UsableSteps, Steps
      <4> QED BY <3>2, <3>3
    <3> QED BY <3>1, <3>3, <3>4
  <2> QED BY <2>1, <2>2, <2>3, <2>4 DEF CookieInv, Staged, Sending, Types, TypeOK
<1> QED BY <1>1, CookieInvCorrect, TypesCorrect, PTL

\* arHiAcStreamActivePri is the priority of the highest active stream, in whatever order the
\* threads indicate that streams become active and inactive.
THEOREM HighestActiveCorrect == Spec => []HighestActive
<1>1. Types => HighestActive
  BY DEF Types, HighestActive
<1> QED BY <1>1, TypesCorrect, PTL

-----------------------------------------------------------------------------
(***************************************************************************)
(* Stopped queues.  QueueResumes is not inductive: what will wake the      *)
(* first device's is a packet that HTC holds, one that the thread that     *)
(* stopped the queues is about to leave there, or the completion that is   *)
(* under way.  With bypasswmi a thread that stopped them never drops its   *)
(* packet, and without faults the bus's completions set the flag of the    *)
(* first device, whose packets all are.                                    *)
(***************************************************************************)
Resuming ==
    /\ todo["hif"] = <<>> /\ stage["hif"] \in {"go", "wake"}
    /\ scenario.net = "bypass" /\ ~scenario.faults =>
         /\ stage["hif"] = "wake" => flushing["hif"][FirstDev] = "no"
         /\ \A th \in Threads : stage[th] = "stop" => verdict[th] = "keep"
         /\ FirstDev \in stopped => \/ htc # {}
                                    \/ stage["hif"] = "wake"
                                    \/ \E th \in Threads : stage[th] = "keep"

LEMMA InitResuming == Init => Resuming
  BY DEF Init, Resuming, Threads

\* Steps that do not concern the queues; the HIF's thread only completes.
LEMMA ResumingSame ==
    ASSUME Resuming, Staged, Types,
           UNCHANGED <<htc, stopped, scenario, flushing, verdict>>,
           todo'["hif"] = todo["hif"],
           stage' = stage \/ \E th \in Threads \ {"hif"} : stage[th] = "go" /\ stage' = [stage EXCEPT ![th] = "send"]
    PROVE  Resuming'
<1>1. "hif" \in Threads
  BY DEF Threads
<1>2. CASE stage' = stage
  BY <1>2 DEF Resuming
<1>3. ASSUME NEW th \in Threads \ {"hif"}, stage[th] = "go", stage' = [stage EXCEPT ![th] = "send"]
      PROVE  Resuming'
  <2>1. /\ stage'["hif"] = stage["hif"]
        /\ \A u \in Threads : stage'[u] = IF u = th THEN "send" ELSE stage[u]
    BY <1>1, <1>3 DEF Staged
  <2> QED BY <1>1, <1>3, <2>1 DEF Resuming
<1> QED BY <1>2, <1>3

LEMMA SendResuming ==
    ASSUME CookieInv, Types, Resuming, NEW th \in Threads,
           \/ SendPkt(th) \/ TxQueueFull(th) \/ StopQueues(th) \/ KeepPkt(th) \/ DropPkt(th)
           \/ WakeQueues(th)
    PROVE  Resuming'
<1>0. "hif" \in Threads /\ Staged
  BY DEF Threads, CookieInv
<1>a. /\ todo' = todo /\ scenario' = scenario
      /\ \E w \in Sending \cup {"go", "wake"} : stage' = [stage EXCEPT ![th] = w]
  <2>1. verdict[th] \in {"keep", "drop"}
    BY <1>0 DEF Staged
  <2> QED BY <2>1 DEF SendPkt, TxQueueFull, StopQueues, KeepPkt, DropPkt, WakeQueues, Complete, boundVars, Sending
<1>b. ~WakeQueues(th) => th # "hif"
  BY DEF Resuming, SendPkt, TxQueueFull, StopQueues, KeepPkt, DropPkt
<1>c. /\ \A u \in Threads : u # th => stage'[u] = stage[u]
      /\ stage'["hif"] \in {"go", "wake"}
  <2>1. \A u \in Threads : u # th => stage'[u] = stage[u]
    BY <1>0, <1>a DEF Staged
  <2>2. CASE th # "hif"
    BY <1>0, <2>1, <2>2 DEF Resuming
  <2>3. CASE th = "hif" /\ WakeQueues(th)
    <3>1. stage'["hif"] = "go"
      BY <1>0, <2>3 DEF WakeQueues, Staged
    <3> QED BY <2>1, <3>1
  <2> QED BY <1>b, <2>1, <2>2, <2>3
<1> SUFFICES ASSUME scenario.net = "bypass", ~scenario.faults
             PROVE  /\ stage'["hif"] = "wake" => flushing'["hif"][FirstDev] = "no"
                    /\ \A u \in Threads : stage'[u] = "stop" => verdict'[u] = "keep"
                    /\ FirstDev \in stopped' => \/ htc' # {}
                                                \/ stage'["hif"] = "wake"
                                                \/ \E u \in Threads : stage'[u] = "keep"
  BY <1>a, <1>c DEF Resuming
<1>h. /\ stage["hif"] = "wake" => flushing["hif"][FirstDev] = "no"
      /\ flushing \in [Threads -> [Devs -> {"unset", "yes", "no"}]]
      /\ \A u \in Threads : stage[u] = "stop" => verdict[u] = "keep"
      /\ FirstDev \in stopped => \/ htc # {}
                                 \/ stage["hif"] = "wake"
                                 \/ \E u \in Threads : stage[u] = "keep"
  BY DEF Resuming, Types
<1>1. CASE SendPkt(th)
  <2>1. /\ UNCHANGED <<stopped, flushing, verdict>> /\ stage[th] = "send" /\ th # "hif"
        /\ htc' = htc \/ htc' # {}
        /\ stage'[th] \in {"go", "full"}
    BY <1>0, <1>1, <1>b DEF SendPkt, WakeQueues, Staged
  <2> QED BY <1>0, <1>c, <1>h, <2>1
<1>2. CASE TxQueueFull(th)
  <2>1. /\ UNCHANGED <<stopped, flushing, htc>> /\ stage[th] = "full" /\ th # "hif"
    BY <1>0, <1>2, <1>b DEF TxQueueFull, WakeQueues, Staged, countVars
  <2>2. /\ stage'[th] = "stop" => verdict'[th] = "keep"
        /\ \A u \in Threads : u # th => verdict'[u] = verdict[u]
    BY <1>0, <1>2 DEF TxQueueFull, Staged, DropsBypass, StopsBypass
  <2> QED BY <1>0, <1>c, <1>h, <2>1, <2>2
<1>3. CASE StopQueues(th)
  <2>1. /\ UNCHANGED <<flushing, htc, verdict>> /\ stage[th] = "stop" /\ stage'[th] = verdict[th]
    BY <1>0, <1>3, <1>b DEF StopQueues, Staged, countVars
  <2>2. stage'[th] = "keep"
    BY <1>h, <2>1
  <2> QED BY <1>0, <1>c, <1>h, <2>1, <2>2
<1>4. CASE KeepPkt(th)
  <2>1. UNCHANGED <<flushing, verdict>> /\ htc' # {} /\ stage'[th] = "go"
    BY <1>0, <1>4 DEF KeepPkt, Staged
  <2> QED BY <1>0, <1>c, <1>h, <2>1
<1>5. CASE DropPkt(th)
  <2>1. /\ UNCHANGED <<stopped, verdict, htc>> /\ stage[th] = "drop" /\ stage'[th] = "wake" /\ th # "hif"
        /\ Complete(th, {hand[th]}, "failed") /\ scenario' = scenario
    BY <1>0, <1>5, <1>b DEF DropPkt, WakeQueues, Staged, Complete, boundVars
  <2>2. flushing'["hif"] = flushing["hif"]
    BY <1>0, <2>1, CompleteType
  <2> QED BY <1>0, <1>c, <1>h, <2>1, <2>2
<1>6. CASE WakeQueues(th)
  <2>1. /\ UNCHANGED <<verdict, htc>> /\ stage[th] = "wake" /\ stage'[th] = "go"
        /\ flushing' = [flushing EXCEPT ![th] = Unset] /\ stopped' \subseteq stopped
    BY <1>0, <1>6 DEF WakeQueues, Staged, countVars
  <2>2. th # "hif" => flushing'["hif"] = flushing["hif"]
    BY <1>0, <1>h, <2>1
  <2>3. th = "hif" => FirstDev \notin stopped'
    BY <1>6, <1>h, <2>1, ScenarioType DEF WakeQueues, Wakes
  <2> QED BY <1>0, <1>c, <1>h, <2>1, <2>2, <2>3
<1> QED BY <1>1, <1>2, <1>3, <1>4, <1>5, <1>6

LEMMA TxCompleteResuming ==
    ASSUME CookieInv, Types, Resuming, NEW batch \in SUBSET htc, NEW status \in {"ok", "flushed", "failed"},
           TxComplete(batch, status)
    PROVE  Resuming'
<1>0. "hif" \in Threads /\ Staged
  BY DEF Threads, CookieInv
<1>1. /\ Complete("hif", batch, status) /\ (status # "ok" => scenario.faults) /\ batch # {}
      /\ UNCHANGED <<stopped, todo, verdict, scenario>>
  BY DEF TxComplete, boundVars
<1>2. /\ \A u \in Threads : stage'[u] = IF u = "hif" THEN "wake" ELSE stage[u]
      /\ stage'["hif"] = "wake"
  BY <1>0, <1>1 DEF Complete, Staged
<1>3. status = "ok" /\ scenario.net = "bypass" => flushing'["hif"][FirstDev] = "no"
  BY <1>0, <1>1, CompleteType
<1> QED BY <1>0, <1>1, <1>2, <1>3 DEF Resuming

LEMMA NextResuming == CookieInv /\ Types /\ Resuming /\ [Next]_vars => Resuming'
<1> SUFFICES ASSUME CookieInv, Types, Resuming, [Next]_vars PROVE Resuming'
  OBVIOUS
<1>0. "hif" \in Threads /\ Staged /\ todo \in [Threads -> Seq(UsableSteps)] /\ todo["hif"] = <<>>
  BY DEF Threads, CookieInv, Types, Resuming
<1>1. ASSUME NEW th \in Threads, ThreadStep(th) PROVE Resuming'
  <2>1. CASE \/ SendPkt(th) \/ TxQueueFull(th) \/ StopQueues(th) \/ KeepPkt(th) \/ DropPkt(th)
             \/ WakeQueues(th)
    BY <2>1, SendResuming
  <2>2. CASE ControlTx(th) \/ DataTx(th)
    <3>1. /\ UNCHANGED <<htc, stopped, scenario, flushing, verdict>> /\ todo[th] # <<>> /\ stage[th] = "go"
          /\ stage' = stage \/ stage' = [stage EXCEPT ![th] = "send"]
          /\ \E rest : todo' = [todo EXCEPT ![th] = rest]
      BY <2>2 DEF ControlTx, DataTx, Does, Continue, Allocate, boundVars
    <3>2. th # "hif" /\ todo'["hif"] = todo["hif"]
      BY <1>0, <3>1
    <3> QED BY <1>0, <3>1, <3>2, ResumingSame
  <2>3. CASE \/ IndicateActive(th) \/ IndicateInactive(th) \/ LookUpPipe(th)
             \/ CreatePstream(th) \/ DeletePstream(th) \/ SyncPoint(th) \/ ForgetTsid(th)
             \/ ReadMap(th) \/ WriteMap(th) \/ KeepThin(th)
    <3>1. /\ UNCHANGED <<htc, stopped, scenario, flushing, verdict, stage>> /\ todo[th] # <<>>
          /\ \E first : Continue(th, first)
      BY <2>3 DEF IndicateActive, IndicateInactive, LookUpPipe, CreatePstream, DeletePstream, SyncPoint,
                  ForgetTsid, ReadMap, WriteMap, KeepThin, countVars, sendVars, boundVars, Does
    <3>2. th # "hif" /\ todo'["hif"] = todo["hif"]
      BY <1>0, <3>1 DEF Continue
    <3> QED BY <1>0, <3>1, <3>2, ResumingSame
  <2> QED BY <1>1, <2>1, <2>2, <2>3 DEF ThreadStep
<1>2. ASSUME NEW batch \in SUBSET htc, NEW status \in {"ok", "flushed", "failed"}, TxComplete(batch, status)
      PROVE  Resuming'
  BY <1>2, TxCompleteResuming
<1>3. ASSUME UNCHANGED <<htc, stopped, scenario, flushing, verdict, stage>>,
             todo' = todo \/ \E th \in Threads \ {"hif"} : \E steps : Begin(th, steps)
      PROVE  Resuming'
  <2>1. todo'["hif"] = todo["hif"]
    BY <1>0, <1>3 DEF Begin
  <2> QED BY <1>0, <1>3, <2>1, ResumingSame
<1>4. ASSUME NEW d \in Devs, NEW ac \in ACs, NEW tag \in {"data", "control"}, StartTransmit(d, ac, tag)
      PROVE  Resuming'
  <2>1. d \in Threads \ {"hif"}
    BY DriverAssumption DEF Threads
  <2> QED BY <1>3, <1>4, <2>1 DEF StartTransmit, countVars, sendVars, boundVars
<1>5. ASSUME NEW ac, NEW tsid,
             \/ HostSleep \/ TargetTimesOut(ac) \/ PstreamTimeout(ac) \/ CacNoResponse(ac)
             \/ CreateQos(ac, tsid) \/ DeleteQos(ac, tsid)
             \/ CacRefused(ac, tsid) \/ CacDeleted(ac, tsid)
      PROVE  Resuming'
  <2>1. {"rx", "ioctl"} \subseteq Threads \ {"hif"}
    BY DEF Threads
  <2>2. todo' = todo \/ \E th \in {"rx", "ioctl"} : \E steps : Begin(th, steps)
    BY <1>5 DEF HostSleep, TargetTimesOut, PstreamTimeout, CacNoResponse, CreateQos, DeleteQos,
         CacRefused, CacDeleted, Ioctl
  <2>3. UNCHANGED <<htc, stopped, scenario, flushing, verdict, stage>>
    BY <1>5 DEF HostSleep, TargetTimesOut, PstreamTimeout, CacNoResponse, CreateQos, DeleteQos,
         CacRefused, CacDeleted, CacEvent, Ioctl, countVars, sendVars, boundVars
  <2> QED BY <1>3, <2>1, <2>2, <2>3
<1>6. CASE UNCHANGED vars
  BY <1>3, <1>6 DEF vars, countVars, sendVars, boundVars
<1> QED BY <1>1, <1>2, <1>4, <1>5, <1>6 DEF Next

LEMMA ResumingCorrect == Spec => []Resuming
  BY InitResuming, NextResuming, CookieInvCorrect, TypesCorrect, PTL DEF Spec

\* With bypasswmi, and transfers that succeed, the first device's network queue runs again once
\* everything is sent, though one thread stops it and another wakes it without a common lock.
THEOREM QueueResumesCorrect == Spec => []QueueResumes
<1>1. CookieInv /\ Resuming => QueueResumes
  BY DEF CookieInv, Staged, Resuming, QueueResumes, Quiet, Idle, Threads
<1> QED BY <1>1, CookieInvCorrect, ResumingCorrect, PTL

-----------------------------------------------------------------------------
(***************************************************************************)
(* Pipes, where only the code that holds the WMI lock changes the map.     *)
(* Then a transmit thread has one of six lists of steps before it          *)
(* (Simple); the command that creates a pipe is in the steps of one        *)
(* thread, or in one packet, or has become a pipe of the target or a       *)
(* timeout it reported, and in each case the bit is set (OnePipe); and a   *)
(* class that is active without its bit is about to be indicated inactive  *)
(* (Indicating).                                                           *)
(***************************************************************************)
DataOf(ac, tag) == Data(ac, tag)[1]
LookUpOf(ac) == Step("lookup", ac)[1]
CreateOf(ac) == OnStream("create", ac, Implicit)[1]
ActiveOf(ac) == Step("active", ac)[1]
CommandOf(ac) == Command("implicit", ac)[1]
InactiveOf(ac) == Step("inactive", ac)[1]

Transmitting(steps) ==
    \/ steps = <<>>
    \/ \E ac \in ACs, tag \in {"data", "control"} :
          \/ steps = <<DataOf(ac, tag)>>
          \/ steps = <<LookUpOf(ac), DataOf(ac, tag)>>
          \/ steps = <<CreateOf(ac), DataOf(ac, tag)>>
          \/ steps = <<ActiveOf(ac), CommandOf(ac), DataOf(ac, tag)>>
          \/ steps = <<CommandOf(ac), DataOf(ac, tag)>>

Simple ==
    /\ \A d \in Devs : Transmitting(todo[d])
    /\ todo["rx"] = <<>> \/ \E ac \in ACs : todo["rx"] = <<InactiveOf(ac)>>
    /\ todo["ioctl"] = <<>> /\ todo["hif"] = <<>>

Makes(steps, ac) ==
    \E i \in DOMAIN steps :
        steps[i].do = "command" /\ steps[i].what = "implicit" /\ steps[i].ac = ac
Made(c, ac) == c \in Cookies \ freeCookies /\ msg[c].cmd = "implicit" /\ msg[c].ac = ac

OnePipe(ac) ==
    /\ ac \notin fat => /\ \A th \in Threads : ~Makes(todo[th], ac)
                        /\ \A c \in Cookies : ~Made(c, ac)
                        /\ ac \notin pipes /\ ac \notin timeouts
    /\ \A th, u \in Threads : Makes(todo[th], ac) /\ Makes(todo[u], ac) => th = u
    /\ \A c, d \in Cookies : Made(c, ac) /\ Made(d, ac) => c = d
    /\ \A th \in Threads : Makes(todo[th], ac) => /\ \A c \in Cookies : ~Made(c, ac)
                                                  /\ ac \notin pipes /\ ac \notin timeouts
    /\ \A c \in Cookies : Made(c, ac) => ac \notin pipes /\ ac \notin timeouts
    /\ ~(ac \in pipes /\ ac \in timeouts)

Indicating == \A ac \in active : ac \in fat \/ todo["rx"] = <<InactiveOf(ac)>>

Pipes == Simple /\ (\A ac \in ACs : OnePipe(ac)) /\ Indicating

\* A sequence of up to three elements, as a tuple.
LEMMA TupleIs ==
    ASSUME NEW S, NEW s \in Seq(S)
    PROVE  /\ Len(s) = 1 => s = <<s[1]>>
           /\ Len(s) = 2 => s = <<s[1], s[2]>>
           /\ Len(s) = 3 => s = <<s[1], s[2], s[3]>>
<1>1. ASSUME Len(s) = 1 PROVE s = <<s[1]>>
  <2>1. <<s[1]>> \in Seq(S) /\ Len(<<s[1]>>) = 1 /\ \A i \in 1..1 : s[i] = <<s[1]>>[i]
    BY <1>1
  <2> QED BY <1>1, <2>1, SeqEqual
<1>2. ASSUME Len(s) = 2 PROVE s = <<s[1], s[2]>>
  <2>0. s[1] \in S /\ s[2] \in S
    <3>1. 1 \in 1..Len(s) /\ 2 \in 1..Len(s)
      BY <1>2
    <3> QED BY <3>1, ElementOfSeq
  <2>1. <<s[1], s[2]>> \in Seq(S) /\ Len(<<s[1], s[2]>>) = 2
    BY <2>0
  <2>2. <<s[1], s[2]>>[1] = s[1] /\ <<s[1], s[2]>>[2] = s[2]
    OBVIOUS
  <2>3. \A i \in 1..2 : i = 1 \/ i = 2
    OBVIOUS
  <2> QED BY <1>2, <2>1, <2>2, <2>3, SeqEqual
<1>3. ASSUME Len(s) = 3 PROVE s = <<s[1], s[2], s[3]>>
  <2>1. /\ <<s[1], s[2], s[3]>> \in Seq(S) /\ Len(<<s[1], s[2], s[3]>>) = 3
        /\ \A i \in 1..3 : s[i] = <<s[1], s[2], s[3]>>[i]
    BY <1>3
  <2> QED BY <1>3, <2>1, SeqEqual
<1> QED BY <1>1, <1>2, <1>3

LEMMA HeadsAndTails ==
    \A x, y, z : /\ Head(<<x>>) = x /\ Tail(<<x>>) = <<>>
                 /\ Head(<<x, y>>) = x /\ Tail(<<x, y>>) = <<y>>
                 /\ Head(<<x, y, z>>) = x /\ Tail(<<x, y, z>>) = <<y, z>>
                 /\ <<x>> # <<>> /\ <<x, y>> # <<>> /\ <<x, y, z>> # <<>>
<1> TAKE x, y, z
<1>1. /\ Head(<<x>>) = x /\ Tail(<<x>>) = <<>>
      /\ Head(<<x, y>>) = x /\ Head(<<x, y, z>>) = x
      /\ <<x>> # <<>> /\ <<x, y>> # <<>> /\ <<x, y, z>> # <<>>
  OBVIOUS
<1>2. Tail(<<x, y>>) = <<y>>
  OBVIOUS
<1>3. Tail(<<x, y, z>>) = <<y, z>>
  OBVIOUS
<1> QED BY <1>1, <1>2, <1>3, Zenon

LEMMA Joined ==
    \A x, y, z : /\ <<>> \o <<>> = <<>> /\ <<>> \o <<x>> = <<x>> /\ <<>> \o <<x, y>> = <<x, y>>
                 /\ <<x>> \o <<y>> = <<x, y>>
                 /\ <<x>> \o <<y, z>> = <<x, y, z>> /\ <<x, y>> \o <<z>> = <<x, y, z>>
<1> TAKE x, y, z
<1>4. <<>> \o <<>> = <<>> /\ <<>> \o <<x>> = <<x>> /\ <<>> \o <<x, y>> = <<x, y>>
  OBVIOUS
<1>5. <<x>> \o <<y>> = <<x, y>>
  <2>1. <<x>> \o <<y>> \in Seq({x, y, z}) /\ Len(<<x>> \o <<y>>) = 2
    OBVIOUS
  <2>2. (<<x>> \o <<y>>)[1] = x /\ (<<x>> \o <<y>>)[2] = y
    OBVIOUS
  <2> QED BY <2>1, <2>2, TupleIs
<1>6. <<x>> \o <<y, z>> = <<x, y, z>>
  <2>1. <<x>> \o <<y, z>> \in Seq({x, y, z}) /\ Len(<<x>> \o <<y, z>>) = 3
    OBVIOUS
  <2>2. (<<x>> \o <<y, z>>)[1] = x /\ (<<x>> \o <<y, z>>)[2] = y /\ (<<x>> \o <<y, z>>)[3] = z
    OBVIOUS
  <2> QED BY <2>1, <2>2, TupleIs
<1>7. <<x, y>> \o <<z>> = <<x, y, z>>
  <2>1. <<x, y>> \o <<z>> \in Seq({x, y, z}) /\ Len(<<x, y>> \o <<z>>) = 3
    OBVIOUS
  <2>2. (<<x, y>> \o <<z>>)[1] = x /\ (<<x, y>> \o <<z>>)[2] = y /\ (<<x, y>> \o <<z>>)[3] = z
    OBVIOUS
  <2> QED BY <2>1, <2>2, TupleIs
<1> QED BY <1>4, <1>5, <1>6, <1>7, Zenon

LEMMA StepsOf ==
    ASSUME NEW ac, NEW tag
    PROVE  /\ Data(ac, tag) = <<DataOf(ac, tag)>> /\ Step("lookup", ac) = <<LookUpOf(ac)>>
           /\ OnStream("create", ac, Implicit) = <<CreateOf(ac)>> /\ Step("active", ac) = <<ActiveOf(ac)>>
           /\ Command("implicit", ac) = <<CommandOf(ac)>> /\ Step("inactive", ac) = <<InactiveOf(ac)>>
           /\ DataOf(ac, tag).do = "data" /\ LookUpOf(ac).do = "lookup" /\ CreateOf(ac).do = "create"
           /\ ActiveOf(ac).do = "active" /\ CommandOf(ac).do = "command" /\ InactiveOf(ac).do = "inactive"
           /\ CommandOf(ac).what = "implicit" /\ CreateOf(ac).tsid = Implicit
           /\ DataOf(ac, tag).ac = ac /\ LookUpOf(ac).ac = ac /\ CreateOf(ac).ac = ac
           /\ ActiveOf(ac).ac = ac /\ CommandOf(ac).ac = ac /\ InactiveOf(ac).ac = ac
  BY DEF Data, Step, OnStream, Command, DataOf, LookUpOf, CreateOf, ActiveOf, CommandOf, InactiveOf

\* Which of the lists create a pipe.
LEMMA MakesOf ==
    ASSUME NEW a, NEW tag, NEW ac
    PROVE  /\ ~Makes(<<>>, ac) /\ ~Makes(<<DataOf(a, tag)>>, ac) /\ ~Makes(<<InactiveOf(a)>>, ac)
           /\ ~Makes(<<LookUpOf(a), DataOf(a, tag)>>, ac) /\ ~Makes(<<CreateOf(a), DataOf(a, tag)>>, ac)
           /\ Makes(<<ActiveOf(a), CommandOf(a), DataOf(a, tag)>>, ac) <=> a = ac
           /\ Makes(<<CommandOf(a), DataOf(a, tag)>>, ac) <=> a = ac
<1>1. \A x, y, z : /\ DOMAIN <<x>> = {1} /\ DOMAIN <<x, y>> = {1, 2} /\ DOMAIN <<x, y, z>> = {1, 2, 3}
                   /\ DOMAIN <<>> = {}
                   /\ <<x>>[1] = x /\ <<x, y>>[1] = x /\ <<x, y>>[2] = y
                   /\ <<x, y, z>>[1] = x /\ <<x, y, z>>[2] = y /\ <<x, y, z>>[3] = z
  OBVIOUS
<1> HIDE DEF DataOf, InactiveOf, LookUpOf, CreateOf, ActiveOf, CommandOf
<1>2. /\ ~Makes(<<>>, ac) /\ ~Makes(<<DataOf(a, tag)>>, ac) /\ ~Makes(<<InactiveOf(a)>>, ac)
  BY <1>1, StepsOf DEF Makes
<1>3. ~Makes(<<LookUpOf(a), DataOf(a, tag)>>, ac) /\ ~Makes(<<CreateOf(a), DataOf(a, tag)>>, ac)
  BY <1>1, StepsOf DEF Makes
<1>4. Makes(<<ActiveOf(a), CommandOf(a), DataOf(a, tag)>>, ac) <=> a = ac
  BY <1>1, StepsOf DEF Makes
<1>5. Makes(<<CommandOf(a), DataOf(a, tag)>>, ac) <=> a = ac
  BY <1>1, StepsOf DEF Makes
<1> QED BY <1>2, <1>3, <1>4, <1>5

LEMMA AfterCommand ==
    ASSUME NEW x, NEW y, IsCommand(x), ~IsCommand(y)
    PROVE  AfterCommands(<<x, y>>) = <<y>>
<1> DEFINE s == <<x, y>>
           First(i) == /\ \A j \in 1..(i - 1) : IsCommand(s[j])
                       /\ i \in DOMAIN s => ~IsCommand(s[i])
<1>1. Len(s) = 2 /\ DOMAIN s = 1..2 /\ s[1] = x /\ s[2] = y
  OBVIOUS
<1> HIDE DEF s
<1>2. First(2) /\ 2 \in 1..(Len(s) + 1)
  BY <1>1
<1>3. \A i \in 1..(Len(s) + 1) : First(i) => i = 2
  BY <1>1
<1> HIDE DEF First
<1>4. (CHOOSE i \in 1..(Len(s) + 1) : First(i)) = 2
  BY <1>2, <1>3
<1>5. AfterCommands(s) = SubSeq(s, 2, Len(s))
  BY <1>4 DEF AfterCommands, First
<1>6. SubSeq(s, 2, 2) = <<y>>
  <2>1. \A i \in 2..2 : s[i] \in {y}
    BY <1>1
  <2>2. /\ SubSeq(s, 2, 2) \in Seq({y}) /\ Len(SubSeq(s, 2, 2)) = 1
    BY <2>1, SubSeqProperties
  <2>3. SubSeq(s, 2, 2)[1] = y
    BY <2>2
  <2> QED BY <2>2, <2>3, TupleIs
<1> QED BY <1>1, <1>5, <1>6 DEF s

\* The lists of steps, thread by thread.
LEMMA Lists ==
    ASSUME Simple, NEW th \in Threads, todo[th] # <<>>
    PROVE  \E ac \in ACs, tag \in {"data", "control"} :
              \/ /\ th \in Devs
                 /\ \/ todo[th] = <<DataOf(ac, tag)>>
                    \/ todo[th] = <<LookUpOf(ac), DataOf(ac, tag)>>
                    \/ todo[th] = <<CreateOf(ac), DataOf(ac, tag)>>
                    \/ todo[th] = <<ActiveOf(ac), CommandOf(ac), DataOf(ac, tag)>>
                    \/ todo[th] = <<CommandOf(ac), DataOf(ac, tag)>>
              \/ th = "rx" /\ todo[th] = <<InactiveOf(ac)>>
  BY DEF Simple, Transmitting, Threads

LEMMA InitPipes == Init => Pipes
<1> SUFFICES ASSUME Init PROVE Pipes
  OBVIOUS
<1>1. Simple /\ Indicating
  BY DEF Init, Simple, Transmitting, Threads, Indicating
<1>2. \A th \in Threads, ac \in ACs : ~Makes(todo[th], ac)
  BY MakesOf DEF Init
<1> QED BY <1>1, <1>2 DEF Init, Pipes, OnePipe, Made

\* Nothing comes to be a pipe, and no bit is cleared.
LEMMA FewerPipes ==
    ASSUME Pipes, Simple', Indicating',
           \A th \in Threads, ac \in ACs : Makes(todo'[th], ac) => Makes(todo[th], ac),
           \A c \in Cookies, ac \in ACs : Made(c, ac)' => Made(c, ac),
           pipes' \subseteq pipes, timeouts' \subseteq timeouts, fat \subseteq fat'
    PROVE  Pipes'
<1> SUFFICES ASSUME NEW ac \in ACs PROVE OnePipe(ac)'
  BY DEF Pipes
<1>1. OnePipe(ac)
  BY DEF Pipes
<1>2. /\ \A th \in Threads : Makes(todo'[th], ac) => Makes(todo[th], ac)
      /\ \A c \in Cookies : Made(c, ac)' => Made(c, ac)
      /\ ac \in pipes' => ac \in pipes
      /\ ac \in timeouts' => ac \in timeouts
      /\ ac \notin fat' => ac \notin fat
  OBVIOUS
<1> HIDE DEF Makes, Made
<1> QED BY <1>1, <1>2 DEF OnePipe

LEMMA MadeSame ==
    ASSUME NEW c, NEW ac, freeCookies' = freeCookies, msg' = msg
    PROVE  Made(c, ac)' <=> Made(c, ac)
  BY DEF Made

\* Steps that leave lists, bits and packets alone.
LEMMA SamePipes ==
    ASSUME Pipes, todo' = todo, UNCHANGED <<active, fat>>, pipes' \subseteq pipes, timeouts' \subseteq timeouts,
           \A c \in Cookies, ac \in ACs : Made(c, ac)' => Made(c, ac)
    PROVE  Pipes'
<1>1. Simple' /\ Indicating'
  BY DEF Pipes, Simple, Transmitting, Indicating
<1> QED BY <1>1, FewerPipes

\* A transmit thread goes on with steps that create nothing new.
LEMMA ForwardPipes ==
    ASSUME Pipes, Types, NEW th \in Devs, Transmitting(todo'[th]),
           \A u \in Threads : u # th => todo'[u] = todo[u],
           \A ac \in ACs : Makes(todo'[th], ac) => Makes(todo[th], ac),
           fat' = fat, active' \subseteq active \cup fat, UNCHANGED targetVars,
           \A c \in Cookies, ac \in ACs : Made(c, ac)' => Made(c, ac)
    PROVE  Pipes'
<1>1. th \in Threads /\ th \notin {"rx", "ioctl", "hif"} /\ {"rx", "ioctl", "hif"} \cup Devs = Threads
  BY DriverAssumption DEF Threads
<1>2. Simple'
  BY <1>1 DEF Pipes, Simple
<1>3. Indicating'
  BY <1>1 DEF Pipes, Indicating
<1>4. \A u \in Threads, ac \in ACs : Makes(todo'[u], ac) => Makes(todo[u], ac)
  OBVIOUS
<1> QED BY <1>2, <1>3, <1>4, FewerPipes DEF targetVars

LEMMA ListFacts ==
    ASSUME NEW ac \in ACs, NEW tag \in {"data", "control"}
    PROVE  /\ Transmitting(<<>>) /\ Transmitting(<<DataOf(ac, tag)>>)
           /\ Transmitting(<<LookUpOf(ac), DataOf(ac, tag)>>)
           /\ Transmitting(<<CreateOf(ac), DataOf(ac, tag)>>)
           /\ Transmitting(<<ActiveOf(ac), CommandOf(ac), DataOf(ac, tag)>>)
           /\ Transmitting(<<CommandOf(ac), DataOf(ac, tag)>>)
  BY DEF Transmitting

\* The lists by the step at their head, and what the thread goes on with.
LEMMA ListByHead ==
    ASSUME Simple, NEW th \in Threads, todo[th] # <<>>
    PROVE  \E ac \in ACs, tag \in {"data", "control"} :
              /\ Now(th).ac = ac
              /\ \/ /\ th \in Devs /\ Now(th).do = "data" /\ Tail(todo[th]) = <<>>
                    /\ todo[th] = <<DataOf(ac, tag)>>
                 \/ /\ th \in Devs /\ Now(th).do = "lookup" /\ Tail(todo[th]) = <<DataOf(ac, tag)>>
                    /\ todo[th] = <<LookUpOf(ac), DataOf(ac, tag)>>
                 \/ /\ th \in Devs /\ Now(th).do = "create" /\ Tail(todo[th]) = <<DataOf(ac, tag)>>
                    /\ Now(th).tsid = Implicit
                    /\ todo[th] = <<CreateOf(ac), DataOf(ac, tag)>>
                 \/ /\ th \in Devs /\ Now(th).do = "active"
                    /\ Tail(todo[th]) = <<CommandOf(ac), DataOf(ac, tag)>>
                    /\ todo[th] = <<ActiveOf(ac), CommandOf(ac), DataOf(ac, tag)>>
                 \/ /\ th \in Devs /\ Now(th).do = "command" /\ Now(th).what = "implicit"
                    /\ Tail(todo[th]) = <<DataOf(ac, tag)>>
                    /\ todo[th] = <<CommandOf(ac), DataOf(ac, tag)>>
                    /\ AfterCommands(todo[th]) = <<DataOf(ac, tag)>>
                 \/ /\ th = "rx" /\ Now(th).do = "inactive" /\ Tail(todo[th]) = <<>>
                    /\ todo[th] = <<InactiveOf(ac)>>
<1>1. PICK ac \in ACs, tag \in {"data", "control"} :
              \/ /\ th \in Devs
                 /\ \/ todo[th] = <<DataOf(ac, tag)>>
                    \/ todo[th] = <<LookUpOf(ac), DataOf(ac, tag)>>
                    \/ todo[th] = <<CreateOf(ac), DataOf(ac, tag)>>
                    \/ todo[th] = <<ActiveOf(ac), CommandOf(ac), DataOf(ac, tag)>>
                    \/ todo[th] = <<CommandOf(ac), DataOf(ac, tag)>>
              \/ th = "rx" /\ todo[th] = <<InactiveOf(ac)>>
  BY Lists
<1>2. AfterCommands(<<CommandOf(ac), DataOf(ac, tag)>>) = <<DataOf(ac, tag)>>
  BY AfterCommand, StepsOf DEF IsCommand
<1>4. /\ DataOf(ac, tag).do = "data" /\ LookUpOf(ac).do = "lookup" /\ CreateOf(ac).do = "create"
      /\ ActiveOf(ac).do = "active" /\ CommandOf(ac).do = "command" /\ InactiveOf(ac).do = "inactive"
      /\ CommandOf(ac).what = "implicit" /\ CreateOf(ac).tsid = Implicit
      /\ DataOf(ac, tag).ac = ac /\ LookUpOf(ac).ac = ac /\ CreateOf(ac).ac = ac
      /\ ActiveOf(ac).ac = ac /\ CommandOf(ac).ac = ac /\ InactiveOf(ac).ac = ac
  BY StepsOf
<1>5. CASE th \in Devs /\ todo[th] = <<DataOf(ac, tag)>>
  <2>1. Now(th) = DataOf(ac, tag) /\ Tail(todo[th]) = <<>>
    BY HeadsAndTails, <1>5 DEF Now
  <2> QED BY <1>4, <1>5, <2>1
<1>6. CASE th \in Devs /\ todo[th] = <<LookUpOf(ac), DataOf(ac, tag)>>
  <2>1. Now(th) = LookUpOf(ac) /\ Tail(todo[th]) = <<DataOf(ac, tag)>>
    BY HeadsAndTails, <1>6 DEF Now
  <2> QED BY <1>4, <1>6, <2>1
<1>7. CASE th \in Devs /\ todo[th] = <<CreateOf(ac), DataOf(ac, tag)>>
  <2>1. Now(th) = CreateOf(ac) /\ Tail(todo[th]) = <<DataOf(ac, tag)>>
    BY HeadsAndTails, <1>7 DEF Now
  <2> QED BY <1>4, <1>7, <2>1
<1>8. CASE th \in Devs /\ todo[th] = <<ActiveOf(ac), CommandOf(ac), DataOf(ac, tag)>>
  <2>1. Now(th) = ActiveOf(ac) /\ Tail(todo[th]) = <<CommandOf(ac), DataOf(ac, tag)>>
    BY HeadsAndTails, <1>8 DEF Now
  <2> QED BY <1>4, <1>8, <2>1
<1>9. CASE th \in Devs /\ todo[th] = <<CommandOf(ac), DataOf(ac, tag)>>
  <2>1. Now(th) = CommandOf(ac) /\ Tail(todo[th]) = <<DataOf(ac, tag)>>
    BY HeadsAndTails, <1>9 DEF Now
  <2> QED BY <1>2, <1>4, <1>9, <2>1
<1>10. CASE th = "rx" /\ todo[th] = <<InactiveOf(ac)>>
  <2>1. Now(th) = InactiveOf(ac) /\ Tail(todo[th]) = <<>>
    BY HeadsAndTails, <1>10 DEF Now
  <2> QED BY <1>4, <1>10, <2>1
<1> QED BY <1>1, <1>5, <1>6, <1>7, <1>8, <1>9, <1>10

\* The packet that was allocated is the only new one.
LEMMA MadeByAllocate ==
    ASSUME CookieInv, Types, NEW th \in Threads, NEW m, Allocate(th, m)
    PROVE  \E d \in Cookies : \A c \in Cookies, ac \in ACs :
              /\ ~Made(d, ac)
              /\ Made(c, ac)' => Made(c, ac) \/ (c = d /\ m.cmd = "implicit" /\ m.ac = ac)
<1>1. PICK d \in freeCookies : freeCookies' = freeCookies \ {d} /\ msg' = [msg EXCEPT ![d] = m]
  BY DEF Allocate
<1>2. d \in Cookies /\ d \in freeCookies
  BY DEF CookieInv, Staged
<1>3. \A c \in Cookies : msg'[c] = IF c = d THEN m ELSE msg[c]
  BY <1>1 DEF Types
<1> QED BY <1>1, <1>2, <1>3 DEF Made

LEMMA ThreadPipes ==
    ASSUME CookieInv, Types, Pipes, NEW th \in Threads, ThreadStep(th), ~DropPkt(th)
    PROVE  Pipes'
<1> USE DEF Does
<1>0. Simple /\ todo \in [Threads -> Seq(UsableSteps)] /\ fat \subseteq ACs /\ <<>> \in Seq(UsableSteps)
  BY DEF Pipes, Types
<1>s. CASE SendPkt(th) \/ TxQueueFull(th) \/ StopQueues(th) \/ KeepPkt(th) \/ WakeQueues(th)
  <2>1. todo' = todo /\ UNCHANGED <<active, fat, pipes, timeouts, freeCookies, msg>>
    BY <1>s DEF SendPkt, TxQueueFull, StopQueues, KeepPkt, WakeQueues, countVars, activeVars, wmiVars, targetVars
  <2> QED BY <2>1, MadeSame, SamePipes
<1>c. ASSUME todo[th] # <<>>, NEW ac \in ACs, NEW tag \in {"data", "control"}, Now(th).ac = ac,
             \/ /\ th \in Devs /\ Now(th).do = "data" /\ Tail(todo[th]) = <<>>
                /\ todo[th] = <<DataOf(ac, tag)>>
             \/ /\ th \in Devs /\ Now(th).do = "lookup" /\ Tail(todo[th]) = <<DataOf(ac, tag)>>
                /\ todo[th] = <<LookUpOf(ac), DataOf(ac, tag)>>
             \/ /\ th \in Devs /\ Now(th).do = "create" /\ Tail(todo[th]) = <<DataOf(ac, tag)>>
                /\ Now(th).tsid = Implicit
                /\ todo[th] = <<CreateOf(ac), DataOf(ac, tag)>>
             \/ /\ th \in Devs /\ Now(th).do = "active"
                /\ Tail(todo[th]) = <<CommandOf(ac), DataOf(ac, tag)>>
                /\ todo[th] = <<ActiveOf(ac), CommandOf(ac), DataOf(ac, tag)>>
             \/ /\ th \in Devs /\ Now(th).do = "command" /\ Now(th).what = "implicit"
                /\ Tail(todo[th]) = <<DataOf(ac, tag)>>
                /\ todo[th] = <<CommandOf(ac), DataOf(ac, tag)>>
                /\ AfterCommands(todo[th]) = <<DataOf(ac, tag)>>
             \/ /\ th = "rx" /\ Now(th).do = "inactive" /\ Tail(todo[th]) = <<>>
                /\ todo[th] = <<InactiveOf(ac)>>,
             ~(SendPkt(th) \/ TxQueueFull(th) \/ StopQueues(th) \/ KeepPkt(th) \/ WakeQueues(th))
      PROVE  Pipes'
  <2> HIDE DEF DataOf, LookUpOf, CreateOf, ActiveOf, CommandOf, InactiveOf
  <2>l. Transmitting(<<>>) /\ Transmitting(<<DataOf(ac, tag)>>)
    BY ListFacts
  <2>m. \A a \in ACs : ~Makes(<<>>, a) /\ ~Makes(<<DataOf(ac, tag)>>, a)
    BY MakesOf
  <2>k. \A a \in ACs : /\ ~Makes(<<LookUpOf(ac), DataOf(ac, tag)>>, a)
                       /\ ~Makes(<<CreateOf(ac), DataOf(ac, tag)>>, a)
                       /\ Makes(<<ActiveOf(ac), CommandOf(ac), DataOf(ac, tag)>>, a) <=> ac = a
                       /\ Makes(<<CommandOf(ac), DataOf(ac, tag)>>, a) <=> ac = a
    BY MakesOf
  <2>p. /\ <<>> \o <<>> = <<>>
        /\ <<>> \o <<DataOf(ac, tag)>> = <<DataOf(ac, tag)>>
        /\ <<CreateOf(ac)>> \o <<DataOf(ac, tag)>> = <<CreateOf(ac), DataOf(ac, tag)>>
        /\ <<>> \o <<CommandOf(ac), DataOf(ac, tag)>> = <<CommandOf(ac), DataOf(ac, tag)>>
        /\ <<ActiveOf(ac), CommandOf(ac)>> \o <<DataOf(ac, tag)>> = <<ActiveOf(ac), CommandOf(ac), DataOf(ac, tag)>>
    BY Joined, ZenonT(30)
  <2>f. /\ Transmitting(<<CreateOf(ac), DataOf(ac, tag)>>)
        /\ Transmitting(<<ActiveOf(ac), CommandOf(ac), DataOf(ac, tag)>>)
        /\ Transmitting(<<CommandOf(ac), DataOf(ac, tag)>>)
    BY ListFacts
  <2>t. \A first \in Seq(UsableSteps) : Continue(th, first) =>
           /\ todo'[th] = first \o Tail(todo[th]) /\ \A u \in Threads : u # th => todo'[u] = todo[u]
    BY <1>c, ContinueType
  <2>1. CASE Now(th).do = "data"
    <3> DEFINE m == [ep |-> Now(th).ac, tag |-> Now(th).what, cmd |-> "none", ac |-> NoAC,
                     dev |-> serves[th]]
    <3>1. DataTx(th) /\ th \in Devs /\ Tail(todo[th]) = <<>>
      BY <1>c, <2>1 DEF ThreadStep, ControlTx, IndicateActive, IndicateInactive, LookUpPipe, CreatePstream,
                DeletePstream, SyncPoint, ForgetTsid, ReadMap, WriteMap, KeepThin, Now
    <3>2. /\ Continue(th, <<>>) /\ UNCHANGED <<activeVars, wmiVars, targetVars>>
          /\ \/ Allocate(th, m)
             \/ UNCHANGED <<freeCookies, msg>>
      BY <3>1 DEF DataTx
    <3>3. todo'[th] = <<>> /\ \A u \in Threads : u # th => todo'[u] = todo[u]
      BY <1>0, <2>t, <3>1, <3>2, <2>p
    <3>4. \A c \in Cookies, a \in ACs : Made(c, a)' => Made(c, a)
      <4>1. CASE UNCHANGED <<freeCookies, msg>>
        BY <4>1, MadeSame
      <4>2. CASE Allocate(th, m)
        BY <4>2, MadeByAllocate
      <4> QED BY <3>2, <4>1, <4>2
    <3> QED BY <2>l, <2>m, <3>1, <3>2, <3>3, <3>4, ForwardPipes DEF activeVars, wmiVars
  <2>2. CASE Now(th).do = "lookup"
    <3>1. LookUpPipe(th) /\ th \in Devs /\ Tail(todo[th]) = <<DataOf(ac, tag)>>
      BY <1>c, <2>2 DEF ThreadStep, ControlTx, DataTx, IndicateActive, IndicateInactive, CreatePstream,
                DeletePstream, SyncPoint, ForgetTsid, ReadMap, WriteMap, KeepThin, Now
    <3>2. /\ Continue(th, IF ac \in fat THEN <<>> ELSE OnStream("create", ac, Implicit))
          /\ UNCHANGED <<activeVars, wmiVars, targetVars, freeCookies, msg>>
      BY <1>c, <3>1 DEF LookUpPipe, countVars
    <3>3. OnStream("create", ac, Implicit) \in Seq(UsableSteps) /\ OnStream("create", ac, Implicit) = <<CreateOf(ac)>>
      BY StepTypes, StepsOf
    <3>4. /\ todo'[th] \in {<<DataOf(ac, tag)>>, <<CreateOf(ac), DataOf(ac, tag)>>}
          /\ \A u \in Threads : u # th => todo'[u] = todo[u]
      BY <1>0, <2>t, <3>1, <3>2, <3>3, <2>p
    <3>5. Transmitting(todo'[th]) /\ \A a \in ACs : ~Makes(todo'[th], a)
      BY <3>4, <2>f, <2>k, <2>l, <2>m
    <3>6. \A c \in Cookies, a \in ACs : Made(c, a)' => Made(c, a)
      BY <3>2, MadeSame
    <3> QED BY <3>1, <3>2, <3>4, <3>5, <3>6, ForwardPipes DEF activeVars, wmiVars
  <2>3. CASE Now(th).do = "create"
    <3>1. CreatePstream(th) /\ th \in Devs /\ Tail(todo[th]) = <<DataOf(ac, tag)>> /\ Now(th).tsid = Implicit
      BY <1>c, <2>3 DEF ThreadStep, ControlTx, DataTx, IndicateActive, IndicateInactive, LookUpPipe,
                DeletePstream, SyncPoint, ForgetTsid, ReadMap, WriteMap, KeepThin, Now
    <3>2. /\ UNCHANGED <<activeVars, targetVars, freeCookies, msg>>
          /\ \/ ac \in fat /\ Continue(th, <<>>) /\ UNCHANGED wmiVars
             \/ ac \notin fat /\ fat' = fat \cup {ac} /\ Continue(th, CreateSteps(ac, "implicit"))
      BY <1>c, <3>1 DEF CreatePstream, AlreadyThere, countVars
    <3>3. \A c \in Cookies, a \in ACs : Made(c, a)' <=> Made(c, a)
      BY <3>2, MadeSame
    <3>4. CASE ac \in fat /\ Continue(th, <<>>) /\ UNCHANGED wmiVars
      <4>1. todo'[th] = <<DataOf(ac, tag)>> /\ \A u \in Threads : u # th => todo'[u] = todo[u]
        BY <1>0, <2>t, <3>1, <3>4, <2>p
      <4> QED BY <2>l, <2>m, <3>1, <3>2, <3>3, <3>4, <4>1, ForwardPipes DEF activeVars, wmiVars
    <3>5. CASE ac \notin fat /\ fat' = fat \cup {ac} /\ Continue(th, CreateSteps(ac, "implicit"))
      <4>1. /\ CreateSteps(ac, "implicit") = <<ActiveOf(ac), CommandOf(ac)>>
            /\ CreateSteps(ac, "implicit") \in Seq(UsableSteps)
        <5>1. /\ Step("active", ac) = <<ActiveOf(ac)>> /\ Command("implicit", ac) = <<CommandOf(ac)>>
              /\ Step("active", ac) \in Seq(UsableSteps) /\ Command("implicit", ac) \in Seq(UsableSteps)
          BY StepTypes, StepsOf DEF Kinds
        <5> QED BY <3>5, <5>1, ConcatType, Joined DEF CreateSteps
      <4>2. /\ todo'[th] = <<ActiveOf(ac), CommandOf(ac), DataOf(ac, tag)>>
            /\ \A u \in Threads : u # th => todo'[u] = todo[u]
        BY <2>t, <3>1, <3>5, <4>1, <2>p
      <4>3. /\ \A u \in Threads, a \in ACs : a # ac => (Makes(todo'[u], a) => Makes(todo[u], a))
            /\ \A u \in Threads : Makes(todo'[u], ac) => u = th \/ Makes(todo[u], ac)
        BY <2>k, <2>t, <4>2
      <4>4. th \in Threads /\ th \notin {"rx", "ioctl", "hif"} /\ {"rx", "ioctl", "hif"} \cup Devs = Threads
        BY <3>1, DriverAssumption DEF Threads
      <4>5. Simple' /\ Indicating'
        BY <3>2, <3>5, <4>2, <4>4, <2>f DEF Pipes, Simple, Indicating, activeVars
      <4>6. ASSUME NEW a \in ACs PROVE OnePipe(a)'
        <5>1. OnePipe(a) /\ pipes' = pipes /\ timeouts' = timeouts
          BY <3>2 DEF Pipes, targetVars
        <5>2. CASE a # ac
          BY <3>3, <3>5, <4>3, <5>1, <5>2 DEF OnePipe
        <5>3. CASE a = ac
          <6>1. /\ \A u \in Threads : ~Makes(todo[u], a)
                /\ \A c \in Cookies : ~Made(c, a)
                /\ a \notin pipes /\ a \notin timeouts
            BY <3>5, <5>1, <5>3 DEF OnePipe
          <6> QED BY <3>3, <3>5, <4>3, <5>1, <5>3, <6>1 DEF OnePipe
        <5> QED BY <5>2, <5>3
      <4> QED BY <4>5, <4>6 DEF Pipes
    <3> QED BY <3>2, <3>4, <3>5
  <2>4. CASE Now(th).do = "active"
    <3>1. /\ IndicateActive(th) /\ th \in Devs /\ Tail(todo[th]) = <<CommandOf(ac), DataOf(ac, tag)>>
          /\ todo[th] = <<ActiveOf(ac), CommandOf(ac), DataOf(ac, tag)>>
      BY <1>c, <2>4 DEF ThreadStep, ControlTx, DataTx, CreatePstream, IndicateInactive, LookUpPipe,
                DeletePstream, SyncPoint, ForgetTsid, ReadMap, WriteMap, KeepThin, Now
    <3>2. /\ Continue(th, <<>>) /\ active' = active \cup {ac}
          /\ UNCHANGED <<wmiVars, targetVars, freeCookies, msg>>
      BY <1>c, <3>1 DEF IndicateActive, countVars
    <3>3. todo'[th] = <<CommandOf(ac), DataOf(ac, tag)>> /\ \A u \in Threads : u # th => todo'[u] = todo[u]
      BY <1>0, <2>t, <3>1, <3>2, <2>p
    <3>4. Transmitting(todo'[th]) /\ \A a \in ACs : Makes(todo'[th], a) => Makes(todo[th], a)
      BY <3>1, <3>3, <2>f, <2>k, <2>l, <2>m
    <3>5. ac \in fat
      <4>1. Makes(todo[th], ac)
        BY <3>1, <2>k
      <4> QED BY <4>1 DEF Pipes, OnePipe
    <3>6. \A c \in Cookies, a \in ACs : Made(c, a)' => Made(c, a)
      BY <3>2, MadeSame
    <3> QED BY <3>1, <3>2, <3>3, <3>4, <3>5, <3>6, ForwardPipes DEF wmiVars
  <2>5. CASE Now(th).do = "command"
    <3> DEFINE m == [ep |-> Control, tag |-> "control", cmd |-> Now(th).what, ac |-> Now(th).ac,
                     dev |-> serves[th]]
    <3>1. /\ ControlTx(th) /\ th \in Devs /\ Tail(todo[th]) = <<DataOf(ac, tag)>>
          /\ todo[th] = <<CommandOf(ac), DataOf(ac, tag)>> /\ AfterCommands(todo[th]) = <<DataOf(ac, tag)>>
      BY <1>c, <2>5 DEF ThreadStep, IndicateActive, DataTx, CreatePstream, IndicateInactive, LookUpPipe,
                DeletePstream, SyncPoint, ForgetTsid, ReadMap, WriteMap, KeepThin, Now
    <3>2. /\ UNCHANGED <<activeVars, wmiVars, targetVars>>
          /\ \/ UNCHANGED <<freeCookies, msg>> /\ todo' = [todo EXCEPT ![th] = AfterCommands(@)]
             \/ Allocate(th, m) /\ Continue(th, <<>>)
      BY <2>5, <3>1 DEF ControlTx
    <3>m. m.cmd = "implicit" /\ m.ac = ac
      BY <1>c, <2>5
    <3> HIDE DEF m
    <3>3. todo'[th] = <<DataOf(ac, tag)>> /\ \A u \in Threads : u # th => todo'[u] = todo[u]
      BY <1>0, <2>t, <3>1, <3>2, <2>p
    <3>4. CASE UNCHANGED <<freeCookies, msg>>
      <4>1. \A c \in Cookies, a \in ACs : Made(c, a)' => Made(c, a)
        BY <3>4, MadeSame
      <4> QED BY <2>l, <2>m, <3>1, <3>2, <3>3, <4>1, ForwardPipes DEF activeVars, wmiVars
    <3>5. CASE Allocate(th, m)
      <4>1. PICK d \in Cookies : \A c \in Cookies, a \in ACs :
               Made(c, a)' => Made(c, a) \/ (c = d /\ a = ac)
        BY <3>5, <3>m, MadeByAllocate
      <4>2. /\ Makes(todo[th], ac) /\ \A a \in ACs : ~Makes(todo'[th], a)
        BY <2>m, <3>1, <3>3, <2>k
      <4>4. th \in Threads /\ th \notin {"rx", "ioctl", "hif"} /\ {"rx", "ioctl", "hif"} \cup Devs = Threads
        BY <3>1, DriverAssumption DEF Threads
      <4>5. Simple' /\ Indicating'
        BY <2>l, <3>2, <3>3, <4>4 DEF Pipes, Simple, Indicating, activeVars, wmiVars
      <4>6. ASSUME NEW a \in ACs PROVE OnePipe(a)'
        <5>1. OnePipe(a) /\ pipes' = pipes /\ timeouts' = timeouts /\ fat' = fat
          BY <3>2 DEF Pipes, targetVars, wmiVars
        <5>2. CASE a # ac
          BY <3>3, <4>1, <4>2, <5>1, <5>2 DEF OnePipe
        <5>3. CASE a = ac
          <6>1. /\ \A u \in Threads : Makes(todo[u], a) => u = th
                /\ \A c \in Cookies : ~Made(c, a)
                /\ a \notin pipes /\ a \notin timeouts /\ a \in fat
            BY <4>2, <5>1, <5>3 DEF OnePipe
          <6>2. \A u \in Threads : ~Makes(todo'[u], a)
            BY <3>3, <4>2, <6>1
          <6>3. \A c \in Cookies : Made(c, a)' => c = d
            BY <4>1, <6>1
          <6> QED BY <5>1, <6>1, <6>2, <6>3 DEF OnePipe
        <5> QED BY <5>2, <5>3
      <4> QED BY <4>5, <4>6 DEF Pipes
    <3> QED BY <3>2, <3>4, <3>5
  <2>6. CASE Now(th).do = "inactive"
    <3>1. /\ IndicateInactive(th) /\ th = "rx" /\ Tail(todo[th]) = <<>> /\ todo[th] = <<InactiveOf(ac)>>
      BY <1>c, <2>6 DEF ThreadStep, ControlTx, DataTx, CreatePstream, IndicateActive, LookUpPipe,
                DeletePstream, SyncPoint, ForgetTsid, ReadMap, WriteMap, KeepThin, Now
    <3>2. /\ Continue(th, <<>>) /\ active' = active \ {ac}
          /\ UNCHANGED <<wmiVars, targetVars, freeCookies, msg>>
      BY <1>c, <3>1 DEF IndicateInactive, countVars
    <3>3. todo'[th] = <<>> /\ \A u \in Threads : u # th => todo'[u] = todo[u]
      BY <1>0, <2>t, <3>1, <3>2, <2>p
    <3>4. {"rx", "ioctl", "hif"} \cup Devs = Threads /\ th = "rx" /\ th \notin Devs
      BY <3>1, DriverAssumption DEF Threads
    <3>5. Simple'
      BY <3>3, <3>4 DEF Pipes, Simple
    <3>6. \A a \in ACs : InactiveOf(a) = InactiveOf(ac) => a = ac
      BY StepsOf
    <3>7. Indicating'
      <4> SUFFICES ASSUME NEW a \in active, a # ac PROVE a \in fat
        BY <3>2 DEF Indicating, wmiVars
      <4>1. a \in ACs /\ (a \in fat \/ <<InactiveOf(ac)>> = <<InactiveOf(a)>>)
        BY <3>1 DEF Pipes, Indicating, Types
      <4>2. <<InactiveOf(ac)>> = <<InactiveOf(a)>> => InactiveOf(ac) = InactiveOf(a)
        OBVIOUS
      <4> QED BY <3>6, <4>1, <4>2
    <3>8. \A u \in Threads, a \in ACs : Makes(todo'[u], a) => Makes(todo[u], a)
      BY <2>m, <3>3
    <3>9. \A c \in Cookies, a \in ACs : Made(c, a)' => Made(c, a)
      BY <3>2, MadeSame
    <3> QED BY <3>2, <3>5, <3>7, <3>8, <3>9, FewerPipes DEF wmiVars, targetVars
  <2> QED BY <1>c, <2>1, <2>2, <2>3, <2>4, <2>5, <2>6
<1>d. ~(SendPkt(th) \/ TxQueueFull(th) \/ StopQueues(th) \/ KeepPkt(th) \/ WakeQueues(th)) => todo[th] # <<>>
  BY DEF ThreadStep, ControlTx, DataTx, IndicateActive, IndicateInactive, LookUpPipe, CreatePstream,
                DeletePstream, SyncPoint, ForgetTsid, ReadMap, WriteMap, KeepThin
<1> QED BY <1>0, <1>s, <1>c, <1>d, ListByHead

\* A completed packet makes nothing any more; the one that succeeds was the only one.
LEMMA TxCompletePipes ==
    ASSUME CookieInv, Types, Pipes, NEW batch \in SUBSET htc, NEW status \in {"ok", "flushed", "failed"},
           TxComplete(batch, status)
    PROVE  Pipes'
<1> DEFINE first == CHOOSE c \in batch : TRUE
           m == msg[first]
<1>1. /\ Complete("hif", batch, status) /\ batch # {}
      /\ UNCHANGED <<active, fat, timeouts, todo>>
      /\ pipes' = IF status = "ok" THEN Learns(m) ELSE pipes
  BY DEF TxComplete, activeVars, wmiVars
<1>2. first \in batch
  BY <1>1
<1>3. \A c \in Cookies, ac \in ACs : Made(c, ac)' => Made(c, ac) /\ c \notin batch
  <2>1. freeCookies' = freeCookies \cup batch /\ msg' = [c \in Cookies |-> IF c \in batch THEN NoMsg ELSE msg[c]]
    BY <1>1 DEF Complete, Reaped
  <2> QED BY <2>1 DEF Made
<1>4. m \in SendableMsgs /\ first \in Cookies \ freeCookies
  BY <1>2 DEF Types, CookieInv, Staged, CookiesAccounted
<1> HIDE DEF first
<1>5. CASE status # "ok" \/ m.cmd \in {"none", "sleep", "explicit"}
  <2>1. pipes' \subseteq pipes
    BY <1>1, <1>5 DEF Learns
  <2> QED BY <1>1, <1>3, <2>1, SamePipes
<1>6. CASE status = "ok" /\ m.cmd = "implicit"
  <2>1. pipes' = pipes \cup {m.ac}
    BY <1>1, <1>6 DEF Learns
  <2>2. m.ac \in ACs /\ Made(first, m.ac)
    BY <1>4, <1>6 DEF SendableMsgs, Sendable, Made
  <2> HIDE DEF m
  <2>3. Simple' /\ Indicating'
    BY <1>1 DEF Pipes, Simple, Transmitting, Indicating
  <2>4. ASSUME NEW ac \in ACs PROVE OnePipe(ac)'
    <3>1. OnePipe(ac)
      BY DEF Pipes
    <3>2. CASE ac # m.ac
      BY <1>1, <1>3, <2>1, <3>1, <3>2 DEF OnePipe
    <3>3. CASE ac = m.ac
      <4>1. /\ ac \in fat /\ ac \notin timeouts
            /\ \A th \in Threads : ~Makes(todo[th], ac)
            /\ \A c \in Cookies : Made(c, ac) => c = first
        BY <1>4, <2>2, <3>1, <3>3 DEF OnePipe
      <4>2. \A c \in Cookies : ~Made(c, ac)'
        BY <1>2, <1>3, <4>1
      <4> QED BY <1>1, <4>1, <4>2 DEF OnePipe
    <3> QED BY <3>2, <3>3
  <2> QED BY <2>3, <2>4 DEF Pipes
<1>7. m.cmd \in {"none", "implicit", "explicit", "sleep"}
  BY <1>4 DEF SendableMsgs, Msgs
<1> QED BY <1>5, <1>6, <1>7

LEMMA DropPipes ==
    ASSUME CookieInv, Types, Pipes, NEW th \in Threads, DropPkt(th)
    PROVE  Pipes'
<1>1. /\ Complete(th, {hand[th]}, "failed")
      /\ UNCHANGED <<active, fat, pipes, timeouts, todo>>
  BY DEF DropPkt, activeVars, wmiVars, targetVars
<1>2. \A c \in Cookies, ac \in ACs : Made(c, ac)' => Made(c, ac)
  <2>1. /\ freeCookies' = freeCookies \cup {hand[th]}
        /\ msg' = [c \in Cookies |-> IF c \in {hand[th]} THEN NoMsg ELSE msg[c]]
    BY <1>1 DEF Complete, Reaped
  <2> QED BY <2>1 DEF Made
<1> QED BY <1>1, <1>2, SamePipes

LEMMA StartPipes ==
    ASSUME Types, Pipes, NEW d \in Devs, NEW ac \in ACs, NEW tag \in {"data", "control"},
           StartTransmit(d, ac, tag)
    PROVE  Pipes'
<1>1. d \in Threads /\ UNCHANGED <<active, fat, targetVars, freeCookies, msg>>
  BY DEF Threads, StartTransmit, activeVars, wmiVars, countVars
<1>2. PICK steps \in {Data(ac, tag), Step("lookup", ac) \o Data(ac, tag)} : Begin(d, steps)
  BY DEF StartTransmit
<1>3. /\ Data(ac, tag) = <<DataOf(ac, tag)>> /\ Step("lookup", ac) = <<LookUpOf(ac)>>
      /\ Data(ac, tag) \in Seq(UsableSteps) /\ Step("lookup", ac) \in Seq(UsableSteps)
  BY StepsOf, StepTypes DEF Kinds
<1>4. steps \in {<<DataOf(ac, tag)>>, <<LookUpOf(ac), DataOf(ac, tag)>>} /\ steps \in Seq(UsableSteps)
  <2>1. <<LookUpOf(ac)>> \o <<DataOf(ac, tag)>> = <<LookUpOf(ac), DataOf(ac, tag)>>
    BY Joined
  <2>2. Step("lookup", ac) \o Data(ac, tag) \in Seq(UsableSteps)
    BY <1>3, ConcatType
  <2> QED BY <1>2, <1>3, <2>1, <2>2
<1>5. todo'[d] = steps /\ \A u \in Threads : u # d => todo'[u] = todo[u]
  BY <1>1, <1>2, <1>4, BeginType
<1>6. /\ Transmitting(<<DataOf(ac, tag)>>) /\ Transmitting(<<LookUpOf(ac), DataOf(ac, tag)>>)
  BY ListFacts
<1>7. \A a \in ACs : ~Makes(<<DataOf(ac, tag)>>, a) /\ ~Makes(<<LookUpOf(ac), DataOf(ac, tag)>>, a)
  BY MakesOf
<1>8. Transmitting(todo'[d]) /\ \A a \in ACs : ~Makes(todo'[d], a)
  BY <1>4, <1>5, <1>6, <1>7
<1>9. \A c \in Cookies, a \in ACs : Made(c, a)' => Made(c, a)
  BY <1>1, MadeSame
<1> QED BY <1>1, <1>5, <1>8, <1>9, ForwardPipes

\* The pipe becomes a timeout, and the timeout clears the bit.
LEMMA TimeoutPipes ==
    ASSUME Types, Pipes, NEW ac \in ACs, TargetTimesOut(ac) \/ PstreamTimeout(ac)
    PROVE  Pipes'
<1>1. /\ UNCHANGED <<active, freeCookies, msg>>
      /\ \A c \in Cookies, a \in ACs : Made(c, a)' <=> Made(c, a)
  <2>1. UNCHANGED <<active, freeCookies, msg>>
    BY DEF TargetTimesOut, PstreamTimeout, activeVars, countVars
  <2> QED BY <2>1, MadeSame
<1>2. CASE TargetTimesOut(ac)
  <2>1. /\ UNCHANGED <<todo, fat>> /\ ac \in pipes
        /\ pipes' = pipes \ {ac} /\ timeouts' = timeouts \cup {ac}
    BY <1>2 DEF TargetTimesOut, wmiVars
  <2>2. Simple' /\ Indicating'
    BY <1>1, <2>1 DEF Pipes, Simple, Transmitting, Indicating
  <2>3. ASSUME NEW a \in ACs PROVE OnePipe(a)'
    <3>1. OnePipe(a)
      BY DEF Pipes
    <3> QED BY <1>1, <2>1, <3>1 DEF OnePipe
  <2> QED BY <2>2, <2>3 DEF Pipes
<1>3. CASE PstreamTimeout(ac)
  <2>0. "rx" \in Threads /\ {"rx", "ioctl", "hif"} \cup Devs = Threads /\ "rx" \notin Devs
    BY DriverAssumption DEF Threads
  <2>1. /\ Begin("rx", Step("inactive", ac)) /\ ac \in timeouts
        /\ pipes' = pipes /\ timeouts' = timeouts \ {ac} /\ fat' = fat \ {ac}
    BY <1>3 DEF PstreamTimeout
  <2>2. /\ Step("inactive", ac) \in Seq(UsableSteps) /\ Step("inactive", ac) = <<InactiveOf(ac)>>
    BY StepTypes, StepsOf DEF Kinds
  <2>3. /\ todo'["rx"] = <<InactiveOf(ac)>> /\ todo["rx"] = <<>>
        /\ \A u \in Threads : u # "rx" => todo'[u] = todo[u]
    BY <2>0, <2>1, <2>2, BeginType
  <2>4. Simple'
    BY <2>0, <2>3 DEF Pipes, Simple
  <2>5. Indicating'
    <3>1. \A a \in active : a \in fat \/ todo["rx"] = <<InactiveOf(a)>>
      BY DEF Pipes, Indicating
    <3>2. \A a : <<InactiveOf(a)>> # <<>>
      BY HeadsAndTails
    <3> QED BY <1>1, <2>1, <2>3, <3>1, <3>2 DEF Indicating
  <2>6. \A a \in ACs : ~Makes(<<InactiveOf(ac)>>, a)
    BY MakesOf
  <2>7. \A u \in Threads, a \in ACs : Makes(todo'[u], a) => Makes(todo[u], a)
    BY <2>3, <2>6
  <2>8. ASSUME NEW a \in ACs PROVE OnePipe(a)'
    <3>1. OnePipe(a)
      BY DEF Pipes
    <3>2. CASE a = ac
      <4>1. /\ \A u \in Threads : ~Makes(todo[u], a)
            /\ \A c \in Cookies : ~Made(c, a)
            /\ a \notin pipes
        BY <2>1, <3>1, <3>2 DEF OnePipe
      <4> QED BY <1>1, <2>1, <2>7, <3>2, <4>1 DEF OnePipe
    <3>3. CASE a # ac
      BY <1>1, <2>1, <2>7, <3>1, <3>3 DEF OnePipe
    <3> QED BY <3>2, <3>3
  <2> QED BY <2>4, <2>5, <2>8 DEF Pipes
<1> QED BY <1>2, <1>3

LEMMA NextPipes ==
    CookieInv /\ Types /\ (OnlyLocked => Pipes) /\ [Next]_vars => (OnlyLocked => Pipes)'
<1> SUFFICES ASSUME CookieInv, Types, OnlyLocked => Pipes, [Next]_vars, OnlyLocked' PROVE Pipes'
  OBVIOUS
<1>1. scenario' = scenario
  <2>1. ASSUME NEW th \in Threads, ThreadStep(th) PROVE scenario' = scenario
    BY <2>1, Zenon DEF ThreadStep, ControlTx, DataTx, SendPkt, TxQueueFull, StopQueues, KeepPkt, DropPkt,
         WakeQueues, IndicateActive, IndicateInactive, LookUpPipe, CreatePstream, DeletePstream,
         SyncPoint, ForgetTsid, ReadMap, WriteMap, KeepThin, boundVars
  <2>2. CASE UNCHANGED vars
    BY <2>2 DEF vars, boundVars
  <2>3. CASE \E d \in Devs, ac \in ACs, tag \in {"data", "control"} : StartTransmit(d, ac, tag)
    BY <2>3 DEF StartTransmit
  <2>4. CASE \E batch \in SUBSET htc, status \in {"ok", "flushed", "failed"} : TxComplete(batch, status)
    BY <2>4 DEF TxComplete, boundVars
  <2>5. CASE HostSleep
    BY <2>5 DEF HostSleep, Ioctl
  <2>6. ASSUME NEW ac \in ACs,
               \/ TargetTimesOut(ac) \/ PstreamTimeout(ac) \/ CacNoResponse(ac)
               \/ \E tsid \in Tsids : \/ CreateQos(ac, tsid) \/ DeleteQos(ac, tsid)
                                      \/ CacRefused(ac, tsid) \/ CacDeleted(ac, tsid)
        PROVE  scenario' = scenario
    BY <2>6 DEF TargetTimesOut, PstreamTimeout, CacNoResponse, CreateQos, DeleteQos, CacRefused,
         CacDeleted, CacEvent, Ioctl, boundVars
  <2> QED BY <2>1, <2>2, <2>3, <2>4, <2>5, <2>6 DEF Next
<1>2. OnlyLocked /\ Pipes
  BY <1>1 DEF OnlyLocked
<1>3. ASSUME NEW ac, NEW tsid,
             \/ HostSleep \/ CacNoResponse(ac) \/ CreateQos(ac, tsid) \/ DeleteQos(ac, tsid)
             \/ CacRefused(ac, tsid) \/ CacDeleted(ac, tsid)
      PROVE  FALSE
  BY <1>2, <1>3 DEF OnlyLocked, HostSleep, CacNoResponse, CreateQos, DeleteQos, CacRefused, CacDeleted, CacEvent
<1>4. CASE UNCHANGED vars
  <2>1. UNCHANGED <<todo, active, fat, pipes, timeouts, freeCookies, msg>>
    BY <1>4 DEF vars, activeVars, wmiVars, targetVars, countVars
  <2> QED BY <1>2, <2>1, MadeSame, SamePipes
<1>5. ASSUME NEW th \in Threads, ThreadStep(th) PROVE Pipes'
  BY <1>2, <1>5, ThreadPipes, DropPipes
<1> QED BY <1>2, <1>3, <1>4, <1>5, StartPipes, TxCompletePipes, TimeoutPipes DEF Next

LEMMA PipesCorrect == Spec => [](OnlyLocked => Pipes)
<1>1. Init => (OnlyLocked => Pipes)
  BY InitPipes
<1> QED BY <1>1, NextPipes, CookieInvCorrect, TypesCorrect, PTL DEF Spec

\* Between the bit of a class, the steps of the threads, the packets that are out, the pipes of the
\* target and the timeouts it reported there is one pipe of the class and never two: the target is
\* not told twice to create it, whatever threads transmit and however late the report is, while
\* only the code under the lock changes the bits.
THEOREM NoBackToBackCreateCorrect == Spec => []NoBackToBackCreate
<1>1. (OnlyLocked => Pipes) /\ Types => NoBackToBackCreate
  <2> SUFFICES ASSUME OnlyLocked, Pipes, Types PROVE NoBackToBackCreate
    BY DEF NoBackToBackCreate
  <2>1. pipes \cup timeouts \subseteq fat
    BY DEF Pipes, OnePipe, Types
  <2>2. ASSUME NEW ac \in ACs
        PROVE  Cardinality(Creating(ac)) + Cardinality(Created(ac))
                   + (IF ac \in pipes THEN 1 ELSE 0) + (IF ac \in timeouts THEN 1 ELSE 0) <= 1
    <3>1. OnePipe(ac)
      BY DEF Pipes
    <3>2. Creating(ac) = {th \in Threads : Makes(todo[th], ac)} /\ Created(ac) = {c \in Cookies : Made(c, ac)}
      BY DEF Creating, Created, Makes, Made
    <3>3. /\ \A th, u \in Creating(ac) : th = u
          /\ \A c, d \in Created(ac) : c = d
          /\ Creating(ac) # {} => Created(ac) = {} /\ ac \notin pipes /\ ac \notin timeouts
          /\ Created(ac) # {} => ac \notin pipes /\ ac \notin timeouts
          /\ ~(ac \in pipes /\ ac \in timeouts)
      BY <3>1, <3>2 DEF OnePipe
    <3> DEFINE A == Creating(ac)
               B == Created(ac)
    <3>4. /\ A = {} \/ Cardinality(A) = 1
          /\ B = {} \/ Cardinality(B) = 1
      <4>1. ASSUME NEW S, \A x, y \in S : x = y PROVE S = {} \/ \E x : S = {x}
        <5>1. ASSUME NEW x \in S PROVE S = {x}
          BY <4>1
        <5> QED BY <5>1
      <4>2. (A = {} \/ \E x : A = {x}) /\ (B = {} \/ \E x : B = {x})
        BY <3>3, <4>1
      <4> QED BY <4>2, FS_Singleton
    <3>5. Cardinality({}) = 0
      BY FS_EmptySet
    <3> HIDE DEF A, B
    <3>6. /\ A # {} => B = {} /\ ac \notin pipes /\ ac \notin timeouts
          /\ B # {} => ac \notin pipes /\ ac \notin timeouts
          /\ ac \in pipes => ac \notin timeouts
      BY <3>3 DEF A, B
    <3>7. Cardinality(A) + Cardinality(B) + (IF ac \in pipes THEN 1 ELSE 0) + (IF ac \in timeouts THEN 1 ELSE 0) <= 1
      <4>1. Cardinality(A) \in {0, 1} /\ Cardinality(B) \in {0, 1}
        BY <3>4, <3>5
      <4>2. A = {} => Cardinality(A) = 0
        BY <3>5
      <4>3. B = {} => Cardinality(B) = 0
        BY <3>5
      <4>4. CASE A # {}
        <5>1. B = {} /\ ac \notin pipes /\ ac \notin timeouts
          BY <3>6, <4>4
        <5> QED BY <4>1, <4>3, <5>1
      <4>5. CASE A = {} /\ B # {}
        <5>1. ac \notin pipes /\ ac \notin timeouts
          BY <3>6, <4>5
        <5> QED BY <4>1, <4>2, <4>5, <5>1
      <4>6. CASE A = {} /\ B = {}
        BY <3>6, <4>2, <4>3, <4>6
      <4> QED BY <4>4, <4>5, <4>6
    <3> QED BY <3>7 DEF A, B
  <2> QED BY <2>1, <2>2 DEF NoBackToBackCreate
<1> QED BY <1>1, PipesCorrect, TypesCorrect, PTL

\* A stream that is active, and keeps the priority of others down, has its pipe once no thread has
\* steps left, while only the code under the lock changes the map.
THEOREM ActiveHasPipeCorrect == Spec => []ActiveHasPipe
<1>1. (OnlyLocked => Pipes) => ActiveHasPipe
  <2> SUFFICES ASSUME Pipes, Quiet, NEW ac \in active PROVE ac \in fat
    BY DEF ActiveHasPipe
  <2>1. todo["rx"] = <<>>
    BY DEF Quiet, Idle, Threads
  <2>2. <<InactiveOf(ac)>> # <<>>
    BY HeadsAndTails
  <2> QED BY <2>1, <2>2 DEF Pipes, Indicating
<1> QED BY <1>1, PipesCorrect, PTL
=============================================================================
