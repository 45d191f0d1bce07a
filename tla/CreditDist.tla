----------------------------- MODULE CreditDist -----------------------------
(***************************************************************************)
(* The default credit distribution policy of the host (common_drv,         *)
(* miscdrv/credit_dist.c).  The target grants the host TotalCredits        *)
(* transmit credits; the policy splits them between a free pool and the    *)
(* five WMI services.  HTC calls it with the TX lock held, so every        *)
(* callback is one operator from a credit state to a credit state.         *)
(*                                                                         *)
(* A credit state is a record of the pool and of the fields of             *)
(* HTC_ENDPOINT_CREDIT_DIST that change, one function per field.  The      *)
(* service list is fixed by ar6000_setup_credit_dist, so the walks over it *)
(* are written out, which keeps the operators free of recursion.           *)
(***************************************************************************)
EXTENDS Integers

CONSTANTS TotalCredits,     \* credits announced in the HTC ready message
          PerMaxMsg         \* TxCreditsPerMaxMsg, the same for every service

(***************************************************************************)
(* The service list, highest priority first.                               *)
(***************************************************************************)
Services == {"CONTROL", "VO", "VI", "BE", "BK"}

Priority == <<"CONTROL", "VO", "VI", "BE", "BK">>

Rank == [s \in Services |-> CHOOSE i \in 1..5 : Priority[i] = s]

LowPriority == {"BE", "BK"}

(***************************************************************************)
(* ar6000_credit_init.                                                     *)
(***************************************************************************)
\* Services given their minimum at start, and active from then on.
InitiallyGiven == IF TotalCredits > 4 THEN {"CONTROL", "BE", "BK"} ELSE {"CONTROL"}

InitialFree ==
    TotalCredits - PerMaxMsg * (IF TotalCredits > 4 THEN 3 ELSE 1)

\* Rejecting too few credits is an assertion of ar6000_credit_init.
ASSUME CreditAssumption ==
    /\ TotalCredits \in Nat
    /\ PerMaxMsg \in Nat \ {0}
    /\ InitialFree > 0

TxCreditsMin == PerMaxMsg

\* Three quarters of the whole messages the free pool covers, at least one.
TxCreditsNorm ==
    [s \in Services |->
        IF s = "CONTROL"
        THEN PerMaxMsg
        ELSE LET count == (((InitialFree \div PerMaxMsg) * PerMaxMsg) * 3) \div 4
             IN  IF count > PerMaxMsg THEN count ELSE PerMaxMsg]

InitCredits ==
    LET given == [s \in Services |-> IF s \in InitiallyGiven THEN TxCreditsMin ELSE 0]
    IN  [free     |-> InitialFree,
         credits  |-> given,
         assigned |-> given,
         toDist   |-> [s \in Services |-> 0]]

CreditStates ==
    [free     : Nat,                    \* CurrentFreeCredits
     credits  : [Services -> Nat],      \* TxCredits
     assigned : [Services -> Nat],      \* TxCreditsAssigned
     toDist   : [Services -> Nat]]      \* TxCreditsToDist

\* The sum of a function over the service list.
Total(f) == f["CONTROL"] + f["VO"] + f["VI"] + f["BE"] + f["BK"]

Least(a, b) == IF a < b THEN a ELSE b

(***************************************************************************)
(* The two primitives.  ReduceCredits sets new limits on some services and *)
(* takes what they hold above them back into the pool; GiveCredits gives a *)
(* service credits of the pool.                                            *)
(***************************************************************************)
ReduceCredits(cs, who, limit) ==
    LET kept(s) == IF s \in who THEN Least(cs.credits[s], limit[s]) ELSE cs.credits[s]
    IN  [free     |-> cs.free + Total([s \in Services |-> cs.credits[s] - kept(s)]),
         credits  |-> [s \in Services |-> kept(s)],
         assigned |-> [s \in Services |-> IF s \in who THEN limit[s] ELSE cs.assigned[s]],
         toDist   |-> cs.toDist]

GiveCredits(cs, s, n) ==
    [free     |-> cs.free - n,
     credits  |-> [cs.credits EXCEPT ![s] = @ + n],
     assigned |-> [cs.assigned EXCEPT ![s] = @ + n],
     toDist   |-> cs.toDist]

(***************************************************************************)
(* HTC_CREDIT_DIST_SEND_COMPLETE.  The credits a report returned become    *)
(* usable, and each service with some gives up what exceeds its assigned   *)
(* limit, then what exceeds its normal limit, which becomes its limit, and *)
(* everything if it is idle: inactive, with no packets waiting when its    *)
(* queue depth was last refreshed.  No service is touched twice, so the    *)
(* walk over the list is one step for all.                                 *)
(***************************************************************************)
\* Mutant: the returned credits are not cleared once distributed.
CollectAgain(cs) ==
    [free     |-> cs.free,
     credits  |-> [s \in Services |-> cs.credits[s] + cs.toDist[s]],
     assigned |-> cs.assigned,
     toDist   |-> cs.toDist]

Collect(cs) ==
    [free     |-> cs.free,
     credits  |-> [s \in Services |-> cs.credits[s] + cs.toDist[s]],
     assigned |-> cs.assigned,
     toDist   |-> [s \in Services |-> 0]]

LimitAfterReturn(cs, s, idle) ==
    IF s \in idle THEN 0
    ELSE IF Least(cs.credits[s] + cs.toDist[s], cs.assigned[s]) > TxCreditsNorm[s]
         THEN TxCreditsNorm[s]
         ELSE cs.assigned[s]

SendComplete(cs, idle) ==
    ReduceCredits(Collect(cs), {s \in Services : cs.toDist[s] > 0},
                  [s \in Services |-> LimitAfterReturn(cs, s, idle)])

(***************************************************************************)
(* HTC_CREDIT_DIST_ACTIVITY_CHANGE.  An inactive service keeps its minimum *)
(* while it has packets waiting, and nothing otherwise.  BE and BK are     *)
(* forced active, and CONTROL is never touched.                            *)
(***************************************************************************)
ForceActive(active) == [s \in Services |-> active[s] \/ s \in LowPriority]

RedistributeCredits(cs, active, idle) ==
    ReduceCredits(cs, {s \in Services \ {"CONTROL"} : ~ForceActive(active)[s]},
                  [s \in Services |-> IF s \in idle THEN 0 ELSE TxCreditsMin])

(***************************************************************************)
(* HTC_CREDIT_DIST_SEEK_CREDITS: service s needs n more credits.           *)
(***************************************************************************)
\* On the walk up from the lowest priority, with this much in the pool: can
\* victim v's limit go down by what is missing, and still cover its minimum?
CanTakeFrom(cs, s, n, v, pool) ==
    /\ Rank[v] > Rank[s]
    /\ pool < n
    /\ cs.assigned[v] - (n - pool) >= TxCreditsMin

\* The pool after the walk has passed victim v, by the pool before.
PoolPast(cs, s, n, v) ==
    [pool \in Nat |->
        IF CanTakeFrom(cs, s, n, v, pool)
        THEN pool + (cs.credits[v] - Least(cs.credits[v], cs.assigned[v] - (n - pool)))
        ELSE pool]

\* The pool when the walk reaches each service.
PoolAt(cs, s, n) ==
    LET be == PoolPast(cs, s, n, "BK")[cs.free]
        vi == PoolPast(cs, s, n, "BE")[be]
        vo == PoolPast(cs, s, n, "VI")[vi]
    IN  [CONTROL |-> PoolPast(cs, s, n, "VO")[vo], VO |-> vo, VI |-> vi, BE |-> be,
         BK |-> cs.free]

TakeFromLower(cs, s, n) ==
    LET pool == PoolAt(cs, s, n)
    IN  ReduceCredits(cs, {v \in Services : CanTakeFrom(cs, s, n, v, pool[v])},
                      [v \in Services |-> cs.assigned[v] - (n - pool[v])])

\* Mutant: the limit of a service is compared with its minimum.
RefusedAtMinimum(cs, s) ==
    s = "CONTROL" \/ (s \in {"VI", "VO"} /\ cs.assigned[s] >= TxCreditsMin)

\* Services the policy never lets exceed their share.
SeekRefused(cs, s) ==
    \/ s = "CONTROL"
    \/ s \in {"VI", "VO"} /\ cs.assigned[s] >= TxCreditsNorm[s]

\* Mutant: all that was sought is given, whatever the pool has.
GiveAllSought(s, n) == [c \in CreditStates |-> GiveCredits(c, s, n)]

\* Give service s as much of n credits as the pool has.
GiveUpTo(s, n) == [c \in CreditStates |-> GiveCredits(c, s, Least(c.free, n))]

SeekCredits(cs, s, n) ==
    IF SeekRefused(cs, s) THEN cs ELSE GiveUpTo(s, n)[TakeFromLower(cs, s, n)]

(***************************************************************************)
(* Credits the host has: in the pool, with a service, or reported and not  *)
(* yet distributed.                                                        *)
(***************************************************************************)
HeldCredits(cs) == cs.free + Total(cs.credits) + Total(cs.toDist)
=============================================================================
