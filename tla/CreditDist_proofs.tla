-------------------------- MODULE CreditDist_proofs --------------------------
(***************************************************************************)
(* What the credit policy preserves, for any number of credits and any     *)
(* message size: every callback maps a credit state to a credit state (so  *)
(* the pool never goes negative) and neither creates nor loses a credit.   *)
(* Then how the limits are kept in balance with the credits, and that with *)
(* an ample grant every service is given a message's worth when all        *)
(* credits are back.                                                       *)
(***************************************************************************)
EXTENDS CreditDist, TLAPS

\* The limits the policy works with are natural numbers.
LEMMA LimitsType ==
    TxCreditsMin \in Nat /\ TxCreditsNorm \in [Services -> Nat]
<1>1. PerMaxMsg \in Nat /\ TotalCredits \in Nat /\ InitialFree \in Nat
  BY CreditAssumption DEF InitialFree
<1>2. InitialFree \div PerMaxMsg \in Nat
  BY <1>1, CreditAssumption
<1>3. ((InitialFree \div PerMaxMsg) * PerMaxMsg) * 3 \in Nat
  BY <1>1, <1>2
<1>4. (((InitialFree \div PerMaxMsg) * PerMaxMsg) * 3) \div 4 \in Nat
  BY <1>3
<1> QED
  BY <1>1, <1>4 DEF TxCreditsMin, TxCreditsNorm

\* The initial state holds exactly the credits the target announced.
LEMMA InitCreditsCorrect ==
    InitCredits \in CreditStates /\ HeldCredits(InitCredits) = TotalCredits
<1>1. PerMaxMsg \in Nat /\ TotalCredits \in Nat /\ InitialFree \in Nat
  BY CreditAssumption DEF InitialFree
<1>2. InitCredits \in CreditStates
  BY <1>1 DEF InitCredits, CreditStates, TxCreditsMin
<1>3. HeldCredits(InitCredits) = TotalCredits
  BY <1>1, CreditAssumption
  DEF InitCredits, HeldCredits, Total, InitiallyGiven, InitialFree, Services, TxCreditsMin
<1> QED
  BY <1>2, <1>3

LEMMA TotalType ==
    ASSUME NEW f \in [Services -> Nat] PROVE Total(f) \in Nat
BY DEF Total, Services

\* Lowering limits moves credits from the services to the pool only.
LEMMA ReduceCreditsCorrect ==
    ASSUME NEW c \in CreditStates, NEW who, NEW limit,
           \A s \in who \cap Services : limit[s] \in Nat
    PROVE  /\ ReduceCredits(c, who, limit) \in CreditStates
           /\ HeldCredits(ReduceCredits(c, who, limit)) = HeldCredits(c)
<1> DEFINE kept  == [s \in Services |->
                       IF s \in who THEN Least(c.credits[s], limit[s]) ELSE c.credits[s]]
           taken == [s \in Services |-> c.credits[s] - kept[s]]
           low   == [s \in Services |-> IF s \in who THEN limit[s] ELSE c.assigned[s]]
<1>1. kept \in [Services -> Nat] /\ taken \in [Services -> Nat]
      /\ low \in [Services -> Nat]
  <2> SUFFICES ASSUME NEW s \in Services
               PROVE  kept[s] \in Nat /\ kept[s] <= c.credits[s] /\ low[s] \in Nat
    BY DEF CreditStates
  <2> QED
    BY DEF CreditStates, Least
<1>2. ReduceCredits(c, who, limit) =
        [free |-> c.free + Total(taken), credits |-> kept, assigned |-> low,
         toDist |-> c.toDist]
  BY DEF ReduceCredits
<1>3. ReduceCredits(c, who, limit) \in CreditStates
  BY <1>1, <1>2, TotalType DEF CreditStates
<1>4. Total(taken) = Total(c.credits) - Total(kept)
  <2> HIDE DEF kept
  <2> QED
    BY <1>1 DEF Total, Services, CreditStates
<1>5. Total(c.credits) \in Nat /\ Total(kept) \in Nat /\ Total(c.toDist) \in Nat
  BY <1>1, TotalType DEF CreditStates
<1>6. HeldCredits(ReduceCredits(c, who, limit)) = HeldCredits(c)
  <2> HIDE DEF kept, taken, low
  <2>1. HeldCredits(ReduceCredits(c, who, limit)) =
          (c.free + Total(taken)) + Total(kept) + Total(c.toDist)
    BY <1>2 DEF HeldCredits
  <2> QED
    BY <1>4, <1>5, <2>1 DEF HeldCredits, CreditStates
<1> QED
  BY <1>3, <1>6

\* Pool credits given to a service stay with the host.
LEMMA GiveCreditsCorrect ==
    ASSUME NEW c \in CreditStates, NEW s \in Services, NEW n \in 0..c.free
    PROVE  /\ GiveCredits(c, s, n) \in CreditStates
           /\ HeldCredits(GiveCredits(c, s, n)) = HeldCredits(c)
<1>1. n \in Nat /\ c.free - n \in Nat
  BY DEF CreditStates
<1>2. GiveCredits(c, s, n) \in CreditStates
  BY <1>1 DEF CreditStates, GiveCredits
<1>3. HeldCredits(GiveCredits(c, s, n)) = HeldCredits(c)
  BY <1>1 DEF CreditStates, GiveCredits, HeldCredits, Total, Services
<1> QED
  BY <1>2, <1>3

\* A credit report is distributed without losing one of its credits.
LEMMA SendCompleteCorrect ==
    ASSUME NEW c \in CreditStates, NEW idle
    PROVE  /\ SendComplete(c, idle) \in CreditStates
           /\ HeldCredits(SendComplete(c, idle)) = HeldCredits(c)
<1> DEFINE limit == [s \in Services |-> LimitAfterReturn(c, s, idle)]
<1>1. Collect(c) \in CreditStates
  BY DEF CreditStates, Collect
<1>2. HeldCredits(Collect(c)) = HeldCredits(c)
  BY DEF CreditStates, Collect, HeldCredits, Total, Services
<1>3. \A s \in Services : limit[s] \in Nat
  BY LimitsType DEF CreditStates, LimitAfterReturn
<1> HIDE DEF limit
<1>4. /\ ReduceCredits(Collect(c), {s \in Services : c.toDist[s] > 0}, limit) \in CreditStates
      /\ HeldCredits(ReduceCredits(Collect(c), {s \in Services : c.toDist[s] > 0}, limit))
            = HeldCredits(Collect(c))
  BY <1>1, <1>3, ReduceCreditsCorrect
<1> QED
  BY <1>2, <1>4 DEF SendComplete, limit

\* An activity change only moves credits into the pool.
LEMMA RedistributeCreditsCorrect ==
    ASSUME NEW c \in CreditStates, NEW active, NEW idle
    PROVE  /\ RedistributeCredits(c, active, idle) \in CreditStates
           /\ HeldCredits(RedistributeCredits(c, active, idle)) = HeldCredits(c)
<1> DEFINE limit == [s \in Services |-> IF s \in idle THEN 0 ELSE TxCreditsMin]
           who == {s \in Services \ {"CONTROL"} : ~ForceActive(active)[s]}
<1>1. \A s \in Services : limit[s] \in Nat
  BY LimitsType
<1> HIDE DEF limit, who
<1>2. /\ ReduceCredits(c, who, limit) \in CreditStates
      /\ HeldCredits(ReduceCredits(c, who, limit)) = HeldCredits(c)
  BY <1>1, ReduceCreditsCorrect
<1> QED
  BY <1>2 DEF RedistributeCredits, limit, who

\* The walk over the lower services never takes the pool below zero.
LEMMA PoolPastType ==
    ASSUME NEW c \in CreditStates, NEW s \in Services, NEW n \in Nat, NEW v \in Services,
           NEW pool \in Nat
    PROVE  PoolPast(c, s, n, v)[pool] \in Nat
<1> DEFINE limit == c.assigned[v] - (n - pool)
<1>1. c.credits[v] \in Nat /\ limit \in Int
  BY DEF CreditStates
<1>2. pool + (c.credits[v] - Least(c.credits[v], limit)) \in Nat
  BY <1>1 DEF Least
<1> QED
  BY <1>2 DEF PoolPast

LEMMA PoolAtType ==
    ASSUME NEW c \in CreditStates, NEW s \in Services, NEW n \in Nat
    PROVE  \A v \in Services : PoolAt(c, s, n)[v] \in Nat
<1> DEFINE be == PoolPast(c, s, n, "BK")[c.free]
           vi == PoolPast(c, s, n, "BE")[be]
           vo == PoolPast(c, s, n, "VI")[vi]
           end == PoolPast(c, s, n, "VO")[vo]
<1>0. /\ "VO" \in Services /\ "VI" \in Services
      /\ "BE" \in Services /\ "BK" \in Services /\ c.free \in Nat
  BY DEF Services, CreditStates
<1>1. be \in Nat
  BY <1>0, PoolPastType
<1> HIDE DEF be
<1>2. vi \in Nat
  BY <1>0, <1>1, PoolPastType
<1> HIDE DEF vi
<1>3. vo \in Nat
  BY <1>0, <1>2, PoolPastType
<1> HIDE DEF vo
<1>4. end \in Nat
  BY <1>0, <1>3, PoolPastType
<1> HIDE DEF end
<1>5. PoolAt(c, s, n) = [CONTROL |-> end, VO |-> vo, VI |-> vi, BE |-> be, BK |-> c.free]
  BY DEF PoolAt, end, vo, vi, be
<1> QED
  BY <1>0, <1>1, <1>2, <1>3, <1>4, <1>5 DEF Services

LEMMA TakeFromLowerCorrect ==
    ASSUME NEW c \in CreditStates, NEW s \in Services, NEW n \in Nat
    PROVE  /\ TakeFromLower(c, s, n) \in CreditStates
           /\ HeldCredits(TakeFromLower(c, s, n)) = HeldCredits(c)
<1> DEFINE pool  == PoolAt(c, s, n)
           who   == {v \in Services : CanTakeFrom(c, s, n, v, pool[v])}
           limit == [v \in Services |-> c.assigned[v] - (n - pool[v])]
<1>1. \A v \in who : limit[v] \in Nat
  <2> SUFFICES ASSUME NEW v \in who PROVE limit[v] \in Nat
    OBVIOUS
  <2>1. v \in Services /\ pool[v] \in Nat /\ c.assigned[v] \in Nat
    BY PoolAtType DEF CreditStates
  <2>2. c.assigned[v] - (n - pool[v]) >= TxCreditsMin
    BY DEF CanTakeFrom
  <2> HIDE DEF pool
  <2> QED
    BY <2>1, <2>2, LimitsType
<1> HIDE DEF pool, who, limit
<1>2. /\ ReduceCredits(c, who, limit) \in CreditStates
      /\ HeldCredits(ReduceCredits(c, who, limit)) = HeldCredits(c)
  BY <1>1, ReduceCreditsCorrect
<1> QED
  BY <1>2 DEF TakeFromLower, pool, who, limit

\* A service that seeks credits gets them from the pool and from services of
\* lower priority, never from nowhere.
LEMMA SeekCreditsCorrect ==
    ASSUME NEW c \in CreditStates, NEW s \in Services, NEW n \in Nat
    PROVE  /\ SeekCredits(c, s, n) \in CreditStates
           /\ HeldCredits(SeekCredits(c, s, n)) = HeldCredits(c)
<1> DEFINE found == TakeFromLower(c, s, n)
           give  == Least(found.free, n)
<1>1. found \in CreditStates /\ HeldCredits(found) = HeldCredits(c)
  BY TakeFromLowerCorrect
<1> HIDE DEF found
<1>2. give \in 0..found.free
  BY <1>1 DEF CreditStates, Least
<1>3. GiveUpTo(s, n)[found] = GiveCredits(found, s, give)
  BY <1>1 DEF GiveUpTo
<1>4. SeekCredits(c, s, n) \in {c, GiveCredits(found, s, give)}
  BY <1>3 DEF SeekCredits, found
<1> HIDE DEF give
<1> QED
  BY <1>1, <1>2, <1>4, GiveCreditsCorrect

-----------------------------------------------------------------------------
(***************************************************************************)
(* What the limits say of the credits.  A limit is what a service has      *)
(* been given and not had taken back: out[s] is what it spent of that and  *)
(* has not got back.  Only RedistributeCredits raises a limit without      *)
(* giving anything, to the minimum and only of VO and VI (Slack).          *)
(***************************************************************************)
Norm == TxCreditsNorm["BE"]

Slack(s) == IF s \in {"VO", "VI"} THEN PerMaxMsg ELSE 0

Settled(c) == \A s \in Services : c.toDist[s] = 0

Capped(c) == \A s \in Services : c.credits[s] <= c.assigned[s]

Backed(c, out) == \A s \in Services : c.assigned[s] <= c.credits[s] + out[s] + Slack(s)

Limits(c) ==
    /\ c.assigned["CONTROL"] = PerMaxMsg
    /\ \A s \in LowPriority : c.assigned[s] >= PerMaxMsg
    /\ \A s \in {"VO", "VI"} : c.assigned[s] <= Norm + PerMaxMsg - 1

Balanced(c, out) == Settled(c) /\ Capped(c) /\ Backed(c, out) /\ Limits(c)

\* The grant is large enough that VO or VI, whichever has more, leaves the
\* other a message, whatever is stuck just above the minimum of BE and BK.
AmpleGrant ==
    /\ Norm >= 2 * PerMaxMsg
    /\ TotalCredits > Norm + 6 * PerMaxMsg - 3

LEMMA NormIs ==
    /\ PerMaxMsg \in Nat \ {0} /\ Norm \in Nat /\ Norm >= PerMaxMsg
    /\ TxCreditsNorm["CONTROL"] = PerMaxMsg
    /\ \A s \in Services \ {"CONTROL"} : TxCreditsNorm[s] = Norm
<1> DEFINE count == (((InitialFree \div PerMaxMsg) * PerMaxMsg) * 3) \div 4
           more == IF count > PerMaxMsg THEN count ELSE PerMaxMsg
<1>1. PerMaxMsg \in Nat \ {0} /\ Norm \in Nat
  BY CreditAssumption, LimitsType DEF Norm, Services
<1>2. TxCreditsNorm = [s \in Services |-> IF s = "CONTROL" THEN PerMaxMsg ELSE more]
  BY DEF TxCreditsNorm
<1> HIDE DEF more
<1>3. /\ TxCreditsNorm["CONTROL"] = PerMaxMsg
      /\ \A s \in Services \ {"CONTROL"} : TxCreditsNorm[s] = more
  BY <1>2 DEF Services
<1>4. Norm = more
  BY <1>3 DEF Norm, Services
<1>5. count \in Int
  <2>1. InitialFree \in Nat
    BY CreditAssumption DEF InitialFree
  <2>2. InitialFree \div PerMaxMsg \in Nat
    BY <2>1, CreditAssumption
  <2>3. ((InitialFree \div PerMaxMsg) * PerMaxMsg) * 3 \in Nat
    BY <1>1, <2>2
  <2> QED BY <2>3
<1> HIDE DEF count
<1>6. more >= PerMaxMsg
  BY <1>1, <1>5 DEF more
<1> QED BY <1>1, <1>3, <1>4, <1>6

LEMMA RankIs ==
    /\ Rank["CONTROL"] = 1 /\ Rank["VO"] = 2 /\ Rank["VI"] = 3
    /\ Rank["BE"] = 4 /\ Rank["BK"] = 5
<1>1. /\ Priority[1] = "CONTROL" /\ Priority[2] = "VO" /\ Priority[3] = "VI"
      /\ Priority[4] = "BE" /\ Priority[5] = "BK"
  BY DEF Priority
<1>2. 1..5 = {1, 2, 3, 4, 5}
  OBVIOUS
<1>3. \A s \in Services : Rank[s] \in 1..5 /\ Priority[Rank[s]] = s
  <2> SUFFICES ASSUME NEW s \in Services PROVE Rank[s] \in 1..5 /\ Priority[Rank[s]] = s
    OBVIOUS
  <2>1. \E i \in 1..5 : Priority[i] = s
    BY <1>1, <1>2 DEF Services
  <2>2. Rank[s] = CHOOSE i \in 1..5 : Priority[i] = s
    BY DEF Rank
  <2> QED BY <2>1, <2>2
<1> QED BY <1>1, <1>2, <1>3 DEF Services

\* What a lowered limit leaves.
LEMMA ReduceFields ==
    ASSUME NEW c, NEW who, NEW limit, NEW s \in Services
    PROVE  /\ ReduceCredits(c, who, limit).credits[s] =
                IF s \in who THEN Least(c.credits[s], limit[s]) ELSE c.credits[s]
           /\ ReduceCredits(c, who, limit).assigned[s] =
                IF s \in who THEN limit[s] ELSE c.assigned[s]
           /\ ReduceCredits(c, who, limit).toDist = c.toDist
BY DEF ReduceCredits

LEMMA ReduceBalanced ==
    ASSUME NEW c \in CreditStates, NEW out \in [Services -> Nat], NEW who, NEW limit,
           Settled(c), Backed(c, out), Limits(c),
           \A s \in Services : s \in who \/ c.credits[s] <= c.assigned[s],
           \A s \in Services \cap who :
             /\ limit[s] \in Nat
             /\ limit[s] <= c.assigned[s] \/ limit[s] <= Slack(s)
             /\ s = "CONTROL" => limit[s] = PerMaxMsg
             /\ s \in LowPriority => limit[s] >= PerMaxMsg
             /\ s \in {"VO", "VI"} => limit[s] <= Norm + PerMaxMsg - 1
    PROVE  Balanced(ReduceCredits(c, who, limit), out)
<1> DEFINE d == ReduceCredits(c, who, limit)
<1>1. \A s \in Services :
        /\ d.credits[s] = IF s \in who THEN Least(c.credits[s], limit[s]) ELSE c.credits[s]
        /\ d.assigned[s] = IF s \in who THEN limit[s] ELSE c.assigned[s]
        /\ d.toDist = c.toDist
  BY ReduceFields
<1> HIDE DEF d
<1>2. \A s \in Services : c.credits[s] \in Nat /\ c.assigned[s] \in Nat /\ out[s] \in Nat /\ Slack(s) \in Nat
  BY NormIs DEF CreditStates, Slack
<1>3. Settled(d)
  BY <1>1 DEF Settled, Services
<1>4. Capped(d) /\ Backed(d, out)
  <2> SUFFICES ASSUME NEW s \in Services
               PROVE  d.credits[s] <= d.assigned[s] /\ d.assigned[s] <= d.credits[s] + out[s] + Slack(s)
    BY DEF Capped, Backed
  <2>1. c.assigned[s] <= c.credits[s] + out[s] + Slack(s)
    BY DEF Backed
  <2> QED BY <1>1, <1>2, <2>1 DEF Least
<1>5. Limits(d)
  BY <1>1 DEF Limits, Services, LowPriority
<1> QED BY <1>3, <1>4, <1>5 DEF Balanced, d

LEMMA GiveBalanced ==
    ASSUME NEW c \in CreditStates, NEW out \in [Services -> Nat], Balanced(c, out),
           NEW s \in Services \ {"CONTROL"}, NEW n \in Nat,
           s \in {"VO", "VI"} => c.assigned[s] + n <= Norm + PerMaxMsg - 1
    PROVE  Balanced(GiveCredits(c, s, n), out)
<1> DEFINE d == GiveCredits(c, s, n)
<1>1. \A v \in Services :
        /\ d.credits[v] = IF v = s THEN c.credits[v] + n ELSE c.credits[v]
        /\ d.assigned[v] = IF v = s THEN c.assigned[v] + n ELSE c.assigned[v]
        /\ d.toDist[v] = c.toDist[v]
  BY DEF GiveCredits, CreditStates
<1> HIDE DEF d
<1>2. \A v \in Services : c.credits[v] \in Nat /\ c.assigned[v] \in Nat /\ out[v] \in Nat /\ Slack(v) \in Nat
  BY NormIs DEF CreditStates, Slack
<1>3. Settled(d)
  BY <1>1 DEF Settled, Balanced
<1>4. Capped(d) /\ Backed(d, out)
  <2> SUFFICES ASSUME NEW v \in Services
               PROVE  d.credits[v] <= d.assigned[v] /\ d.assigned[v] <= d.credits[v] + out[v] + Slack(v)
    BY DEF Capped, Backed
  <2>1. c.credits[v] <= c.assigned[v] /\ c.assigned[v] <= c.credits[v] + out[v] + Slack(v)
    BY DEF Balanced, Capped, Backed
  <2> QED BY <1>1, <1>2, <2>1
<1>5. Limits(d)
  BY <1>1, <1>2, NormIs DEF Limits, Balanced, Services, LowPriority
<1> QED BY <1>3, <1>4, <1>5 DEF Balanced, d

\* The limits a seek lowers, and those it leaves.
LEMMA TakeBalanced ==
    ASSUME NEW c \in CreditStates, NEW out \in [Services -> Nat], Balanced(c, out),
           NEW s \in Services, NEW n \in Nat
    PROVE  /\ Balanced(TakeFromLower(c, s, n), out)
           /\ TakeFromLower(c, s, n).assigned[s] = c.assigned[s]
           /\ TakeFromLower(c, s, n).credits[s] = c.credits[s]
<1> DEFINE pool  == PoolAt(c, s, n)
           who   == {v \in Services : CanTakeFrom(c, s, n, v, pool[v])}
           limit == [v \in Services |-> c.assigned[v] - (n - pool[v])]
<1>1. \A v \in Services : pool[v] \in Nat /\ c.assigned[v] \in Nat
  BY PoolAtType DEF CreditStates
<1> HIDE DEF pool
<1>2. ASSUME NEW v \in Services \cap who
      PROVE  /\ limit[v] \in Nat /\ limit[v] <= c.assigned[v] /\ limit[v] >= PerMaxMsg
             /\ Rank[v] > Rank[s]
  <2>1. /\ v \in Services /\ Rank[v] > Rank[s] /\ pool[v] < n
        /\ c.assigned[v] - (n - pool[v]) >= PerMaxMsg
    BY DEF CanTakeFrom, TxCreditsMin
  <2> QED BY <1>1, <2>1, NormIs
<1>3. \A v \in Services \cap who : v # "CONTROL" /\ v # s
  <2> HIDE DEF who, limit
  <2>1. \A u \in Services : Rank[u] \in 1..5
    BY RankIs DEF Services
  <2> SUFFICES ASSUME NEW v \in Services \cap who PROVE v # "CONTROL" /\ v # s
    OBVIOUS
  <2>2. Rank[v] > Rank[s]
    BY <1>2
  <2> QED BY <2>1, <2>2, RankIs
<1>4. TakeFromLower(c, s, n) = ReduceCredits(c, who, limit)
  BY DEF TakeFromLower, pool
<1> HIDE DEF who, limit
<1>5. Settled(c) /\ Capped(c) /\ Backed(c, out) /\ Limits(c)
  BY DEF Balanced
<1>6. \A v \in Services : v \in who \/ c.credits[v] <= c.assigned[v]
  BY <1>5 DEF Capped
<1>7. \A v \in Services \cap who :
        /\ limit[v] \in Nat
        /\ limit[v] <= c.assigned[v] \/ limit[v] <= Slack(v)
        /\ v = "CONTROL" => limit[v] = PerMaxMsg
        /\ v \in LowPriority => limit[v] >= PerMaxMsg
        /\ v \in {"VO", "VI"} => limit[v] <= Norm + PerMaxMsg - 1
  <2> SUFFICES ASSUME NEW v \in Services \cap who
               PROVE  /\ limit[v] \in Nat /\ limit[v] <= c.assigned[v] /\ v # "CONTROL"
                      /\ limit[v] >= PerMaxMsg
                      /\ v \in {"VO", "VI"} => limit[v] <= Norm + PerMaxMsg - 1
    OBVIOUS
  <2>1. /\ limit[v] \in Nat /\ limit[v] <= c.assigned[v] /\ v # "CONTROL" /\ limit[v] >= PerMaxMsg
        /\ v \in Services
    BY <1>2, <1>3
  <2>2. v \in {"VO", "VI"} => c.assigned[v] <= Norm + PerMaxMsg - 1
    BY <1>5 DEF Limits
  <2> QED BY <1>1, <2>1, <2>2, NormIs
<1>8. Balanced(ReduceCredits(c, who, limit), out)
  BY <1>5, <1>6, <1>7, ReduceBalanced
<1>9. s \notin who
  BY <1>3
<1> QED BY <1>4, <1>8, <1>9, ReduceFields

LEMMA SeekBalanced ==
    ASSUME NEW c \in CreditStates, NEW out \in [Services -> Nat], Balanced(c, out),
           NEW s \in Services, NEW n \in Nat, n <= PerMaxMsg
    PROVE  Balanced(SeekCredits(c, s, n), out)
<1> DEFINE found == TakeFromLower(c, s, n)
           give  == Least(found.free, n)
<1>1. /\ found \in CreditStates /\ Balanced(found, out)
      /\ found.assigned[s] = c.assigned[s]
  BY TakeFromLowerCorrect, TakeBalanced
<1> HIDE DEF found
<1>2. give \in Nat /\ give <= n /\ c.assigned[s] \in Nat
  BY <1>1 DEF CreditStates, Least
<1>3. GiveUpTo(s, n)[found] = GiveCredits(found, s, give)
  BY <1>1 DEF GiveUpTo
<1> HIDE DEF give
<1>4. CASE SeekRefused(c, s)
  BY <1>4 DEF SeekCredits
<1>5. CASE ~SeekRefused(c, s)
  <2>1. s # "CONTROL" /\ (s \in {"VO", "VI"} => c.assigned[s] < Norm)
    BY <1>2, <1>5, NormIs DEF SeekRefused
  <2>2. s \in {"VO", "VI"} => found.assigned[s] + give <= Norm + PerMaxMsg - 1
    BY <1>1, <1>2, <2>1, NormIs
  <2>3. Balanced(GiveCredits(found, s, give), out)
    BY <1>1, <1>2, <2>1, <2>2, GiveBalanced
  <2> QED BY <1>3, <1>5, <2>3 DEF SeekCredits, found
<1> QED BY <1>4, <1>5

\* Returned credits are no longer out.
LEMMA SendCompleteBalanced ==
    ASSUME NEW c \in CreditStates, NEW out \in [Services -> Nat], NEW idle,
           Capped(c), Backed(c, out), Limits(c), \A s \in Services : c.toDist[s] <= out[s],
           idle \cap ({"CONTROL"} \cup LowPriority) = {}
    PROVE  Balanced(SendComplete(c, idle), [s \in Services |-> out[s] - c.toDist[s]])
<1> DEFINE d == Collect(c)
           rest == [s \in Services |-> out[s] - c.toDist[s]]
           who == {s \in Services : c.toDist[s] > 0}
           limit == [s \in Services |-> LimitAfterReturn(c, s, idle)]
<1>1. /\ d \in CreditStates /\ d.assigned = c.assigned
      /\ \A s \in Services : d.toDist[s] = 0 /\ d.credits[s] = c.credits[s] + c.toDist[s]
  BY DEF Collect, CreditStates
<1>2. \A s \in Services : /\ c.credits[s] \in Nat /\ c.assigned[s] \in Nat /\ c.toDist[s] \in Nat
                          /\ out[s] \in Nat /\ Slack(s) \in Nat
  BY NormIs DEF CreditStates, Slack
<1>3. rest \in [Services -> Nat]
  BY <1>2
<1>4. \A s \in Services : limit[s] = LimitAfterReturn(c, s, idle) /\ rest[s] = out[s] - c.toDist[s]
  OBVIOUS
<1>5. SendComplete(c, idle) = ReduceCredits(d, who, limit)
  BY DEF SendComplete
<1> HIDE DEF d, rest, limit
<1>6. Settled(d) /\ Backed(d, rest) /\ Limits(d)
  <2>1. Backed(d, rest)
    <3> SUFFICES ASSUME NEW s \in Services PROVE d.assigned[s] <= d.credits[s] + rest[s] + Slack(s)
      BY DEF Backed
    <3>1. c.assigned[s] <= c.credits[s] + out[s] + Slack(s)
      BY DEF Backed
    <3> QED BY <1>1, <1>2, <1>4, <3>1
  <2> QED BY <1>1, <2>1 DEF Settled, Limits
<1>7. \A s \in Services : s \in who \/ d.credits[s] <= d.assigned[s]
  BY <1>1, <1>2 DEF Capped
<1>8. \A s \in Services \cap who :
        /\ limit[s] \in Nat
        /\ limit[s] <= d.assigned[s] \/ limit[s] <= Slack(s)
        /\ s = "CONTROL" => limit[s] = PerMaxMsg
        /\ s \in LowPriority => limit[s] >= PerMaxMsg
        /\ s \in {"VO", "VI"} => limit[s] <= Norm + PerMaxMsg - 1
  <2> SUFFICES ASSUME NEW s \in Services
               PROVE  /\ limit[s] \in Nat
                      /\ limit[s] <= d.assigned[s]
                      /\ s = "CONTROL" => limit[s] = PerMaxMsg
                      /\ s \in LowPriority => limit[s] >= PerMaxMsg
                      /\ s \in {"VO", "VI"} => limit[s] <= Norm + PerMaxMsg - 1
    OBVIOUS
  <2> DEFINE most == Least(c.credits[s] + c.toDist[s], c.assigned[s])
  <2>1. most \in Nat /\ most <= c.assigned[s]
    BY <1>2 DEF Least
  <2>2. limit[s] = IF s \in idle THEN 0 ELSE IF most > TxCreditsNorm[s] THEN TxCreditsNorm[s]
                                             ELSE c.assigned[s]
    BY <1>4 DEF LimitAfterReturn
  <2> HIDE DEF most
  <2>3. TxCreditsNorm[s] \in Nat /\ TxCreditsNorm[s] >= PerMaxMsg
        /\ TxCreditsNorm[s] = IF s = "CONTROL" THEN PerMaxMsg ELSE Norm
    BY NormIs
  <2>4. limit[s] \in Nat /\ limit[s] <= d.assigned[s]
    BY <1>1, <1>2, <2>1, <2>2, <2>3
  <2>5. CASE s = "CONTROL"
    <3>1. s \notin idle /\ c.assigned[s] = PerMaxMsg /\ s \notin LowPriority
      BY <2>5 DEF Limits, LowPriority
    <3> QED BY <2>1, <2>2, <2>3, <2>4, <2>5, <3>1, NormIs
  <2>6. CASE s \in LowPriority
    <3>1. s \notin idle /\ c.assigned[s] >= PerMaxMsg /\ s \notin {"CONTROL", "VO", "VI"}
      BY <2>6 DEF Limits, LowPriority
    <3> QED BY <2>1, <2>2, <2>3, <2>4, <2>6, <3>1
  <2>7. CASE s \in {"VO", "VI"}
    <3>1. c.assigned[s] <= Norm + PerMaxMsg - 1 /\ s # "CONTROL" /\ s \notin LowPriority
      BY <2>7 DEF Limits, LowPriority
    <3> QED BY <1>1, <1>2, <2>4, <3>1, NormIs
  <2> QED BY <2>5, <2>6, <2>7 DEF Services, LowPriority
<1> HIDE DEF who
<1>9. Balanced(ReduceCredits(d, who, limit), rest)
  BY <1>1, <1>3, <1>6, <1>7, <1>8, ReduceBalanced
<1> QED BY <1>5, <1>9 DEF rest

LEMMA RedistributeBalanced ==
    ASSUME NEW c \in CreditStates, NEW out \in [Services -> Nat], Balanced(c, out),
           NEW act, NEW idle
    PROVE  Balanced(RedistributeCredits(c, act, idle), out)
<1> DEFINE who == {s \in Services \ {"CONTROL"} : ~ForceActive(act)[s]}
           limit == [s \in Services |-> IF s \in idle THEN 0 ELSE TxCreditsMin]
<1>1. \A s \in Services \cap who : s \in {"VO", "VI"}
  BY DEF ForceActive, LowPriority, Services
<1>2. \A s \in Services : limit[s] \in {0, PerMaxMsg}
  BY DEF TxCreditsMin
<1>3. RedistributeCredits(c, act, idle) = ReduceCredits(c, who, limit)
  BY DEF RedistributeCredits
<1> HIDE DEF who, limit
<1>4. Settled(c) /\ Capped(c) /\ Backed(c, out) /\ Limits(c)
  BY DEF Balanced
<1>5. \A s \in Services : s \in who \/ c.credits[s] <= c.assigned[s]
  BY <1>4 DEF Capped
<1>6. \A s \in Services \cap who :
        /\ limit[s] \in Nat
        /\ limit[s] <= c.assigned[s] \/ limit[s] <= Slack(s)
        /\ s = "CONTROL" => limit[s] = PerMaxMsg
        /\ s \in LowPriority => limit[s] >= PerMaxMsg
        /\ s \in {"VO", "VI"} => limit[s] <= Norm + PerMaxMsg - 1
  BY <1>1, <1>2, NormIs DEF Slack, LowPriority
<1>7. Balanced(ReduceCredits(c, who, limit), out)
  BY <1>4, <1>5, <1>6, ReduceBalanced
<1> QED BY <1>3, <1>7

\* What a service of low priority has above its minimum is taken for a
\* service that lacks n credits, if it is enough.
LEMMA VictimGives ==
    ASSUME NEW c \in CreditStates, NEW s \in Services, NEW n \in Nat, NEW v \in LowPriority,
           PoolAt(c, s, n)[v] = c.free, CanTakeFrom(c, s, n, v, c.free),
           c.credits[v] = c.assigned[v]
    PROVE  TakeFromLower(c, s, n).free >= n
<1> DEFINE pool  == PoolAt(c, s, n)
           who   == {u \in Services : CanTakeFrom(c, s, n, u, pool[u])}
           limit == [u \in Services |-> c.assigned[u] - (n - pool[u])]
           kept  == [u \in Services |-> IF u \in who THEN Least(c.credits[u], limit[u]) ELSE c.credits[u]]
           taken == [u \in Services |-> c.credits[u] - kept[u]]
<1>1. \A u \in Services : pool[u] \in Nat /\ c.assigned[u] \in Nat /\ c.credits[u] \in Nat
  BY PoolAtType DEF CreditStates
<1>2. v \in Services /\ v \in who /\ pool[v] = c.free /\ c.free < n /\ c.free \in Nat
      /\ c.assigned[v] - (n - c.free) >= PerMaxMsg
  BY DEF LowPriority, Services, CanTakeFrom, TxCreditsMin, CreditStates
<1>3. TakeFromLower(c, s, n).free = c.free + Total(taken)
  BY DEF TakeFromLower, ReduceCredits
<1>4. \A u \in Services : taken[u] = c.credits[u] - (IF u \in who THEN Least(c.credits[u], limit[u]) ELSE c.credits[u])
                          /\ limit[u] = c.assigned[u] - (n - pool[u])
  OBVIOUS
<1> HIDE DEF pool, who, limit, kept, taken
<1>5. \A u \in Services : taken[u] \in Nat
  <2> SUFFICES ASSUME NEW u \in Services PROVE taken[u] \in Nat
    OBVIOUS
  <2>1. limit[u] \in Int
    BY <1>1, <1>4
  <2> QED BY <1>1, <1>4, <2>1 DEF Least
<1>6. taken[v] = n - c.free
  <2>1. limit[v] = c.credits[v] - (n - c.free) /\ n - c.free \in Nat /\ n - c.free > 0
    BY <1>1, <1>2, <1>4
  <2>2. Least(c.credits[v], limit[v]) = limit[v]
    BY <1>1, <1>2, <2>1 DEF Least
  <2> QED BY <1>1, <1>2, <1>4, <2>1, <2>2
<1>7. Total(taken) >= taken[v]
  BY <1>5, <1>2 DEF Total, Services
<1>8. Total(taken) \in Int
  BY <1>5 DEF Total, Services
<1> QED BY <1>2, <1>3, <1>6, <1>7, <1>8

LEMMA TakeKeepsFree ==
    ASSUME NEW c \in CreditStates, NEW s \in Services, NEW n \in Nat
    PROVE  TakeFromLower(c, s, n).free >= c.free
<1> DEFINE pool  == PoolAt(c, s, n)
           who   == {u \in Services : CanTakeFrom(c, s, n, u, pool[u])}
           limit == [u \in Services |-> c.assigned[u] - (n - pool[u])]
           taken == [u \in Services |-> c.credits[u] - (IF u \in who THEN Least(c.credits[u], limit[u]) ELSE c.credits[u])]
<1>1. \A u \in Services : pool[u] \in Nat /\ c.assigned[u] \in Nat /\ c.credits[u] \in Nat
  BY PoolAtType DEF CreditStates
<1>2. TakeFromLower(c, s, n).free = c.free + Total(taken)
  BY DEF TakeFromLower, ReduceCredits
<1>3. \A u \in Services : taken[u] = c.credits[u] - (IF u \in who THEN Least(c.credits[u], limit[u]) ELSE c.credits[u])
                          /\ limit[u] = c.assigned[u] - (n - pool[u])
  OBVIOUS
<1> HIDE DEF pool, who, limit, taken
<1>4. \A u \in Services : taken[u] \in Nat
  <2> SUFFICES ASSUME NEW u \in Services PROVE taken[u] \in Nat
    OBVIOUS
  <2>1. limit[u] \in Int
    BY <1>1, <1>3
  <2> QED BY <1>1, <1>3, <2>1 DEF Least
<1>5. Total(taken) \in Nat
  BY <1>4 DEF Total, Services
<1> QED BY <1>2, <1>5 DEF CreditStates

\* With all credits of an ample grant back at the host, every service is
\* given what it seeks for a message.
LEMMA AllHomeCovers ==
    ASSUME AmpleGrant, NEW c \in CreditStates, Balanced(c, [s \in Services |-> 0]),
           HeldCredits(c) = TotalCredits, NEW s \in Services,
           NEW n \in Nat, n <= PerMaxMsg, c.credits[s] < n
    PROVE  SeekCredits(c, s, n - c.credits[s]).credits[s] = n
<1> DEFINE m == n - c.credits[s]
           found == TakeFromLower(c, s, m)
<1>1. \A v \in Services : /\ c.credits[v] \in Nat /\ c.assigned[v] \in Nat /\ c.toDist[v] = 0
                          /\ c.credits[v] <= c.assigned[v] /\ c.assigned[v] <= c.credits[v] + Slack(v)
  BY NormIs DEF CreditStates, Balanced, Settled, Capped, Backed, Slack
<1>2. /\ c.assigned["CONTROL"] = PerMaxMsg
      /\ \A v \in LowPriority : c.assigned[v] >= PerMaxMsg
      /\ \A v \in {"VO", "VI"} : c.assigned[v] <= Norm + PerMaxMsg - 1
      /\ c.free \in Nat
  BY DEF Balanced, Limits, CreditStates
<1>3. m \in Nat /\ m > 0 /\ m <= PerMaxMsg - c.credits[s]
  BY <1>1, NormIs
<1>4. s \in {"VO", "VI"}
  <2> SUFFICES ASSUME s \in {"CONTROL", "BE", "BK"} PROVE FALSE
    BY DEF Services
  <2>1. c.assigned[s] >= PerMaxMsg /\ Slack(s) = 0
    BY <1>2, NormIs DEF LowPriority, Slack
  <2> QED BY <1>1, <2>1, NormIs
<1>5. ~SeekRefused(c, s)
  <2>1. c.assigned[s] <= c.credits[s] + PerMaxMsg
    BY <1>1, <1>4 DEF Slack
  <2>2. c.assigned[s] < Norm
    BY <1>1, <2>1, NormIs DEF AmpleGrant
  <2>3. TxCreditsNorm[s] = Norm /\ s # "CONTROL"
    BY <1>4, NormIs DEF Services
  <2> QED BY <1>1, <2>2, <2>3, NormIs DEF SeekRefused
<1> HIDE DEF m, found
<1>6. found \in CreditStates /\ found.credits[s] = c.credits[s] /\ found.free \in Nat
  <2>1. [v \in Services |-> 0] \in [Services -> Nat]
    OBVIOUS
  <2> QED BY <1>3, <2>1, TakeBalanced, TakeFromLowerCorrect DEF found, CreditStates
<1>7. found.free >= m
  <2>1. CASE c.free >= m
    BY <1>2, <1>3, <1>6, <2>1, TakeKeepsFree DEF found
  <2>2. CASE c.free < m
    <3>0. \A v \in LowPriority : c.credits[v] = c.assigned[v]
      <4> SUFFICES ASSUME NEW v \in LowPriority PROVE c.credits[v] = c.assigned[v]
        OBVIOUS
      <4>1. v \in Services /\ Slack(v) = 0
        BY DEF LowPriority, Services, Slack
      <4> QED BY <1>1, <4>1
    <3>1. PoolAt(c, s, m)["BK"] = c.free
      BY DEF PoolAt
    <3>2. PoolAt(c, s, m)["BE"] = PoolPast(c, s, m, "BK")[c.free]
      BY DEF PoolAt
    <3>3. PoolPast(c, s, m, "BK")[c.free] =
            IF CanTakeFrom(c, s, m, "BK", c.free)
            THEN c.free + (c.credits["BK"] - Least(c.credits["BK"], c.assigned["BK"] - (m - c.free)))
            ELSE c.free
      BY <1>2 DEF PoolPast
    <3>4. CASE CanTakeFrom(c, s, m, "BK", c.free)
      <4>1. "BK" \in LowPriority
        BY DEF LowPriority
      <4> QED BY <1>3, <3>0, <3>1, <3>4, <4>1, VictimGives DEF found
    <3>5. CASE ~CanTakeFrom(c, s, m, "BK", c.free) /\ CanTakeFrom(c, s, m, "BE", c.free)
      <4>1. "BE" \in LowPriority /\ PoolAt(c, s, m)["BE"] = c.free
        BY <3>2, <3>3, <3>5 DEF LowPriority
      <4> QED BY <1>3, <3>0, <3>5, <4>1, VictimGives DEF found
    <3>6. CASE ~CanTakeFrom(c, s, m, "BK", c.free) /\ ~CanTakeFrom(c, s, m, "BE", c.free)
      <4>1. Rank["BK"] > Rank[s] /\ Rank["BE"] > Rank[s]
        BY <1>4, RankIs
      <4>2. /\ c.assigned["BK"] - (m - c.free) < PerMaxMsg
            /\ c.assigned["BE"] - (m - c.free) < PerMaxMsg
        <5>1. c.assigned["BK"] \in Nat /\ c.assigned["BE"] \in Nat
          BY <1>1 DEF Services
        <5> QED BY <1>2, <1>3, <2>2, <3>6, <4>1, <5>1, NormIs DEF CanTakeFrom, TxCreditsMin
      <4>3. /\ c.credits["BK"] <= PerMaxMsg + (m - c.free) - 1
            /\ c.credits["BE"] <= PerMaxMsg + (m - c.free) - 1
        <5>1. /\ c.assigned["BK"] \in Nat /\ c.assigned["BE"] \in Nat
              /\ c.credits["BK"] <= c.assigned["BK"] /\ c.credits["BE"] <= c.assigned["BE"]
              /\ c.credits["BK"] \in Nat /\ c.credits["BE"] \in Nat
          BY <1>1 DEF Services
        <5> QED BY <1>2, <1>3, <4>2, <5>1, NormIs
      <4>4. c.credits["CONTROL"] <= PerMaxMsg
        BY <1>1, <1>2 DEF Services
      <4>5. c.credits["VO"] + c.credits["VI"] <= (PerMaxMsg - m) + (Norm + PerMaxMsg - 1)
        <5>1. /\ c.credits["VO"] \in Nat /\ c.credits["VI"] \in Nat
              /\ c.credits["VO"] <= Norm + PerMaxMsg - 1 /\ c.credits["VI"] <= Norm + PerMaxMsg - 1
          BY <1>1, <1>2, NormIs DEF Services
        <5>2. c.credits[s] <= PerMaxMsg - m
          BY <1>1, <1>3, NormIs
        <5> QED BY <1>3, <1>4, <5>1, <5>2, NormIs
      <4>6. TotalCredits = c.free + (c.credits["CONTROL"] + c.credits["VO"] + c.credits["VI"]
                                       + c.credits["BE"] + c.credits["BK"])
        BY <1>1, <1>2 DEF HeldCredits, Total, Services
      <4>7. \A v \in {"CONTROL", "VO", "VI", "BE", "BK"} : c.credits[v] \in Nat
        BY <1>1 DEF Services
      <4>8. TotalCredits <= Norm + 5 * PerMaxMsg + m - c.free - 3
        BY <1>2, <1>3, <4>3, <4>4, <4>5, <4>6, <4>7, NormIs
      <4>9. m <= PerMaxMsg
        BY <1>1, <1>3, NormIs
      <4> QED BY <1>2, <1>3, <4>8, <4>9, NormIs, CreditAssumption DEF AmpleGrant
    <3> QED BY <3>4, <3>5, <3>6
  <2> QED BY <1>2, <1>3, <2>1, <2>2
<1>8. GiveUpTo(s, m)[found] = GiveCredits(found, s, m)
  BY <1>3, <1>6, <1>7 DEF GiveUpTo, Least
<1>9. SeekCredits(c, s, m) = GiveCredits(found, s, m)
  BY <1>5, <1>8 DEF SeekCredits, found
<1>10. GiveCredits(found, s, m).credits[s] = c.credits[s] + m
  BY <1>6 DEF GiveCredits, CreditStates
<1> QED BY <1>1, <1>9, <1>10 DEF m
=============================================================================
