--------------------------- MODULE ReportsProofs ----------------------------
(***************************************************************************)
(* Theorems about StoreReports, for any customers, amounts, kinds of       *)
(* decisions, windows, thresholds and weights, and rows without bound.     *)
(***************************************************************************)
EXTENDS StoreReports, Sums

-----------------------------------------------------------------------------
(***************************************************************************)
(* Arithmetic: rounding, rates and the value index.                        *)
(***************************************************************************)
LEMMA Divides ==
  ASSUME NEW n \in Int, NEW d \in Nat, d > 0
  PROVE  n \div d \in Int /\ d * (n \div d) <= n /\ n < d * (n \div d) + d
  OBVIOUS

LEMMA TimesGrows ==
  ASSUME NEW d \in Nat, NEW x \in Int, NEW y \in Int, x <= y
  PROVE  d * x <= d * y
  OBVIOUS

\* What a quotient is bounded by.
LEMMA QuotientAtMost ==
  ASSUME NEW n \in Int, NEW d \in Nat, d > 0, NEW q \in Int, n < d * q + d
  PROVE  n \div d <= q
<1> DEFINE r == n \div d
<1>1. r \in Int /\ d * r <= n
  BY Divides
<1> HIDE DEF r
<1>2. SUFFICES ASSUME q + 1 <= r PROVE FALSE
  BY <1>1 DEF r
<1>3. d * (q + 1) <= d * r
  BY <1>1, <1>2, TimesGrows
<1>4. d * (q + 1) = d * q + d
  OBVIOUS
<1> QED BY <1>1, <1>3, <1>4

LEMMA QuotientAtLeast ==
  ASSUME NEW n \in Int, NEW d \in Nat, d > 0, NEW q \in Int, d * q <= n
  PROVE  q <= n \div d
<1> DEFINE r == n \div d
<1>1. r \in Int /\ n < d * r + d
  BY Divides
<1> HIDE DEF r
<1>2. SUFFICES ASSUME r + 1 <= q PROVE FALSE
  BY <1>1 DEF r
<1>3. d * (r + 1) <= d * q
  BY <1>1, <1>2, TimesGrows
<1>4. d * (r + 1) = d * r + d
  BY <1>1
<1> QED BY <1>1, <1>3, <1>4

LEMMA QuotientGrows ==
  ASSUME NEW m \in Int, NEW n \in Int, NEW d \in Nat, d > 0, m <= n
  PROVE  m \div d <= n \div d
<1> DEFINE r == m \div d
<1>1. r \in Int /\ d * r <= m
  BY Divides
<1> HIDE DEF r
<1>2. d * r <= n
  BY <1>1
<1> QED BY <1>1, <1>2, QuotientAtLeast DEF r

LEMMA RoundType ==
  ASSUME NEW a \in Int, NEW b \in Nat, b > 0
  PROVE  roundRate(a, b) \in Int
<1>1. 20000 * a + b \in Int /\ 2 * b \in Nat /\ 2 * b > 0
  OBVIOUS
<1> QED BY <1>1, Divides DEF roundRate

\* Rounding keeps the order.
LEMMA RoundGrows ==
  ASSUME NEW a \in Int, NEW c \in Int, NEW b \in Nat, b > 0, a <= c
  PROVE  roundRate(a, b) <= roundRate(c, b)
<1>1. /\ 20000 * a + b \in Int /\ 20000 * c + b \in Int /\ 2 * b \in Nat /\ 2 * b > 0
      /\ 20000 * a + b <= 20000 * c + b
  OBVIOUS
<1> QED BY <1>1, QuotientGrows DEF roundRate

\* A rate is between nothing and the whole, and reaches both.
LEMMA RateBounds ==
  ASSUME NEW a \in Nat, NEW b \in Nat, a <= b
  PROVE  /\ Rate(a, b) \in Int /\ 0 <= Rate(a, b) /\ Rate(a, b) <= 10000
         /\ a = 0 => Rate(a, b) = 0
         /\ b > 0 /\ a = b => Rate(a, b) = 10000
<1>1. CASE b = 0
  <2>1. Rate(a, b) = 0
    BY <1>1 DEF Rate
  <2> QED BY <1>1, <2>1
<1>2. CASE b > 0
  <2> DEFINE q == roundRate(a, b)
             n == 20000 * a + b
  <2>1. /\ n \in Int /\ 2 * b \in Nat /\ 2 * b > 0 /\ q = n \div (2 * b)
        /\ (2 * b) * 0 <= n /\ n < (2 * b) * 10000 + 2 * b
        /\ a = 0 => n < (2 * b) * 0 + 2 * b
        /\ a = b => (2 * b) * 10000 <= n
    BY <1>2 DEF roundRate
  <2>2. q \in Int
    BY <1>2, RoundType
  <2> HIDE DEF q, n
  <2>3. 0 <= q /\ q <= 10000
    BY <2>1, QuotientAtMost, QuotientAtLeast
  <2>4. a = 0 => q <= 0
    BY <2>1, QuotientAtMost
  <2>5. a = b => 10000 <= q
    BY <2>1, QuotientAtLeast
  <2>6. Rate(a, b) = q
    BY <1>2 DEF Rate, q
  <2> QED BY <2>2, <2>3, <2>4, <2>5, <2>6
<1> QED BY <1>1, <1>2

LEMMA RateGrows ==
  ASSUME NEW a \in Nat, NEW c \in Nat, NEW b \in Nat, a <= c
  PROVE  Rate(a, b) <= Rate(c, b)
  BY RoundGrows DEF Rate

\* One more that does not count lowers a rate.
LEMMA RateDilutes ==
  ASSUME NEW a \in Nat, NEW b \in Nat, a <= b
  PROVE  Rate(a, b + 1) <= Rate(a, b)
<1>1. CASE b = 0
  <2>1. a = 0 /\ b + 1 \in Nat /\ a <= b + 1
    BY <1>1
  <2>2. Rate(a, b + 1) = 0 /\ Rate(a, b) = 0
    BY <2>1, RateBounds
  <2> QED BY <2>2
<1>2. CASE b > 0
  <2> DEFINE q == roundRate(a, b + 1)
             r == roundRate(a, b)
  <2>1. /\ 20000 * a + (b + 1) \in Int /\ 20000 * a + b \in Int
        /\ 2 * (b + 1) \in Nat /\ 2 * (b + 1) > 0 /\ 2 * b \in Nat /\ 2 * b > 0
    BY <1>2
  <2>2. q \in Int /\ (2 * (b + 1)) * q <= 20000 * a + (b + 1)
    BY <2>1, Divides DEF roundRate
  <2>3. Rate(a, b + 1) = q /\ Rate(a, b) = r /\ r = (20000 * a + b) \div (2 * b)
    BY <1>2 DEF Rate, roundRate
  <2> HIDE DEF q, r
  <2>4. (2 * (b + 1)) * q = (2 * b) * q + 2 * q /\ (2 * b) * q \in Int
    BY <2>2
  <2>5. CASE q >= 1
    <3>1. (2 * b) * q <= 20000 * a + b
      BY <2>2, <2>4, <2>5
    <3>2. q <= r
      BY <2>1, <2>2, <2>3, <3>1, QuotientAtLeast
    <3> QED BY <2>3, <3>2
  <2>6. CASE q < 1
    <3>1. 0 <= r /\ r \in Int
      BY <2>3, RateBounds
    <3>2. q <= r
      BY <2>2, <2>6, <3>1
    <3> QED BY <2>3, <3>2
  <2> QED BY <2>2, <2>5, <2>6
<1> QED BY <1>1, <1>2

\* When at least half fail, little more than half succeed.
LEMMA HalfFail ==
  ASSUME NEW f \in Nat, NEW n \in Nat, f <= n, Rate(f, n) >= 5000
  PROVE  Rate(n - f, n) <= 5001
<1>1. n > 0
  <2>1. SUFFICES ASSUME n = 0 PROVE FALSE
    OBVIOUS
  <2>2. Rate(f, n) = 0
    BY <2>1, RateBounds
  <2> QED BY <2>2
<1> DEFINE q == (20000 * f + n) \div (2 * n)
           k == 20000 * f + n
           m == 20000 * (n - f) + n
<1>2. /\ Rate(f, n) = q /\ Rate(n - f, n) = m \div (2 * n) /\ q = k \div (2 * n)
      /\ k \in Int /\ m \in Int /\ 2 * n \in Nat /\ 2 * n > 0 /\ m = 20000 * n - k + 2 * n
  BY <1>1 DEF Rate, roundRate
<1> HIDE DEF q
<1>3. q \in Int /\ (2 * n) * q <= k /\ q >= 5000
  <2> HIDE DEF k, m
  <2> QED BY <1>2, Divides
<1>4. (2 * n) * 5000 <= (2 * n) * q
  BY <1>2, <1>3, TimesGrows
<1>5. (2 * n) * q \in Int
  BY <1>2, <1>3
<1>6. m < (2 * n) * 5001 + 2 * n
  BY <1>1, <1>2, <1>3, <1>4, <1>5
<1> HIDE DEF k, m
<1>7. m \div (2 * n) <= 5001
  BY <1>2, <1>6, QuotientAtMost
<1> QED BY <1>2, <1>7

\* The uplift grows with the current figure.
LEMMA UpliftGrows ==
  ASSUME NEW x \in Int, NEW y \in Int, NEW p \in Int, x <= y
  PROVE  /\ computeUplift(x, p) \in Int /\ computeUplift(y, p) \in Int
         /\ computeUplift(x, p) <= computeUplift(y, p)
<1>1. CASE p = 0
  BY <1>1 DEF computeUplift
<1>2. CASE p # 0
  <2> DEFINE b == IF p < 0 THEN -p ELSE p
  <2>1. b \in Nat /\ b > 0 /\ x - p \in Int /\ y - p \in Int /\ x - p <= y - p
    BY <1>2
  <2>2. computeUplift(x, p) = roundRate(x - p, b) /\ computeUplift(y, p) = roundRate(y - p, b)
    BY <1>2 DEF computeUplift
  <2> HIDE DEF b
  <2> QED BY <2>1, <2>2, RoundType, RoundGrows
<1> QED BY <1>1, <1>2

LEMMA ClampGrows ==
  ASSUME NEW x \in Int, NEW y \in Int, NEW low \in Int, NEW high \in Int, low <= high, x <= y
  PROVE  /\ clamp(x, low, high) \in low .. high /\ clamp(y, low, high) \in low .. high
         /\ clamp(x, low, high) <= clamp(y, low, high)
  BY DEF clamp

\* The value index grows with what it is made of, and falls with the waste, as
\* long as no weight is negative.
WeightsAtLeastZero(w) ==
  /\ w.profitUplift \in Nat /\ w.revenueUplift \in Nat /\ w.upliftHitRate \in Nat
  /\ w.retention \in Nat /\ w.subsidyWaste \in Nat

LEMMA IndexGrows ==
  ASSUME NEW w, WeightsAtLeastZero(w),
         NEW p1 \in Int, NEW p2 \in Int, p1 <= p2, NEW r1 \in Int, NEW r2 \in Int, r1 <= r2,
         NEW h1 \in Int, NEW h2 \in Int, h1 <= h2, NEW k1 \in Int, NEW k2 \in Int, k1 <= k2,
         NEW s1 \in Int, NEW s2 \in Int, s2 <= s1
  PROVE  /\ longTermValueIndex(w, p1, r1, h1, k1, s1) \in Int
         /\ longTermValueIndex(w, p2, r2, h2, k2, s2) \in Int
         /\ longTermValueIndex(w, p1, r1, h1, k1, s1) <= longTermValueIndex(w, p2, r2, h2, k2, s2)
<1> DEFINE cp1 == clamp(p1, -10000, 10000)   cp2 == clamp(p2, -10000, 10000)
           cr1 == clamp(r1, -10000, 10000)   cr2 == clamp(r2, -10000, 10000)
           a == w.profitUplift  b == w.revenueUplift  c == w.upliftHitRate
           d == w.retention     e == w.subsidyWaste
           x1 == a * cp1 + b * cr1 + c * (h1 - 5000) + d * (k1 - 5000) - e * (s1 - 5000)
           x2 == a * cp2 + b * cr2 + c * (h2 - 5000) + d * (k2 - 5000) - e * (s2 - 5000)
           q1 == (2 * x1 + 10000) \div 20000  q2 == (2 * x2 + 10000) \div 20000
<1>1. cp1 \in Int /\ cp2 \in Int /\ cp1 <= cp2 /\ cr1 \in Int /\ cr2 \in Int /\ cr1 <= cr2
  BY DEF clamp
<1>2. a \in Nat /\ b \in Nat /\ c \in Nat /\ d \in Nat /\ e \in Nat
  BY DEF WeightsAtLeastZero
<1>3. /\ longTermValueIndex(w, p1, r1, h1, k1, s1) = clamp(10000 + q1, 0, 30000)
      /\ longTermValueIndex(w, p2, r2, h2, k2, s2) = clamp(10000 + q2, 0, 30000)
  BY DEF longTermValueIndex
<1> HIDE DEF cp1, cp2, cr1, cr2, a, b, c, d, e
<1>4. x1 \in Int /\ x2 \in Int /\ x1 <= x2
  <2>1. /\ a * cp1 <= a * cp2 /\ b * cr1 <= b * cr2
        /\ c * (h1 - 5000) <= c * (h2 - 5000) /\ d * (k1 - 5000) <= d * (k2 - 5000)
        /\ e * (s2 - 5000) <= e * (s1 - 5000)
    <3>1. /\ h1 - 5000 \in Int /\ h2 - 5000 \in Int /\ h1 - 5000 <= h2 - 5000
          /\ k1 - 5000 \in Int /\ k2 - 5000 \in Int /\ k1 - 5000 <= k2 - 5000
          /\ s1 - 5000 \in Int /\ s2 - 5000 \in Int /\ s2 - 5000 <= s1 - 5000
      OBVIOUS
    <3> QED BY <3>1, <1>1, <1>2, TimesGrows
  <2>2. /\ a * cp1 \in Int /\ a * cp2 \in Int /\ b * cr1 \in Int /\ b * cr2 \in Int
        /\ c * (h1 - 5000) \in Int /\ c * (h2 - 5000) \in Int /\ d * (k1 - 5000) \in Int
        /\ d * (k2 - 5000) \in Int /\ e * (s1 - 5000) \in Int /\ e * (s2 - 5000) \in Int
    BY <1>1, <1>2
  <2> QED BY <2>1, <2>2
<1> HIDE DEF x1, x2
<1>5. q1 \in Int /\ q2 \in Int /\ q1 <= q2
  <2>1. 2 * x1 + 10000 \in Int /\ 2 * x2 + 10000 \in Int /\ 2 * x1 + 10000 <= 2 * x2 + 10000
    BY <1>4
  <2> QED BY <2>1, QuotientGrows, Divides
<1> HIDE DEF q1, q2
<1> QED BY <1>3, <1>5, ClampGrows

-----------------------------------------------------------------------------
(***************************************************************************)
(* Statuses: a gate is worse than another when it fails whenever the other *)
(* does, and passes only if the other does.                                *)
(***************************************************************************)
Worse(s, t) == /\ s \in {"FAIL", "REVIEW", "PASS"}
               /\ t = "FAIL" => s = "FAIL"
               /\ t = "REVIEW" => s # "PASS"

LEMMA StatusWorse ==
  ASSUME NEW f1 \in BOOLEAN, NEW f2 \in BOOLEAN, NEW v1 \in BOOLEAN, NEW v2 \in BOOLEAN,
         f2 => f1, v2 => v1
  PROVE  Worse(toGateStatus(f1, v1), toGateStatus(f2, v2))
  BY DEF Worse, toGateStatus

Gates(g) == g = [business |-> g.business, technical |-> g.technical, risk |-> g.risk,
                 compliance |-> g.compliance]

LEMMA FinalOf ==
  ASSUME NEW f, NEW g, Gates(g), NEW ready \in BOOLEAN
  PROVE  LET all == {g.business, g.technical, g.risk, g.compliance} IN
         report(f, g, ready).final = finalStatus(all, ready)
<1>1. DOMAIN g = {"business", "technical", "risk", "compliance"}
  BY DEF Gates
<1>2. {g[x] : x \in DOMAIN g} = {g.business, g.technical, g.risk, g.compliance}
  BY <1>1
<1> QED BY <1>2 DEF report

\* Worse gates give no better a standing.
LEMMA RankWorse ==
  ASSUME NEW f1, NEW f2, NEW g1, NEW g2, Gates(g1), Gates(g2), NEW ready \in BOOLEAN,
         Worse(g1.business, g2.business), Worse(g1.technical, g2.technical),
         Worse(g1.risk, g2.risk), Worse(g1.compliance, g2.compliance)
  PROVE  Rank(report(f1, g1, ready)) <= Rank(report(f2, g2, ready))
<1> DEFINE all1 == {g1.business, g1.technical, g1.risk, g1.compliance}
           all2 == {g2.business, g2.technical, g2.risk, g2.compliance}
           s1 == finalStatus(all1, ready)
           s2 == finalStatus(all2, ready)
<1>1. report(f1, g1, ready).final = s1 /\ report(f2, g2, ready).final = s2
  BY FinalOf
<1>2. /\ s1 \in {"GO", "NEEDS_REVIEW", "NO_GO"} /\ s2 \in {"GO", "NEEDS_REVIEW", "NO_GO"}
      /\ s2 = "NO_GO" => s1 = "NO_GO"
      /\ s2 = "NEEDS_REVIEW" => s1 # "GO"
  <2>1. "FAIL" \in all2 => "FAIL" \in all1
    BY DEF Worse
  <2>2. "REVIEW" \in all2 => "FAIL" \in all1 \/ "REVIEW" \in all1
    BY DEF Worse
  <2> HIDE DEF all1, all2
  <2> QED BY <2>1, <2>2 DEF finalStatus
<1> QED BY <1>1, <1>2 DEF Rank

-----------------------------------------------------------------------------
(***************************************************************************)
(* The store's own thresholds and weights.                                 *)
(***************************************************************************)
th == normalizeGateConfig.thresholds
weights == normalizeGateConfig.weights
ThresholdNames ==
  {"longTermValueIndexMin", "paymentSuccessRateMin", "riskLossProxyMax", "subsidyWasteProxyMax",
   "profitTrendDeltaMin", "invoiceCoverageMin", "privacySuccessRateMin", "minPaidOrders30",
   "minDecisions30", "minPaidOrdersTrendWindow", "minDecisionsTrendWindow"}

LEMMA ThresholdsType ==
  /\ th.longTermValueIndexMin \in Int /\ th.paymentSuccessRateMin \in Int
  /\ th.riskLossProxyMax \in Int /\ th.subsidyWasteProxyMax \in Int
  /\ th.profitTrendDeltaMin \in Int /\ th.invoiceCoverageMin \in Int
  /\ th.privacySuccessRateMin \in Int
<1>1. /\ DOMAIN DefaultThresholds = ThresholdNames
      /\ \A f \in ThresholdNames : DefaultThresholds[f] \in Int
  BY DEF DefaultThresholds, ThresholdNames
<1> DEFINE o == Overlay(DefaultThresholds, TenantGate)
<1>2. /\ DOMAIN o = ThresholdNames
      /\ \A f \in ThresholdNames : o[f] \in Int
  BY <1>1, GateAssumption DEF Overlay
<1>3. th = [f \in DOMAIN o |-> IF f \in AtLeastOne /\ o[f] < 1 THEN 1 ELSE o[f]]
  BY DEF th, normalizeGateConfig, mergeThresholds
<1> HIDE DEF o
<1>4. \A f \in ThresholdNames : th[f] \in Int
  BY <1>2, <1>3
<1> QED BY <1>4 DEF ThresholdNames

IntegerWeights(w) ==
  /\ w.profitUplift \in Int /\ w.revenueUplift \in Int /\ w.upliftHitRate \in Int
  /\ w.retention \in Int /\ w.subsidyWaste \in Int

LEMMA WeightsType ==
  /\ IntegerWeights(weights)
  /\ NothingCountsAgainst => WeightsAtLeastZero(weights)
<1> DEFINE Names == {"profitUplift", "revenueUplift", "upliftHitRate", "retention", "subsidyWaste"}
<1>1. /\ DOMAIN DefaultWeights = Names
      /\ \A f \in Names : DefaultWeights[f] \in Int
  BY DEF DefaultWeights
<1>2. weights = Overlay(DefaultWeights, TenantGate)
  BY DEF weights, normalizeGateConfig, mergeWeights
<1>3. \A f \in Names : weights[f] \in Int
  BY <1>1, <1>2, GateAssumption DEF Overlay
<1>4. ASSUME NothingCountsAgainst
      PROVE  WeightsAtLeastZero(weights)
  <2>1. \A f \in Names : weights[f] >= 0
    BY <1>1, <1>4 DEF NothingCountsAgainst, weights
  <2>2. \A f \in Names : weights[f] \in Nat
    BY <1>3, <2>1
  <2> QED BY <2>2 DEF WeightsAtLeastZero
<1> QED BY <1>3, <1>4 DEF IntegerWeights

-----------------------------------------------------------------------------
(***************************************************************************)
(* Gates compared: f1 are worse figures than f2.                           *)
(***************************************************************************)
FiguresType(f) ==
  /\ valueIndex(f) \in Int /\ profitTrendDelta(f) \in Int /\ subsidyWasteProxy(f.made) \in Int
  /\ f.paid.attempts \in Nat /\ f.paid.successRate \in Int /\ f.paid.gmvPaid \in Nat
  /\ f.paid.refundAmount \in Int /\ f.coverage.paidCount \in Nat /\ f.coverage.coverageRate \in Int
WorseFigures(f1, f2) ==
  /\ valueIndex(f1) <= valueIndex(f2) /\ profitTrendDelta(f1) <= profitTrendDelta(f2)
  /\ subsidyWasteProxy(f1.made) >= subsidyWasteProxy(f2.made)
  /\ f1.paid.attempts = f2.paid.attempts /\ f1.paid.successRate = f2.paid.successRate
  /\ f1.paid.gmvPaid = f2.paid.gmvPaid /\ f1.paid.refundAmount >= f2.paid.refundAmount
  /\ f1.coverage.paidCount = f2.coverage.paidCount
  /\ f1.coverage.coverageRate <= f2.coverage.coverageRate
  /\ f1.privacy = f2.privacy

LEMMA GatesWorse ==
  ASSUME NEW f1, NEW f2, FiguresType(f1), FiguresType(f2), WorseFigures(f1, f2),
         NEW ready1 \in BOOLEAN, NEW ready2 \in BOOLEAN
  PROVE  LET g1 == gatesOf(th, f1, ready1)
             g2 == gatesOf(th, f2, ready2)
         IN  /\ Gates(g1) /\ Gates(g2)
             /\ g2.business = "FAIL" => g1.business = "FAIL"
             /\ ready1 = ready2 => Worse(g1.business, g2.business)
             /\ Worse(g1.technical, g2.technical)
             /\ Worse(g1.risk, g2.risk)
             /\ Worse(g1.compliance, g2.compliance)
<1> DEFINE g1 == gatesOf(th, f1, ready1)
           g2 == gatesOf(th, f2, ready2)
<1>1. /\ Gates(g1) /\ Gates(g2)
      /\ g1.business = evaluateBusinessGate(th, ready1, valueIndex(f1), profitTrendDelta(f1))
      /\ g2.business = evaluateBusinessGate(th, ready2, valueIndex(f2), profitTrendDelta(f2))
      /\ g1.technical = evaluateTechnicalGate(th, f1.paid)
      /\ g2.technical = evaluateTechnicalGate(th, f2.paid)
      /\ g1.risk = evaluateRiskGate(th, f1.paid, subsidyWasteProxy(f1.made))
      /\ g2.risk = evaluateRiskGate(th, f2.paid, subsidyWasteProxy(f2.made))
      /\ g1.compliance = evaluateComplianceGate(th, f1.coverage, f1.privacy)
      /\ g2.compliance = evaluateComplianceGate(th, f2.coverage, f2.privacy)
  BY DEF gatesOf, Gates
<1> HIDE DEF g1, g2
<1>2. /\ g2.business = "FAIL" => g1.business = "FAIL"
      /\ ready1 = ready2 => Worse(g1.business, g2.business)
  <2> DEFINE fail1 == valueIndex(f1) < th.longTermValueIndexMin \/ profitTrendDelta(f1) < th.profitTrendDeltaMin
             fail2 == valueIndex(f2) < th.longTermValueIndexMin \/ profitTrendDelta(f2) < th.profitTrendDeltaMin
  <2>1. fail2 => fail1
    BY ThresholdsType DEF FiguresType, WorseFigures
  <2>2. g1.business = toGateStatus(fail1, ~ready1) /\ g2.business = toGateStatus(fail2, ~ready2)
    BY <1>1 DEF evaluateBusinessGate
  <2> HIDE DEF fail1, fail2
  <2> QED BY <2>1, <2>2 DEF toGateStatus, Worse
<1>3. Worse(g1.technical, g2.technical)
  BY <1>1 DEF evaluateTechnicalGate, toGateStatus, Worse, WorseFigures
<1>4. Worse(g1.risk, g2.risk)
  <2> DEFINE over1 == roundRate(f1.paid.refundAmount, f1.paid.gmvPaid) > th.riskLossProxyMax
             over2 == roundRate(f2.paid.refundAmount, f2.paid.gmvPaid) > th.riskLossProxyMax
             waste1 == subsidyWasteProxy(f1.made) > th.subsidyWasteProxyMax
             waste2 == subsidyWasteProxy(f2.made) > th.subsidyWasteProxyMax
             fail1 == (f1.paid.gmvPaid > 0 /\ over1) \/ waste1
             fail2 == (f2.paid.gmvPaid > 0 /\ over2) \/ waste2
  <2>1. f2.paid.gmvPaid > 0 /\ over2 => over1
    <3>1. SUFFICES ASSUME f2.paid.gmvPaid > 0, over2 PROVE over1
      OBVIOUS
    <3> DEFINE r1 == roundRate(f1.paid.refundAmount, f1.paid.gmvPaid)
               r2 == roundRate(f2.paid.refundAmount, f2.paid.gmvPaid)
    <3>2. r1 \in Int /\ r2 \in Int /\ r2 <= r1
      BY <3>1, RoundType, RoundGrows DEF FiguresType, WorseFigures
    <3> HIDE DEF r1, r2
    <3> QED BY <3>1, <3>2, ThresholdsType DEF r1, r2
  <2>2. waste2 => waste1
    BY ThresholdsType DEF FiguresType, WorseFigures
  <2>3. f1.paid.gmvPaid = f2.paid.gmvPaid
    BY DEF WorseFigures
  <2>4. /\ g1.risk = toGateStatus(fail1, f1.paid.gmvPaid = 0)
        /\ g2.risk = toGateStatus(fail2, f2.paid.gmvPaid = 0)
    BY <1>1 DEF evaluateRiskGate
  <2> HIDE DEF over1, over2, waste1, waste2
  <2> QED BY <2>1, <2>2, <2>3, <2>4 DEF toGateStatus, Worse
<1>5. Worse(g1.compliance, g2.compliance)
  <2>1. f2.coverage.coverageRate < th.invoiceCoverageMin => f1.coverage.coverageRate < th.invoiceCoverageMin
    BY ThresholdsType DEF FiguresType, WorseFigures
  <2>2. f1.coverage.paidCount = f2.coverage.paidCount /\ f1.privacy = f2.privacy
    BY DEF WorseFigures
  <2> QED BY <1>1, <2>1, <2>2 DEF evaluateComplianceGate, toGateStatus, Worse
<1> QED BY <1>1, <1>2, <1>3, <1>4, <1>5 DEF g1, g2

-----------------------------------------------------------------------------
(***************************************************************************)
(* Rows and their summaries.                                               *)
(***************************************************************************)
LEMMA FiniteRows ==
  ASSUME NEW S, NEW rows \in Seq(S), NEW W \in SUBSET DOMAIN rows
  PROVE  /\ IsFiniteSet(W) /\ Cardinality(W) \in Nat /\ Cardinality(W) <= Len(rows)
         /\ \A T \in SUBSET W : /\ IsFiniteSet(T) /\ Cardinality(T) \in Nat
                                /\ Cardinality(T) <= Cardinality(W)
<1>1. DOMAIN rows = 1 .. Len(rows) /\ Len(rows) \in Nat
  OBVIOUS
<1>2. IsFiniteSet(1 .. Len(rows)) /\ Cardinality(1 .. Len(rows)) = Len(rows)
  <2> DEFINE n == Len(rows)
  <2>1. n \in Nat
    BY <1>1
  <2> HIDE DEF n
  <2>2. IsFiniteSet(1 .. n) /\ Cardinality(1 .. n) = n
    BY <2>1, FS_Interval
  <2> QED BY <2>2 DEF n
<1>3. IsFiniteSet(W) /\ Cardinality(W) <= Len(rows)
  BY <1>1, <1>2, FS_Subset
<1>4. \A T \in SUBSET W : IsFiniteSet(T) /\ Cardinality(T) <= Cardinality(W)
  BY <1>3, FS_Subset
<1> QED BY <1>3, <1>4, FS_CardinalityType

LEMMA PaymentRow ==
  ASSUME NEW pays \in Seq(Payments), NEW i \in DOMAIN pays
  PROVE  /\ pays[i] \in Payments
         /\ pays[i].status \in Statuses /\ pays[i].at \in Nat /\ pays[i].at >= 1
         /\ pays[i].refunded \in Nat /\ pays[i].refunded <= Amount /\ pays[i].invoiced \in Nat
<1>1. pays[i] \in Payments
  OBVIOUS
<1> QED BY <1>1, RowsAssumption DEF Payments

LEMMA DecisionRow ==
  ASSUME NEW rows \in Seq(Decisions), NEW i \in DOMAIN rows
  PROVE  /\ rows[i] \in Decisions
         /\ rows[i].at \in Nat /\ rows[i].at >= 1 /\ rows[i].kind \in Kinds /\ rows[i].kind \in Kind
         /\ rows[i].kind.cost \in Int
         /\ rows[i].kind.outcome \in {"HIT", "BLOCKED", "NO_POLICY"}
<1>1. rows[i] \in Decisions
  OBVIOUS
<1>2. rows[i].kind \in Kinds /\ rows[i].at \in Nat /\ rows[i].at >= 1
  BY <1>1, RowsAssumption DEF Decisions
<1>3. rows[i].kind \in Kind
  BY <1>2, RowsAssumption
<1> QED BY <1>1, <1>2, <1>3 DEF Kind

With(pays, start, end, s) == {i \in Within(pays, start, end) : pays[i].status = s}

LEMMA PaymentFigures ==
  ASSUME NEW pays \in Seq(Payments), NEW start \in Int, NEW end \in Int
  PROVE  LET s == summarizePaymentsForRange(pays, start, end)
             paid == With(pays, start, end, "PAID")
             failed == With(pays, start, end, "EXTERNAL_FAILED")
         IN  /\ Within(pays, start, end) \in SUBSET DOMAIN pays
             /\ s.attempts = Cardinality(Within(pays, start, end)) /\ s.attempts \in Nat
             /\ s.paid = paid /\ IsFiniteSet(paid) /\ paid \in SUBSET DOMAIN pays
             /\ s.paidCount = Cardinality(paid) /\ s.paidCount \in Nat
             /\ s.gmvPaid = Amount * s.paidCount /\ s.gmvPaid \in Nat
             /\ s.refundAmount \in Nat /\ s.netRevenue = s.gmvPaid - s.refundAmount
             /\ s.netRevenue \in Int
             /\ Cardinality(failed) \in Nat
             /\ s.successRate = Rate(Cardinality(paid), Cardinality(paid) + Cardinality(failed))
             /\ s.successRate \in Int /\ 0 <= s.successRate /\ s.successRate <= 10000
<1> DEFINE W == Within(pays, start, end)
           paid == With(pays, start, end, "PAID")
           failed == With(pays, start, end, "EXTERNAL_FAILED")
           refunded == [i \in W |-> pays[i].refunded]
           back == Sum(refunded, paid)
           n == Cardinality(paid)
           k == Cardinality(failed)
           s == summarizePaymentsForRange(pays, start, end)
<1>1. s = [attempts |-> Cardinality(W), paid |-> paid, paidCount |-> n, gmvPaid |-> Amount * n,
           refundAmount |-> back, netRevenue |-> Amount * n - back, successRate |-> Rate(n, n + k)]
  BY DEF summarizePaymentsForRange, With
<1>2. W \in SUBSET DOMAIN pays /\ paid \in SUBSET W /\ failed \in SUBSET W
  BY DEF Within, With
<1>3. /\ Cardinality(W) \in Nat /\ IsFiniteSet(paid) /\ n \in Nat /\ k \in Nat
  BY <1>2, FiniteRows
<1>4. back \in Nat
  <2>1. \A i \in paid : refunded[i] \in Nat
    BY <1>2, PaymentRow
  <2> HIDE DEF refunded, paid
  <2> QED BY <2>1, <1>3, SumNatural DEF Sum
<1> HIDE DEF s, W, paid, failed, refunded, back, n, k
<1>5. Amount * n \in Nat
  BY <1>3, RowsAssumption
<1>6. Rate(n, n + k) \in Int /\ 0 <= Rate(n, n + k) /\ Rate(n, n + k) <= 10000
  <2>1. n + k \in Nat /\ n <= n + k
    BY <1>3
  <2> QED BY <1>3, <2>1, RateBounds
<1>7. Amount * n - back \in Int
  BY <1>4, <1>5
<1>8. paid \in SUBSET DOMAIN pays
  BY <1>2
<1>9. /\ s.attempts = Cardinality(W) /\ s.paid = paid /\ s.paidCount = n /\ s.gmvPaid = Amount * n
      /\ s.refundAmount = back /\ s.netRevenue = Amount * n - back /\ s.successRate = Rate(n, n + k)
  BY <1>1
<1>10. s.netRevenue = s.gmvPaid - s.refundAmount
  BY <1>9
<1> QED BY <1>2, <1>3, <1>4, <1>5, <1>6, <1>7, <1>8, <1>9, <1>10 DEF s, W, paid, failed, n, k

LEMMA DecisionFigures ==
  ASSUME NEW rows \in Seq(Decisions), NEW start \in Int, NEW end \in Int
  PROVE  LET s == summarizeDecisionsForRange(rows, start, end) IN
         /\ s.total \in Nat /\ s.hitCount \in Nat /\ s.blockedCount \in Nat
         /\ s.marketingCost \in Int
         /\ s.retentionAttempts \in Nat /\ s.retentionHits \in Nat
         /\ s.retentionHits <= s.retentionAttempts
<1> DEFINE W == Within(rows, start, end)
           with(o) == {i \in W : rows[i].kind.outcome = o}
           hits == with("HIT")
           blocks == with("BLOCKED")
           cost == [i \in W |-> extractProjectedCost(rows[i])]
           tried == {i \in W : isRetentionPolicy(rows[i])}
           kept == {i \in W : rows[i].kind.retention = "hit"}
           s == summarizeDecisionsForRange(rows, start, end)
<1>1. s = [total |-> Cardinality(W), hitCount |-> Cardinality(hits), blockedCount |-> Cardinality(blocks),
           marketingCost |-> Sum(cost, W), retentionAttempts |-> Cardinality(tried),
           retentionHits |-> Cardinality(kept)]
  BY DEF summarizeDecisionsForRange
<1>2. /\ W \in SUBSET DOMAIN rows /\ hits \in SUBSET W /\ blocks \in SUBSET W
      /\ tried \in SUBSET W /\ kept \in SUBSET W /\ kept \in SUBSET tried
  BY DEF Within, isRetentionPolicy
<1>3. \A i \in W : cost[i] \in Int
  BY <1>2, DecisionRow DEF extractProjectedCost
<1> HIDE DEF s, W, hits, blocks, cost, tried, kept
<1>4. /\ Cardinality(W) \in Nat /\ Cardinality(hits) \in Nat /\ Cardinality(blocks) \in Nat
      /\ Cardinality(tried) \in Nat /\ Cardinality(kept) \in Nat /\ IsFiniteSet(W)
  BY <1>2, FiniteRows
<1>5. Cardinality(kept) <= Cardinality(tried)
  <2>1. tried \in SUBSET DOMAIN rows
    BY <1>2
  <2> QED BY <1>2, <2>1, FiniteRows
<1>6. Sum(cost, W) \in Int
  BY <1>3, <1>4, SumType DEF Sum, IntegersOn
<1> QED BY <1>1, <1>4, <1>5, <1>6 DEF s

Covered(pays, paid, start, end) ==
  {i \in paid : pays[i].invoiced # None /\ pays[i].invoiced >= start /\ pays[i].invoiced < end}

LEMMA CoverageFigures ==
  ASSUME NEW pays \in Seq(Payments), NEW paid \in SUBSET DOMAIN pays, NEW start, NEW end
  PROVE  LET s == summarizeInvoicesForRange(pays, paid, start, end)
             covered == Covered(pays, paid, start, end)
         IN  /\ s.paidCount = Cardinality(paid) /\ s.paidCount \in Nat
             /\ covered \in SUBSET paid /\ Cardinality(covered) \in Nat
             /\ Cardinality(covered) <= Cardinality(paid)
             /\ s.coverageRate = Rate(Cardinality(covered), Cardinality(paid))
             /\ s.coverageRate \in Int
<1> DEFINE s == summarizeInvoicesForRange(pays, paid, start, end)
           covered == Covered(pays, paid, start, end)
<1>1. s = [paidCount |-> Cardinality(paid), coverageRate |-> Rate(Cardinality(covered), Cardinality(paid))]
  BY DEF summarizeInvoicesForRange, Covered
<1>2. covered \in SUBSET paid
  BY DEF Covered
<1> HIDE DEF s, covered
<1>3. /\ Cardinality(paid) \in Nat /\ Cardinality(covered) \in Nat
      /\ Cardinality(covered) <= Cardinality(paid)
  BY <1>2, FiniteRows
<1>4. Rate(Cardinality(covered), Cardinality(paid)) \in Int
  BY <1>3, RateBounds
<1> QED BY <1>1, <1>2, <1>3, <1>4 DEF s, covered

LEMMA IndexType ==
  ASSUME NEW w, IntegerWeights(w), NEW p \in Int, NEW r \in Int, NEW h \in Int, NEW k \in Int, NEW s \in Int
  PROVE  longTermValueIndex(w, p, r, h, k, s) \in Int
<1> DEFINE cp == clamp(p, -10000, 10000)
           cr == clamp(r, -10000, 10000)
           a == w.profitUplift  b == w.revenueUplift  c == w.upliftHitRate
           d == w.retention     e == w.subsidyWaste
           x == a * cp + b * cr + c * (h - 5000) + d * (k - 5000) - e * (s - 5000)
           q == (2 * x + 10000) \div 20000
<1>1. cp \in Int /\ cr \in Int
  BY DEF clamp
<1>2. a \in Int /\ b \in Int /\ c \in Int /\ d \in Int /\ e \in Int
  BY DEF IntegerWeights
<1>3. longTermValueIndex(w, p, r, h, k, s) = clamp(10000 + q, 0, 30000)
  BY DEF longTermValueIndex
<1> HIDE DEF cp, cr, a, b, c, d, e
<1>4. x \in Int
  BY <1>1, <1>2
<1> HIDE DEF x
<1>5. q \in Int
  <2>1. 2 * x + 10000 \in Int
    BY <1>4
  <2> QED BY <2>1, Divides
<1> HIDE DEF q
<1> QED BY <1>3, <1>5, ClampGrows

\* Summaries are figures the gates can judge.
LEMMA RatesOfDecisions ==
  ASSUME NEW rows \in Seq(Decisions), NEW start \in Int, NEW end \in Int
  PROVE  LET s == summarizeDecisionsForRange(rows, start, end) IN
         /\ upliftHitRate(s) \in Int /\ subsidyWasteProxy(s) \in Int
         /\ subsidyWasteProxy(s) = 10000 - upliftHitRate(s)
         /\ Rate(s.retentionHits, s.retentionAttempts) \in Int
<1> DEFINE s == summarizeDecisionsForRange(rows, start, end)
<1>1. /\ s.hitCount \in Nat /\ s.blockedCount \in Nat
      /\ s.retentionAttempts \in Nat /\ s.retentionHits \in Nat
      /\ s.retentionHits <= s.retentionAttempts
  BY DecisionFigures
<1> HIDE DEF s
<1> DEFINE h == s.hitCount
           n == s.hitCount + s.blockedCount
           r == Rate(h, n)
<1>2. h \in Nat /\ n \in Nat /\ h <= n
  BY <1>1
<1>4. upliftHitRate(s) = r
  BY DEF upliftHitRate
<1> HIDE DEF h, n
<1>3. r \in Int /\ 0 <= r /\ r <= 10000
  BY <1>2, RateBounds
<1> HIDE DEF r
<1>5. clamp(10000 - r, 0, 10000) = 10000 - r
  BY <1>3 DEF clamp
<1>6. Rate(s.retentionHits, s.retentionAttempts) \in Int
  BY <1>1, RateBounds
<1>7. subsidyWasteProxy(s) = 10000 - r
  BY <1>4, <1>5 DEF subsidyWasteProxy
<1>8. 10000 - r \in Int
  BY <1>3
<1> QED BY <1>3, <1>4, <1>6, <1>7, <1>8 DEF s

PaymentsSummary(s, pays) ==
  /\ s.attempts \in Nat /\ s.gmvPaid \in Nat /\ s.refundAmount \in Int /\ s.successRate \in Int
  /\ s.netRevenue \in Int /\ s.paid \in SUBSET DOMAIN pays
DecisionsSummary(s) ==
  /\ s.marketingCost \in Int /\ upliftHitRate(s) \in Int /\ subsidyWasteProxy(s) \in Int
  /\ Rate(s.retentionHits, s.retentionAttempts) \in Int

LEMMA SummariesType ==
  ASSUME NEW pays \in Seq(Payments), NEW rows \in Seq(Decisions), NEW t \in Int, NEW w \in Int
  PROVE  LET f == Summaries(pays, rows, t, w) IN
         /\ PaymentsSummary(f.paid, pays) /\ PaymentsSummary(f.paidOld, pays)
         /\ PaymentsSummary(f.paidRecent, pays) /\ PaymentsSummary(f.paidBefore, pays)
         /\ DecisionsSummary(f.made) /\ DecisionsSummary(f.madeOld)
         /\ DecisionsSummary(f.madeRecent) /\ DecisionsSummary(f.madeBefore)
         /\ FiguresType(f)
<1> DEFINE f == Summaries(pays, rows, t, w)
<1>1. /\ f.paid = summarizePaymentsForRange(pays, t - w, t)
      /\ f.paidOld = summarizePaymentsForRange(pays, t - 2 * w, t - w)
      /\ f.paidRecent = summarizePaymentsForRange(pays, t - Trend, t)
      /\ f.paidBefore = summarizePaymentsForRange(pays, t - 2 * Trend, t - Trend)
      /\ f.made = summarizeDecisionsForRange(rows, t - w, t)
      /\ f.madeOld = summarizeDecisionsForRange(rows, t - 2 * w, t - w)
      /\ f.madeRecent = summarizeDecisionsForRange(rows, t - Trend, t)
      /\ f.madeBefore = summarizeDecisionsForRange(rows, t - 2 * Trend, t - Trend)
      /\ f.coverage = summarizeInvoicesForRange(pays, f.paid.paid, t - w, t)
  BY DEF Summaries
<1>2. /\ t - w \in Int /\ t - 2 * w \in Int /\ t - Trend \in Int /\ t - 2 * Trend \in Int
  BY GateAssumption
<1>3. \A a, b \in Int : PaymentsSummary(summarizePaymentsForRange(pays, a, b), pays)
  BY PaymentFigures DEF PaymentsSummary
<1>4. \A a, b \in Int : DecisionsSummary(summarizeDecisionsForRange(rows, a, b))
  BY DecisionFigures, RatesOfDecisions DEF DecisionsSummary
<1> HIDE DEF f
<1>5. /\ PaymentsSummary(f.paid, pays) /\ PaymentsSummary(f.paidOld, pays)
      /\ PaymentsSummary(f.paidRecent, pays) /\ PaymentsSummary(f.paidBefore, pays)
  BY <1>1, <1>2, <1>3
<1>6. /\ DecisionsSummary(f.made) /\ DecisionsSummary(f.madeOld)
      /\ DecisionsSummary(f.madeRecent) /\ DecisionsSummary(f.madeBefore)
  BY <1>1, <1>2, <1>4
<1>7. /\ netProfit(f.paid, f.made) \in Int /\ netProfit(f.paidOld, f.madeOld) \in Int
      /\ netProfit(f.paidRecent, f.madeRecent) \in Int
      /\ netProfit(f.paidBefore, f.madeBefore) \in Int
  <2>1. \A p, d : PaymentsSummary(p, pays) /\ DecisionsSummary(d) => netProfit(p, d) \in Int
    BY DEF netProfit, PaymentsSummary, DecisionsSummary
  <2> QED BY <1>5, <1>6, <2>1
<1>8. profitTrendDelta(f) \in Int
  BY <1>7 DEF profitTrendDelta
<1>9. valueIndex(f) \in Int
  <2> DEFINE profit == computeUplift(netProfit(f.paid, f.made), netProfit(f.paidOld, f.madeOld))
             revenue == computeUplift(f.paid.netRevenue, f.paidOld.netRevenue)
             rate == Rate(f.made.retentionHits, f.made.retentionAttempts)
  <2>1. profit \in Int
    BY <1>7, UpliftGrows
  <2>2. revenue \in Int
    <3> DEFINE x == f.paid.netRevenue
               y == f.paidOld.netRevenue
    <3>1. x \in Int /\ y \in Int
      BY <1>5 DEF PaymentsSummary
    <3> HIDE DEF x, y
    <3>2. computeUplift(x, y) \in Int
      BY <3>1, UpliftGrows
    <3> QED BY <3>2 DEF x, y
  <2>3. upliftHitRate(f.made) \in Int /\ subsidyWasteProxy(f.made) \in Int /\ rate \in Int
    BY <1>6 DEF DecisionsSummary
  <2>4. IntegerWeights(normalizeGateConfig.weights)
    BY WeightsType DEF weights
  <2>5. valueIndex(f) = longTermValueIndex(normalizeGateConfig.weights, profit, revenue,
                                           upliftHitRate(f.made), rate, subsidyWasteProxy(f.made))
    BY DEF valueIndex
  <2> HIDE DEF profit, revenue, rate
  <2> QED BY <2>1, <2>2, <2>3, <2>4, <2>5, IndexType
<1>10. f.coverage.paidCount \in Nat /\ f.coverage.coverageRate \in Int
  <2> DEFINE paid == f.paid.paid
             s == summarizeInvoicesForRange(pays, paid, t - w, t)
  <2>1. paid \in SUBSET DOMAIN pays
    BY <1>5 DEF PaymentsSummary
  <2>2. f.coverage = s
    BY <1>1
  <2> HIDE DEF paid
  <2>3. s.paidCount \in Nat /\ s.coverageRate \in Int
    BY <2>1, CoverageFigures
  <2> HIDE DEF s
  <2> QED BY <2>2, <2>3
<1> QED BY <1>5, <1>6, <1>8, <1>9, <1>10 DEF FiguresType, PaymentsSummary, DecisionsSummary, f

-----------------------------------------------------------------------------
(***************************************************************************)
(* Payments that differ in what was refunded or invoiced only.             *)
(***************************************************************************)
SameRows(p, q) ==
  /\ p \in Seq(Payments) /\ q \in Seq(Payments) /\ DOMAIN p = DOMAIN q
  /\ \A i \in DOMAIN p : p[i].at = q[i].at /\ p[i].status = q[i].status
Returned(pays, start, end) ==
  Sum([i \in Within(pays, start, end) |-> pays[i].refunded], With(pays, start, end, "PAID"))

LEMMA PaymentsRecord ==
  ASSUME NEW pays, NEW start, NEW end
  PROVE  summarizePaymentsForRange(pays, start, end) =
         LET paid == With(pays, start, end, "PAID")
             n == Cardinality(paid)
             k == Cardinality(With(pays, start, end, "EXTERNAL_FAILED"))
             back == Returned(pays, start, end)
         IN  [attempts |-> Cardinality(Within(pays, start, end)), paid |-> paid, paidCount |-> n,
              gmvPaid |-> Amount * n, refundAmount |-> back, netRevenue |-> Amount * n - back,
              successRate |-> Rate(n, n + k)]
  BY DEF summarizePaymentsForRange, With, Returned

LEMMA SameWindow ==
  ASSUME NEW p, NEW q, SameRows(p, q), NEW start, NEW end
  PROVE  /\ Within(p, start, end) = Within(q, start, end)
         /\ \A s : With(p, start, end, s) = With(q, start, end, s)
<1>1. Within(p, start, end) = Within(q, start, end)
  BY DEF SameRows, Within
<1>2. Within(p, start, end) \in SUBSET DOMAIN p
  BY DEF Within
<1> QED BY <1>1, <1>2 DEF SameRows, With

\* Nothing refunded in the window: the same summary.
LEMMA SameSummary ==
  ASSUME NEW p, NEW q, SameRows(p, q), NEW start, NEW end,
         \A i \in Within(p, start, end) : p[i].refunded = q[i].refunded
  PROVE  summarizePaymentsForRange(p, start, end) = summarizePaymentsForRange(q, start, end)
<1>1. /\ Within(p, start, end) = Within(q, start, end)
      /\ \A s : With(p, start, end, s) = With(q, start, end, s)
  BY SameWindow
<1>2. [i \in Within(p, start, end) |-> p[i].refunded] = [i \in Within(q, start, end) |-> q[i].refunded]
  BY <1>1
<1>3. Returned(p, start, end) = Returned(q, start, end)
  BY <1>1, <1>2 DEF Returned
<1> QED BY <1>1, <1>3, PaymentsRecord

\* Money given back for one payment of the window.
LEMMA RefundSummary ==
  ASSUME NEW p, NEW q, SameRows(p, q), NEW start \in Int, NEW end \in Int, NEW c \in Nat,
         NEW x \in With(p, start, end, "PAID"), q[x].refunded = p[x].refunded + c,
         \A i \in DOMAIN p \ {x} : p[i].refunded = q[i].refunded
  PROVE  LET s == summarizePaymentsForRange(p, start, end)
             r == summarizePaymentsForRange(q, start, end)
         IN  /\ r.attempts = s.attempts /\ r.paid = s.paid /\ r.paidCount = s.paidCount
             /\ r.gmvPaid = s.gmvPaid /\ r.successRate = s.successRate
             /\ r.refundAmount = s.refundAmount + c
             /\ r.netRevenue = s.netRevenue - c
<1> DEFINE W == Within(p, start, end)
           paid == With(p, start, end, "PAID")
           f == [i \in W |-> p[i].refunded]
           g == [i \in W |-> q[i].refunded]
           s == summarizePaymentsForRange(p, start, end)
           r == summarizePaymentsForRange(q, start, end)
<1>1. /\ Within(q, start, end) = W
      /\ \A st : With(q, start, end, st) = With(p, start, end, st)
  BY SameWindow
<1>2. p \in Seq(Payments) /\ q \in Seq(Payments)
  BY DEF SameRows
<1>3. /\ W \in SUBSET DOMAIN p /\ DOMAIN q = DOMAIN p /\ paid \in SUBSET W
  BY DEF Within, With, SameRows
<1>4. \A i \in paid : f[i] \in Int /\ g[i] \in Int
  BY <1>2, <1>3, PaymentRow
<1>5. g[x] = f[x] + c /\ \A i \in paid \ {x} : g[i] = f[i]
  BY <1>3
<1>6. Returned(p, start, end) = Sum(f, paid) /\ Returned(q, start, end) = Sum(g, paid)
  BY <1>1 DEF Returned
<1>7. IsFiniteSet(paid) /\ x \in paid
  BY <1>2, <1>3, FiniteRows
<1>8. /\ s.attempts = Cardinality(W) /\ s.paid = paid /\ s.paidCount = Cardinality(paid)
      /\ s.gmvPaid = Amount * Cardinality(paid) /\ s.refundAmount = Returned(p, start, end)
      /\ s.netRevenue = Amount * Cardinality(paid) - Returned(p, start, end)
      /\ s.successRate = Rate(Cardinality(paid), Cardinality(paid) + Cardinality(With(p, start, end, "EXTERNAL_FAILED")))
  BY PaymentsRecord
<1>9. /\ r.attempts = Cardinality(W) /\ r.paid = paid /\ r.paidCount = Cardinality(paid)
      /\ r.gmvPaid = Amount * Cardinality(paid) /\ r.refundAmount = Returned(q, start, end)
      /\ r.netRevenue = Amount * Cardinality(paid) - Returned(q, start, end)
      /\ r.successRate = Rate(Cardinality(paid), Cardinality(paid) + Cardinality(With(p, start, end, "EXTERNAL_FAILED")))
  BY <1>1, PaymentsRecord
<1>10. Cardinality(paid) \in Nat
  BY <1>7, FS_CardinalityType
<1> HIDE DEF W, paid, f, g, s, r
<1>11. Sum(g, paid) = Sum(f, paid) + (g[x] - f[x])
  BY <1>4, <1>5, <1>7, SumChangesAt DEF Sum, IntegersOn
<1>12. Sum(f, paid) \in Int /\ Sum(g, paid) \in Int
  BY <1>4, <1>7, SumType DEF Sum, IntegersOn
<1>13. f[x] \in Int
  BY <1>4, <1>7
<1>14. Returned(q, start, end) = Returned(p, start, end) + c
  BY <1>5, <1>6, <1>11, <1>12, <1>13
<1>15. Amount * Cardinality(paid) \in Int
  BY <1>10, RowsAssumption
<1>16. r.netRevenue = s.netRevenue - c
  BY <1>6, <1>8, <1>9, <1>12, <1>14, <1>15
<1> QED BY <1>8, <1>9, <1>14, <1>16 DEF r, s

-----------------------------------------------------------------------------
(***************************************************************************)
(* The what-ifs of the gate.                                               *)
(***************************************************************************)
SummaryTypes(f, pays) ==
  /\ PaymentsSummary(f.paid, pays) /\ PaymentsSummary(f.paidOld, pays)
  /\ PaymentsSummary(f.paidRecent, pays) /\ PaymentsSummary(f.paidBefore, pays)
  /\ DecisionsSummary(f.made) /\ DecisionsSummary(f.madeOld)
  /\ DecisionsSummary(f.madeRecent) /\ DecisionsSummary(f.madeBefore)

LEMMA ProfitType ==
  ASSUME NEW p, NEW d, NEW pays, PaymentsSummary(p, pays), DecisionsSummary(d)
  PROVE  /\ netProfit(p, d) \in Int /\ netProfit(p, d) = p.netRevenue - d.marketingCost
         /\ p.netRevenue \in Int /\ d.marketingCost \in Int
  BY DEF netProfit, PaymentsSummary, DecisionsSummary

\* Less revenue and worse decisions, against the same window before: a lower index.
LEMMA ValueIndexGrows ==
  ASSUME NothingCountsAgainst, NEW f, NEW g, NEW pf, NEW pg, SummaryTypes(f, pf), SummaryTypes(g, pg),
         g.paidOld = f.paidOld, g.madeOld = f.madeOld,
         g.paid.netRevenue <= f.paid.netRevenue, f.made.marketingCost <= g.made.marketingCost,
         upliftHitRate(g.made) <= upliftHitRate(f.made),
         Rate(g.made.retentionHits, g.made.retentionAttempts)
           <= Rate(f.made.retentionHits, f.made.retentionAttempts),
         subsidyWasteProxy(f.made) <= subsidyWasteProxy(g.made)
  PROVE  valueIndex(g) <= valueIndex(f)
<1> DEFINE old == netProfit(f.paidOld, f.madeOld)
           oldRevenue == f.paidOld.netRevenue
           x1 == netProfit(g.paid, g.made)  x2 == netProfit(f.paid, f.made)
           y1 == g.paid.netRevenue          y2 == f.paid.netRevenue
           p1 == computeUplift(x1, old)     p2 == computeUplift(x2, old)
           r1 == computeUplift(y1, oldRevenue)  r2 == computeUplift(y2, oldRevenue)
           h1 == upliftHitRate(g.made)      h2 == upliftHitRate(f.made)
           k1 == Rate(g.made.retentionHits, g.made.retentionAttempts)
           k2 == Rate(f.made.retentionHits, f.made.retentionAttempts)
           s1 == subsidyWasteProxy(g.made)  s2 == subsidyWasteProxy(f.made)
<1>1. /\ valueIndex(g) = longTermValueIndex(weights, p1, r1, h1, k1, s1)
      /\ valueIndex(f) = longTermValueIndex(weights, p2, r2, h2, k2, s2)
  BY DEF valueIndex, weights
<1>2. old \in Int /\ oldRevenue \in Int
  BY ProfitType DEF SummaryTypes
<1>3. /\ x2 \in Int /\ y2 \in Int /\ x2 = y2 - f.made.marketingCost /\ f.made.marketingCost \in Int
  BY ProfitType DEF SummaryTypes
<1>4. /\ x1 \in Int /\ y1 \in Int /\ x1 = y1 - g.made.marketingCost /\ g.made.marketingCost \in Int
  BY ProfitType DEF SummaryTypes
<1>5. x1 <= x2 /\ y1 <= y2
  BY <1>3, <1>4
<1>6. /\ h1 \in Int /\ k1 \in Int /\ s1 \in Int /\ h2 \in Int /\ k2 \in Int /\ s2 \in Int
  BY DEF SummaryTypes, DecisionsSummary
<1>7. h1 <= h2 /\ k1 <= k2 /\ s2 <= s1
  OBVIOUS
<1> HIDE DEF old, oldRevenue, x1, x2, y1, y2, h1, h2, k1, k2, s1, s2
<1>8. p1 \in Int /\ p2 \in Int /\ p1 <= p2
  BY <1>2, <1>3, <1>4, <1>5, UpliftGrows
<1>9. r1 \in Int /\ r2 \in Int /\ r1 <= r2
  BY <1>2, <1>3, <1>4, <1>5, UpliftGrows
<1>10. WeightsAtLeastZero(weights)
  BY WeightsType
<1> HIDE DEF p1, p2, r1, r2
<1>11. longTermValueIndex(weights, p1, r1, h1, k1, s1) <= longTermValueIndex(weights, p2, r2, h2, k2, s2)
  BY <1>6, <1>7, <1>8, <1>9, <1>10, IndexGrows
<1> QED BY <1>1, <1>11

\* A snapshot is the report of its summaries' gates.
LEMMA SnapshotIs ==
  ASSUME NEW pays, NEW rows, NEW t, NEW w
  PROVE  LET f == Summaries(pays, rows, t, w)
             ready == buildDataSufficiency(th, f)
         IN  /\ ready \in BOOLEAN
             /\ SnapshotOf(pays, rows, t, w) = report(f, gatesOf(th, f, ready), ready)
  BY DEF SnapshotOf, judgedBy, judged, buildDataSufficiency, th

LEMMA RankType ==
  ASSUME NEW pays, NEW rows, NEW t, NEW w
  PROVE  /\ Rank(SnapshotOf(pays, rows, t, w)) \in 0 .. 2
         /\ Rank(SnapshotOf(pays, rows, t, w)) = 0 <=> SnapshotOf(pays, rows, t, w).final = "NO_GO"
<1>1. SnapshotOf(pays, rows, t, w).final \in {"GO", "NEEDS_REVIEW", "NO_GO"}
  <2>1. \A f, g, ready : report(f, g, ready).final \in {"GO", "NEEDS_REVIEW", "NO_GO"}
    BY DEF report, finalStatus
  <2> QED BY <2>1, SnapshotIs
<1> QED BY <1>1 DEF Rank

\* Worse figures of as many rows give no better a standing.
LEMMA SnapshotWorse ==
  ASSUME NEW p1, NEW p2, NEW r1, NEW r2, NEW t, NEW w,
         FiguresType(Summaries(p1, r1, t, w)), FiguresType(Summaries(p2, r2, t, w)),
         WorseFigures(Summaries(p1, r1, t, w), Summaries(p2, r2, t, w)),
         buildDataSufficiency(th, Summaries(p1, r1, t, w)) = buildDataSufficiency(th, Summaries(p2, r2, t, w))
  PROVE  Rank(SnapshotOf(p1, r1, t, w)) <= Rank(SnapshotOf(p2, r2, t, w))
<1> DEFINE f1 == Summaries(p1, r1, t, w)
           f2 == Summaries(p2, r2, t, w)
           ready == buildDataSufficiency(th, f2)
           g1 == gatesOf(th, f1, ready)
           g2 == gatesOf(th, f2, ready)
<1>1. /\ ready \in BOOLEAN
      /\ SnapshotOf(p1, r1, t, w) = report(f1, g1, ready)
      /\ SnapshotOf(p2, r2, t, w) = report(f2, g2, ready)
  BY SnapshotIs
<1>2. FiguresType(f1) /\ FiguresType(f2) /\ WorseFigures(f1, f2)
  OBVIOUS
<1> HIDE DEF f1, f2, ready
<1>3. /\ Gates(g1) /\ Gates(g2)
      /\ Worse(g1.business, g2.business) /\ Worse(g1.technical, g2.technical)
      /\ Worse(g1.risk, g2.risk) /\ Worse(g1.compliance, g2.compliance)
  BY <1>1, <1>2, GatesWorse
<1> HIDE DEF g1, g2
<1>4. Rank(report(f1, g1, ready)) <= Rank(report(f2, g2, ready))
  BY <1>1, <1>3, RankWorse
<1> QED BY <1>1, <1>4

LEMMA SummariesAre ==
  ASSUME NEW pays, NEW rows, NEW t, NEW w
  PROVE  LET f == Summaries(pays, rows, t, w) IN
         /\ f.paid = summarizePaymentsForRange(pays, t - w, t)
         /\ f.paidOld = summarizePaymentsForRange(pays, t - 2 * w, t - w)
         /\ f.paidRecent = summarizePaymentsForRange(pays, t - Trend, t)
         /\ f.paidBefore = summarizePaymentsForRange(pays, t - 2 * Trend, t - Trend)
         /\ f.made = summarizeDecisionsForRange(rows, t - w, t)
         /\ f.madeOld = summarizeDecisionsForRange(rows, t - 2 * w, t - w)
         /\ f.madeRecent = summarizeDecisionsForRange(rows, t - Trend, t)
         /\ f.madeBefore = summarizeDecisionsForRange(rows, t - 2 * Trend, t - Trend)
         /\ f.coverage = summarizeInvoicesForRange(pays, f.paid.paid, t - w, t)
         /\ f.privacy = summarizePrivacyAuditForRange(t - w, t)
  BY DEF Summaries

LEMMA SameSufficiency ==
  ASSUME NEW f, NEW g, f.paid.paidCount = g.paid.paidCount,
         f.paidRecent.paidCount = g.paidRecent.paidCount, f.paidBefore = g.paidBefore,
         f.made = g.made, f.madeRecent = g.madeRecent, f.madeBefore = g.madeBefore
  PROVE  buildDataSufficiency(th, f) = buildDataSufficiency(th, g)
  BY DEF buildDataSufficiency

\* Giving money back for a recent payment makes the figures worse.
LEMMA RefundWorsens ==
  ASSUME RowsTypeOK, NothingCountsAgainst, NEW x \in PaidPayments, NEW cents \in Refunds,
         payments[x].at > now - Trend, payments[x].at <= now,
         payments[x].refunded + cents <= Amount
  PROVE  Rank(Refunded(x, cents)) <= Standing
<1> DEFINE q == [payments EXCEPT ![x].refunded = @ + cents]
           t == now + 1
           f == Summaries(payments, decisions, t, Window)
           g == Summaries(q, decisions, t, Window)
<1>1. /\ payments \in Seq(Payments) /\ decisions \in Seq(Decisions) /\ now \in Int /\ t \in Int
      /\ x \in DOMAIN payments /\ payments[x].status = "PAID" /\ cents \in Nat
      /\ Window \in Int /\ Trend \in Int /\ Trend >= 1 /\ Trend <= Window
  BY RowsAssumption, GateAssumption DEF RowsTypeOK, PaidPayments
<1>2. /\ payments[x] \in Payments
      /\ payments[x].refunded \in Nat /\ payments[x].at \in Nat
  BY <1>1, PaymentRow
<1>3. q \in Seq(Payments)
  <2> DEFINE r == payments[x]
             n == r.refunded + cents
  <2>1. n \in 0 .. Amount
    BY <1>1, <1>2, RowsAssumption
  <2>2. q = [payments EXCEPT ![x] = [r EXCEPT !.refunded = n]]
    BY <1>1
  <2>3. r \in Payments
    BY <1>2
  <2> HIDE DEF n, r, q
  <2>4. [r EXCEPT !.refunded = n] \in Payments
    BY <2>1, <2>3 DEF Payments
  <2> QED BY <1>1, <2>2, <2>4
<1>4. /\ DOMAIN q = DOMAIN payments
      /\ \A i \in DOMAIN payments : /\ q[i].at = payments[i].at /\ q[i].status = payments[i].status
                                    /\ q[i].invoiced = payments[i].invoiced
      /\ q[x].refunded = payments[x].refunded + cents
      /\ \A i \in DOMAIN payments \ {x} : payments[i].refunded = q[i].refunded
  BY <1>1, <1>2 DEF Payments
<1>5. Refunded(x, cents) = SnapshotOf(q, decisions, t, Window)
      /\ Standing = Rank(SnapshotOf(payments, decisions, t, Window))
  BY DEF Refunded, Standing, Snapshot
<1> HIDE DEF q
<1>6. SameRows(payments, q)
  BY <1>1, <1>3, <1>4 DEF SameRows
<1> DEFINE t1 == t - Window  t2 == t - 2 * Window  t3 == t - Trend  t4 == t - 2 * Trend
<1>7. t1 \in Int /\ t2 \in Int /\ t3 \in Int /\ t4 \in Int
  BY <1>1
<1>8. /\ f.paid = summarizePaymentsForRange(payments, t1, t)
      /\ f.paidOld = summarizePaymentsForRange(payments, t2, t1)
      /\ f.paidRecent = summarizePaymentsForRange(payments, t3, t)
      /\ f.paidBefore = summarizePaymentsForRange(payments, t4, t3)
      /\ f.coverage = summarizeInvoicesForRange(payments, f.paid.paid, t1, t)
      /\ g.paid = summarizePaymentsForRange(q, t1, t)
      /\ g.paidOld = summarizePaymentsForRange(q, t2, t1)
      /\ g.paidRecent = summarizePaymentsForRange(q, t3, t)
      /\ g.paidBefore = summarizePaymentsForRange(q, t4, t3)
      /\ g.coverage = summarizeInvoicesForRange(q, g.paid.paid, t1, t)
      /\ f.privacy = g.privacy /\ f.made = g.made /\ f.madeOld = g.madeOld
      /\ f.madeRecent = g.madeRecent /\ f.madeBefore = g.madeBefore
  BY SummariesAre
<1>9. /\ x \in With(payments, t1, t, "PAID") /\ x \in With(payments, t3, t, "PAID")
      /\ x \notin Within(payments, t2, t1) /\ x \notin Within(payments, t4, t3)
  BY <1>1, <1>2 DEF With, Within
<1>10. SummaryTypes(f, payments) /\ SummaryTypes(g, q) /\ FiguresType(f) /\ FiguresType(g)
  BY <1>1, <1>3, SummariesType DEF SummaryTypes
<1> HIDE DEF f, g, t, t1, t2, t3, t4
<1>11. /\ g.paid.attempts = f.paid.attempts /\ g.paid.paid = f.paid.paid
       /\ g.paid.paidCount = f.paid.paidCount /\ g.paid.gmvPaid = f.paid.gmvPaid
       /\ g.paid.successRate = f.paid.successRate
       /\ g.paid.refundAmount = f.paid.refundAmount + cents
       /\ g.paid.netRevenue = f.paid.netRevenue - cents
  BY <1>1, <1>4, <1>6, <1>7, <1>8, <1>9, RefundSummary
<1>12. /\ g.paidRecent.paidCount = f.paidRecent.paidCount
       /\ g.paidRecent.netRevenue = f.paidRecent.netRevenue - cents
  BY <1>1, <1>4, <1>6, <1>7, <1>8, <1>9, RefundSummary
<1>13. g.paidOld = f.paidOld /\ g.paidBefore = f.paidBefore
  <2>1. \A a, b : x \notin Within(payments, a, b)
          => \A i \in Within(payments, a, b) : payments[i].refunded = q[i].refunded
    BY <1>4 DEF Within
  <2> QED BY <1>6, <1>8, <1>9, <2>1, SameSummary
<1>14. g.coverage = f.coverage
  <2>1. f.paid.paid \in SUBSET DOMAIN payments
    BY <1>10 DEF SummaryTypes, PaymentsSummary
  <2>2. summarizeInvoicesForRange(q, f.paid.paid, t1, t) = summarizeInvoicesForRange(payments, f.paid.paid, t1, t)
    BY <1>4, <2>1 DEF summarizeInvoicesForRange
  <2> QED BY <1>8, <1>11, <2>2
<1>15. g.paid.netRevenue <= f.paid.netRevenue /\ g.paid.refundAmount >= f.paid.refundAmount
  <2>1. f.paid.netRevenue \in Int /\ f.paid.refundAmount \in Int
    BY <1>10 DEF SummaryTypes, PaymentsSummary
  <2> QED BY <1>1, <1>11, <2>1
<1>16. valueIndex(g) <= valueIndex(f)
  <2>1. /\ f.made.marketingCost \in Int /\ upliftHitRate(f.made) \in Int
        /\ Rate(f.made.retentionHits, f.made.retentionAttempts) \in Int
        /\ subsidyWasteProxy(f.made) \in Int
    BY <1>10 DEF SummaryTypes, DecisionsSummary
  <2>2. /\ f.made.marketingCost <= g.made.marketingCost
        /\ upliftHitRate(g.made) <= upliftHitRate(f.made)
        /\ Rate(g.made.retentionHits, g.made.retentionAttempts)
             <= Rate(f.made.retentionHits, f.made.retentionAttempts)
        /\ subsidyWasteProxy(f.made) <= subsidyWasteProxy(g.made)
    BY <1>8, <2>1
  <2> QED BY <1>8, <1>10, <1>13, <1>15, <2>2, ValueIndexGrows
<1>17. profitTrendDelta(g) <= profitTrendDelta(f)
  <2>1. /\ netProfit(f.paidRecent, f.madeRecent) = f.paidRecent.netRevenue - f.madeRecent.marketingCost
        /\ netProfit(g.paidRecent, g.madeRecent) = g.paidRecent.netRevenue - g.madeRecent.marketingCost
        /\ f.paidRecent.netRevenue \in Int /\ f.madeRecent.marketingCost \in Int
    BY <1>10, ProfitType DEF SummaryTypes
  <2>2. netProfit(f.paidBefore, f.madeBefore) \in Int
    BY <1>10, ProfitType DEF SummaryTypes
  <2> DEFINE before == netProfit(f.paidBefore, f.madeBefore)
  <2>3. /\ profitTrendDelta(f) = netProfit(f.paidRecent, f.madeRecent) - before
        /\ profitTrendDelta(g) = netProfit(g.paidRecent, g.madeRecent) - before
    BY <1>8, <1>13 DEF profitTrendDelta
  <2> HIDE DEF before
  <2> QED BY <1>1, <1>8, <1>12, <2>1, <2>2, <2>3 DEF before
<1>18. subsidyWasteProxy(g.made) >= subsidyWasteProxy(f.made)
  <2>1. subsidyWasteProxy(f.made) \in Int
    BY <1>10 DEF SummaryTypes, DecisionsSummary
  <2> QED BY <1>8, <2>1
<1>19. g.coverage.coverageRate <= f.coverage.coverageRate
  BY <1>10, <1>14 DEF FiguresType
<1>20. WorseFigures(g, f)
  BY <1>8, <1>11, <1>14, <1>15, <1>16, <1>17, <1>18, <1>19 DEF WorseFigures
<1>21. buildDataSufficiency(th, g) = buildDataSufficiency(th, f)
  BY <1>8, <1>11, <1>12, <1>13, SameSufficiency
<1>22. Rank(SnapshotOf(q, decisions, t, Window)) <= Rank(SnapshotOf(payments, decisions, t, Window))
  BY <1>10, <1>20, <1>21, SnapshotWorse DEF f, g
<1> QED BY <1>5, <1>22

\* An invoice makes no figure worse.
LEMMA InvoiceHelps ==
  ASSUME RowsTypeOK, NEW x \in PaidPayments, payments[x].invoiced = None
  PROVE  Rank(Invoiced(x)) >= Standing
<1> DEFINE q == [payments EXCEPT ![x].invoiced = now]
           t == now + 1
           f == Summaries(payments, decisions, t, Window)
           g == Summaries(q, decisions, t, Window)
<1>1. /\ payments \in Seq(Payments) /\ decisions \in Seq(Decisions) /\ now \in 1 .. MaxClock /\ t \in Int
      /\ x \in DOMAIN payments /\ Window \in Int /\ Trend \in Int
  BY RowsAssumption, GateAssumption DEF RowsTypeOK, PaidPayments
<1>2. q \in Seq(Payments)
  <2> DEFINE r == payments[x]
  <2>1. r \in Payments
    BY <1>1, PaymentRow
  <2>2. q = [payments EXCEPT ![x] = [r EXCEPT !.invoiced = now]]
    BY <1>1
  <2> HIDE DEF r, q
  <2>3. [r EXCEPT !.invoiced = now] \in Payments
    <3>1. now \in 0 .. MaxClock
      BY <1>1, RowsAssumption
    <3> QED BY <2>1, <3>1 DEF Payments
  <2> QED BY <1>1, <2>2, <2>3
<1>3. /\ DOMAIN q = DOMAIN payments
      /\ \A i \in DOMAIN payments : /\ q[i].at = payments[i].at /\ q[i].status = payments[i].status
                                    /\ payments[i].refunded = q[i].refunded
      /\ \A i \in DOMAIN payments \ {x} : q[i].invoiced = payments[i].invoiced
  <2>1. payments[x] \in Payments
    BY <1>1, PaymentRow
  <2> QED BY <1>1, <2>1 DEF Payments
<1>4. Invoiced(x) = SnapshotOf(q, decisions, t, Window)
      /\ Standing = Rank(SnapshotOf(payments, decisions, t, Window))
  BY DEF Invoiced, Standing, Snapshot
<1> HIDE DEF q
<1>5. SameRows(payments, q)
  BY <1>1, <1>2, <1>3 DEF SameRows
<1>6. \A a, b : summarizePaymentsForRange(payments, a, b) = summarizePaymentsForRange(q, a, b)
  <2>1. \A a, b : \A i \in Within(payments, a, b) : payments[i].refunded = q[i].refunded
    BY <1>3 DEF Within
  <2> QED BY <1>5, <2>1, SameSummary
<1> DEFINE t1 == t - Window
<1>7. /\ f.paid = g.paid /\ f.paidOld = g.paidOld /\ f.paidRecent = g.paidRecent
      /\ f.paidBefore = g.paidBefore /\ f.made = g.made /\ f.madeOld = g.madeOld
      /\ f.madeRecent = g.madeRecent /\ f.madeBefore = g.madeBefore /\ f.privacy = g.privacy
      /\ f.coverage = summarizeInvoicesForRange(payments, f.paid.paid, t1, t)
      /\ g.coverage = summarizeInvoicesForRange(q, g.paid.paid, t1, t)
  BY <1>6, SummariesAre
<1>8. FiguresType(f) /\ FiguresType(g) /\ SummaryTypes(f, payments)
  BY <1>1, <1>2, SummariesType DEF SummaryTypes
<1> HIDE DEF f, g, t, t1
<1>9. /\ f.coverage.paidCount = g.coverage.paidCount
      /\ f.coverage.coverageRate <= g.coverage.coverageRate
  <2> DEFINE paid == f.paid.paid
             c == Covered(payments, paid, t1, t)
             d == Covered(q, paid, t1, t)
  <2>1. paid \in SUBSET DOMAIN payments /\ paid \in SUBSET DOMAIN q
    BY <1>3, <1>8 DEF SummaryTypes, PaymentsSummary
  <2>2. c \in SUBSET d
    BY <1>3, <2>1 DEF Covered
  <2>3. f.coverage = summarizeInvoicesForRange(payments, paid, t1, t)
        /\ g.coverage = summarizeInvoicesForRange(q, paid, t1, t)
    BY <1>7
  <2>4. d \in SUBSET DOMAIN q
    BY <2>1 DEF Covered
  <2> HIDE DEF paid
  <2>5. /\ f.coverage.paidCount = Cardinality(paid)
        /\ f.coverage.coverageRate = Rate(Cardinality(c), Cardinality(paid))
    BY <1>1, <2>1, <2>3, CoverageFigures
  <2>6. /\ g.coverage.paidCount = Cardinality(paid)
        /\ g.coverage.coverageRate = Rate(Cardinality(d), Cardinality(paid))
    BY <1>2, <2>1, <2>3, CoverageFigures
  <2> HIDE DEF c, d
  <2>7. /\ Cardinality(c) \in Nat /\ Cardinality(d) \in Nat /\ Cardinality(c) <= Cardinality(d)
    BY <1>2, <2>2, <2>4, FiniteRows
  <2>8. Cardinality(paid) \in Nat
    BY <1>1, <2>1, FiniteRows
  <2>9. Rate(Cardinality(c), Cardinality(paid)) <= Rate(Cardinality(d), Cardinality(paid))
    BY <2>7, <2>8, RateGrows
  <2> QED BY <2>5, <2>6, <2>9
<1>10. /\ valueIndex(f) = valueIndex(g) /\ profitTrendDelta(f) = profitTrendDelta(g)
       /\ subsidyWasteProxy(f.made) = subsidyWasteProxy(g.made)
  BY <1>7 DEF valueIndex, profitTrendDelta
<1>11. WorseFigures(f, g)
  <2>1. /\ valueIndex(f) <= valueIndex(g) /\ profitTrendDelta(f) <= profitTrendDelta(g)
        /\ subsidyWasteProxy(f.made) >= subsidyWasteProxy(g.made)
        /\ f.paid.refundAmount >= g.paid.refundAmount
    BY <1>7, <1>8, <1>10 DEF FiguresType
  <2> QED BY <1>7, <1>9, <2>1 DEF WorseFigures
<1>12. buildDataSufficiency(th, f) = buildDataSufficiency(th, g)
  BY <1>7, SameSufficiency
<1>13. /\ Rank(SnapshotOf(payments, decisions, t, Window)) \in Int
       /\ Rank(SnapshotOf(q, decisions, t, Window)) \in Int
  BY RankType DEF t
<1>14. Rank(SnapshotOf(payments, decisions, t, Window)) <= Rank(SnapshotOf(q, decisions, t, Window))
  BY <1>8, <1>11, <1>12, SnapshotWorse DEF f, g
<1> QED BY <1>4, <1>13, <1>14

-----------------------------------------------------------------------------
(***************************************************************************)
(* One more decision.                                                      *)
(***************************************************************************)
LEMMA Appended ==
  ASSUME NEW S, NEW rows \in Seq(S), NEW d \in S
  PROVE  LET q == Append(rows, d)
             n == Len(rows) + 1
         IN  /\ q \in Seq(S) /\ DOMAIN q = DOMAIN rows \cup {n} /\ n \notin DOMAIN rows
             /\ q[n] = d /\ \A i \in DOMAIN rows : q[i] = rows[i]
  OBVIOUS

DecisionsOf(made, W) ==
  [total |-> Cardinality(W), hitCount |-> Cardinality({i \in W : made[i].kind.outcome = "HIT"}),
   blockedCount |-> Cardinality({i \in W : made[i].kind.outcome = "BLOCKED"}),
   marketingCost |-> Sum([i \in W |-> extractProjectedCost(made[i])], W),
   retentionAttempts |-> Cardinality({i \in W : isRetentionPolicy(made[i])}),
   retentionHits |-> Cardinality({i \in W : made[i].kind.retention = "hit"})]

LEMMA DecisionsRecord ==
  ASSUME NEW made, NEW start, NEW end
  PROVE  summarizeDecisionsForRange(made, start, end) = DecisionsOf(made, Within(made, start, end))
  BY DEF summarizeDecisionsForRange, DecisionsOf

LEMMA OneMore ==
  ASSUME NEW T, IsFiniteSet(T), NEW n, n \notin T
  PROVE  IsFiniteSet(T \cup {n}) /\ Cardinality(T \cup {n}) = Cardinality(T) + 1
  BY FS_AddElement

\* A row outside the window leaves its summary alone.
LEMMA RowOutside ==
  ASSUME NEW rows \in Seq(Decisions), NEW d \in Decisions, NEW start, NEW end,
         ~(d.at >= start /\ d.at < end)
  PROVE  summarizeDecisionsForRange(Append(rows, d), start, end)
           = summarizeDecisionsForRange(rows, start, end)
<1> DEFINE q == Append(rows, d)
           n == Len(rows) + 1
           W == Within(rows, start, end)
<1>1. /\ DOMAIN q = DOMAIN rows \cup {n} /\ n \notin DOMAIN rows
      /\ q[n] = d /\ \A i \in DOMAIN rows : q[i] = rows[i]
  BY Appended
<1> HIDE DEF q, n
<1>2. Within(q, start, end) = W /\ W \in SUBSET DOMAIN rows
  BY <1>1 DEF Within
<1> HIDE DEF W
<1>3. DecisionsOf(q, W) = DecisionsOf(rows, W)
  <2>1. \A i \in W : q[i] = rows[i]
    BY <1>1, <1>2
  <2>2. [i \in W |-> extractProjectedCost(q[i])] = [i \in W |-> extractProjectedCost(rows[i])]
    BY <2>1
  <2>3. /\ {i \in W : q[i].kind.outcome = "HIT"} = {i \in W : rows[i].kind.outcome = "HIT"}
        /\ {i \in W : q[i].kind.outcome = "BLOCKED"} = {i \in W : rows[i].kind.outcome = "BLOCKED"}
        /\ {i \in W : isRetentionPolicy(q[i])} = {i \in W : isRetentionPolicy(rows[i])}
        /\ {i \in W : q[i].kind.retention = "hit"} = {i \in W : rows[i].kind.retention = "hit"}
    BY <2>1
  <2> QED BY <2>2, <2>3 DEF DecisionsOf
<1> QED BY <1>2, <1>3, DecisionsRecord DEF q, W

\* A preview inside the window adds nothing but attempts that failed.
LEMMA PreviewInside ==
  ASSUME NEW rows \in Seq(Decisions), NEW d \in Decisions, NEW start \in Int, NEW end \in Int,
         d.kind.mode = "EVALUATE", d.at >= start, d.at < end
  PROVE  LET s == summarizeDecisionsForRange(rows, start, end)
             r == summarizeDecisionsForRange(Append(rows, d), start, end)
         IN  /\ r.hitCount = s.hitCount /\ r.marketingCost = s.marketingCost
             /\ r.retentionHits = s.retentionHits
             /\ r.blockedCount \in {s.blockedCount, s.blockedCount + 1}
             /\ r.retentionAttempts \in {s.retentionAttempts, s.retentionAttempts + 1}
<1> DEFINE q == Append(rows, d)
           n == Len(rows) + 1
           W == Within(rows, start, end)
           V == W \cup {n}
           hits == {i \in W : rows[i].kind.outcome = "HIT"}
           blocks == {i \in W : rows[i].kind.outcome = "BLOCKED"}
           tried == {i \in W : isRetentionPolicy(rows[i])}
           kept == {i \in W : rows[i].kind.retention = "hit"}
           f == [i \in W |-> extractProjectedCost(rows[i])]
           g == [i \in V |-> extractProjectedCost(q[i])]
<1>1. /\ q \in Seq(Decisions) /\ DOMAIN q = DOMAIN rows \cup {n} /\ n \notin DOMAIN rows
      /\ q[n] = d /\ \A i \in DOMAIN rows : q[i] = rows[i]
  BY Appended
<1>2. d.kind.outcome # "HIT" /\ d.kind.cost = 0 /\ d.kind.retention # "hit"
  <2>1. d.kind \in Kinds
    BY DEF Decisions
  <2> QED BY <2>1, RowsAssumption
<1> HIDE DEF q, n
<1>3. Within(q, start, end) = V /\ W \in SUBSET DOMAIN rows
  BY <1>1 DEF Within
<1>4. n \notin W /\ \A i \in W : q[i] = rows[i]
  BY <1>1, <1>3
<1>5. \A i \in W : rows[i].kind.cost \in Int
  BY <1>3, DecisionRow
<1> HIDE DEF W
<1>6. /\ {i \in V : q[i].kind.outcome = "HIT"} = hits
      /\ {i \in V : q[i].kind.retention = "hit"} = kept
      /\ {i \in V : q[i].kind.outcome = "BLOCKED"} \in {blocks, blocks \cup {n}}
      /\ {i \in V : isRetentionPolicy(q[i])} \in {tried, tried \cup {n}}
  BY <1>1, <1>2, <1>4
<1>7. /\ IsFiniteSet(W) /\ IsFiniteSet(blocks) /\ IsFiniteSet(tried)
      /\ n \notin blocks /\ n \notin tried
  <2>1. blocks \in SUBSET W /\ tried \in SUBSET W
    OBVIOUS
  <2> HIDE DEF blocks, tried
  <2> QED BY <1>3, <1>4, <2>1, FiniteRows
<1>8. Sum(g, V) = Sum(f, W)
  <2>1. g[n] = 0 /\ \A i \in W : g[i] = f[i]
    BY <1>1, <1>2, <1>4 DEF extractProjectedCost
  <2>2. \A i \in W : f[i] \in Int
    BY <1>5 DEF extractProjectedCost
  <2> HIDE DEF f, g
  <2>3. \A i \in V : g[i] \in Int
    BY <2>1, <2>2
  <2>4. Sum(g, V) = Sum(g, W) + g[n]
    BY <1>4, <1>7, <2>3, SumAdds DEF Sum, IntegersOn
  <2>5. Sum(g, W) = Sum(f, W)
    BY <1>7, <2>1, SumCongruent DEF Sum
  <2>6. Sum(f, W) \in Int
    BY <1>7, <2>2, SumType DEF Sum, IntegersOn
  <2> QED BY <2>1, <2>4, <2>5, <2>6
<1>9. /\ Cardinality(blocks \cup {n}) = Cardinality(blocks) + 1
      /\ Cardinality(tried \cup {n}) = Cardinality(tried) + 1
  BY <1>7, OneMore
<1> DEFINE s == summarizeDecisionsForRange(rows, start, end)
           r == summarizeDecisionsForRange(q, start, end)
<1>10. /\ s.hitCount = Cardinality(hits) /\ s.blockedCount = Cardinality(blocks)
       /\ s.retentionHits = Cardinality(kept) /\ s.retentionAttempts = Cardinality(tried)
       /\ s.marketingCost = Sum(f, W)
  BY DecisionsRecord DEF DecisionsOf, W
<1>11. /\ r.hitCount = Cardinality({i \in V : q[i].kind.outcome = "HIT"})
       /\ r.blockedCount = Cardinality({i \in V : q[i].kind.outcome = "BLOCKED"})
       /\ r.retentionHits = Cardinality({i \in V : q[i].kind.retention = "hit"})
       /\ r.retentionAttempts = Cardinality({i \in V : isRetentionPolicy(q[i])})
       /\ r.marketingCost = Sum(g, V)
  BY <1>3, DecisionsRecord DEF DecisionsOf
<1> HIDE DEF s, r, hits, blocks, tried, kept, f, g
<1>12. /\ r.hitCount = s.hitCount /\ r.marketingCost = s.marketingCost
       /\ r.retentionHits = s.retentionHits
  BY <1>6, <1>8, <1>10, <1>11
<1>13. /\ r.blockedCount \in {s.blockedCount, s.blockedCount + 1}
       /\ r.retentionAttempts \in {s.retentionAttempts, s.retentionAttempts + 1}
  BY <1>6, <1>9, <1>10, <1>11
<1> QED BY <1>12, <1>13 DEF q, r, s

\* Rates after a preview are no better.
LEMMA PreviewRates ==
  ASSUME NEW rows \in Seq(Decisions), NEW d \in Decisions, NEW start \in Int, NEW end \in Int,
         d.kind.mode = "EVALUATE", d.at >= start, d.at < end
  PROVE  LET s == summarizeDecisionsForRange(rows, start, end)
             r == summarizeDecisionsForRange(Append(rows, d), start, end)
         IN  /\ upliftHitRate(r) <= upliftHitRate(s)
             /\ subsidyWasteProxy(s) <= subsidyWasteProxy(r)
             /\ Rate(r.retentionHits, r.retentionAttempts) <= Rate(s.retentionHits, s.retentionAttempts)
<1> DEFINE s == summarizeDecisionsForRange(rows, start, end)
           r == summarizeDecisionsForRange(Append(rows, d), start, end)
<1>1. Append(rows, d) \in Seq(Decisions)
  OBVIOUS
<1>2. /\ upliftHitRate(s) \in Int /\ subsidyWasteProxy(s) = 10000 - upliftHitRate(s)
      /\ s.hitCount \in Nat /\ s.blockedCount \in Nat
      /\ s.retentionAttempts \in Nat /\ s.retentionHits \in Nat
      /\ s.retentionHits <= s.retentionAttempts
  BY RatesOfDecisions, DecisionFigures
<1>3. /\ upliftHitRate(r) \in Int /\ subsidyWasteProxy(r) = 10000 - upliftHitRate(r)
  <2> DEFINE q == Append(rows, d)
  <2>1. r = summarizeDecisionsForRange(q, start, end) /\ q \in Seq(Decisions)
    BY <1>1
  <2> HIDE DEF r, q
  <2> QED BY <2>1, RatesOfDecisions
<1>4. /\ r.hitCount = s.hitCount /\ r.retentionHits = s.retentionHits
      /\ r.blockedCount \in {s.blockedCount, s.blockedCount + 1}
      /\ r.retentionAttempts \in {s.retentionAttempts, s.retentionAttempts + 1}
  BY PreviewInside
<1> HIDE DEF s, r
<1> DEFINE h == s.hitCount
           m == s.hitCount + s.blockedCount
           k == s.retentionHits
           n == s.retentionAttempts
<1>5. /\ h \in Nat /\ m \in Nat /\ h <= m /\ k \in Nat /\ n \in Nat /\ k <= n
  BY <1>2
<1>6. /\ upliftHitRate(s) = Rate(h, m)
      /\ upliftHitRate(r) = Rate(h, m) \/ upliftHitRate(r) = Rate(h, m + 1)
  <2>1. r.hitCount + r.blockedCount = m \/ r.hitCount + r.blockedCount = m + 1
    BY <1>2, <1>4
  <2> QED BY <1>4, <2>1 DEF upliftHitRate
<1>7. Rate(r.retentionHits, r.retentionAttempts) \in {Rate(k, n), Rate(k, n + 1)}
  BY <1>4
<1> HIDE DEF h, m, k, n
<1>8. Rate(h, m + 1) <= Rate(h, m) /\ Rate(k, n + 1) <= Rate(k, n)
  BY <1>5, RateDilutes
<1>9. Rate(k, n) \in Int
  BY <1>5, RateBounds
<1>10. upliftHitRate(r) <= upliftHitRate(s)
  BY <1>2, <1>6, <1>8
<1>11. subsidyWasteProxy(s) <= subsidyWasteProxy(r)
  BY <1>2, <1>3, <1>10
<1>12. Rate(r.retentionHits, r.retentionAttempts) <= Rate(s.retentionHits, s.retentionAttempts)
  BY <1>7, <1>8, <1>9 DEF k, n
<1> QED BY <1>10, <1>11, <1>12 DEF r, s

\* A preview saved now clears no failed gate.
LEMMA PreviewKeeps ==
  ASSUME RowsTypeOK, NothingCountsAgainst, NEW u \in Users, NEW kind \in Kinds,
         kind.mode = "EVALUATE", Standing = 0
  PROVE  Rank(Decided(u, kind)) = 0
<1> DEFINE d == [user |-> u, kind |-> kind, at |-> now]
           q == Append(decisions, d)
           t == now + 1
           f == Summaries(payments, decisions, t, Window)
           g == Summaries(payments, q, t, Window)
<1>1. /\ payments \in Seq(Payments) /\ decisions \in Seq(Decisions) /\ now \in Int /\ t \in Int
      /\ d \in Decisions /\ d.at = now /\ d.kind.mode = "EVALUATE"
      /\ Window \in Int /\ Trend \in Int /\ Trend >= 1 /\ Trend <= Window
  BY RowsAssumption, GateAssumption DEF RowsTypeOK, Decisions
<1>2. q \in Seq(Decisions)
  BY <1>1
<1>3. Decided(u, kind) = SnapshotOf(payments, q, t, Window)
      /\ Standing = Rank(SnapshotOf(payments, decisions, t, Window))
  BY DEF Decided, Standing, Snapshot
<1>4. SummaryTypes(f, payments) /\ SummaryTypes(g, payments) /\ FiguresType(f) /\ FiguresType(g)
  BY <1>1, <1>2, SummariesType DEF SummaryTypes
<1> HIDE DEF d
<1> DEFINE t1 == t - Window  t2 == t - 2 * Window  t3 == t - Trend  t4 == t - 2 * Trend
<1>5. t1 \in Int /\ t2 \in Int /\ t3 \in Int /\ t4 \in Int
  BY <1>1
<1>6. /\ d.at >= t1 /\ d.at < t /\ ~(d.at >= t2 /\ d.at < t1)
      /\ d.at >= t3 /\ ~(d.at >= t4 /\ d.at < t3)
  BY <1>1
<1>7. /\ f.made = summarizeDecisionsForRange(decisions, t1, t)
      /\ f.madeOld = summarizeDecisionsForRange(decisions, t2, t1)
      /\ f.madeRecent = summarizeDecisionsForRange(decisions, t3, t)
      /\ f.madeBefore = summarizeDecisionsForRange(decisions, t4, t3)
      /\ g.made = summarizeDecisionsForRange(q, t1, t)
      /\ g.madeOld = summarizeDecisionsForRange(q, t2, t1)
      /\ g.madeRecent = summarizeDecisionsForRange(q, t3, t)
      /\ g.madeBefore = summarizeDecisionsForRange(q, t4, t3)
      /\ f.paid = g.paid /\ f.paidOld = g.paidOld /\ f.paidRecent = g.paidRecent
      /\ f.paidBefore = g.paidBefore /\ f.coverage = g.coverage /\ f.privacy = g.privacy
  BY SummariesAre
<1> HIDE DEF f, g, t, t1, t2, t3, t4
<1>8. g.madeOld = f.madeOld /\ g.madeBefore = f.madeBefore
  BY <1>1, <1>6, <1>7, RowOutside
<1>9. /\ g.made.marketingCost = f.made.marketingCost
      /\ upliftHitRate(g.made) <= upliftHitRate(f.made)
      /\ subsidyWasteProxy(f.made) <= subsidyWasteProxy(g.made)
      /\ Rate(g.made.retentionHits, g.made.retentionAttempts)
           <= Rate(f.made.retentionHits, f.made.retentionAttempts)
  BY <1>1, <1>5, <1>6, <1>7, PreviewInside, PreviewRates
<1>10. g.madeRecent.marketingCost = f.madeRecent.marketingCost
  BY <1>1, <1>5, <1>6, <1>7, PreviewInside
<1>11. valueIndex(g) <= valueIndex(f)
  <2>1. /\ f.made.marketingCost <= g.made.marketingCost /\ g.paid.netRevenue <= f.paid.netRevenue
    BY <1>4, <1>7, <1>9 DEF SummaryTypes, DecisionsSummary, PaymentsSummary
  <2> QED BY <1>4, <1>7, <1>8, <1>9, <2>1, ValueIndexGrows
<1>12. profitTrendDelta(g) <= profitTrendDelta(f)
  <2>1. netProfit(g.paidRecent, g.madeRecent) = netProfit(f.paidRecent, f.madeRecent)
    BY <1>7, <1>10 DEF netProfit
  <2>2. profitTrendDelta(g) = profitTrendDelta(f)
    BY <1>7, <1>8, <2>1 DEF profitTrendDelta
  <2> QED BY <1>4, <2>2 DEF FiguresType
<1>13. WorseFigures(g, f)
  <2>1. /\ f.paid.refundAmount >= g.paid.refundAmount /\ subsidyWasteProxy(g.made) >= subsidyWasteProxy(f.made)
        /\ f.coverage.coverageRate <= g.coverage.coverageRate
    BY <1>4, <1>7, <1>9 DEF FiguresType
  <2> QED BY <1>7, <1>11, <1>12, <2>1 DEF WorseFigures
<1> DEFINE rf == buildDataSufficiency(th, f)
           rg == buildDataSufficiency(th, g)
           gf == gatesOf(th, f, rf)
           gg == gatesOf(th, g, rg)
<1>14. /\ rf \in BOOLEAN /\ rg \in BOOLEAN
       /\ SnapshotOf(payments, decisions, t, Window) = report(f, gf, rf)
       /\ SnapshotOf(payments, q, t, Window) = report(g, gg, rg)
  BY SnapshotIs DEF f, g
<1> HIDE DEF rf, rg
<1>15. /\ Gates(gf) /\ Gates(gg)
       /\ gf.business = "FAIL" => gg.business = "FAIL"
       /\ Worse(gg.technical, gf.technical) /\ Worse(gg.risk, gf.risk)
       /\ Worse(gg.compliance, gf.compliance)
  BY <1>4, <1>13, <1>14, GatesWorse
<1> HIDE DEF gf, gg
<1> DEFINE allf == {gf.business, gf.technical, gf.risk, gf.compliance}
           allg == {gg.business, gg.technical, gg.risk, gg.compliance}
<1>16. /\ report(f, gf, rf).final = finalStatus(allf, rf)
       /\ report(g, gg, rg).final = finalStatus(allg, rg)
  BY <1>14, <1>15, FinalOf
<1>17. finalStatus(allf, rf) = "NO_GO"
  BY <1>3, <1>14, <1>16, RankType
<1>18. "FAIL" \in allf
  BY <1>17 DEF finalStatus
<1>19. "FAIL" \in allg
  BY <1>15, <1>18 DEF Worse
<1>20. finalStatus(allg, rg) = "NO_GO"
  BY <1>19 DEF finalStatus
<1> QED BY <1>3, <1>14, <1>16, <1>20, RankType

-----------------------------------------------------------------------------
(***************************************************************************)
(* The experience guard.  RowsPast: no row is of the future.               *)
(***************************************************************************)
RowsPast ==
  /\ \A i \in DOMAIN payments : payments[i].at <= now /\ payments[i].invoiced <= now
  /\ \A i \in DOMAIN decisions : decisions[i].at <= now
  /\ \A i \in DOMAIN audit : audit[i].at <= now

\* The guard and the gate look at the same rows.
LEMMA SinceIsWithin ==
  ASSUME RowsTypeOK, RowsPast, NEW cutoff \in Int
  PROVE  /\ Since(payments, cutoff) = Within(payments, cutoff, now + 1)
         /\ Since(decisions, cutoff) = Within(decisions, cutoff, now + 1)
         /\ Since(audit, cutoff) = Within(audit, cutoff, now + 1)
<1>1. now \in Int
  BY DEF RowsTypeOK
<1>2. /\ \A i \in DOMAIN payments : payments[i].at \in Int
      /\ \A i \in DOMAIN decisions : decisions[i].at \in Int
      /\ \A i \in DOMAIN audit : audit[i].at \in Int
  <2>1. /\ \A i \in DOMAIN payments : payments[i].at \in Int
        /\ \A i \in DOMAIN decisions : decisions[i].at \in Int
    BY PaymentRow, DecisionRow DEF RowsTypeOK
  <2>2. ASSUME NEW i \in DOMAIN audit PROVE audit[i].at \in Int
    <3>1. audit[i] \in Audit
      BY <2>2 DEF RowsTypeOK
    <3> QED BY <3>1 DEF Audit
  <2> QED BY <2>1, <2>2
<1>3. /\ \A i \in DOMAIN payments : payments[i].at < now + 1
      /\ \A i \in DOMAIN decisions : decisions[i].at < now + 1
      /\ \A i \in DOMAIN audit : audit[i].at < now + 1
  BY <1>1, <1>2 DEF RowsPast
<1> QED BY <1>3 DEF Since, Within

LEMMA LadderIs ==
  ASSUME NEW nothing \in BOOLEAN, NEW risk \in BOOLEAN, NEW warning \in BOOLEAN, NEW score
  PROVE  LET p == Path(Ladder(nothing, risk, warning), score) IN
         /\ p.status \in {"NO_DATA", "RISK", "WARNING", "HEALTHY"}
         /\ p.status = "NO_DATA" <=> nothing
         /\ p.status = "RISK" <=> ~nothing /\ risk
         /\ p.status = "HEALTHY" <=> ~nothing /\ ~risk /\ ~warning
         /\ ~nothing => p.score = score
         /\ nothing => p.score = 0
  BY DEF Path, Ladder

LEMMA ScoreAtLeast ==
  ASSUME NEW a \in Int, NEW b \in Nat, b > 0, NEW s \in 0 .. 100, (2 * b) * s <= 2 * a + b
  PROVE  clampScore(a, b) \in Int /\ s <= clampScore(a, b) /\ clampScore(a, b) <= 100
<1> DEFINE n == 2 * a + b
           q == n \div (2 * b)
<1>1. n \in Int /\ 2 * b \in Nat /\ 2 * b > 0 /\ s \in Int
  OBVIOUS
<1>2. clampScore(a, b) = clamp(q, 0, 100)
  BY DEF clampScore
<1>3. (2 * b) * s <= n
  OBVIOUS
<1> HIDE DEF n
<1>4. q \in Int /\ s <= q
  BY <1>1, <1>3, Divides, QuotientAtLeast
<1> HIDE DEF q
<1> QED BY <1>2, <1>4 DEF clamp

\* A score is a number.
LEMMA ScoreType ==
  ASSUME NEW a \in Int, NEW b \in Nat, b > 0
  PROVE  clampScore(a, b) \in Int
<1> DEFINE n == 2 * a + b
           q == n \div (2 * b)
<1>1. n \in Int /\ 2 * b \in Nat /\ 2 * b > 0
  OBVIOUS
<1>2. clampScore(a, b) = clamp(q, 0, 100)
  BY DEF clampScore
<1> HIDE DEF n
<1>3. q \in Int
  BY <1>1, Divides
<1> HIDE DEF q
<1> QED BY <1>2, <1>3 DEF clamp

\* What the entry says of its customers.
LEMMA EntryPath ==
  ASSUME NEW cutoff
  PROVE  LET p == summarizeEntrySessionPath(cutoff) IN
         /\ p.status \in {"NO_DATA", "WARNING", "HEALTHY"}
         /\ p.status = "HEALTHY" => p.score = 95
         /\ p.score \in Int
<1> DEFINE bound == {u \in Users : bindings[u].linked # None}
           nothing == bound = {}
           warning == \A u \in bound : bindings[u].used < cutoff
           status == Ladder(nothing, FALSE, warning)
           p == summarizeEntrySessionPath(cutoff)
<1>1. p = Path(status, scoreByStatus(status))
  BY DEF summarizeEntrySessionPath
<1>2. nothing \in BOOLEAN /\ warning \in BOOLEAN
  OBVIOUS
<1> HIDE DEF p, nothing, warning
<1>3. status \in {"NO_DATA", "WARNING", "HEALTHY"}
  BY <1>2 DEF Ladder
<1>4. p.status = status /\ p.score = IF status = "NO_DATA" THEN 0 ELSE scoreByStatus(status)
  BY <1>1 DEF Path
<1> HIDE DEF status
<1> QED BY <1>3, <1>4 DEF scoreByStatus, p

\* A healthy payment path has a high score, unless nothing is settled.
LEMMA PaymentPath ==
  ASSUME RowsTypeOK, NEW cutoff \in Int
  PROVE  LET p == summarizePaymentPath(cutoff)
             rows == Since(payments, cutoff)
         IN  /\ p.status \in {"NO_DATA", "RISK", "WARNING", "HEALTHY"} /\ p.score \in Int
             /\ p.status = "NO_DATA" <=> rows = {}
             /\ p.status = "HEALTHY" /\ (\E i \in rows : payments[i].status # "PENDING_EXTERNAL")
                => p.score >= 85
<1> DEFINE rows == Since(payments, cutoff)
           of(s) == {i \in rows : payments[i].status = s}
           n == Cardinality(rows)
           paid == Cardinality(of("PAID"))
           failed == Cardinality(of("EXTERNAL_FAILED"))
           pending == Cardinality(of("PENDING_EXTERNAL"))
           terminal == paid + failed
           success == Rate(paid, terminal)
           half == (2 * n + 4) \div 5
           many == IF half > 3 THEN half ELSE 3
           nothing == n = 0
           risk == (terminal > 0 /\ success < 9000) \/ failed >= 3
           warning == (terminal > 0 /\ success < 9700) \/ failed > 0 \/ pending >= many
           a == (1000000 - (10000 - success) * 70) * n - pending * 200000
           score == IF nothing THEN 0 ELSE clampScore(a, 10000 * n)
           p == summarizePaymentPath(cutoff)
<1>1. p = Path(Ladder(nothing, risk, warning), score)
  BY DEF summarizePaymentPath
<1>2. /\ rows \in SUBSET DOMAIN payments /\ payments \in Seq(Payments)
      /\ \A s : of(s) \in SUBSET rows
  BY DEF Since, RowsTypeOK
<1>3. /\ IsFiniteSet(rows) /\ n \in Nat /\ paid \in Nat /\ failed \in Nat /\ pending \in Nat
  BY <1>2, FiniteRows
<1>4. n = 0 <=> rows = {}
  BY <1>3, FS_EmptySet
<1>5. success \in Int /\ 0 <= success /\ success <= 10000 /\ (terminal > 0 /\ failed = 0 => success = 10000)
  <2> HIDE DEF paid, failed
  <2>1. terminal \in Nat /\ paid <= terminal /\ (failed = 0 => paid = terminal)
    BY <1>3
  <2> HIDE DEF terminal
  <2> QED BY <1>3, <2>1, RateBounds
<1>6. score \in Int
  <2> HIDE DEF n, success, pending
  <2>1. CASE nothing
    BY <2>1
  <2>2. CASE n # 0
    <3>1. a \in Int /\ 10000 * n \in Nat /\ 10000 * n > 0
      BY <1>3, <1>5, <2>2
    <3> HIDE DEF a
    <3> QED BY <2>2, <3>1, ScoreType
  <2> QED BY <2>1, <2>2
<1>7. /\ p.status \in {"NO_DATA", "RISK", "WARNING", "HEALTHY"}
      /\ p.status = "NO_DATA" <=> nothing
      /\ p.status = "HEALTHY" <=> ~nothing /\ ~risk /\ ~warning
      /\ ~nothing => p.score = score
      /\ nothing => p.score = 0
  <2> HIDE DEF p, score, nothing, risk, warning
  <2>1. nothing \in BOOLEAN /\ risk \in BOOLEAN /\ warning \in BOOLEAN
    BY DEF nothing, risk, warning
  <2> QED BY <1>1, <2>1, LadderIs
<1>8. ASSUME p.status = "HEALTHY", NEW x \in rows, payments[x].status # "PENDING_EXTERNAL"
      PROVE  score >= 85
  <2>1. n # 0 /\ ~risk /\ ~warning
    BY <1>7, <1>8
  <2>2. failed = 0 /\ pending < many
    BY <1>3, <2>1
  <2>3. payments[x].status = "PAID"
    <3>1. payments[x].status \in Statuses
      BY <1>2, <1>8, PaymentRow
    <3>2. of("EXTERNAL_FAILED") = {}
      <4>1. of("EXTERNAL_FAILED") \in SUBSET rows
        BY <1>2
      <4>2. IsFiniteSet(of("EXTERNAL_FAILED"))
        BY <1>2, <4>1, FiniteRows
      <4> QED BY <2>2, <4>2, FS_EmptySet
    <3> QED BY <1>8, <3>1, <3>2 DEF Statuses
  <2>4. paid >= 1
    <3>1. of("PAID") # {}
      BY <1>8, <2>3
    <3>2. IsFiniteSet(of("PAID"))
      BY <1>2, FiniteRows
    <3> QED BY <1>3, <3>1, <3>2, FS_EmptySet
  <2>5. pending + 1 <= n
    <3> DEFINE T == of("PENDING_EXTERNAL")
    <3>1. x \notin T /\ T \cup {x} \in SUBSET rows /\ T \in SUBSET rows
      BY <1>8
    <3>2. IsFiniteSet(T) /\ Cardinality(T) = pending
      BY <1>2, <3>1, FiniteRows
    <3> HIDE DEF T
    <3>3. Cardinality(T \cup {x}) = Cardinality(T) + 1
      BY <3>1, <3>2, OneMore
    <3>4. Cardinality(T \cup {x}) <= n
      BY <1>2, <3>1, FiniteRows
    <3> QED BY <3>2, <3>3, <3>4
  <2> HIDE DEF n, paid, failed, pending, success, of, rows
  <2>6. success = 10000
    BY <1>3, <1>5, <2>2, <2>4
  <2>7. a = 1000000 * n - pending * 200000
    BY <1>3, <2>6
  <2>8. 40 * pending <= 31 * n
    <3>1. half \in Int /\ 5 * half <= 2 * n + 4
      <4>1. 2 * n + 4 \in Int
        BY <1>3
      <4> QED BY <4>1, Divides
    <3> HIDE DEF half
    <3>2. CASE half > 3
      BY <1>3, <2>2, <3>1, <3>2
    <3>3. CASE ~(half > 3)
      BY <1>3, <2>2, <2>5, <3>1, <3>3
    <3> QED BY <3>2, <3>3
  <2>9. a \in Int /\ 10000 * n \in Nat /\ 10000 * n > 0 /\ (2 * (10000 * n)) * 85 <= 2 * a + 10000 * n
    BY <1>3, <2>1, <2>7, <2>8
  <2>10. clampScore(a, 10000 * n) \in Int /\ 85 <= clampScore(a, 10000 * n)
    <3> DEFINE b == 10000 * n
    <3>1. a \in Int /\ b \in Nat /\ b > 0 /\ (2 * b) * 85 <= 2 * a + b
      BY <2>9
    <3> HIDE DEF a, b
    <3>2. 85 \in 0 .. 100
      OBVIOUS
    <3>3. clampScore(a, b) \in Int /\ 85 <= clampScore(a, b)
      BY <3>1, <3>2, ScoreAtLeast
    <3> QED BY <3>3 DEF b
  <2> QED BY <2>1, <2>10
<1> HIDE DEF risk, warning, score, n
<1> QED BY <1>4, <1>6, <1>7, <1>8 DEF rows, p

\* The trace of orders: its rate is that of the gate's coverage.
LEMMA TracePath ==
  ASSUME RowsTypeOK, RowsPast, NEW cutoff \in Int
  PROVE  LET p == summarizeOrderTracePath(cutoff)
             paid == With(payments, cutoff, now + 1, "PAID")
             rate == Rate(Cardinality(Covered(payments, paid, cutoff, now + 1)), Cardinality(paid))
         IN  /\ p.status \in {"NO_DATA", "RISK", "WARNING", "HEALTHY"} /\ p.score \in Int
             /\ p.status = "RISK" /\ (\A i \in DOMAIN payments : payments[i].status = "PAID" => payments[i].traced)
                => paid # {} /\ rate < 8000
             /\ p.status = "HEALTHY" => p.score >= 85
<1> DEFINE paid == {i \in Since(payments, cutoff) : payments[i].status = "PAID"}
           complete == {i \in paid : /\ payments[i].invoiced # None /\ payments[i].invoiced >= cutoff
                                     /\ payments[i].traced}
           n == Cardinality(paid)
           k == Cardinality(complete)
           missing == n - k
           rate == Rate(k, n)
           nothing == paid = {}
           risk == (rate < 8000 /\ missing >= 2) \/ rate < 6000
           warning == rate < 9500 \/ missing > 0
           score == clampScore(rate, 100)
           p == summarizeOrderTracePath(cutoff)
<1>1. p = Path(Ladder(nothing, risk, warning), score)
  BY DEF summarizeOrderTracePath
<1>2. /\ paid = With(payments, cutoff, now + 1, "PAID")
      /\ paid \in SUBSET DOMAIN payments /\ complete \in SUBSET paid /\ payments \in Seq(Payments)
  BY SinceIsWithin DEF With, Within, RowsTypeOK
<1>3. n \in Nat /\ k \in Nat /\ k <= n
  <2> HIDE DEF paid, complete
  <2> QED BY <1>2, FiniteRows
<1>4. ASSUME \A i \in DOMAIN payments : payments[i].status = "PAID" => payments[i].traced
      PROVE  complete = Covered(payments, paid, cutoff, now + 1)
  <2>1. \A i \in paid : payments[i].traced
    BY <1>2, <1>4
  <2>2. \A i \in paid : payments[i].invoiced < now + 1
    <3>1. \A i \in DOMAIN payments : payments[i].invoiced \in Int
      BY <1>2, PaymentRow
    <3>2. now \in Int
      BY DEF RowsTypeOK
    <3> QED BY <1>2, <3>1, <3>2 DEF RowsPast
  <2> HIDE DEF paid
  <2> QED BY <2>1, <2>2 DEF Covered
<1> HIDE DEF paid, complete, n, k
<1>5. rate \in Int /\ 0 <= rate /\ rate <= 10000
  BY <1>3, RateBounds
<1> HIDE DEF rate
<1>6. score \in Int /\ (rate >= 9500 => score >= 85)
  <2>1. score \in Int
    BY <1>5, ScoreType
  <2>2. ASSUME rate >= 9500 PROVE score >= 85
    <3>1. 85 \in 0 .. 100 /\ 100 \in Nat /\ 100 > 0 /\ (2 * 100) * 85 <= 2 * rate + 100
      BY <1>5, <2>2
    <3>2. 85 <= clampScore(rate, 100)
      BY <1>5, <3>1, ScoreAtLeast
    <3> QED BY <2>1, <3>2
  <2> QED BY <2>1, <2>2
<1>7. /\ p.status \in {"NO_DATA", "RISK", "WARNING", "HEALTHY"}
      /\ p.status = "RISK" <=> ~nothing /\ risk
      /\ p.status = "HEALTHY" <=> ~nothing /\ ~risk /\ ~warning
      /\ ~nothing => p.score = score
      /\ nothing => p.score = 0
  <2> HIDE DEF p, score, nothing, risk, warning
  <2>1. nothing \in BOOLEAN /\ risk \in BOOLEAN /\ warning \in BOOLEAN
    BY DEF nothing, risk, warning
  <2> QED BY <1>1, <2>1, LadderIs
<1>8. p.score \in Int
  BY <1>6, <1>7
<1>9. p.status = "HEALTHY" => p.score >= 85
  BY <1>5, <1>6, <1>7
<1>10. p.status = "RISK" => paid # {} /\ rate < 8000
  BY <1>5, <1>7
<1> HIDE DEF p
<1>11. ASSUME p.status = "RISK", \A i \in DOMAIN payments : payments[i].status = "PAID" => payments[i].traced
       PROVE  /\ With(payments, cutoff, now + 1, "PAID") # {}
              /\ Rate(Cardinality(Covered(payments, With(payments, cutoff, now + 1, "PAID"), cutoff, now + 1)),
                      Cardinality(With(payments, cutoff, now + 1, "PAID"))) < 8000
  BY <1>2, <1>4, <1>10, <1>11 DEF rate, n, k
<1> QED BY <1>7, <1>8, <1>9, <1>11 DEF p

\* The privacy routes: the guard's failures are the gate's.
LEMMA PrivacyPath ==
  ASSUME RowsTypeOK, RowsPast, NEW cutoff \in Int
  PROVE  LET p == summarizePrivacyPath(cutoff)
             privacy == summarizePrivacyAuditForRange(cutoff, now + 1)
         IN  /\ p.status \in {"NO_DATA", "RISK", "WARNING", "HEALTHY"} /\ p.score \in Int
             /\ privacy.successRate \in Int
             /\ p.status = "RISK" => privacy.total \in Nat /\ privacy.total > 0 /\ privacy.successRate <= 5001
             /\ p.status = "HEALTHY" => p.score >= 85
<1> DEFINE rows == Since(audit, cutoff)
           bad == {i \in rows : ~audit[i].ok}
           good == {i \in rows : audit[i].ok}
           n == Cardinality(rows)
           failed == Cardinality(bad)
           rate == Rate(failed, n)
           nothing == rows = {}
           risk == (failed >= 2 /\ failed = n) \/ rate >= 5000
           warning == failed > 0
           score == clampScore(10000 - rate, 100)
           p == summarizePrivacyPath(cutoff)
           privacy == summarizePrivacyAuditForRange(cutoff, now + 1)
<1>1. p = Path(Ladder(nothing, risk, warning), score)
  BY DEF summarizePrivacyPath
<1>2. rows = Within(audit, cutoff, now + 1) /\ rows \in SUBSET DOMAIN audit /\ audit \in Seq(Audit)
  BY SinceIsWithin DEF Within, RowsTypeOK
<1>3. privacy.total = n /\ privacy.successRate = Rate(Cardinality(good), n)
  BY <1>2 DEF summarizePrivacyAuditForRange
<1>4. bad \in SUBSET rows /\ good = rows \ bad
  OBVIOUS
<1> HIDE DEF rows, bad, good, p, privacy
<1>5. /\ IsFiniteSet(rows) /\ n \in Nat /\ failed \in Nat /\ failed <= n
      /\ Cardinality(good) = n - failed
  <2>1. /\ IsFiniteSet(rows) /\ n \in Nat /\ failed \in Nat /\ failed <= n /\ IsFiniteSet(bad)
    BY <1>2, <1>4, FiniteRows
  <2>2. Cardinality(rows \ bad) = Cardinality(rows) - Cardinality(rows \cap bad)
    BY <2>1, FS_Difference
  <2>3. rows \cap bad = bad
    BY <1>4
  <2> QED BY <1>4, <2>1, <2>2, <2>3
<1>6. nothing <=> n = 0
  BY <1>5, FS_EmptySet
<1>7. /\ rate \in Int /\ 0 <= rate /\ rate <= 10000
      /\ failed = 0 => rate = 0
  <2> HIDE DEF n, failed
  <2> QED BY <1>5, RateBounds
<1>8. Rate(n - failed, n) \in Int /\ (failed = n => Rate(n - failed, n) = 0)
      /\ (rate >= 5000 => Rate(n - failed, n) <= 5001)
  <2> DEFINE ok == n - failed
  <2> HIDE DEF n, failed
  <2>1. ok \in Nat /\ ok <= n /\ (failed = n => ok = 0)
    BY <1>5
  <2>2. rate >= 5000 => Rate(n - failed, n) <= 5001
    BY <1>5, HalfFail
  <2> HIDE DEF ok
  <2>3. Rate(ok, n) \in Int /\ (ok = 0 => Rate(ok, n) = 0)
    BY <1>5, <2>1, RateBounds
  <2> QED BY <2>1, <2>2, <2>3 DEF ok
<1>9. /\ p.status \in {"NO_DATA", "RISK", "WARNING", "HEALTHY"}
      /\ p.status = "RISK" <=> ~nothing /\ risk
      /\ p.status = "HEALTHY" <=> ~nothing /\ ~risk /\ ~warning
      /\ ~nothing => p.score = score
      /\ nothing => p.score = 0
  <2> HIDE DEF p, score, nothing, risk, warning
  <2>1. nothing \in BOOLEAN /\ risk \in BOOLEAN /\ warning \in BOOLEAN
    BY DEF nothing, risk, warning
  <2> QED BY <1>1, <2>1, LadderIs
<1> HIDE DEF n, failed, rate
<1>10. score \in Int /\ (failed = 0 => score >= 85)
  <2> DEFINE r == 10000 - rate
  <2>1. r \in Int /\ (failed = 0 => r = 10000)
    BY <1>7
  <2> HIDE DEF r
  <2>2. clampScore(r, 100) \in Int
    BY <2>1, ScoreType
  <2>3. ASSUME failed = 0 PROVE 85 <= clampScore(r, 100)
    <3>1. 85 \in 0 .. 100 /\ 100 \in Nat /\ 100 > 0 /\ (2 * 100) * 85 <= 2 * r + 100
      BY <2>1, <2>3
    <3> QED BY <2>1, <3>1, ScoreAtLeast
  <2> QED BY <2>2, <2>3 DEF r
<1>11. p.score \in Int
  BY <1>9, <1>10
<1>12. p.status = "HEALTHY" => p.score >= 85
  BY <1>5, <1>9, <1>10
<1>13. p.status = "RISK" => n > 0 /\ privacy.successRate <= 5001
  BY <1>3, <1>5, <1>6, <1>8, <1>9
<1> QED BY <1>3, <1>5, <1>8, <1>9, <1>11, <1>12, <1>13 DEF p, privacy

LEMMA GuardPaths ==
  ASSUME NEW t, NEW w
  PROVE  LET guard == getGuardSnapshot(t, w) IN
         /\ DOMAIN guard.paths = {"entry", "payment", "trace", "privacy"}
         /\ guard.paths.entry = summarizeEntrySessionPath(t - w)
         /\ guard.paths.payment = summarizePaymentPath(t - w)
         /\ guard.paths.trace = summarizeOrderTracePath(t - w)
         /\ guard.paths.privacy = summarizePrivacyPath(t - w)
         /\ guard.overall = summarizeOverall(guard.paths)
  BY DEF getGuardSnapshot

\* A failed technical or compliance gate is a NO_GO that customers are told of.
LEMMA FailedGate ==
  ASSUME NEW t, NEW w, LET f == Summaries(payments, decisions, t, w) IN
                       \/ evaluateTechnicalGate(th, f.paid) = "FAIL"
                       \/ evaluateComplianceGate(th, f.coverage, f.privacy) = "FAIL"
  PROVE  toCustomerStabilitySnapshot(t, w) = "UNSTABLE" /\ Snapshot(t, w).final = "NO_GO"
<1> DEFINE f == Summaries(payments, decisions, t, w)
           ready == buildDataSufficiency(th, f)
           g == gatesOf(th, f, ready)
<1>1. ready \in BOOLEAN /\ Snapshot(t, w) = report(f, g, ready)
  BY SnapshotIs DEF Snapshot
<1>2. /\ g.technical = evaluateTechnicalGate(th, f.paid)
      /\ g.compliance = evaluateComplianceGate(th, f.coverage, f.privacy)
      /\ Gates(g)
  BY DEF gatesOf, Gates
<1>3. g.technical = "FAIL" \/ g.compliance = "FAIL"
  BY <1>2
<1> HIDE DEF f, ready, g
<1>4. Snapshot(t, w).gates = g
  BY <1>1 DEF report
<1>5. Snapshot(t, w).final = finalStatus({g.business, g.technical, g.risk, g.compliance}, ready)
  BY <1>1, <1>2, FinalOf
<1>6. Snapshot(t, w).final = "NO_GO"
  BY <1>3, <1>5 DEF finalStatus
<1> QED BY <1>3, <1>4, <1>6 DEF toCustomerStabilitySnapshot, resolveCustomerStabilityLevel

LEMMA RiskShows ==
  ASSUME RowsTypeOK, RowsPast
  PROVE  RiskIsUnstable
<1> DEFINE t == now + 1
           gate == Snapshot(t, Window)
           guard == getGuardSnapshot(t, Window)
           traced == \A i \in DOMAIN payments : payments[i].status = "PAID" => payments[i].traced
           cutoff == t - Window
           f == Summaries(payments, decisions, t, Window)
           told == toCustomerStabilitySnapshot(t, Window) = "UNSTABLE" /\ gate.final = "NO_GO"
<1>1. SUFFICES ASSUME th.paymentSuccessRateMin >= 9000, th.invoiceCoverageMin >= 8000,
                      th.privacySuccessRateMin >= 6000,
                      NEW p \in DOMAIN guard.paths, guard.paths[p].status = "RISK",
                      p = "trace" => traced, p = "payment" => gate.successRate < 9000
               PROVE  told
  BY DEF RiskIsUnstable, th
<1>2. /\ now \in Int /\ t \in Int /\ cutoff \in Int /\ payments \in Seq(Payments)
  BY GateAssumption DEF RowsTypeOK
<1>3. /\ f.paid = summarizePaymentsForRange(payments, cutoff, t)
      /\ f.coverage = summarizeInvoicesForRange(payments, f.paid.paid, cutoff, t)
      /\ f.privacy = summarizePrivacyAuditForRange(cutoff, t)
  BY SummariesAre
<1>4. p \in {"entry", "payment", "trace", "privacy"}
  BY <1>1, GuardPaths
<1>5. ASSUME evaluateTechnicalGate(th, f.paid) = "FAIL" \/ evaluateComplianceGate(th, f.coverage, f.privacy) = "FAIL"
      PROVE  told
  BY <1>5, FailedGate
<1> DEFINE paid == With(payments, cutoff, t, "PAID")
           covered == Covered(payments, paid, cutoff, t)
<1>6. /\ f.paid.paid = paid /\ paid \in SUBSET DOMAIN payments /\ IsFiniteSet(paid)
      /\ f.paid.attempts = Cardinality(Within(payments, cutoff, t))
      /\ Within(payments, cutoff, t) \in SUBSET DOMAIN payments
      /\ f.paid.successRate \in Int
  BY <1>2, <1>3, PaymentFigures
<1>7. CASE p = "entry"
  <2>1. guard.paths.entry = summarizeEntrySessionPath(cutoff)
    BY GuardPaths
  <2> QED BY <1>1, <1>7, <2>1, EntryPath
<1>8. CASE p = "payment"
  <2> DEFINE W == Within(payments, cutoff, t)
  <2>1. guard.paths.payment = summarizePaymentPath(cutoff)
    BY GuardPaths
  <2>2. Since(payments, cutoff) # {}
    BY <1>1, <1>2, <1>8, <2>1, PaymentPath
  <2>3. W # {}
    BY <1>2, <2>2, SinceIsWithin
  <2>4. Cardinality(W) \in Nat /\ Cardinality(W) # 0
    <3>1. IsFiniteSet(W)
      BY <1>2, <1>6, FiniteRows
    <3> HIDE DEF W
    <3> QED BY <2>3, <3>1, FS_EmptySet, FS_CardinalityType
  <2>5. gate.successRate = f.paid.successRate
    <3>1. \A h, g, r : report(h, g, r).successRate = h.paid.successRate
      BY DEF report
    <3> QED BY <3>1, SnapshotIs DEF Snapshot
  <2>6. f.paid.attempts > 0
    BY <1>6, <2>4
  <2>7. f.paid.successRate < th.paymentSuccessRateMin
    BY <1>1, <1>6, <1>8, <2>5, ThresholdsType
  <2>8. evaluateTechnicalGate(th, f.paid) = "FAIL"
    BY <2>6, <2>7 DEF evaluateTechnicalGate, toGateStatus
  <2> QED BY <1>5, <2>8
<1>9. CASE p = "trace"
  <2>1. guard.paths.trace = summarizeOrderTracePath(cutoff)
    BY GuardPaths
  <2>2. paid # {} /\ Rate(Cardinality(covered), Cardinality(paid)) < 8000
    BY <1>1, <1>2, <1>9, <2>1, TracePath
  <2>3. /\ f.coverage.paidCount = Cardinality(paid)
        /\ f.coverage.coverageRate = Rate(Cardinality(covered), Cardinality(paid))
        /\ f.coverage.coverageRate \in Int
    <3> HIDE DEF paid
    <3>1. f.coverage = summarizeInvoicesForRange(payments, paid, cutoff, t)
      BY <1>3, <1>6
    <3> QED BY <1>2, <1>6, <3>1, CoverageFigures
  <2>4. Cardinality(paid) \in Nat /\ Cardinality(paid) # 0
    <3> HIDE DEF paid
    <3> QED BY <1>6, <2>2, FS_EmptySet, FS_CardinalityType
  <2>5. f.coverage.paidCount > 0
    BY <2>3, <2>4
  <2>6. f.coverage.coverageRate < th.invoiceCoverageMin
    <3> HIDE DEF f
    <3> QED BY <1>1, <2>2, <2>3, ThresholdsType
  <2>7. evaluateComplianceGate(th, f.coverage, f.privacy) = "FAIL"
    BY <2>5, <2>6 DEF evaluateComplianceGate, toGateStatus
  <2> QED BY <1>5, <2>7
<1>10. CASE p = "privacy"
  <2>1. guard.paths.privacy = summarizePrivacyPath(cutoff)
    BY GuardPaths
  <2>2. /\ f.privacy.total \in Nat /\ f.privacy.total > 0
        /\ f.privacy.successRate \in Int /\ f.privacy.successRate <= 5001
    BY <1>1, <1>2, <1>3, <1>10, <2>1, PrivacyPath
  <2>3. f.privacy.successRate < th.privacySuccessRateMin
    <3> HIDE DEF f
    <3> QED BY <1>1, <2>2, ThresholdsType
  <2>4. evaluateComplianceGate(th, f.coverage, f.privacy) = "FAIL"
    BY <2>2, <2>3 DEF evaluateComplianceGate, toGateStatus
  <2> QED BY <1>5, <2>4
<1> QED BY <1>4, <1>7, <1>8, <1>9, <1>10

\* Scores of paths with data, none of them below 85, have no lower a mean.
LEMMA HealthyScores ==
  ASSUME RowsTypeOK, RowsPast
  PROVE  HealthyScoresHigh
<1> DEFINE t == now + 1
           cutoff == t - Window
           guard == getGuardSnapshot(t, Window)
           paths == guard.paths
           settled == \E i \in Since(payments, cutoff) : payments[i].status # "PENDING_EXTERNAL"
           Four == {"entry", "payment", "trace", "privacy"}
           scored == {p \in Four : paths[p].status # "NO_DATA"}
           score == [p \in Four |-> paths[p].score]
           some(s) == \E p \in Four : paths[p].status = s
<1>1. SUFFICES ASSUME guard.overall.status = "HEALTHY", settled \/ paths.payment.status = "NO_DATA"
               PROVE  guard.overall.score >= 85
  BY DEF HealthyScoresHigh
<1>2. now \in Int /\ t \in Int /\ cutoff \in Int
  BY GateAssumption DEF RowsTypeOK
<1>3. /\ DOMAIN paths = Four
      /\ paths.entry = summarizeEntrySessionPath(cutoff)
      /\ paths.payment = summarizePaymentPath(cutoff)
      /\ paths.trace = summarizeOrderTracePath(cutoff)
      /\ paths.privacy = summarizePrivacyPath(cutoff)
      /\ guard.overall = summarizeOverall(paths)
  BY GuardPaths
<1>4. /\ paths.entry.status \in {"NO_DATA", "WARNING", "HEALTHY"} /\ paths.entry.score \in Int
      /\ paths.entry.status = "HEALTHY" => paths.entry.score = 95
  BY <1>3, EntryPath
<1>5. /\ paths.payment.status \in {"NO_DATA", "RISK", "WARNING", "HEALTHY"} /\ paths.payment.score \in Int
      /\ paths.payment.status = "HEALTHY" /\ settled => paths.payment.score >= 85
  BY <1>2, <1>3, PaymentPath
<1>6. /\ paths.trace.status \in {"NO_DATA", "RISK", "WARNING", "HEALTHY"} /\ paths.trace.score \in Int
      /\ paths.trace.status = "HEALTHY" => paths.trace.score >= 85
  BY <1>2, <1>3, TracePath
<1>7. /\ paths.privacy.status \in {"NO_DATA", "RISK", "WARNING", "HEALTHY"} /\ paths.privacy.score \in Int
      /\ paths.privacy.status = "HEALTHY" => paths.privacy.score >= 85
  BY <1>2, <1>3, PrivacyPath
<1> DEFINE whole == IF some("RISK") THEN "RISK" ELSE IF some("WARNING") THEN "WARNING"
                    ELSE IF scored = {} THEN "NO_DATA" ELSE "HEALTHY"
           mean == IF scored = {} THEN 0 ELSE clampScore(Sum(score, scored), Cardinality(scored))
<1>8. guard.overall = Path(whole, mean)
  BY <1>3 DEF summarizeOverall
<1>9. whole = "HEALTHY" /\ guard.overall.score = mean
  <2> HIDE DEF whole, mean, guard
  <2>1. guard.overall.status = whole /\ whole # "NO_DATA" => guard.overall.score = mean
    BY <1>8 DEF Path
  <2>2. guard.overall.status = whole
    BY <1>8 DEF Path
  <2> QED BY <1>1, <2>1, <2>2
<1>10. /\ scored # {} /\ scored \in SUBSET Four
       /\ \A p \in Four : paths[p].status \notin {"RISK", "WARNING"}
  BY <1>9
<1>11. \A p \in Four : paths[p].score \in Int
  BY <1>4, <1>5, <1>6, <1>7
<1>12. \A p \in scored : paths[p].score >= 85
  BY <1>1, <1>4, <1>5, <1>6, <1>7, <1>10
<1>13. /\ \A p \in scored : score[p] \in Int /\ 85 <= score[p]
  BY <1>11, <1>12
<1>14. IsFiniteSet(scored)
  <2>1. /\ IsFiniteSet({"entry"}) /\ IsFiniteSet({"payment"})
        /\ IsFiniteSet({"trace"}) /\ IsFiniteSet({"privacy"})
    BY FS_Singleton
  <2>2. IsFiniteSet({"entry"} \cup {"payment"}) /\ IsFiniteSet({"trace"} \cup {"privacy"})
    BY <2>1, FS_Union
  <2>3. IsFiniteSet(Four)
    <3>1. Four = ({"entry"} \cup {"payment"}) \cup ({"trace"} \cup {"privacy"})
      OBVIOUS
    <3> HIDE DEF Four
    <3> QED BY <2>2, <3>1, FS_Union
  <2> QED BY <1>10, <2>3, FS_Subset
<1> HIDE DEF scored, score, guard, paths
<1> DEFINE a == Sum(score, scored)
           b == Cardinality(scored)
<1>15. a \in Int /\ 85 * b <= a
  <2>1. 85 \in Nat
    OBVIOUS
  <2> QED BY <1>13, <1>14, <2>1, SumType, SumAtLeast DEF Sum, IntegersOn
<1>16. b \in Nat /\ b > 0
  <2>1. b \in Nat /\ b # 0
    BY <1>10, <1>14, FS_EmptySet, FS_CardinalityType
  <2> HIDE DEF b
  <2> QED BY <2>1
<1>17. clampScore(a, b) \in Int /\ 85 <= clampScore(a, b)
  <2> HIDE DEF a, b
  <2>1. 85 \in 0 .. 100 /\ (2 * b) * 85 <= 2 * a + b
    BY <1>15, <1>16
  <2> QED BY <1>15, <1>16, <2>1, ScoreAtLeast
<1>18. mean = clampScore(a, b)
  BY <1>10
<1> HIDE DEF a, b, mean
<1> QED BY <1>9, <1>17, <1>18 DEF guard

-----------------------------------------------------------------------------
(***************************************************************************)
(* The inductive invariant: rows are well typed and none is of the future, *)
(* decisions are kept in the order of time, and the rollbacks on record    *)
(* end with the configuration's.                                           *)
(***************************************************************************)
InOrder == \A i, j \in DOMAIN decisions : i < j => decisions[i].at <= decisions[j].at
RowsInvariant == RowsTypeOK /\ RowsPast /\ InOrder
RecordInvariant == ExperimentTypeOK /\ RollbackIsOnRecord /\ config.lastRollbackAt <= now

LEMMA RowsStart ==
  ASSUME RowsInit
  PROVE  RowsInvariant
<1>1. payments = <<>> /\ decisions = <<>> /\ audit = <<>> /\ now = 1
  BY DEF RowsInit
<1>2. /\ now \in 1 .. MaxClock /\ Len(payments) <= MaxPayments /\ Len(decisions) <= MaxDecisions
  BY <1>1, RowsAssumption
<1>3. /\ payments \in Seq(Payments) /\ decisions \in Seq(Decisions) /\ audit \in Seq(Audit)
  BY <1>1
<1>4. bindings \in [Users -> [linked : 0 .. MaxClock, used : 0 .. MaxClock]]
  BY RowsAssumption DEF RowsInit, None
<1>5. DOMAIN payments = {} /\ DOMAIN decisions = {} /\ DOMAIN audit = {}
  BY <1>1
<1> QED BY <1>2, <1>3, <1>4, <1>5 DEF RowsInvariant, RowsTypeOK, RowsPast, InOrder

\* One payment changed in what leaves it well typed and in the past.
LEMMA ChangedPayment ==
  ASSUME RowsInvariant, NEW i \in DOMAIN payments, NEW r \in Payments,
         r.at = payments[i].at, r.invoiced \in {payments[i].invoiced, now},
         payments' = [payments EXCEPT ![i] = r], UNCHANGED <<now, decisions, audit, bindings>>
  PROVE  RowsInvariant'
<1>1. /\ payments \in Seq(Payments) /\ now \in 1 .. MaxClock /\ Len(payments) <= MaxPayments
  BY DEF RowsInvariant, RowsTypeOK
<1>2. /\ payments' \in Seq(Payments) /\ Len(payments') = Len(payments)
      /\ DOMAIN payments' = DOMAIN payments
      /\ \A j \in DOMAIN payments : payments'[j] = IF j = i THEN r ELSE payments[j]
  BY <1>1
<1>3. RowsTypeOK'
  BY <1>1, <1>2 DEF RowsInvariant, RowsTypeOK
<1>4. \A j \in DOMAIN payments' : payments'[j].at <= now /\ payments'[j].invoiced <= now
  <2>1. \A j \in DOMAIN payments : payments[j].at <= now /\ payments[j].invoiced <= now
    BY DEF RowsInvariant, RowsPast
  <2>2. now <= now
    BY <1>1, RowsAssumption
  <2>3. r.at <= now /\ r.invoiced <= now
    BY <2>1, <2>2
  <2> QED BY <1>2, <2>1, <2>3
<1>5. RowsPast'
  BY <1>4 DEF RowsInvariant, RowsPast
<1>6. InOrder'
  BY DEF RowsInvariant, InOrder
<1> QED BY <1>3, <1>5, <1>6 DEF RowsInvariant

LEMMA PayStep ==
  ASSUME RowsInvariant, NEW u \in Users, NEW s \in Statuses, NEW logged \in BOOLEAN, Pay(u, s, logged)
  PROVE  RowsInvariant'
<1> DEFINE r == [user |-> u, status |-> s, at |-> now, refunded |-> 0, invoiced |-> None, traced |-> logged]
           n == Len(payments) + 1
<1>1. /\ payments \in Seq(Payments) /\ now \in 1 .. MaxClock /\ Len(payments) < MaxPayments
      /\ payments' = Append(payments, r) /\ UNCHANGED <<now, decisions, audit, bindings>>
  BY DEF Pay, RowsInvariant, RowsTypeOK
<1>2. r \in Payments /\ r.at = now /\ r.invoiced = 0
  BY <1>1, RowsAssumption DEF Payments, None
<1> HIDE DEF r
<1>3. /\ payments' \in Seq(Payments) /\ DOMAIN payments' = DOMAIN payments \cup {n}
      /\ payments'[n] = r /\ \A j \in DOMAIN payments : payments'[j] = payments[j]
  BY <1>1, <1>2, Appended
<1>4. Len(payments') <= MaxPayments
  BY <1>1, RowsAssumption
<1>5. RowsTypeOK'
  BY <1>1, <1>3, <1>4 DEF RowsInvariant, RowsTypeOK
<1>6. r.at <= now /\ r.invoiced <= now
  BY <1>1, <1>2, RowsAssumption
<1>7. RowsPast'
  BY <1>1, <1>3, <1>6 DEF RowsInvariant, RowsPast
<1>8. InOrder'
  BY <1>1 DEF RowsInvariant, InOrder
<1> QED BY <1>5, <1>7, <1>8 DEF RowsInvariant

LEMMA DecideStep ==
  ASSUME RowsInvariant, NEW u \in Users, NEW kind \in Kinds, Decide(u, kind)
  PROVE  RowsInvariant'
<1> DEFINE d == [user |-> u, kind |-> kind, at |-> now]
           n == Len(decisions) + 1
<1>1. /\ decisions \in Seq(Decisions) /\ now \in 1 .. MaxClock /\ Len(decisions) < MaxDecisions
      /\ decisions' = Append(decisions, d) /\ UNCHANGED <<now, payments, audit, bindings>>
  BY DEF Decide, RowsInvariant, RowsTypeOK
<1>2. d \in Decisions /\ d.at = now
  BY <1>1 DEF Decisions
<1> HIDE DEF d
<1>3. /\ decisions' \in Seq(Decisions) /\ DOMAIN decisions' = DOMAIN decisions \cup {n}
      /\ n \notin DOMAIN decisions /\ decisions'[n] = d
      /\ \A j \in DOMAIN decisions : decisions'[j] = decisions[j]
  BY <1>1, <1>2, Appended
<1>4. Len(decisions') <= MaxDecisions
  BY <1>1, RowsAssumption
<1>5. RowsTypeOK'
  BY <1>1, <1>3, <1>4 DEF RowsInvariant, RowsTypeOK
<1>6. now <= now /\ \A j \in DOMAIN decisions : decisions[j].at <= now
  BY <1>1, RowsAssumption DEF RowsInvariant, RowsPast
<1>7. RowsPast'
  BY <1>1, <1>2, <1>3, <1>6 DEF RowsInvariant, RowsPast
<1>8. InOrder'
  <2>1. \A j \in DOMAIN decisions : j < n
    <3>1. DOMAIN decisions = 1 .. Len(decisions) /\ Len(decisions) \in Nat
      BY <1>1
    <3> QED BY <3>1
  <2>2. \A j \in DOMAIN decisions : ~(n < j)
    <3>1. DOMAIN decisions = 1 .. Len(decisions) /\ Len(decisions) \in Nat
      BY <1>1
    <3> QED BY <3>1
  <2>3. \A i, j \in DOMAIN decisions : i < j => decisions[i].at <= decisions[j].at
    BY DEF RowsInvariant, InOrder
  <2>4. ASSUME NEW i \in DOMAIN decisions', NEW j \in DOMAIN decisions', i < j
        PROVE  decisions'[i].at <= decisions'[j].at
    <3>1. CASE j = n
      BY <1>2, <1>3, <1>6, <2>4, <3>1
    <3>2. CASE j \in DOMAIN decisions
      <4>1. i \in DOMAIN decisions
        BY <1>3, <2>2, <2>4, <3>2
      <4> QED BY <1>3, <2>3, <2>4, <3>2, <4>1
    <3> QED BY <1>3, <2>4, <3>1, <3>2
  <2> QED BY <2>4 DEF InOrder
<1> QED BY <1>5, <1>7, <1>8 DEF RowsInvariant

LEMMA PrivacyStep ==
  ASSUME RowsInvariant, PrivacyDone \/ PrivacyFailed
  PROVE  RowsInvariant'
<1>1. PICK ok \in BOOLEAN : /\ audit' = Append(audit, [ok |-> ok, at |-> now])
                            /\ UNCHANGED <<now, payments, decisions, bindings>>
  BY DEF PrivacyDone, PrivacyFailed
<1> DEFINE d == [ok |-> ok, at |-> now]
           n == Len(audit) + 1
<1>2. audit \in Seq(Audit) /\ now \in 1 .. MaxClock
  BY DEF RowsInvariant, RowsTypeOK
<1>3. d \in Audit /\ d.at = now /\ audit' = Append(audit, d)
  BY <1>1, <1>2 DEF Audit
<1> HIDE DEF d
<1>4. /\ audit' \in Seq(Audit) /\ DOMAIN audit' = DOMAIN audit \cup {n}
      /\ audit'[n] = d /\ \A j \in DOMAIN audit : audit'[j] = audit[j]
  BY <1>2, <1>3, Appended
<1>5. RowsTypeOK'
  BY <1>1, <1>4 DEF RowsInvariant, RowsTypeOK
<1>6. now <= now
  BY <1>2, RowsAssumption
<1>7. RowsPast'
  BY <1>1, <1>3, <1>4, <1>6 DEF RowsInvariant, RowsPast
<1>8. InOrder'
  BY <1>1 DEF RowsInvariant, InOrder
<1> QED BY <1>5, <1>7, <1>8 DEF RowsInvariant

LEMMA UpdateSteps ==
  ASSUME RowsInvariant, NEW i \in DOMAIN payments, NEW logged \in BOOLEAN,
         \/ \E s \in Statuses : Confirm(i, s, logged)
         \/ \E c \in Refunds : Refund(i, c, logged)
         \/ Invoice(i, logged)
  PROVE  RowsInvariant'
<1> DEFINE p == payments[i]
<1>1. payments \in Seq(Payments) /\ p \in Payments /\ now \in 1 .. MaxClock /\ MaxClock \in Nat
  BY PaymentRow, RowsAssumption DEF RowsInvariant, RowsTypeOK
<1>2. p.traced \in BOOLEAN /\ p.refunded \in 0 .. Amount
  BY <1>1 DEF Payments
<1>3. \E r \in Payments : /\ r.at = p.at /\ r.invoiced \in {p.invoiced, now}
                          /\ payments' = [payments EXCEPT ![i] = r]
                          /\ UNCHANGED <<now, decisions, audit, bindings>>
  <2>1. ASSUME NEW s \in Statuses, Confirm(i, s, logged)
        PROVE  <1>3!:
    <3> DEFINE r == [p EXCEPT !.status = s, !.traced = p.traced \/ logged]
    <3>1. r \in Payments /\ r.at = p.at /\ r.invoiced = p.invoiced
      BY <1>1, <1>2 DEF Payments
    <3>2. payments' = [payments EXCEPT ![i] = r]
      BY <2>1 DEF Confirm
    <3> HIDE DEF r
    <3> QED BY <2>1, <3>1, <3>2 DEF Confirm
  <2>2. ASSUME NEW c \in Refunds, Refund(i, c, logged)
        PROVE  <1>3!:
    <3> DEFINE n == p.refunded + c
               r == [p EXCEPT !.refunded = n, !.traced = p.traced \/ logged]
    <3>1. n \in 0 .. Amount
      <4>1. c \in 1 .. Amount /\ Amount \in Nat
        BY <2>2, RowsAssumption
      <4>2. n <= Amount
        BY <2>2 DEF Refund
      <4> HIDE DEF p
      <4> QED BY <1>2, <4>1, <4>2
    <3>2. payments' = [payments EXCEPT ![i] = r]
      BY <2>2 DEF Refund
    <3> HIDE DEF n
    <3>3. r \in Payments /\ r.at = p.at /\ r.invoiced = p.invoiced
      BY <1>1, <1>2, <3>1 DEF Payments
    <3> HIDE DEF r
    <3> QED BY <2>2, <3>2, <3>3 DEF Refund
  <2>3. ASSUME Invoice(i, logged)
        PROVE  <1>3!:
    <3> DEFINE r == [p EXCEPT !.invoiced = now, !.traced = p.traced \/ logged]
    <3>1. now \in 0 .. MaxClock
      BY <1>1
    <3>2. r \in Payments /\ r.at = p.at /\ r.invoiced = now
      BY <1>1, <1>2, <3>1 DEF Payments
    <3>3. payments' = [payments EXCEPT ![i] = r]
      BY <2>3 DEF Invoice
    <3> HIDE DEF r
    <3> QED BY <2>3, <3>2, <3>3 DEF Invoice
  <2> QED BY <2>1, <2>2, <2>3
<1> QED BY <1>3, ChangedPayment

LEMMA LoginStep ==
  ASSUME RowsInvariant, NEW u \in Users, Login(u)
  PROVE  RowsInvariant'
<1> DEFINE b == [linked |-> IF bindings[u].linked = None THEN now ELSE bindings[u].linked, used |-> now]
<1>1. /\ now \in 1 .. MaxClock /\ bindings \in [Users -> [linked : 0 .. MaxClock, used : 0 .. MaxClock]]
      /\ bindings' = [bindings EXCEPT ![u] = b] /\ UNCHANGED <<now, payments, decisions, audit>>
  BY DEF Login, RowsInvariant, RowsTypeOK
<1>2. now \in 0 .. MaxClock /\ bindings[u].linked \in 0 .. MaxClock
  BY <1>1, RowsAssumption
<1>3. b \in [linked : 0 .. MaxClock, used : 0 .. MaxClock]
  BY <1>2
<1> HIDE DEF b
<1>4. bindings' \in [Users -> [linked : 0 .. MaxClock, used : 0 .. MaxClock]]
  BY <1>1, <1>3
<1> QED BY <1>1, <1>4 DEF RowsInvariant, RowsTypeOK, RowsPast, InOrder

LEMMA TickStep ==
  ASSUME RowsInvariant, Tick
  PROVE  RowsInvariant'
<1>1. /\ now \in 1 .. MaxClock /\ now < MaxClock /\ now' = now + 1
      /\ UNCHANGED <<payments, decisions, audit, bindings>>
  BY DEF Tick, RowsInvariant, RowsTypeOK
<1>2. now' \in 1 .. MaxClock /\ now \in Int
  BY <1>1, RowsAssumption
<1>3. RowsTypeOK'
  BY <1>1, <1>2 DEF RowsInvariant, RowsTypeOK
<1>4. /\ \A i \in DOMAIN payments : payments[i].at \in Int /\ payments[i].invoiced \in Int
      /\ \A i \in DOMAIN decisions : decisions[i].at \in Int
      /\ \A i \in DOMAIN audit : audit[i].at \in Int
  <2>1. /\ \A i \in DOMAIN payments : payments[i].at \in Int /\ payments[i].invoiced \in Int
        /\ \A i \in DOMAIN decisions : decisions[i].at \in Int
    BY PaymentRow, DecisionRow DEF RowsInvariant, RowsTypeOK
  <2>2. ASSUME NEW i \in DOMAIN audit PROVE audit[i].at \in Int
    <3>1. audit[i] \in Audit
      BY <2>2 DEF RowsInvariant, RowsTypeOK
    <3> QED BY <3>1 DEF Audit
  <2> QED BY <2>1, <2>2
<1>5. \A x \in Int : x <= now => x <= now'
  BY <1>1, <1>2
<1>6. RowsPast'
  BY <1>1, <1>4, <1>5 DEF RowsInvariant, RowsPast
<1>7. InOrder'
  BY <1>1 DEF RowsInvariant, InOrder
<1> QED BY <1>3, <1>6, <1>7 DEF RowsInvariant

LEMMA RowsStep ==
  ASSUME RowsInvariant, RowsNext
  PROVE  RowsInvariant' /\ now' \in {now, now + 1}
<1>1. now' \in {now, now + 1}
  BY DEF RowsNext, Pay, Confirm, Refund, Invoice, Decide, PrivacyDone, PrivacyFailed, Login, Tick
<1>2. RowsInvariant'
  <2>1. ASSUME NEW u \in Users, NEW s \in Statuses, NEW logged \in BOOLEAN, Pay(u, s, logged)
        PROVE  RowsInvariant'
    BY <2>1, PayStep
  <2>2. ASSUME NEW i \in DOMAIN payments, NEW logged \in BOOLEAN,
               \/ \E s \in Statuses : Confirm(i, s, logged)
               \/ \E c \in Refunds : Refund(i, c, logged)
               \/ Invoice(i, logged)
        PROVE  RowsInvariant'
    BY <2>2, UpdateSteps
  <2>3. ASSUME NEW u \in Users, NEW k \in Kinds, Decide(u, k)
        PROVE  RowsInvariant'
    BY <2>3, DecideStep
  <2>4. ASSUME NEW u \in Users, Login(u)
        PROVE  RowsInvariant'
    BY <2>4, LoginStep
  <2> QED BY <2>1, <2>2, <2>3, <2>4, PrivacyStep, TickStep DEF RowsNext
<1> QED BY <1>1, <1>2

LEMMA RowsStutter ==
  ASSUME RowsInvariant, UNCHANGED rvars
  PROVE  RowsInvariant'
<1>1. /\ now' = now /\ payments' = payments /\ decisions' = decisions
      /\ audit' = audit /\ bindings' = bindings
  BY DEF rvars
<1>2. RowsTypeOK'
  BY <1>1 DEF RowsInvariant, RowsTypeOK
<1>3. RowsPast'
  BY <1>1 DEF RowsInvariant, RowsPast
<1>4. InOrder'
  BY <1>1 DEF RowsInvariant, InOrder
<1> QED BY <1>2, <1>3, <1>4 DEF RowsInvariant

-----------------------------------------------------------------------------
(***************************************************************************)
(* The experiment's configuration and its record of rollbacks.             *)
(***************************************************************************)
ExperimentStatuses == {"DRAFT", "RUNNING", "PAUSED", "ROLLED_BACK"}
Events == {"USER_ENTER_SHOP", "PAYMENT_VERIFY"}
GuardrailNames == {"minPaymentSuccessRate30", "maxRiskLossProxy30", "maxSubsidyWasteProxy"}
Limit == 0 .. 10000
Guardrails == [DOMAIN DefaultGuardrails -> Limit]
Percent == 0 .. 100
Times == 0 .. MaxClock
Configs == [experimentId : Ids, enabled : BOOLEAN, trafficPercent : Percent, targetEvent : Events,
            guardrails : Guardrails, status : ExperimentStatuses, updatedAt : Times, lastRollbackAt : Times]
Entries == [experimentId : Ids, rolledBackAt : 1 .. MaxClock, previousStatus : ExperimentStatuses]

LEMMA RecordTypes ==
  /\ ExperimentTypeOK <=> /\ config \in Configs
                          /\ history \in Seq(Entries) /\ Len(history) <= HistoryKept
                          /\ changes \in 0 .. MaxChanges
  /\ ExperimentTypeOK' <=> /\ config' \in Configs
                           /\ history' \in Seq(Entries) /\ Len(history') <= HistoryKept
                           /\ changes' \in 0 .. MaxChanges
  BY DEF ExperimentTypeOK, Configs, Entries, ExperimentStatuses, Events, Guardrails, Limit, Percent, Times

LEMMA RecordStart ==
  ASSUME RowsInit, ExperimentInit
  PROVE  RecordInvariant
<1>1. history = <<>> /\ changes = 0 /\ now = 1 /\ config = createDefaultConfig
  BY DEF RowsInit, ExperimentInit
<1>2. (CHOOSE e \in Ids : TRUE) \in Ids
  BY ExperimentAssumption
<1>3. DefaultGuardrails \in Guardrails
  <2>0. 9950 \in Limit /\ 30 \in Limit /\ 6000 \in Limit
    BY DEF Limit
  <2>1. /\ DefaultGuardrails.minPaymentSuccessRate30 \in Limit
        /\ DefaultGuardrails.maxRiskLossProxy30 \in Limit
        /\ DefaultGuardrails.maxSubsidyWasteProxy \in Limit
    BY <2>0 DEF DefaultGuardrails
  <2>2. DOMAIN DefaultGuardrails = GuardrailNames
    BY DEF DefaultGuardrails, GuardrailNames
  <2>3. \A g \in GuardrailNames : DefaultGuardrails[g] \in Limit
    BY <2>1 DEF GuardrailNames
  <2>4. DefaultGuardrails = [g \in DOMAIN DefaultGuardrails |-> DefaultGuardrails[g]]
    BY DEF DefaultGuardrails
  <2> QED BY <2>2, <2>3, <2>4 DEF Guardrails
<1>4. 0 \in Times /\ 20 \in Percent /\ 0 \in 0 .. MaxChanges
  BY RowsAssumption, ExperimentAssumption DEF Times, Percent
<1>5. config \in Configs
  BY <1>1, <1>2, <1>3, <1>4 DEF createDefaultConfig, Configs, ExperimentStatuses, Events, None
<1>6. history \in Seq(Entries) /\ Len(history) <= HistoryKept /\ DOMAIN history = {}
  BY <1>1, ExperimentAssumption
<1>7. /\ config.lastRollbackAt = 0 /\ config.status = "DRAFT"
  BY <1>1 DEF createDefaultConfig, None
<1>8. RollbackIsOnRecord
  BY <1>1, <1>6, <1>7 DEF RollbackIsOnRecord, None
<1>9. ExperimentTypeOK
  BY <1>1, <1>4, <1>5, <1>6, RecordTypes
<1> QED BY <1>1, <1>7, <1>8, <1>9 DEF RecordInvariant

\* What is saved reads back as it is.
LEMMA SavedConfig ==
  ASSUME ExperimentTypeOK
  PROVE  getConfig = config
<1>1. config \in Configs
  BY RecordTypes
<1>2. clamp(config.trafficPercent, 0, 100) = config.trafficPercent
  <2>1. config.trafficPercent \in Percent
    BY <1>1 DEF Configs
  <2> QED BY <2>1 DEF clamp, Percent
<1>3. normalizeEvent(config.targetEvent, "USER_ENTER_SHOP") = config.targetEvent
  BY <1>1 DEF Configs, Events, normalizeEvent
<1>4. getConfig = [config EXCEPT !.trafficPercent = config.trafficPercent, !.targetEvent = config.targetEvent]
  BY <1>2, <1>3 DEF getConfig, normalizeTrafficPercent
<1> QED BY <1>1, <1>4 DEF Configs

LEMMA ChangeStep ==
  ASSUME RowsInvariant, RecordInvariant, NEW patch \in Patches, setConfig(patch)
  PROVE  RecordInvariant'
<1> DEFINE given(f) == IF f \in DOMAIN patch THEN patch[f] ELSE config[f]
           traffic == normalizeTrafficPercent(given("trafficPercent"))
           rails == Overlay(config.guardrails, given("guardrails"))
           status == IF given("enabled") /\ traffic > 0 THEN "RUNNING" ELSE "PAUSED"
           event == normalizeEvent(given("targetEvent"), config.targetEvent)
           limits == [g \in DOMAIN rails |-> clamp(rails[g], 0, 10000)]
           Names == DOMAIN DefaultGuardrails
<1>1. /\ config \in Configs /\ history \in Seq(Entries) /\ Len(history) <= HistoryKept
      /\ changes \in 0 .. MaxChanges /\ getConfig = config /\ now \in 1 .. MaxClock
  BY RecordTypes, SavedConfig DEF RecordInvariant, RowsInvariant, RowsTypeOK
<1>2. /\ changes < MaxChanges /\ changes' = changes + 1 /\ UNCHANGED <<history, rvars>>
      /\ config' = [experimentId |-> given("experimentId"), enabled |-> given("enabled"),
                    trafficPercent |-> traffic, targetEvent |-> event, guardrails |-> limits,
                    status |-> status, updatedAt |-> now, lastRollbackAt |-> config.lastRollbackAt]
  BY <1>1 DEF setConfig
<1>3. /\ config.experimentId \in Ids /\ config.enabled \in BOOLEAN /\ config.trafficPercent \in Percent
      /\ config.targetEvent \in Events /\ config.guardrails \in Guardrails
      /\ config.lastRollbackAt \in Times
  BY <1>1 DEF Configs
<1>4. given("experimentId") \in Ids /\ given("enabled") \in BOOLEAN
  BY <1>3, ExperimentAssumption
<1>5. traffic \in Percent
  <2>1. given("trafficPercent") \in Int
    BY <1>3, ExperimentAssumption DEF Percent
  <2> QED BY <2>1 DEF normalizeTrafficPercent, clamp, Percent
<1>6. event \in Events
  BY <1>3 DEF normalizeEvent, Events
<1>7. limits \in Guardrails
  <2> DEFINE own == given("guardrails")
  <2>1. DOMAIN config.guardrails = Names /\ \A g \in Names : config.guardrails[g] \in Int
    <3>1. Limit \subseteq Int
      BY DEF Limit
    <3> QED BY <1>3, <3>1 DEF Guardrails
  <2>2. \A g \in DOMAIN own : own[g] \in Int
    BY <2>1, ExperimentAssumption
  <2> DEFINE base == config.guardrails
  <2>0. rails = [f \in DOMAIN base |-> IF f \in DOMAIN own THEN own[f] ELSE base[f]]
    BY DEF Overlay
  <2> HIDE DEF own, Names, rails, base
  <2>3. DOMAIN rails = Names /\ \A g \in Names : rails[g] \in Int
    BY <2>0, <2>1, <2>2 DEF base
  <2>4. \A x \in Int : clamp(x, 0, 10000) \in Limit
    BY DEF clamp, Limit
  <2> QED BY <2>3, <2>4 DEF Guardrails, Names
<1>8. status \in ExperimentStatuses /\ status # "ROLLED_BACK"
  BY DEF ExperimentStatuses
<1>9. now \in Times
  BY <1>1, RowsAssumption DEF Times
<1> HIDE DEF given, traffic, event, limits, status
<1>10. config' \in Configs
  BY <1>2, <1>3, <1>4, <1>5, <1>6, <1>7, <1>8, <1>9 DEF Configs
<1>11. changes' \in 0 .. MaxChanges
  BY <1>1, <1>2, ExperimentAssumption
<1>12. ExperimentTypeOK'
  <2>1. history' = history
    BY <1>2
  <2> QED BY <1>1, <1>10, <1>11, <2>1, RecordTypes
<1>13. config'.status # "ROLLED_BACK" /\ config'.lastRollbackAt = config.lastRollbackAt /\ history' = history
  BY <1>2, <1>8
<1>14. RollbackIsOnRecord'
  BY <1>13 DEF RecordInvariant, RollbackIsOnRecord
<1>15. config'.lastRollbackAt <= now'
  BY <1>2, <1>13 DEF RecordInvariant, rvars
<1> QED BY <1>12, <1>14, <1>15 DEF RecordInvariant

\* A new entry in front, and no more of them than are kept.
LEMMA Prepended ==
  ASSUME NEW S, NEW rows \in Seq(S), NEW e \in S, NEW kept \in Nat, kept > 0, Len(rows) <= kept
  PROVE  LET all == <<e>> \o rows
             q == SubSeq(all, 1, IF Len(all) < kept THEN Len(all) ELSE kept)
         IN  /\ q \in Seq(S) /\ Len(q) <= kept /\ q # <<>> /\ q[1] = e
             /\ \A i \in DOMAIN q : i > 1 => i - 1 \in DOMAIN rows /\ q[i] = rows[i - 1]
<1> DEFINE all == <<e>> \o rows
           n == Len(rows)
           m == IF Len(all) < kept THEN Len(all) ELSE kept
           q == SubSeq(all, 1, m)
<1>1. /\ all \in Seq(S) /\ Len(all) = n + 1 /\ n \in Nat
      /\ all[1] = e /\ \A i \in 1 .. n : all[i + 1] = rows[i]
  OBVIOUS
<1> HIDE DEF all
<1>2. m \in Nat /\ m >= 1 /\ m <= n + 1 /\ m <= kept
  <2> HIDE DEF n
  <2> QED BY <1>1
<1> HIDE DEF m
<1>3. /\ q \in Seq(S) /\ Len(q) = m /\ \A i \in 1 .. m : q[i] = all[i]
  <2> HIDE DEF n
  <2> QED BY <1>1, <1>2
<1>4. DOMAIN q = 1 .. m
  BY <1>3
<1> HIDE DEF q
<1>5. ASSUME NEW i \in DOMAIN q, i > 1
      PROVE  i - 1 \in DOMAIN rows /\ q[i] = rows[i - 1]
  <2> DEFINE k == i - 1
  <2>1. k \in 1 .. n /\ i = k + 1 /\ i \in 1 .. m
    <3> HIDE DEF n
    <3> QED BY <1>1, <1>2, <1>4, <1>5
  <2>2. DOMAIN rows = 1 .. n
    OBVIOUS
  <2> HIDE DEF k
  <2>3. q[i] = all[k + 1] /\ all[k + 1] = rows[k]
    BY <1>1, <1>3, <2>1
  <2> QED BY <2>1, <2>2, <2>3 DEF k
<1>6. q # <<>> /\ q[1] = e
  <2> HIDE DEF n
  <2>1. 1 \in 1 .. m
    BY <1>2
  <2> QED BY <1>1, <1>2, <1>3, <2>1
<1> QED BY <1>2, <1>3, <1>5, <1>6 DEF q, m, all

LEMMA RollbackStep ==
  ASSUME RowsInvariant, RecordInvariant, rollback
  PROVE  RecordInvariant'
<1> DEFINE entry == [experimentId |-> getConfig.experimentId, rolledBackAt |-> now,
                     previousStatus |-> getConfig.status]
           all == <<entry>> \o history
<1>1. /\ config \in Configs /\ history \in Seq(Entries) /\ Len(history) <= HistoryKept
      /\ changes \in 0 .. MaxChanges /\ getConfig = config /\ now \in 1 .. MaxClock
      /\ RollbackIsOnRecord /\ config.lastRollbackAt <= now
  BY RecordTypes, SavedConfig DEF RecordInvariant, RowsInvariant, RowsTypeOK
<1>2. /\ changes < MaxChanges /\ changes' = changes + 1 /\ now' = now
      /\ history' = SubSeq(all, 1, IF Len(all) < HistoryKept THEN Len(all) ELSE HistoryKept)
      /\ config' = [config EXCEPT !.enabled = FALSE, !.status = "ROLLED_BACK",
                                  !.lastRollbackAt = now, !.updatedAt = now]
  BY <1>1 DEF rollback, rvars
<1>3. entry \in Entries /\ entry.rolledBackAt = now
  BY <1>1 DEF Entries, Configs
<1> HIDE DEF entry
<1>4. HistoryKept \in Nat /\ HistoryKept > 0
  BY ExperimentAssumption
<1>5. /\ history' \in Seq(Entries) /\ Len(history') <= HistoryKept /\ history' # <<>>
      /\ history'[1] = entry
      /\ \A i \in DOMAIN history' : i > 1 => i - 1 \in DOMAIN history /\ history'[i] = history[i - 1]
  BY <1>1, <1>2, <1>3, <1>4, Prepended
<1> HIDE DEF all
<1>6. now \in Times
  BY <1>1, RowsAssumption DEF Times
<1>7. /\ config' \in Configs /\ config'.enabled = FALSE /\ config'.status = "ROLLED_BACK"
      /\ config'.lastRollbackAt = now /\ config'.updatedAt = now
  BY <1>1, <1>2, <1>6 DEF Configs, ExperimentStatuses
<1>8. changes' \in 0 .. MaxChanges
  BY <1>1, <1>2, ExperimentAssumption
<1>9. ExperimentTypeOK'
  BY <1>5, <1>7, <1>8, RecordTypes
<1>10. \A i \in DOMAIN history : history[i].rolledBackAt \in Int
  <2>1. \A i \in DOMAIN history : history[i] \in Entries
    BY <1>1
  <2> QED BY <2>1, RowsAssumption DEF Entries
<1>11. \A i \in DOMAIN history : history[i].rolledBackAt <= now
  <2>1. ASSUME NEW i \in DOMAIN history PROVE history[i].rolledBackAt <= now
    <3>1. history # <<>> /\ DOMAIN history = 1 .. Len(history) /\ 1 \in DOMAIN history
      BY <1>1, <2>1
    <3>2. history[1].rolledBackAt = config.lastRollbackAt
      BY <1>1, <3>1 DEF RollbackIsOnRecord
    <3>3. i = 1 \/ 1 < i
      BY <1>1, <2>1
    <3>4. history[i].rolledBackAt <= history[1].rolledBackAt
      BY <1>1, <1>10, <2>1, <3>1, <3>3 DEF RollbackIsOnRecord
    <3>5. now \in Int /\ history[1].rolledBackAt <= now
      BY <1>1, <3>2
    <3> QED BY <1>10, <2>1, <3>1, <3>4, <3>5
  <2> QED BY <2>1
<1>12. ASSUME NEW i \in DOMAIN history', NEW j \in DOMAIN history', i < j
       PROVE  history'[i].rolledBackAt >= history'[j].rolledBackAt
  <2>1. i \in Nat /\ j \in Nat /\ i >= 1
    BY <1>5, <1>12
  <2>2. j > 1
    BY <1>12, <2>1
  <2>3. j - 1 \in DOMAIN history /\ history'[j] = history[j - 1]
    BY <1>5, <2>2
  <2>4. CASE i = 1
    BY <1>3, <1>5, <1>10, <1>11, <1>1, <2>3, <2>4
  <2>5. CASE i > 1
    <3>1. i - 1 \in DOMAIN history /\ history'[i] = history[i - 1] /\ i - 1 < j - 1
      BY <1>5, <1>12, <2>1, <2>5
    <3> QED BY <1>1, <2>3, <3>1 DEF RollbackIsOnRecord
  <2> QED BY <2>1, <2>4, <2>5
<1>13. RollbackIsOnRecord'
  <2>1. /\ history' # <<>> /\ config'.lastRollbackAt # None
        /\ history'[1].rolledBackAt = config'.lastRollbackAt
    BY <1>1, <1>3, <1>5, <1>7, RowsAssumption DEF None
  <2> QED BY <1>7, <1>12, <2>1 DEF RollbackIsOnRecord
<1>14. config'.lastRollbackAt <= now'
  BY <1>1, <1>2, <1>7
<1> QED BY <1>9, <1>13, <1>14 DEF RecordInvariant

LEMMA RecordKept ==
  ASSUME RowsInvariant, RecordInvariant, UNCHANGED evars, now' \in {now, now + 1}
  PROVE  RecordInvariant'
<1>1. config' = config /\ history' = history /\ changes' = changes
  BY DEF evars
<1>2. ExperimentTypeOK'
  BY <1>1, RecordTypes DEF RecordInvariant
<1>3. RollbackIsOnRecord'
  BY <1>1 DEF RecordInvariant, RollbackIsOnRecord
<1>4. config.lastRollbackAt \in Int /\ now \in Int
  <2>1. config \in Configs
    BY RecordTypes DEF RecordInvariant
  <2>2. config.lastRollbackAt \in Times
    BY <2>1 DEF Configs
  <2> QED BY <2>2 DEF Times, RowsInvariant, RowsTypeOK
<1>5. config'.lastRollbackAt <= now'
  BY <1>1, <1>4 DEF RecordInvariant
<1> QED BY <1>2, <1>3, <1>5 DEF RecordInvariant

\* What every behaviour keeps: rows of the past, in order, and rollbacks on record.
ReportsInvariant == RowsInvariant /\ RecordInvariant

\* Every behaviour keeps it: what the theorems about the reports rest on.
THEOREM ReportsInvariance == Spec => []ReportsInvariant
<1>1. Init => ReportsInvariant
  BY RowsStart, RecordStart DEF Init, ReportsInvariant
<1>2. ReportsInvariant /\ [Next]_vars => ReportsInvariant'
  <2> SUFFICES ASSUME RowsInvariant, RecordInvariant, [Next]_vars
               PROVE  RowsInvariant' /\ RecordInvariant'
    BY DEF ReportsInvariant
  <2>1. CASE UNCHANGED vars
    <3>1. UNCHANGED rvars /\ UNCHANGED evars /\ now' = now
      BY <2>1 DEF vars, rvars
    <3> QED BY <3>1, RowsStutter, RecordKept
  <2>2. ASSUME NEW p \in Patches, setConfig(p)
        PROVE  RowsInvariant' /\ RecordInvariant'
    <3>1. UNCHANGED rvars
      BY <2>2 DEF setConfig, rvars
    <3> QED BY <2>2, <3>1, RowsStutter, ChangeStep
  <2>3. CASE rollback
    <3>1. UNCHANGED rvars
      BY <2>3 DEF rollback
    <3> QED BY <2>3, <3>1, RowsStutter, RollbackStep
  <2>4. CASE RowsNext /\ UNCHANGED evars
    <3>1. RowsInvariant' /\ now' \in {now, now + 1}
      BY <2>4, RowsStep
    <3> QED BY <2>4, <3>1, RecordKept
  <2> QED BY <2>1, <2>2, <2>3, <2>4 DEF Next, ExperimentNext
<1> QED BY <1>1, <1>2, PTL DEF Spec

\* The release gate: where the experience guard sees a risk the gate stops the
\* release and customers are told, a healthy store scores high, an invoice
\* never lowers the standing, a refund of a recent payment never raises it and
\* a preview clears no failed gate (releaseGateService.ts,
\* customerExperienceGuardService.ts).
THEOREM GateInvariance == Spec => []GateInvariant
<1>1. ReportsInvariant => GateInvariant
  <2> SUFFICES ASSUME RowsTypeOK, RowsPast
               PROVE  GateInvariant
    BY DEF ReportsInvariant, RowsInvariant
  <2>1. InvoicesNeverHurt
    BY InvoiceHelps DEF InvoicesNeverHurt
  <2>2. RecentRefundsNeverHelp
    <3> SUFFICES ASSUME NothingCountsAgainst, NEW i \in PaidPayments, NEW cents \in Refunds,
                        payments[i].at > now - Trend, payments[i].refunded + cents <= Amount
                 PROVE  Rank(Refunded(i, cents)) <= Standing
      BY DEF RecentRefundsNeverHelp
    <3>1. payments[i].at <= now
      BY DEF RowsPast, PaidPayments
    <3> QED BY <3>1, RefundWorsens
  <2>3. PreviewsNeverClear
    BY PreviewKeeps DEF PreviewsNeverClear
  <2> QED BY <2>1, <2>2, <2>3, RiskShows, HealthyScores DEF GateInvariant
<1> QED BY <1>1, ReportsInvariance, PTL

-----------------------------------------------------------------------------
(***************************************************************************)
(* The experiment's report.                                                *)
(***************************************************************************)
LEMMA ReportSays ==
  ASSUME NEW t, NEW w
  PROVE  LET f == Summaries(payments, decisions, t, w)
             s == Snapshot(t, w)
         IN  /\ s.netRevenue = f.paid.netRevenue /\ s.successRate = f.paid.successRate
             /\ s.riskLoss = Rate(f.paid.refundAmount, f.paid.gmvPaid)
             /\ s.waste = subsidyWasteProxy(f.made)
             /\ s.gates.technical = evaluateTechnicalGate(th, f.paid)
             /\ s.gates.risk = evaluateRiskGate(th, f.paid, subsidyWasteProxy(f.made))
<1>1. \A f, g, r : LET s == report(f, g, r) IN
        /\ s.netRevenue = f.paid.netRevenue /\ s.successRate = f.paid.successRate
        /\ s.riskLoss = Rate(f.paid.refundAmount, f.paid.gmvPaid)
        /\ s.waste = subsidyWasteProxy(f.made) /\ s.gates = g
  BY DEF report
<1>2. \A f, r : LET g == gatesOf(th, f, r) IN
        /\ g.technical = evaluateTechnicalGate(th, f.paid)
        /\ g.risk = evaluateRiskGate(th, f.paid, subsidyWasteProxy(f.made))
  BY DEF gatesOf
<1> DEFINE f == Summaries(payments, decisions, t, w)
           r == buildDataSufficiency(th, f)
           g == gatesOf(th, f, r)
           s == Snapshot(t, w)
<1>3. s = report(f, g, r)
  BY SnapshotIs DEF Snapshot
<1> HIDE DEF f, r, s
<1>4. /\ g.technical = evaluateTechnicalGate(th, f.paid)
      /\ g.risk = evaluateRiskGate(th, f.paid, subsidyWasteProxy(f.made))
  BY <1>2
<1> HIDE DEF g
<1> QED BY <1>1, <1>3, <1>4 DEF f, s

\* Guardrails no looser than the thresholds: a risk that passes them passes the gates.
LEMMA PassPasses ==
  ASSUME RowsTypeOK, ExperimentTypeOK
  PROVE  PassMeansGatesPass
<1> DEFINE t == now + 1
           s == Snapshot(t, Window)
           f == Summaries(payments, decisions, t, Window)
           g == config.guardrails
<1>1. SUFFICES ASSUME g.minPaymentSuccessRate30 >= th.paymentSuccessRateMin,
                      g.maxRiskLossProxy30 <= th.riskLossProxyMax,
                      g.maxSubsidyWasteProxy <= th.subsidyWasteProxyMax,
                      g.minPaymentSuccessRate30 > 0,
                      resolveRiskStatus(t, Window) = "PASS"
               PROVE  s.gates.technical = "PASS" /\ s.gates.risk = "PASS"
  BY DEF PassMeansGatesPass, th
<1> DEFINE rate == f.paid.successRate
           gmv == f.paid.gmvPaid
           back == f.paid.refundAmount
           loss == Rate(back, gmv)
           waste == subsidyWasteProxy(f.made)
           low == g.minPaymentSuccessRate30
           risky == g.maxRiskLossProxy30
           wasted == g.maxSubsidyWasteProxy
<1>2. /\ s.successRate = rate /\ s.riskLoss = loss /\ s.waste = waste
      /\ s.gates.technical = evaluateTechnicalGate(th, f.paid)
      /\ s.gates.risk = evaluateRiskGate(th, f.paid, waste)
  BY ReportSays
<1>3. ~(rate < low \/ loss > risky \/ waste > wasted)
  <2>1. getConfig.guardrails = g
    BY SavedConfig
  <2>2. riskStatus(s, g) = "PASS"
    BY <1>1, <2>1 DEF resolveRiskStatus
  <2> HIDE DEF s, g
  <2> QED BY <1>2, <2>2 DEF riskStatus
<1>4. low \in Int /\ risky \in Int /\ wasted \in Int
  <2>1. g \in Guardrails
    <3>1. config \in Configs
      BY RecordTypes
    <3> QED BY <3>1 DEF Configs
  <2>2. DOMAIN DefaultGuardrails = GuardrailNames
    BY DEF DefaultGuardrails, GuardrailNames
  <2>3. \A x \in GuardrailNames : g[x] \in Limit
    BY <2>1, <2>2 DEF Guardrails
  <2>4. Limit \subseteq Int
    BY DEF Limit
  <2> HIDE DEF g
  <2> QED BY <2>3, <2>4 DEF GuardrailNames
<1> DEFINE start == t - Window
           paid == Cardinality(With(payments, start, t, "PAID"))
           failed == Cardinality(With(payments, start, t, "EXTERNAL_FAILED"))
           W == Within(payments, start, t)
<1>5. t \in Int /\ start \in Int /\ payments \in Seq(Payments) /\ decisions \in Seq(Decisions)
  BY GateAssumption DEF RowsTypeOK
<1>6. /\ f.paid = summarizePaymentsForRange(payments, start, t)
      /\ f.made = summarizeDecisionsForRange(decisions, start, t)
  BY SummariesAre
<1>7. /\ f.paid.attempts = Cardinality(W) /\ W \in SUBSET DOMAIN payments
      /\ paid \in Nat /\ failed \in Nat /\ rate = Rate(paid, paid + failed) /\ rate \in Int
      /\ gmv = Amount * paid /\ gmv \in Nat /\ back \in Nat
  BY <1>5, <1>6, PaymentFigures
<1>8. With(payments, start, t, "PAID") \in SUBSET W
  BY DEF With
<1>9. Cardinality(W) \in Nat /\ paid <= Cardinality(W)
  <2> HIDE DEF W
  <2> QED BY <1>5, <1>7, <1>8, FiniteRows
<1>10. waste \in Int
  BY <1>5, <1>6, RatesOfDecisions
<1> HIDE DEF t, s, f, g, rate, gmv, back, loss, waste, low, risky, wasted, start, paid, failed, W
<1>12. paid > 0
  <2>1. SUFFICES ASSUME paid = 0 PROVE FALSE
    BY <1>7
  <2>2. Rate(0, 0 + failed) = 0
    <3>1. 0 + failed \in Nat /\ 0 <= 0 + failed /\ 0 \in Nat
      BY <1>7
    <3> QED BY <3>1, RateBounds
  <2>3. rate = 0
    BY <1>7, <2>1, <2>2
  <2> QED BY <1>1, <1>3, <1>4, <2>3 DEF low
<1>13. gmv > 0
  BY <1>7, <1>12, RowsAssumption
<1>14. loss = roundRate(back, gmv) /\ loss \in Int
  BY <1>7, <1>13, RoundType DEF Rate, loss
<1>15. s.gates.technical = "PASS"
  <2>1. f.paid.attempts > 0 /\ f.paid.attempts # 0
    BY <1>7, <1>9, <1>12
  <2>2. ~(rate < th.paymentSuccessRateMin)
    BY <1>1, <1>3, <1>4, <1>7, ThresholdsType DEF low
  <2> QED BY <1>2, <2>1, <2>2 DEF evaluateTechnicalGate, toGateStatus, rate
<1>16. s.gates.risk = "PASS"
  <2>1. ~(roundRate(back, gmv) > th.riskLossProxyMax)
    <3>1. risky <= th.riskLossProxyMax /\ ~(loss > risky)
      BY <1>1, <1>3 DEF risky
    <3> QED BY <1>4, <1>14, <3>1, ThresholdsType
  <2>2. ~(waste > th.subsidyWasteProxyMax)
    <3>1. wasted <= th.subsidyWasteProxyMax /\ ~(waste > wasted)
      BY <1>1, <1>3 DEF wasted
    <3> QED BY <1>4, <1>10, <3>1, ThresholdsType
  <2>3. gmv # 0
    BY <1>7, <1>13
  <2> QED BY <1>2, <2>1, <2>2, <2>3 DEF evaluateRiskGate, toGateStatus, gmv, back
<1> QED BY <1>15, <1>16

\* A set and what is left of it.
LEMMA TwoParts ==
  ASSUME NEW S, IsFiniteSet(S), NEW T, NEW U, S = T \cup U, T \cap U = {}
  PROVE  /\ IsFiniteSet(T) /\ IsFiniteSet(U) /\ Cardinality(T) \in Nat /\ Cardinality(U) \in Nat
         /\ Cardinality(S) = Cardinality(T) + Cardinality(U)
<1>1. T \subseteq S /\ U \subseteq S
  OBVIOUS
<1>2. IsFiniteSet(T) /\ IsFiniteSet(U)
  BY <1>1, FS_Subset
<1>3. Cardinality(T \cup U) = Cardinality(T) + Cardinality(U) - Cardinality(T \cap U)
  BY <1>2, FS_Union
<1>4. Cardinality(T \cap U) = 0
  BY FS_EmptySet
<1>5. Cardinality(T) \in Nat /\ Cardinality(U) \in Nat
  BY <1>2, FS_CardinalityType
<1> QED BY <1>2, <1>3, <1>4, <1>5

LEMMA ThreeParts ==
  ASSUME NEW S, IsFiniteSet(S), NEW T, NEW U, NEW V,
         S = T \cup (U \cup V), T \cap (U \cup V) = {}, U \cap V = {}
  PROVE  /\ Cardinality(T) \in Nat /\ Cardinality(U) \in Nat /\ Cardinality(V) \in Nat
         /\ Cardinality(S) = Cardinality(T) + Cardinality(U) + Cardinality(V)
<1>1. PICK rest : rest = U \cup V
  OBVIOUS
<1>2. /\ IsFiniteSet(rest) /\ Cardinality(T) \in Nat
      /\ Cardinality(S) = Cardinality(T) + Cardinality(rest)
  <2>1. S = T \cup rest /\ T \cap rest = {}
    BY <1>1
  <2> QED BY <2>1, TwoParts
<1>3. /\ Cardinality(U) \in Nat /\ Cardinality(V) \in Nat
      /\ Cardinality(rest) = Cardinality(U) + Cardinality(V)
  BY <1>1, <1>2, TwoParts
<1> QED BY <1>2, <1>3

LEMMA VariantIs ==
  ASSUME NEW user, NEW percent
  PROVE  resolveVariant(user, percent) \in {"CONTROL", "TREATMENT"}
  BY DEF resolveVariant

\* The figures of one group.
LEMMA GroupFigures ==
  ASSUME NEW made, NEW paid
  PROVE  LET won == {i \in paid : payments[i].status = "PAID"} IN
         /\ finalizeAccumulator(made, paid).decisionCount = Cardinality(made)
         /\ finalizeAccumulator(made, paid).netRevenue
              = Amount * Cardinality(won) - Sum([i \in paid |-> payments[i].refunded], won)
  BY DEF finalizeAccumulator

\* The groups share out the payments of the window ...
LEMMA GroupsShare ==
  ASSUME RowsTypeOK, RowsPast
  PROVE  GroupsAddUp
<1> DEFINE t == now + 1
           start == t - Window
           W == Within(payments, start, t)
           user(i) == resolveVariant(payments[i].user, effectiveTrafficPercent)
           C == {i \in W : user(i) = "CONTROL"}
           T == {i \in W : user(i) = "TREATMENT"}
           wonC == {i \in C : payments[i].status = "PAID"}
           wonT == {i \in T : payments[i].status = "PAID"}
           won == With(payments, start, t, "PAID")
           f == [i \in W |-> payments[i].refunded]
           fC == [i \in C |-> payments[i].refunded]
           fT == [i \in T |-> payments[i].refunded]
           groups == getSnapshot(t, Window, config.targetEvent)
<1>1. t \in Int /\ start \in Int /\ payments \in Seq(Payments) /\ now \in Int
  BY GateAssumption DEF RowsTypeOK
<1>2. Within(payments, start, t + 1) = W
  <2>1. \A i \in DOMAIN payments : payments[i].at \in Int /\ payments[i].at <= now
    BY <1>1, PaymentRow DEF RowsPast
  <2>2. \A i \in DOMAIN payments : payments[i].at < t + 1 /\ payments[i].at < t
    BY <1>1, <2>1
  <2> QED BY <2>2 DEF Within
<1>3. /\ groups.control.netRevenue = Amount * Cardinality(wonC) - Sum(fC, wonC)
      /\ groups.treatment.netRevenue = Amount * Cardinality(wonT) - Sum(fT, wonT)
  <2>1. \E m, n : /\ groups.control = finalizeAccumulator(m, C)
                  /\ groups.treatment = finalizeAccumulator(n, T)
    BY <1>2 DEF getSnapshot
  <2> HIDE DEF groups, C, T
  <2> QED BY <2>1, GroupFigures
<1>4. Snapshot(t, Window).netRevenue = Amount * Cardinality(won) - Sum(f, won)
  <2>1. Snapshot(t, Window).netRevenue = Summaries(payments, decisions, t, Window).paid.netRevenue
    BY ReportSays
  <2>2. Summaries(payments, decisions, t, Window).paid = summarizePaymentsForRange(payments, start, t)
    BY SummariesAre
  <2>3. summarizePaymentsForRange(payments, start, t).netRevenue
          = Amount * Cardinality(won) - Returned(payments, start, t)
    BY PaymentsRecord
  <2> QED BY <2>1, <2>2, <2>3 DEF Returned
<1>5. /\ won = wonC \cup wonT /\ wonC \cap wonT = {}
      /\ wonC \in SUBSET C /\ wonT \in SUBSET T /\ C \in SUBSET W /\ T \in SUBSET W
  BY VariantIs DEF With
<1>6. W \in SUBSET DOMAIN payments /\ won \in SUBSET W
  BY DEF Within, With
<1>7. IsFiniteSet(won)
  <2> HIDE DEF W, won
  <2> QED BY <1>1, <1>6, FiniteRows
<1>8. \A i \in won : f[i] \in Int
  BY <1>1, <1>6, PaymentRow
<1>9. /\ \A i \in wonC : fC[i] = f[i]
      /\ \A i \in wonT : fT[i] = f[i]
  BY <1>5
<1> HIDE DEF W, C, T, wonC, wonT, won, f, fC, fT, groups
<1>10. /\ IsFiniteSet(wonC) /\ IsFiniteSet(wonT)
       /\ Cardinality(wonC) \in Nat /\ Cardinality(wonT) \in Nat
       /\ Cardinality(won) = Cardinality(wonC) + Cardinality(wonT)
  <2>1. won = wonC \cup wonT
    BY <1>5
  <2>2. wonC \cap wonT = {}
    BY <1>5
  <2> QED BY <1>7, <2>1, <2>2, TwoParts
<1>11. Sum(f, won) = Sum(f, wonC) + Sum(f, wonT)
  BY <1>5, <1>8, <1>10, SumUnion DEF Sum, IntegersOn
<1>12. Sum(fC, wonC) = Sum(f, wonC) /\ Sum(fT, wonT) = Sum(f, wonT)
  BY <1>9, <1>10, SumCongruent DEF Sum
<1>13. Sum(f, wonC) \in Int /\ Sum(f, wonT) \in Int
  BY <1>5, <1>8, <1>10, SumType DEF Sum, IntegersOn
<1> DEFINE a == Cardinality(wonC)
           b == Cardinality(wonT)
<1>14. Amount * (a + b) = Amount * a + Amount * b /\ Amount * a \in Int /\ Amount * b \in Int
  <2>1. a \in Nat /\ b \in Nat /\ Amount \in Nat
    BY <1>10, RowsAssumption
  <2> HIDE DEF a, b
  <2> QED BY <2>1
<1>15. groups.control.netRevenue + groups.treatment.netRevenue = Snapshot(t, Window).netRevenue
  BY <1>3, <1>4, <1>10, <1>11, <1>12, <1>13, <1>14
<1> QED BY <1>15 DEF GroupsAddUp, groups

\* ... and the executed decisions of an event.
LEMMA GroupsCount ==
  ASSUME RowsTypeOK, RowsPast, NEW t \in Int, t >= now, NEW event
  PROVE  LET E == {i \in Made("EXECUTE", "") : decisions[i].at >= t - Window /\ decisions[i].kind.event = event}
             groups == getSnapshot(t, Window, event)
         IN  groups.control.decisionCount + groups.treatment.decisionCount = Cardinality(E)
<1> DEFINE E == {i \in Made("EXECUTE", "") : decisions[i].at >= t - Window /\ decisions[i].kind.event = event}
           W == Within(decisions, t - Window, t + 1)
           made == {i \in W : decisions[i].kind.mode = "EXECUTE" /\ decisions[i].kind.event = event}
           user(i) == resolveVariant(decisions[i].user, effectiveTrafficPercent)
           C == {i \in made : user(i) = "CONTROL"}
           T == {i \in made : user(i) = "TREATMENT"}
           groups == getSnapshot(t, Window, event)
<1>1. now \in Int /\ decisions \in Seq(Decisions)
  BY DEF RowsTypeOK
<1>2. made = E
  <2>1. \A i \in DOMAIN decisions : decisions[i].at \in Int /\ decisions[i].at <= now
    BY <1>1, DecisionRow DEF RowsPast
  <2>2. \A i \in DOMAIN decisions : decisions[i].at < t + 1
    BY <1>1, <2>1
  <2> QED BY <2>2 DEF Within, Made
<1>3. groups.control.decisionCount = Cardinality(C) /\ groups.treatment.decisionCount = Cardinality(T)
  <2>1. \E m, n : /\ groups.control = finalizeAccumulator(C, m)
                  /\ groups.treatment = finalizeAccumulator(T, n)
    BY DEF getSnapshot
  <2> HIDE DEF groups, C, T
  <2> QED BY <2>1, GroupFigures
<1>4. made = C \cup T /\ C \cap T = {}
  BY VariantIs
<1>5. IsFiniteSet(made)
  <2>1. made \in SUBSET DOMAIN decisions
    BY DEF Within
  <2> HIDE DEF made
  <2> QED BY <1>1, <2>1, FiniteRows
<1> HIDE DEF made, C, T, groups, E
<1>6. Cardinality(made) = Cardinality(C) + Cardinality(T)
  BY <1>4, <1>5, TwoParts
<1> QED BY <1>2, <1>3, <1>6 DEF groups, E

\* ... and those of both events.
LEMMA EventsCount ==
  ASSUME RowsTypeOK, RowsPast, NEW t \in Int, t >= now
  PROVE  LET E == {i \in Made("EXECUTE", "") : /\ decisions[i].at >= t - Window
                                              /\ decisions[i].kind.event \in ExperimentEvents}
             counted(event) == getSnapshot(t, Window, event).control.decisionCount
                               + getSnapshot(t, Window, event).treatment.decisionCount
         IN  counted("USER_ENTER_SHOP") + counted("PAYMENT_VERIFY") = Cardinality(E)
<1> DEFINE E == {i \in Made("EXECUTE", "") : /\ decisions[i].at >= t - Window
                                            /\ decisions[i].kind.event \in ExperimentEvents}
           for(v) == {i \in Made("EXECUTE", "") : decisions[i].at >= t - Window /\ decisions[i].kind.event = v}
           enter == for("USER_ENTER_SHOP")
           pay == for("PAYMENT_VERIFY")
           counted(v) == getSnapshot(t, Window, v).control.decisionCount
                         + getSnapshot(t, Window, v).treatment.decisionCount
<1>1. decisions \in Seq(Decisions) /\ E \in SUBSET DOMAIN decisions
  BY DEF RowsTypeOK, Made
<1>2. E = enter \cup pay /\ enter \cap pay = {}
  BY DEF ExperimentEvents
<1>3. \A v : counted(v) = Cardinality(for(v))
  BY GroupsCount
<1>4. counted("USER_ENTER_SHOP") = Cardinality(enter) /\ counted("PAYMENT_VERIFY") = Cardinality(pay)
  BY <1>3
<1> HIDE DEF E, enter, pay, counted
<1>5. IsFiniteSet(E)
  BY <1>1, FiniteRows
<1>6. Cardinality(E) = Cardinality(enter) + Cardinality(pay)
  BY <1>2, <1>5, TwoParts
<1> QED BY <1>4, <1>6 DEF E, counted

LEMMA SameDecisions ==
  ASSUME RowsTypeOK, RowsPast
  PROVE  DecisionsAgree
<1> DEFINE recent(t) == {i \in Made("EXECUTE", "") : decisions[i].at >= t - Window}
           known(t) == {i \in Made("EXECUTE", "") : /\ decisions[i].at >= t - Window
                                                   /\ decisions[i].kind.event \in ExperimentEvents}
           others == {i \in Made("EXECUTE", "") : /\ decisions[i].at >= now - Window
                                                 /\ decisions[i].kind.event \notin ExperimentEvents}
           W == Within(decisions, now + 1 - Window, now + 1)
           uncounted == {i \in W : \/ decisions[i].kind.mode = "EVALUATE"
                                   \/ decisions[i].kind.event \notin ExperimentEvents}
           D == {i \in Made("EXECUTE", "") : decisions[i].at >= now - 1}
           of(o) == {i \in D : decisions[i].kind.outcome = o}
           hit == of("HIT")
           blocked == of("BLOCKED")
           none == of("NO_POLICY")
           day == buildDecision24hSummary(now - 1)
           counted(t, v) == getSnapshot(t, Window, v).control.decisionCount
                            + getSnapshot(t, Window, v).treatment.decisionCount
           both(t) == counted(t, "USER_ENTER_SHOP") + counted(t, "PAYMENT_VERIFY")
           now1 == now + 1
           made == known(now1)
           all == recent(now)
           mine == known(now)
<1>1. /\ decisions \in Seq(Decisions) /\ now \in Int /\ now1 \in Int /\ now1 >= now /\ now >= now
      /\ Window \in Int /\ Window >= 1
  <2>1. Trend \in 1..Window /\ Window \in Nat
    BY GateAssumption
  <2> QED BY <2>1 DEF RowsTypeOK
<1>2. /\ all \in SUBSET DOMAIN decisions /\ W \in SUBSET DOMAIN decisions /\ D \in SUBSET DOMAIN decisions
  BY DEF Made, Within
<1>3. both(now) = Cardinality(mine) /\ both(now1) = Cardinality(made)
  <2> HIDE DEF now1
  <2> QED BY <1>1, EventsCount
<1>4. \A i \in DOMAIN decisions : /\ decisions[i].at \in Int /\ decisions[i].at <= now
                                  /\ decisions[i].kind.mode \in {"EXECUTE", "EVALUATE"}
                                  /\ decisions[i].kind.outcome \in {"HIT", "BLOCKED", "NO_POLICY"}
  <2> SUFFICES ASSUME NEW i \in DOMAIN decisions
               PROVE  /\ decisions[i].at \in Int /\ decisions[i].at <= now
                      /\ decisions[i].kind.mode \in {"EXECUTE", "EVALUATE"}
                      /\ decisions[i].kind.outcome \in {"HIT", "BLOCKED", "NO_POLICY"}
    OBVIOUS
  <2>1. /\ decisions[i].at \in Nat /\ decisions[i].kind \in Kind
        /\ decisions[i].kind.outcome \in {"HIT", "BLOCKED", "NO_POLICY"}
    BY <1>1, DecisionRow
  <2>2. decisions[i].kind.mode \in {"EXECUTE", "EVALUATE"}
    BY <2>1 DEF Kind
  <2>3. decisions[i].at <= now
    BY DEF RowsPast
  <2> QED BY <2>1, <2>2, <2>3
<1>5. W = made \cup uncounted /\ made \cap uncounted = {}
  <2>1. \A i \in DOMAIN decisions : decisions[i].at < now + 1
    BY <1>1, <1>4
  <2>2. \A i \in DOMAIN decisions : i \in W <=> decisions[i].at >= now + 1 - Window
    BY <2>1 DEF Within
  <2>3. \A i \in DOMAIN decisions :
          i \in made <=> /\ decisions[i].kind.mode = "EXECUTE" /\ decisions[i].at >= now + 1 - Window
                        /\ decisions[i].kind.event \in ExperimentEvents
    <3>1. made = {i \in Made("EXECUTE", "") : /\ decisions[i].at >= (now + 1) - Window
                                             /\ decisions[i].kind.event \in ExperimentEvents}
      OBVIOUS
    <3>2. \A i \in DOMAIN decisions : i \in Made("EXECUTE", "") <=> decisions[i].kind.mode = "EXECUTE"
      BY DEF Made
    <3>3. (now + 1) - Window = now + 1 - Window
      BY <1>1
    <3> HIDE DEF made
    <3> QED BY <3>1, <3>2, <3>3
  <2>4. \A i \in W : decisions[i].kind.mode \in {"EXECUTE", "EVALUATE"}
    BY <1>2, <1>4
  <2>5. made \subseteq DOMAIN decisions
    BY DEF Made
  <2> HIDE DEF W, made
  <2> QED BY <1>2, <2>2, <2>3, <2>4, <2>5
<1>6. all = mine \cup others /\ mine \cap others = {} /\ D \subseteq all
  <2>1. \A i \in DOMAIN decisions : decisions[i].at >= now - 1 => decisions[i].at >= now - Window
    BY <1>1, <1>4
  <2> QED BY <2>1 DEF Made
<1>7. D = hit \cup (blocked \cup none) /\ hit \cap (blocked \cup none) = {} /\ blocked \cap none = {}
  <2>1. \A i \in D : decisions[i].kind.outcome \in {"HIT", "BLOCKED", "NO_POLICY"}
    BY <1>2, <1>4
  <2> HIDE DEF D
  <2> QED BY <2>1
<1>8. /\ day["HIT"] = Cardinality(hit) /\ day["BLOCKED"] = Cardinality(blocked)
      /\ day["NO_POLICY"] = Cardinality(none)
  <2>1. {i \in DOMAIN decisions : decisions[i].kind.mode = "EXECUTE" /\ decisions[i].at >= now - 1} = D
    BY DEF Made
  <2> HIDE DEF D
  <2> QED BY <2>1 DEF buildDecision24hSummary
<1>9. summarizeDecisionsForRange(decisions, now + 1 - Window, now + 1).total = Cardinality(W)
  BY DEF summarizeDecisionsForRange
<1>10. /\ both(now) = counted(now, "USER_ENTER_SHOP") + counted(now, "PAYMENT_VERIFY")
       /\ both(now1) = counted(now + 1, "USER_ENTER_SHOP") + counted(now + 1, "PAYMENT_VERIFY")
  OBVIOUS
<1>11. /\ others = {i \in Made("EXECUTE", "") : /\ decisions[i].at >= now - Window
                                                /\ decisions[i].kind.event \notin ExperimentEvents}
       /\ uncounted = {i \in Within(decisions, now + 1 - Window, now + 1) :
                          \/ decisions[i].kind.mode = "EVALUATE"
                          \/ decisions[i].kind.event \notin ExperimentEvents}
  OBVIOUS
<1> HIDE DEF W, D, all, mine, made, others, uncounted, hit, blocked, none, day, both, now1
<1>12. IsFiniteSet(W) /\ IsFiniteSet(all) /\ IsFiniteSet(D)
  BY <1>1, <1>2, FiniteRows
<1>13. Cardinality(W) = Cardinality(made) + Cardinality(uncounted)
  BY <1>5, <1>12, TwoParts
<1>14. Cardinality(all) = Cardinality(mine) + Cardinality(others) /\ Cardinality(all) \in Nat
  BY <1>6, <1>12, TwoParts, FS_CardinalityType
<1>15. Cardinality(D) \in Nat /\ Cardinality(D) <= Cardinality(all)
  BY <1>6, <1>12, FS_Subset, FS_CardinalityType
<1>16. /\ Cardinality(hit) \in Nat /\ Cardinality(blocked) \in Nat /\ Cardinality(none) \in Nat
       /\ Cardinality(D) = Cardinality(hit) + Cardinality(blocked) + Cardinality(none)
  BY <1>7, <1>12, ThreeParts
<1>18. day["HIT"] + day["BLOCKED"] + day["NO_POLICY"] <= both(now) + Cardinality(others)
  BY <1>3, <1>8, <1>14, <1>15, <1>16
<1>19. summarizeDecisionsForRange(decisions, now + 1 - Window, now + 1).total
         = both(now1) + Cardinality(uncounted)
  BY <1>3, <1>9, <1>13
<1> QED BY <1>10, <1>11, <1>18, <1>19 DEF DecisionsAgree, day, both, counted

\* The experiment: the configuration agrees with the rollbacks on record, a risk
\* that passes means gates that pass, and its groups share out the revenue and
\* the decisions that the gate and the governance centre count
\* (experimentService.ts).
THEOREM ExperimentInvariance == Spec => []ExperimentInvariant
<1>1. ReportsInvariant => ExperimentInvariant
  <2> SUFFICES ASSUME RowsTypeOK, RowsPast, ExperimentTypeOK, RollbackIsOnRecord
               PROVE  ExperimentInvariant
    BY DEF ReportsInvariant, RowsInvariant, RecordInvariant
  <2> QED BY PassPasses, GroupsShare, SameDecisions DEF ExperimentInvariant
<1> QED BY <1>1, ReportsInvariance, PTL

-----------------------------------------------------------------------------
(***************************************************************************)
(* The lists of decisions: the newest rows of a set of positions.          *)
(***************************************************************************)
\* The newest n of a list are n, or all that there are.
LEMMA NewestCount ==
  ASSUME NEW S \in SUBSET Nat, IsFiniteSet(S), NEW n \in Nat
  PROVE  Cardinality(newest(S, n)) = atMost(n, Cardinality(S))
<1> DEFINE Right(s) == Cardinality(newest(s, n)) = atMost(n, Cardinality(s))
           B == {s \in FiniteSubsetsOf(S) : ~Right(s)}
<1>1. SUFFICES ASSUME B # {} PROVE FALSE
  BY DEF FiniteSubsetsOf
<1>2. PICK T \in B : \A U \in B : ~(U \subseteq T /\ U # T)
  <2>1. B \subseteq FiniteSubsetsOf(S)
    OBVIOUS
  <2> HIDE DEF B
  <2> QED BY <1>1, <2>1, LeastSet
<1>3. T \in SUBSET S /\ IsFiniteSet(T) /\ ~Right(T)
  BY DEF FiniteSubsetsOf
<1>4. T # {}
  <2>1. SUFFICES ASSUME T = {} PROVE FALSE
    OBVIOUS
  <2>2. newest(T, n) = {} /\ Cardinality({}) = 0
    BY <2>1, FS_EmptySet DEF newest
  <2>3. atMost(n, 0) = 0
    BY DEF atMost
  <2> QED BY <1>3, <2>1, <2>2, <2>3
<1>5. PICK m \in T : \A i \in T : m <= i
  BY <1>3, <1>4, LeastNumber
<1> DEFINE R == T \ {m}
           c == Cardinality(R)
<1>6. R \in FiniteSubsetsOf(S) /\ R \subseteq T /\ R # T
  BY <1>3, <1>5, FS_Subset DEF FiniteSubsetsOf
<1>7. Cardinality(newest(R, n)) = atMost(n, c)
  BY <1>2, <1>6
<1>8. /\ IsFiniteSet(R) /\ c \in Nat /\ Cardinality(T) = c + 1
  <2>1. IsFiniteSet(R)
    BY <1>3, FS_Subset
  <2>2. m \notin R /\ T = R \cup {m}
    BY <1>5
  <2> HIDE DEF R
  <2> QED BY <2>1, <2>2, FS_AddElement, FS_CardinalityType
<1>9. {j \in T : j > m} = R
  <2>1. \A j \in T : j \in Nat /\ m <= j
    BY <1>3, <1>5
  <2>2. \A j \in T : j > m <=> j # m
    BY <2>1
  <2> QED BY <2>2
<1>10. \A i \in R : {j \in T : j > i} = {j \in R : j > i}
  <2>1. \A i \in R : ~(m > i)
    BY <1>3, <1>5
  <2> QED BY <2>1
<1>11. /\ c < n => newest(T, n) = newest(R, n) \cup {m}
       /\ ~(c < n) => newest(T, n) = newest(R, n)
  BY <1>5, <1>9, <1>10 DEF newest
<1>12. IsFiniteSet(newest(R, n)) /\ m \notin newest(R, n)
  <2>1. newest(R, n) \in SUBSET R /\ m \notin R
    BY DEF newest
  <2> HIDE DEF R
  <2> QED BY <1>8, <2>1, FS_Subset
<1> HIDE DEF R, c
<1>13. CASE c < n
  <2>1. Cardinality(newest(T, n)) = atMost(n, c) + 1
    BY <1>7, <1>11, <1>12, <1>13, FS_AddElement
  <2>2. atMost(n, c) + 1 = atMost(n, c + 1)
    BY <1>8, <1>13 DEF atMost
  <2> QED BY <1>3, <1>8, <2>1, <2>2
<1>14. CASE ~(c < n)
  <2>1. Cardinality(newest(T, n)) = atMost(n, c)
    BY <1>7, <1>11, <1>14
  <2>2. atMost(n, c) = atMost(n, c + 1)
    BY <1>8, <1>14 DEF atMost
  <2> QED BY <1>3, <1>8, <2>1, <2>2
<1> QED BY <1>13, <1>14

\* With a row come all that are newer, and more rows are newest of a larger number.
LEMMA NewestUpwards ==
  ASSUME NEW S \in SUBSET Nat, IsFiniteSet(S), NEW n \in Nat, NEW k \in newest(S, n), NEW i \in S, i > k
  PROVE  i \in newest(S, n)
<1> DEFINE above == {j \in S : j > i}
           wider == {j \in S : j > k}
<1>1. above \subseteq wider /\ wider \subseteq S /\ Cardinality(wider) < n
  <2>1. \A j \in S : j > i => j > k
    <3>1. k \in S
      BY DEF newest
    <3>2. i \in Nat /\ k \in Nat /\ \A j \in S : j \in Nat
      BY <3>1
    <3> QED BY <3>2
  <2>2. Cardinality(wider) < n
    BY DEF newest
  <2> QED BY <2>1, <2>2
<1> HIDE DEF above, wider
<1>2. IsFiniteSet(wider)
  BY <1>1, FS_Subset
<1>3. /\ Cardinality(above) <= Cardinality(wider)
      /\ Cardinality(above) \in Nat /\ Cardinality(wider) \in Nat
  BY <1>1, <1>2, FS_Subset, FS_CardinalityType
<1>4. Cardinality(above) < n
  BY <1>1, <1>3
<1> QED BY <1>4 DEF newest, above

LEMMA NewestOfMore ==
  ASSUME NEW S, IsFiniteSet(S), NEW m \in Nat, NEW n \in Nat, m <= n
  PROVE  newest(S, m) \subseteq newest(S, n) /\ newest(S, n) \subseteq S
<1> SUFFICES ASSUME NEW i \in newest(S, m) PROVE i \in newest(S, n)
  BY DEF newest
<1> DEFINE above == {j \in S : j > i}
<1>1. above \subseteq S /\ Cardinality(above) < m /\ i \in S
  BY DEF newest
<1> HIDE DEF above
<1>2. Cardinality(above) \in Nat
  BY <1>1, FS_Subset, FS_CardinalityType
<1>3. Cardinality(above) < n
  BY <1>1, <1>2
<1> QED BY <1>1, <1>3 DEF newest, above

\* The newest of a list has all that some of it are older than, when there are few of them.
LEMMA RecentAreNewest ==
  ASSUME NEW S \in SUBSET Nat, IsFiniteSet(S), NEW n \in Nat, NEW M \in SUBSET S,
         Cardinality(M) <= n, \A i \in M, j \in S : j > i => j \in M
  PROVE  M \subseteq newest(S, n)
<1> SUFFICES ASSUME NEW i \in M PROVE i \in newest(S, n)
  OBVIOUS
<1> DEFINE above == {j \in S : j > i}
           rest == M \ {i}
           c == Cardinality(rest)
<1>1. above \in SUBSET rest
  <2>1. i \in Nat /\ ~(i > i)
    OBVIOUS
  <2>2. \A j \in S : j > i => j \in M /\ j # i
    BY <2>1
  <2> QED BY <2>2
<1>2. rest \in SUBSET S /\ i \notin rest /\ M = rest \cup {i}
  OBVIOUS
<1> HIDE DEF above, rest, c
<1>3. IsFiniteSet(rest) /\ c \in Nat /\ Cardinality(M) = c + 1
  BY <1>2, FS_Subset, FS_AddElement, FS_CardinalityType DEF c
<1>4. IsFiniteSet(above) /\ Cardinality(above) <= c
  BY <1>1, <1>3, FS_Subset DEF c
<1>5. Cardinality(above) \in Nat
  BY <1>4, FS_CardinalityType
<1>6. Cardinality(above) < n
  BY <1>3, <1>4, <1>5
<1> QED BY <1>6 DEF newest, above

\* A page of replays: full, and nothing newer is left out of it.
LEMMA PageIsNewest ==
  ASSUME RowsTypeOK, InOrder, NEW outcome \in {"HIT", "BLOCKED", "NO_POLICY"}, NEW limit \in Nat
  PROVE  LET page == listReplays("EXECUTE", "", outcome, limit) IN
         /\ Cardinality(page.items) = atMost(limit, page.total)
         /\ \A i \in DOMAIN decisions, k \in page.items :
               (/\ decisions[i].at > decisions[k].at
                /\ decisions[i].kind.outcome = outcome /\ decisions[i].kind.mode = "EXECUTE")
               => i \in page.items
<1> DEFINE D == DOMAIN decisions
           M == Made("EXECUTE", "")
           L == listDecisions("EXECUTE", "", Cap)
           O == withOutcome(L, outcome)
           page == listReplays("EXECUTE", "", outcome, limit)
<1>1. decisions \in Seq(Decisions) /\ D \in SUBSET Nat
  BY DEF RowsTypeOK
<1>2. M = {i \in D : decisions[i].kind.mode = "EXECUTE"}
  BY DEF Made
<1>3. L = newest(M, Cap)
  <2>1. atMost(Cap, Cap) = Cap
    BY DEF atMost
  <2> QED BY <2>1 DEF listDecisions
<1>4. O = {i \in L : decisions[i].kind.outcome = outcome}
  BY DEF withOutcome
<1>5. page.items = newest(O, limit) /\ page.total = Cardinality(O)
  BY DEF listReplays, Page
<1>6. Cap \in Nat
  BY ListsAssumption
<1>7. M \in SUBSET D /\ L \in SUBSET M /\ O \in SUBSET L
  BY <1>2, <1>3, <1>4 DEF newest
<1> HIDE DEF M, L, O, page, D
<1>8. IsFiniteSet(M) /\ IsFiniteSet(O)
  BY <1>1, <1>7, FiniteRows DEF D
<1>9. O \in SUBSET Nat /\ M \in SUBSET Nat
  BY <1>1, <1>7
<1>10. Cardinality(page.items) = atMost(limit, page.total)
  BY <1>5, <1>8, <1>9, NewestCount
<1>11. ASSUME NEW i \in D, NEW k \in page.items, decisions[i].at > decisions[k].at,
              decisions[i].kind.outcome = outcome, decisions[i].kind.mode = "EXECUTE"
       PROVE  i \in page.items
  <2>1. k \in newest(O, limit) /\ k \in O /\ k \in L /\ k \in newest(M, Cap) /\ k \in D
    BY <1>3, <1>5, <1>7 DEF newest
  <2>2. i \in M
    BY <1>2, <1>11
  <2>3. i > k
    <3>1. i \in Nat /\ k \in Nat /\ decisions[i].at \in Nat /\ decisions[k].at \in Nat
      BY <1>1, <2>1, DecisionRow DEF D
    <3>2. i < k => decisions[i].at <= decisions[k].at
      BY <2>1 DEF InOrder, D
    <3>3. i # k
      BY <1>11, <3>1
    <3> QED BY <1>11, <3>1, <3>2, <3>3
  <2>4. i \in newest(M, Cap)
    BY <1>6, <1>8, <1>9, <2>1, <2>2, <2>3, NewestUpwards
  <2>5. i \in O
    BY <1>3, <1>4, <1>11, <2>4
  <2> QED BY <1>5, <1>8, <1>9, <2>1, <2>3, <2>5, NewestUpwards
<1> QED BY <1>10, <1>11 DEF page, D

\* A decision after one of the day is of the day.
LEMMA StaysRecent ==
  ASSUME RowsTypeOK, InOrder, NEW i \in DOMAIN decisions, NEW j \in DOMAIN decisions,
         j > i, decisions[i].at >= now
  PROVE  decisions[j].at >= now
<1>1. decisions \in Seq(Decisions) /\ now \in Int
  BY DEF RowsTypeOK
<1>2. i \in Nat /\ j \in Nat
  BY <1>1
<1>3. decisions[i].at \in Nat /\ decisions[j].at \in Nat
  BY <1>1, DecisionRow
<1>4. decisions[i].at <= decisions[j].at
  BY <1>2 DEF InOrder
<1> QED BY <1>1, <1>3, <1>4

\* What a list has of an outcome, as long as it reaches back far enough.
LEMMA PageCovers ==
  ASSUME RowsTypeOK, InOrder, NEW outcome \in {"HIT", "BLOCKED", "NO_POLICY"}, NEW limit
  PROVE  LET page == listReplays("EXECUTE", "", outcome, limit)
             made == {i \in DOMAIN decisions : decisions[i].kind.mode = "EXECUTE" /\ decisions[i].at >= now}
         IN  /\ Cardinality(made) <= Cap => page.total >= buildDecision24hSummary(now)[outcome]
             /\ listExecutions("", outcome, limit).total <= page.total
<1> DEFINE D == DOMAIN decisions
           M == Made("EXECUTE", "")
           L == listDecisions("EXECUTE", "", Cap)
           A == listDecisions("EXECUTE", "", Asked)
           O == withOutcome(L, outcome)
           made == {i \in D : decisions[i].kind.mode = "EXECUTE" /\ decisions[i].at >= now}
           today == {i \in made : decisions[i].kind.outcome = outcome}
           automatic == {i \in A : /\ decisions[i].kind.automatic
                                   /\ decisions[i].kind.event \in {"USER_ENTER_SHOP", "PAYMENT_VERIFY"}}
           U == withOutcome(automatic, outcome)
<1>1. decisions \in Seq(Decisions) /\ D \in SUBSET Nat /\ now \in Int
  BY DEF RowsTypeOK
<1>2. M = {i \in D : decisions[i].kind.mode = "EXECUTE"}
  BY DEF Made
<1>3. L = newest(M, Cap) /\ A = newest(M, atMost(Asked, Cap))
  <2>1. atMost(Cap, Cap) = Cap
    BY DEF atMost
  <2> QED BY <2>1 DEF listDecisions
<1>4. O = {i \in L : decisions[i].kind.outcome = outcome}
  BY DEF withOutcome
<1>5. U \in SUBSET {i \in A : decisions[i].kind.outcome = outcome}
  BY DEF withOutcome
<1>6. Cap \in Nat /\ atMost(Asked, Cap) \in Nat /\ atMost(Asked, Cap) <= Cap
  BY ListsAssumption DEF atMost
<1>7. /\ listReplays("EXECUTE", "", outcome, limit).total = Cardinality(O)
      /\ listExecutions("", outcome, limit).total = Cardinality(U)
  BY DEF listReplays, listExecutions, Page
<1>8. buildDecision24hSummary(now)[outcome] = Cardinality(today)
  BY DEF buildDecision24hSummary
<1>9. M \in SUBSET D /\ made \in SUBSET M /\ today \in SUBSET made
  BY <1>2
<1>10. \A i \in made, j \in M : j > i => j \in made
  <2>1. \A i \in made : i \in DOMAIN decisions /\ decisions[i].at >= now
    OBVIOUS
  <2>2. \A j \in M : j \in DOMAIN decisions /\ decisions[j].kind.mode = "EXECUTE"
    BY <1>2
  <2>3. \A i \in made, j \in M : j > i => decisions[j].at >= now
    <3> HIDE DEF made, M
    <3> QED BY <2>1, <2>2, StaysRecent
  <2> QED BY <2>2, <2>3
<1> HIDE DEF M, L, A, O, U, automatic
<1>11. IsFiniteSet(M) /\ M \in SUBSET Nat
  BY <1>1, <1>9, FiniteRows
<1>12. ASSUME Cardinality(made) <= Cap
       PROVE  Cardinality(O) >= Cardinality(today)
  <2>1. made \subseteq L
    <3> HIDE DEF made
    <3> QED BY <1>3, <1>6, <1>9, <1>10, <1>11, <1>12, RecentAreNewest
  <2>2. today \in SUBSET O
    BY <1>4, <2>1
  <2>3. O \in SUBSET M
    BY <1>3, <1>4 DEF newest
  <2> HIDE DEF today
  <2>4. IsFiniteSet(O) /\ Cardinality(O) \in Nat /\ IsFiniteSet(today)
    BY <1>11, <2>2, <2>3, FS_Subset, FS_CardinalityType
  <2>5. Cardinality(today) <= Cardinality(O) /\ Cardinality(today) \in Nat
    BY <2>2, <2>4, FS_Subset, FS_CardinalityType
  <2> QED BY <2>4, <2>5
<1>13. Cardinality(U) <= Cardinality(O)
  <2>1. A \subseteq L /\ L \subseteq M
    BY <1>3, <1>6, <1>11, NewestOfMore
  <2>2. U \in SUBSET O /\ O \in SUBSET M
    BY <1>4, <1>5, <2>1
  <2> QED BY <1>11, <2>2, FS_Subset
<1> QED BY <1>7, <1>8, <1>12, <1>13

\* A first page of decisions is full, nothing newer is left out of it, and its
\* totals fit the day's summary and each other (automationService.ts,
\* policyGovernanceService.js over policyRegistry.listDecisions).
THEOREM PagesInvariance == Spec => []PagesAreNewest
<1>1. RowsTypeOK /\ InOrder => PagesAreNewest
  <2> SUFFICES ASSUME RowsTypeOK, InOrder PROVE PagesAreNewest
    OBVIOUS
  <2>1. \A limit \in 1 .. MaxDecisions : limit \in Nat
    BY RowsAssumption
  <2> QED BY <2>1, PageIsNewest, PageCovers DEF PagesAreNewest
<1>2. ReportsInvariant => PagesAreNewest
  BY <1>1 DEF ReportsInvariant, RowsInvariant
<1> QED BY <1>2, ReportsInvariance, PTL
=============================================================================
