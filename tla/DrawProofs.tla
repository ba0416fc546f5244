----------------------------- MODULE DrawProofs -----------------------------
(***************************************************************************)
(* The payouts of a draw, ticket by ticket, for any pool and any number of *)
(* tickets with any matches: what the tickets are paid is what the tiers   *)
(* write off, it is within the pool, and a forced draw hands the jackpot   *)
(* allocation to the best tickets below the jackpot.                       *)
(***************************************************************************)
EXTENDS MCPrizeTiers, ArithmeticProofs

\* The pool is an amount, and every ticket carries a set of numbers.
DrawInv == pool \in Nat /\ ts \in Seq([numbers : SUBSET Int])

LEMMA DrawInvariant == Spec => []DrawInv
<1>1. Init => DrawInv
  BY TiersAssumption DEF Init, DrawInv
<1>2. DrawInv /\ [Next]_<<pool, ts>> => DrawInv'
  <2> SUFFICES ASSUME DrawInv, [Next]_<<pool, ts>> PROVE DrawInv'
    OBVIOUS
  <2>1. CASE Next
    <3>1. PICK k \in MatchCounts : ts' = Append(ts, [numbers |-> Matching(k)])
      BY <2>1 DEF Next
    <3>2. Matching(k) \in SUBSET Int
      BY TiersAssumption DEF Matching
    <3> DEFINE ticket == [numbers |-> Matching(k)]
    <3>3. ticket \in [numbers : SUBSET Int]
      BY <3>2
    <3> HIDE DEF ticket
    <3>4. Append(ts, ticket) \in Seq([numbers : SUBSET Int])
      BY <3>3 DEF DrawInv
    <3> QED  BY <2>1, <3>1, <3>4 DEF Next, DrawInv, ticket
  <2>2. CASE UNCHANGED <<pool, ts>>
    BY <2>2 DEF DrawInv
  <2> QED  BY <2>1, <2>2
<1> QED  BY <1>1, <1>2, PTL DEF Spec

\* No ticket matches more than the six winning numbers.
LEMMA MatchesType ==
  ASSUME DrawInv, NEW i \in DOMAIN ts
  PROVE  Matches(i) \in 0..6
<1>1. ts[i].numbers \cap Winning \in SUBSET (1..6)
  BY DEF Winning
<1>2. IsFiniteSet(1..6) /\ Cardinality(1..6) = 6
  <2>1. 1 \in Int /\ 6 \in Int
    OBVIOUS
  <2>2. IsFiniteSet(1..6) /\ Cardinality(1..6) = IF 1 > 6 THEN 0 ELSE 6 - 1 + 1
    BY <2>1, FS_Interval
  <2> QED  BY <2>2
<1> DEFINE both == ts[i].numbers \cap Winning
<1> HIDE DEF both
<1>3. both \in SUBSET (1..6)
  BY <1>1 DEF both
<1>4. IsFiniteSet(both) /\ Cardinality(both) <= 6
  <2> DEFINE six == 1..6
  <2>1. both \in SUBSET six /\ IsFiniteSet(six)
    BY <1>2, <1>3
  <2> HIDE DEF six
  <2>2. IsFiniteSet(both) /\ Cardinality(both) <= Cardinality(six)
    BY <2>1, FS_Subset
  <2> QED  BY <1>2, <2>2 DEF six
<1>5. Cardinality(both) \in Nat
  BY <1>4, FS_CardinalityType
<1>6. Cardinality(both) \in 0..6
  BY <1>4, <1>5
<1> QED  BY <1>6 DEF Matches, CountMatches, both

LEMMA DrawTypes ==
  ASSUME DrawInv
  PROVE  /\ pool \in Nat /\ IsFiniteSet(DOMAIN ts) /\ Counts \in [Tiers -> Nat]
         /\ [i \in DOMAIN ts |-> Matches(i)] \in [DOMAIN ts -> Nat]
         /\ Counts = CountsIn([i \in DOMAIN ts |-> Matches(i)], DOMAIN ts)
<1>1. pool \in Nat /\ ts \in Seq([numbers : SUBSET Int])
  BY DEF DrawInv
<1>2. IsFiniteSet(DOMAIN ts)
  BY <1>1, InTierFinite
<1>3. Counts \in [Tiers -> Nat]
  BY <1>1, TierCountsType DEF Counts
<1>4. \A i \in DOMAIN ts : Matches(i) \in Nat
  BY MatchesType
<1>5. Counts = CountsIn([i \in DOMAIN ts |-> Matches(i)], DOMAIN ts)
  BY DEF Counts, TierCounts, InTier, Matches, CountsIn, TierIn
<1> QED  BY <1>1, <1>2, <1>3, <1>4, <1>5

\* What a draw writes off tier by tier is what its tickets are paid one by one, and
\* within the pool, forced or not (the two passes of the draw over the tickets).
THEOREM PaidPerTicketAlways == Spec => []PaidPerTicket
<1>1. ASSUME DrawInv, NEW force \in {FALSE, Counts[6] = 0}
      PROVE  /\ PaidTo(DOMAIN ts, force) = Distributed(PayoutTiers(pool, Counts, force), Counts)
             /\ PaidTo(DOMAIN ts, force) <= pool
  <2> DEFINE tiers == PayoutTiers(pool, Counts, force)
             D == DOMAIN ts
             matches == [i \in D |-> Matches(i)]
             f == Payouts(force)
             paid == Distributed(tiers, Counts)
  <2>1. /\ pool \in Nat /\ IsFiniteSet(D) /\ Counts \in [Tiers -> Nat]
        /\ matches \in [D -> Nat] /\ Counts = CountsIn(matches, D)
    BY <1>1, DrawTypes
  <2>2. force \in BOOLEAN /\ (force => Counts[6] = 0)
    OBVIOUS
  <2>3. tiers \in [Tiers -> Nat]
    BY <2>1, <2>2, PayoutTiersType
  <2>4. \A i \in D : f[i] = PayoutForMatches(tiers, matches[i])
    BY DEF Payouts
  <2>5. paid <= pool
    BY <2>1, <2>2, DistributedWithinPool
  <2> HIDE DEF tiers, D, matches, f
  <2>6. \A S \in SUBSET D : SumFunctionOnSet(f, S) = Distributed(tiers, CountsIn(matches, S))
    BY <2>1, <2>3, <2>4, PayoutsSumToTiers
  <2>7. SumFunctionOnSet(f, D) = paid
    BY <2>1, <2>6
  <2> QED  BY <2>5, <2>7 DEF PaidTo, f, D, tiers
<1>2. DrawInv => PaidPerTicket
  BY <1>1 DEF PaidPerTicket
<1> QED  BY <1>2, DrawInvariant, PTL

\* The best tickets below the jackpot, if there is no jackpot winner, are all of one
\* tier, which is the one the rolldown chooses.
LEMMA BestAreOfRolldownTier ==
  ASSUME DrawInv, Counts[6] = 0, NEW b \in BestBelowJackpot
  PROVE  /\ Matches(b) \in 3..5
         /\ BestBelowJackpot = InTier(ts, Winning, Matches(b))
         /\ \A i \in BestBelowJackpot : Matches(i) = Matches(b)
         /\ RolldownTier(Counts) = Matches(b)
<1> DEFINE m == Matches(b)
<1>1. ts \in Seq([numbers : SUBSET Int])
  BY DEF DrawInv
<1>2. /\ b \in DOMAIN ts /\ m \in 3..5
      /\ \A j \in DOMAIN ts : Matches(j) # 6 => Matches(j) <= m
  BY DEF BestBelowJackpot
<1>3. \A j \in DOMAIN ts : Matches(j) \in 0..6
  BY MatchesType
<1>4. \A t \in Tiers : /\ Counts[t] = Cardinality(InTier(ts, Winning, t))
                       /\ IsFiniteSet(InTier(ts, Winning, t)) /\ Counts[t] \in Nat
  BY <1>1, InTierFinite DEF Counts, TierCounts
<1>5. \A t \in Tiers : InTier(ts, Winning, t) = {j \in DOMAIN ts : Matches(j) = t}
  <2>1. \A j \in DOMAIN ts, t \in Tiers : TierOf(Matches(j)) = t <=> Matches(j) = t
    BY <1>3 DEF TierOf, Tiers
  <2> QED  BY <2>1 DEF InTier, Matches
<1>6. \A t \in Tiers : Counts[t] = 0 <=> \A j \in DOMAIN ts : Matches(j) # t
  <2> SUFFICES ASSUME NEW t \in Tiers
               PROVE  Counts[t] = 0 <=> \A j \in DOMAIN ts : Matches(j) # t
    OBVIOUS
  <2>1. Counts[t] = 0 <=> InTier(ts, Winning, t) = {}
    BY <1>4, FS_EmptySet
  <2> QED  BY <1>5, <2>1
<1>7. \A j \in DOMAIN ts : Matches(j) <= m
  BY <1>2, <1>6 DEF Tiers
<1>8. BestBelowJackpot = {j \in DOMAIN ts : Matches(j) = m}
  <2>1. \A j \in BestBelowJackpot : m <= Matches(j)
    BY <1>2 DEF BestBelowJackpot
  <2>2. \A j \in BestBelowJackpot : j \in DOMAIN ts /\ Matches(j) = m
    <3>1. \A j \in BestBelowJackpot : j \in DOMAIN ts
      BY DEF BestBelowJackpot
    <3> HIDE DEF m
    <3> QED  BY <1>2, <1>3, <1>7, <2>1, <3>1
  <2>3. \A j \in DOMAIN ts : Matches(j) = m => j \in BestBelowJackpot
    BY <1>2 DEF BestBelowJackpot
  <2> HIDE DEF m
  <2> QED  BY <2>2, <2>3
<1>9. RolldownTier(Counts) = m
  <2>1. Counts[m] # 0 /\ \A t \in Tiers : t > m => Counts[t] = 0
    <3>1. m \in Tiers /\ \A t \in Tiers : t \in Int /\ m \in Int
      BY <1>2 DEF Tiers
    <3>2. Counts[m] # 0
      BY <1>2, <1>6, <3>1
    <3>3. ASSUME NEW t \in Tiers, t > m PROVE Counts[t] = 0
      <4>1. \A j \in DOMAIN ts : Matches(j) # t
        BY <1>3, <1>7, <3>1, <3>3
      <4> QED  BY <1>6, <4>1
    <3> QED  BY <3>2, <3>3
  <2>2. Counts[3] \in Nat /\ Counts[4] \in Nat /\ Counts[5] \in Nat
    BY <1>4 DEF Tiers
  <2> HIDE DEF m
  <2>3. m = 3 \/ m = 4 \/ m = 5
    BY <1>2
  <2>4. CASE m = 3
    BY <2>1, <2>2, <2>4 DEF RolldownTier, Tiers
  <2>5. CASE m = 4
    BY <2>1, <2>2, <2>5 DEF RolldownTier, Tiers
  <2>6. CASE m = 5
    BY <2>1, <2>2, <2>6 DEF RolldownTier, Tiers
  <2> QED  BY <2>3, <2>4, <2>5, <2>6
<1>10. m \in Tiers
  BY <1>2 DEF Tiers
<1> QED  BY <1>2, <1>5, <1>8, <1>9, <1>10

\* A forced draw without a jackpot winner hands the jackpot allocation, on top of
\* their own, to the best tickets below, whichever tier they are in: short of it by
\* less than two units each, which two divisions cost.
THEOREM RolldownReachesBestAlways == Spec => []RolldownReachesBest
<1>1. ASSUME DrawInv, Counts[6] = 0, BestBelowJackpot # {}
      PROVE  LET tier == CHOOSE m \in 3..5 : \E i \in BestBelowJackpot : Matches(i) = m
                 due  == Allocation(pool, tier) + Allocation(pool, 6)
                 paid == PaidTo(BestBelowJackpot, TRUE)
             IN  paid <= due /\ due < paid + 2 * Cardinality(BestBelowJackpot)
  <2> DEFINE Best == BestBelowJackpot
             tier == CHOOSE m \in 3..5 : \E i \in Best : Matches(i) = m
             A == Allocation(pool, tier)
             J == Allocation(pool, 6)
             n == Cardinality(Best)
  <2>1. PICK b \in Best : TRUE
    BY <1>1
  <2>2. /\ Matches(b) \in 3..5 /\ Best = InTier(ts, Winning, Matches(b))
        /\ \A i \in Best : Matches(i) = Matches(b)
        /\ RolldownTier(Counts) = Matches(b)
    BY <1>1, <2>1, BestAreOfRolldownTier
  <2>3. tier = Matches(b)
    <3>1. \E m \in 3..5 : \E i \in Best : Matches(i) = m
      BY <2>1, <2>2
    <3>2. tier \in 3..5 /\ \E i \in Best : Matches(i) = tier
      BY <3>1
    <3> HIDE DEF tier
    <3> QED  BY <2>2, <3>2
  <2> HIDE DEF tier
  <2>4. /\ pool \in Nat /\ IsFiniteSet(DOMAIN ts) /\ Counts \in [Tiers -> Nat]
    BY <1>1, DrawTypes
  <2>5. tier \in Tiers /\ tier # 0 /\ 6 \in Tiers
    BY <2>2, <2>3 DEF Tiers
  <2>6. Best \in SUBSET (DOMAIN ts) /\ IsFiniteSet(Best) /\ n \in Nat \ {0} /\ Counts[tier] = n
    <3>1. Best \in SUBSET (DOMAIN ts)
      BY DEF BestBelowJackpot
    <3>2. IsFiniteSet(Best)
      BY <2>4, <3>1, FS_Subset
    <3>3. n \in Nat /\ n # 0
      BY <2>1, <3>2, FS_CardinalityType, FS_EmptySet
    <3>4. Counts[tier] = n
      BY <2>2, <2>3, <2>5 DEF Counts, TierCounts
    <3> QED  BY <3>1, <3>2, <3>3, <3>4
  <2>7. A \in Nat /\ J \in Nat
    BY <2>4, <2>5, AllocationsWithinPool
  <2> DEFINE each == PayoutTiers(pool, Counts, TRUE)[tier]
             own == A \div n
             extra == J \div n
  <2>8. each = own + extra
    <3>1. RolldownShare(pool, Counts) = extra
      BY <2>2, <2>3, <2>5, <2>6 DEF RolldownShare, PerWinner
    <3>2. ComputePrizeTiers(pool, Counts)[tier] = own
      BY <2>5, <2>6 DEF ComputePrizeTiers, PerWinner
    <3> QED  BY <2>2, <2>3, <2>5, <3>1, <3>2 DEF PayoutTiers
  <2>9. /\ own \in Nat /\ own * n <= A /\ A < own * n + n
        /\ extra \in Nat /\ extra * n <= J /\ J < extra * n + n
    <3> HIDE DEF n, A, J
    <3>1. \A a \in Nat : a \div n \in Nat /\ (a \div n) * n <= a /\ a < (a \div n) * n + n
      BY <2>6, DivisionFloors, DivisionTight
    <3> QED  BY <2>7, <3>1
  <2> DEFINE f == Payouts(TRUE)
  <2>10. \A i \in Best : f[i] = each
    <3>1. \A i \in Best : i \in DOMAIN ts /\ Matches(i) = tier
      BY <2>2, <2>3, <2>6
    <3>2. TierOf(tier) = tier
      BY <2>5 DEF TierOf, Tiers
    <3> QED  BY <2>5, <3>1, <3>2 DEF Payouts, PayoutForMatches
  <2> HIDE DEF f, each, own, extra, n, A, J, Best
  <2>11. each \in Int
    BY <2>8, <2>9
  <2>12. SumFunctionOnSet(f, Best) = each * n
    BY <2>6, <2>10, <2>11, SumOfEquals DEF n
  <2>13. (own + extra) * n = own * n + extra * n /\ own * n \in Nat /\ extra * n \in Nat
    BY <2>6, <2>9
  <2> DEFINE paid == SumFunctionOnSet(f, Best)
  <2>14. paid = own * n + extra * n
    BY <2>8, <2>12, <2>13
  <2> HIDE DEF paid
  <2>15. paid <= A + J /\ A + J < paid + 2 * n
    BY <2>6, <2>7, <2>9, <2>13, <2>14
  <2> QED  BY <2>15 DEF paid, A, J, n, f, Best, tier, PaidTo
<1>2. DrawInv => RolldownReachesBest
  BY <1>1 DEF RolldownReachesBest
<1> QED  BY <1>2, DrawInvariant, PTL
=============================================================================
