-------------------------- MODULE ArithmeticProofs --------------------------
(***************************************************************************)
(* Lemmas about the arithmetic of the contract: the split of a sale loses  *)
(* nothing, no draw promises more than the pool it draws from, and sums    *)
(* over finite sets, which a ledger adds up with and a proof takes apart   *)
(* again. What needs induction over a set is had from a least              *)
(* counterexample, a smallest set of those it fails for.                   *)
(***************************************************************************)
EXTENDS PrizeTiers, Sequences, FiniteSetsExt, FiniteSetTheorems, WellFoundedInduction,
        TLAPS

\* Integer division rounds down and never overspends (Uint128::checked_div).
LEMMA DivisionFloors ==
  ASSUME NEW a \in Nat, NEW w \in Nat, w # 0
  PROVE  a \div w \in Nat /\ (a \div w) * w <= a
  BY SMT

\* A share of an amount is an amount, and at most its basis points.
LEMMA ShareFloors ==
  ASSUME NEW amount \in Nat, NEW bps \in Nat
  PROVE  Share(amount, bps) \in Nat /\ Share(amount, bps) * BPS_DENOM <= amount * bps
  BY DivisionFloors DEF Share, BPS_DENOM

\* A valid split takes a sale apart without losing or minting a unit, and the
\* treasury's remainder is never negative: FundSplitBps::apply cannot fail.
THEOREM SplitConserves ==
  ASSUME NEW split \in FundSplitBps, Validate(split), NEW amount \in Nat
  PROVE  LET parts == Apply(split, amount) IN
           /\ parts \in [prize : Nat, referral : Nat, treasury : Nat]
           /\ parts.prize + parts.referral + parts.treasury = amount
<1>1. split.prize_bps \in Nat /\ split.referral_bps \in Nat /\ split.treasury_bps \in Nat
  BY DEF FundSplitBps
<1> DEFINE p == Share(amount, split.prize_bps)
           q == Share(amount, split.referral_bps)
<1>2. /\ p \in Nat /\ p * BPS_DENOM <= amount * split.prize_bps
      /\ q \in Nat /\ q * BPS_DENOM <= amount * split.referral_bps
  BY <1>1, ShareFloors
<1>3. amount * (split.prize_bps + split.referral_bps) <= amount * BPS_DENOM
  <2>1. split.prize_bps + split.referral_bps <= BPS_DENOM
    BY <1>1 DEF Validate, BPS_DENOM
  <2> QED  BY <1>1, <2>1 DEF BPS_DENOM
<1>4. amount * (split.prize_bps + split.referral_bps)
        = amount * split.prize_bps + amount * split.referral_bps
  BY <1>1
<1>5. p + q <= amount
  <2> HIDE DEF p, q
  <2>1. (p + q) * BPS_DENOM <= amount * BPS_DENOM
    BY <1>1, <1>2, <1>3, <1>4 DEF BPS_DENOM
  <2> QED  BY <1>2, <2>1 DEF BPS_DENOM
<1>6. Apply(split, amount) = [prize |-> p, referral |-> q, treasury |-> (amount - p) - q]
  BY DEF Apply
<1> QED
  <2> HIDE DEF p, q
  <2> QED  BY <1>2, <1>5, <1>6

-----------------------------------------------------------------------------
\* What the winners of a tier get together is at most the tier's amount.
LEMMA PerWinnerFloors ==
  ASSUME NEW amount \in Nat, NEW winners \in Nat
  PROVE  PerWinner(amount, winners) \in Nat /\ PerWinner(amount, winners) * winners <= amount
<1>1. CASE winners = 0  BY <1>1 DEF PerWinner
<1>2. CASE winners # 0  BY <1>2, DivisionFloors DEF PerWinner
<1> QED  BY <1>1, <1>2

LEMMA TierBpsValues ==
  /\ Tiers = {3, 4, 5, 6}
  /\ TierBps[3] = 800 /\ TierBps[4] = 1200 /\ TierBps[5] = 2000 /\ TierBps[6] = 6000
  BY DEF Tiers, TierBps

\* The tier allocations share the pool out.
LEMMA AllocationsWithinPool ==
  ASSUME NEW pool \in Nat
  PROVE  /\ \A t \in Tiers : Allocation(pool, t) \in Nat
         /\ Allocation(pool, 3) + Allocation(pool, 4)
              + Allocation(pool, 5) + Allocation(pool, 6) <= pool
<1>1. \A t \in Tiers : TierBps[t] \in Nat
  BY TierBpsValues
<1>2. \A t \in Tiers : /\ Allocation(pool, t) \in Nat
                       /\ Allocation(pool, t) * 10000 <= pool * TierBps[t]
  <2> TAKE t \in Tiers
  <2>1. Share(pool, TierBps[t]) \in Nat /\ Share(pool, TierBps[t]) * BPS_DENOM <= pool * TierBps[t]
    BY <1>1, ShareFloors
  <2> QED  BY <2>1 DEF Allocation, BPS_DENOM
<1>3. /\ Allocation(pool, 3) * 10000 <= pool * 800
      /\ Allocation(pool, 4) * 10000 <= pool * 1200
      /\ Allocation(pool, 5) * 10000 <= pool * 2000
      /\ Allocation(pool, 6) * 10000 <= pool * 6000
  BY <1>2, TierBpsValues
<1> QED  BY <1>2, <1>3, TierBpsValues

LEMMA ComputePrizeTiersType ==
  ASSUME NEW pool \in Nat, NEW counts \in [Tiers -> Nat]
  PROVE  /\ ComputePrizeTiers(pool, counts) \in [Tiers -> Nat]
         /\ \A t \in Tiers :
              ComputePrizeTiers(pool, counts)[t] * counts[t] <= Allocation(pool, t)
  BY AllocationsWithinPool, PerWinnerFloors DEF ComputePrizeTiers

LEMMA RolldownFacts ==
  ASSUME NEW pool \in Nat, NEW counts \in [Tiers -> Nat]
  PROVE  /\ RolldownTier(counts) \in {0, 3, 4, 5}
         /\ RolldownTier(counts) # 0 =>
              /\ counts[RolldownTier(counts)] \in Nat \ {0}
              /\ RolldownShare(pool, counts) * counts[RolldownTier(counts)]
                   <= Allocation(pool, 6)
         /\ RolldownShare(pool, counts) \in Nat
<1>1. counts[3] \in Nat /\ counts[4] \in Nat /\ counts[5] \in Nat
  BY TierBpsValues
<1>2. /\ RolldownTier(counts) \in {0, 3, 4, 5}
      /\ RolldownTier(counts) # 0 => counts[RolldownTier(counts)] \in Nat \ {0}
  BY <1>1 DEF RolldownTier
<1>3. Allocation(pool, 6) \in Nat
  <2>1. 6 \in Tiers
    BY TierBpsValues
  <2> QED  BY <2>1, AllocationsWithinPool
<1> DEFINE tier == RolldownTier(counts)
           share == PerWinner(Allocation(pool, 6), counts[tier])
<1> HIDE DEF tier
<1>4. RolldownShare(pool, counts) = IF tier = 0 THEN 0 ELSE share
  BY DEF RolldownShare, tier
<1>5. tier # 0 => counts[tier] \in Nat \ {0}
  BY <1>2 DEF tier
<1>6. tier # 0 => share \in Nat /\ share * counts[tier] <= Allocation(pool, 6)
  BY <1>3, <1>5, PerWinnerFloors
<1> HIDE DEF share
<1> QED  BY <1>2, <1>4, <1>6 DEF tier

LEMMA PayoutTiersType ==
  ASSUME NEW pool \in Nat, NEW counts \in [Tiers -> Nat], NEW force \in BOOLEAN
  PROVE  PayoutTiers(pool, counts, force) \in [Tiers -> Nat]
  BY ComputePrizeTiersType, RolldownFacts DEF PayoutTiers

LEMMA DistributedType ==
  ASSUME NEW tiers \in [Tiers -> Nat], NEW counts \in [Tiers -> Nat]
  PROVE  Distributed(tiers, counts) \in Nat
<1>1. \A t \in Tiers : tiers[t] * counts[t] \in Nat
  OBVIOUS
<1> QED  BY <1>1, TierBpsValues DEF Distributed

\* The promise of a draw: whatever the winner counts, and even when the jackpot
\* allocation is forced down, the payouts sum to at most the pool.
THEOREM DistributedWithinPool ==
  ASSUME NEW pool \in Nat, NEW counts \in [Tiers -> Nat], NEW force \in BOOLEAN,
         force => counts[6] = 0
  PROVE  Distributed(PayoutTiers(pool, counts, force), counts) <= pool
<1> DEFINE base  == ComputePrizeTiers(pool, counts)
           share == RolldownShare(pool, counts)
           b     == RolldownTier(counts)
           paid  == PayoutTiers(pool, counts, force)
<1>1. /\ base \in [Tiers -> Nat]
      /\ \A t \in Tiers : base[t] * counts[t] <= Allocation(pool, t)
  BY ComputePrizeTiersType
<1>2. /\ \A t \in Tiers : Allocation(pool, t) \in Nat
      /\ Allocation(pool, 3) + Allocation(pool, 4)
           + Allocation(pool, 5) + Allocation(pool, 6) <= pool
  BY AllocationsWithinPool
<1>3. paid = [t \in Tiers |-> IF force /\ t = b THEN base[t] + share ELSE base[t]]
  BY DEF PayoutTiers
<1>4. /\ b \in {0, 3, 4, 5} /\ share \in Nat
      /\ b # 0 => share * counts[b] <= Allocation(pool, 6)
  BY RolldownFacts
<1> HIDE DEF base, share, b, paid
<1>5. CASE ~force \/ b = 0
  <2>1. \A t \in Tiers : paid[t] * counts[t] <= Allocation(pool, t)
    BY <1>1, <1>3, <1>5, TierBpsValues
  <2>2. \A t \in Tiers : paid[t] * counts[t] \in Nat
    BY <1>1, <1>3, <1>5, TierBpsValues
  <2> QED  BY <2>1, <2>2, <1>2, TierBpsValues DEF Distributed, paid
<1>6. CASE force /\ b # 0
  <2>1. counts[6] = 0 /\ paid[6] \in Nat
    BY <1>1, <1>3, <1>4, <1>6, TierBpsValues
  <2>2. paid[6] * counts[6] = 0
    BY <2>1
  <2>3. \A t \in {3, 4, 5} \ {b} : paid[t] * counts[t] <= Allocation(pool, t)
    BY <1>1, <1>3, <1>6, TierBpsValues
  <2>4. paid[b] * counts[b] <= Allocation(pool, b) + Allocation(pool, 6)
    <3>1. /\ b \in Tiers /\ paid[b] = base[b] + share
          /\ base[b] \in Nat /\ counts[b] \in Nat
      BY <1>1, <1>3, <1>4, <1>6, TierBpsValues
    <3>2. (base[b] + share) * counts[b] = base[b] * counts[b] + share * counts[b]
      BY <3>1, <1>4
    <3>3. base[b] * counts[b] \in Nat /\ share * counts[b] \in Nat
      BY <3>1, <1>4
    <3>4. base[b] * counts[b] <= Allocation(pool, b)
      BY <1>1, <3>1
    <3>5. share * counts[b] <= Allocation(pool, 6)
      BY <1>4, <1>6
    <3>6. Allocation(pool, b) \in Nat /\ Allocation(pool, 6) \in Nat
      BY <1>2, <3>1, TierBpsValues
    <3> QED  BY <3>1, <3>2, <3>3, <3>4, <3>5, <3>6
  <2>5. \A t \in {3, 4, 5} : paid[t] * counts[t] \in Nat
    BY <1>1, <1>3, <1>4, <1>6, TierBpsValues
  <2>6. b \in {3, 4, 5}
    BY <1>4, <1>6
  <2> QED  BY <2>2, <2>3, <2>4, <2>5, <2>6, <1>2, TierBpsValues DEF Distributed, paid
<1> QED  BY <1>5, <1>6

\* A ticket's payout exists: a match count is in no tier or in one of the four.
LEMMA PayoutType ==
  ASSUME NEW tiers \in [Tiers -> Nat], NEW m \in Nat
  PROVE  /\ TierOf(m) \in Tiers \cup {0}
         /\ PayoutForMatches(tiers, m) \in Nat
<1>1. TierOf(m) \in Tiers \cup {0}
  BY DEF TierOf, Tiers
<1> QED  BY <1>1 DEF PayoutForMatches

\* One winner fewer in a tier lowers what the tiers owe by that tier's payout.
LEMMA OneWinnerFewer ==
  ASSUME NEW tiers \in [Tiers -> Nat], NEW c \in [Tiers -> Nat], NEW d \in [Tiers -> Nat],
         NEW t \in Tiers, c[t] = d[t] + 1, \A u \in Tiers \ {t} : c[u] = d[u]
  PROVE  Distributed(tiers, c) = Distributed(tiers, d) + tiers[t]
<1>1. \A u \in Tiers : tiers[u] * d[u] \in Nat /\ tiers[u] \in Nat
  OBVIOUS
<1>2. tiers[t] * c[t] = tiers[t] * d[t] + tiers[t]
  <2>1. tiers[t] * (d[t] + 1) = tiers[t] * d[t] + tiers[t]
    OBVIOUS
  <2> QED  BY <2>1
<1>3. \A u \in Tiers \ {t} : tiers[u] * c[u] = tiers[u] * d[u]
  OBVIOUS
<1> QED  BY <1>1, <1>2, <1>3, TierBpsValues DEF Distributed

\* A division among winners leaves less than one unit per winner behind.
LEMMA DivisionTight ==
  ASSUME NEW a \in Nat, NEW w \in Nat \ {0}
  PROVE  /\ a \div w \in Nat /\ (a \div w) * w + w > a
         /\ w <= a => a \div w > 0
  BY SMT

-----------------------------------------------------------------------------
\* The tickets of a sequence that are in a tier are finitely many.
LEMMA InTierFinite ==
  ASSUME NEW S, NEW ts \in Seq(S), NEW winning, NEW t
  PROVE  /\ IsFiniteSet(DOMAIN ts)
         /\ IsFiniteSet(InTier(ts, winning, t))
         /\ Cardinality(InTier(ts, winning, t)) \in Nat
<1>1. IsFiniteSet(DOMAIN ts)
  <2>1. DOMAIN ts = 1..Len(ts) /\ Len(ts) \in Nat
    OBVIOUS
  <2> QED  BY <2>1, FS_Interval
<1>2. InTier(ts, winning, t) \subseteq DOMAIN ts
  BY DEF InTier
<1> QED  BY <1>1, <1>2, FS_Subset, FS_CardinalityType

LEMMA TierCountsType ==
  ASSUME NEW S, NEW ts \in Seq(S), NEW winning
  PROVE  TierCounts(ts, winning) \in [Tiers -> Nat]
  BY InTierFinite DEF TierCounts

-----------------------------------------------------------------------------
(* Induction over finite sets.  The library's has a predicate as parameter;  *)
(* this one is about a set of sets, which any predicate defines.             *)

\* What holds of a set as soon as it holds of its proper subsets holds of all
\* finite sets.
LEMMA SetInduction ==
  ASSUME NEW S, IsFiniteSet(S), NEW Good,
         ASSUME NEW T \in SUBSET S, \A U \in SUBSET T : U # T => U \in Good
         PROVE  T \in Good
  PROVE  \A T \in SUBSET S : T \in Good
<1> DEFINE Bad == {T \in SUBSET S : T \notin Good}
<1> SUFFICES ASSUME Bad # {} PROVE FALSE
  OBVIOUS
<1>1. IsWellFoundedOn(StrictSubsetOrdering(S), SUBSET S)
  <2>1. FiniteSubsetsOf(S) = SUBSET S
    BY FS_FiniteSubsetsOfFinite
  <2>2. IsWellFoundedOn(StrictSubsetOrdering(S), FiniteSubsetsOf(S))
    BY FS_StrictSubsetOrderingWellFounded
  <2> QED  BY <2>1, <2>2
<1>2. PICK T \in Bad : \A U \in Bad : <<U, T>> \notin StrictSubsetOrdering(S)
  <2>1. Bad \subseteq SUBSET S
    OBVIOUS
  <2> HIDE DEF Bad
  <2> QED  BY <1>1, <2>1, WFMin
<1>3. ASSUME NEW U \in SUBSET T, U # T
      PROVE  U \in Good
  BY <1>2, <1>3 DEF StrictSubsetOrdering
<1> QED  BY <1>2, <1>3

-----------------------------------------------------------------------------
(* The recursive function behind a sum is well defined. *)

Pick(T) == CHOOSE x \in T : TRUE

\* g adds up f over every subset of S, taking out the element Pick names.
AddsUp(g, f, S) ==
  g = [T \in SUBSET S |-> IF T = {} THEN 0 ELSE f[Pick(T)] + g[T \ {Pick(T)}]]

LEMMA PickIn == \A T : T # {} => Pick(T) \in T
  BY DEF Pick

LEMMA SumUnfolds ==
  ASSUME NEW f, NEW S
  PROVE  SumFunctionOnSet(f, S) = (CHOOSE g : AddsUp(g, f, S))[S]
  BY DEF SumFunctionOnSet, FoldFunctionOnSet, MapThenFoldSet, AddsUp, Pick

LEMMA AddsUpValue ==
  ASSUME NEW f, NEW S, NEW g, AddsUp(g, f, S), NEW T \in SUBSET S
  PROVE  g[T] = IF T = {} THEN 0 ELSE f[Pick(T)] + g[T \ {Pick(T)}]
  BY DEF AddsUp

LEMMA AddsUpSame ==
  ASSUME NEW f, NEW S, IsFiniteSet(S), NEW R, NEW g, NEW h, S \subseteq R,
         AddsUp(g, f, S), AddsUp(h, f, R)
  PROVE  \A T \in SUBSET S : g[T] = h[T]
<1> DEFINE Good == {T \in SUBSET S : g[T] = h[T]}
<1>1. ASSUME NEW T \in SUBSET S, \A U \in SUBSET T : U # T => U \in Good
      PROVE  T \in Good
  <2>1. g[T] = IF T = {} THEN 0 ELSE f[Pick(T)] + g[T \ {Pick(T)}]
    BY AddsUpValue
  <2>2. h[T] = IF T = {} THEN 0 ELSE f[Pick(T)] + h[T \ {Pick(T)}]
    <3>1. T \in SUBSET R
      OBVIOUS
    <3>2. \A U \in SUBSET R : h[U] = IF U = {} THEN 0 ELSE f[Pick(U)] + h[U \ {Pick(U)}]
      BY DEF AddsUp
    <3> QED  BY <3>1, <3>2
  <2>3. CASE T = {}
    BY <2>1, <2>2, <2>3
  <2>4. CASE T # {}
    <3>1. T \ {Pick(T)} \in SUBSET T /\ T \ {Pick(T)} # T
      BY <2>4, PickIn
    <3>2. g[T \ {Pick(T)}] = h[T \ {Pick(T)}]
      BY <1>1, <3>1
    <3> QED  BY <2>1, <2>2, <2>4, <3>2
  <2> QED  BY <2>3, <2>4
<1> HIDE DEF Good
<1>2. \A T \in SUBSET S : T \in Good
  BY <1>1, SetInduction
<1> QED  BY <1>2 DEF Good

LEMMA AddsUpExists ==
  ASSUME NEW f, NEW S, IsFiniteSet(S)
  PROVE  \E g : AddsUp(g, f, S)
<1> DEFINE Good == {T \in SUBSET S : \E g : AddsUp(g, f, T)}
           G(T) == CHOOSE g : AddsUp(g, f, T)
<1>1. ASSUME NEW T \in SUBSET S, \A U \in SUBSET T : U # T => U \in Good
      PROVE  T \in Good
  <2> DEFINE h == [U \in SUBSET T |->
                     IF U = T THEN IF T = {} THEN 0
                                   ELSE f[Pick(T)] + G(T \ {Pick(T)})[T \ {Pick(T)}]
                     ELSE G(U)[U]]
  <2>1. \A U \in SUBSET T : U # T => AddsUp(G(U), f, U)
    BY <1>1
  <2> HIDE DEF G
  <2>2. ASSUME NEW U \in SUBSET T
        PROVE  h[U] = IF U = {} THEN 0 ELSE f[Pick(U)] + h[U \ {Pick(U)}]
    <3> DEFINE V == U \ {Pick(U)}
    <3>1. CASE U = {}
      <4>1. CASE T = {}
        BY <3>1, <4>1
      <4>2. CASE T # {}
        <5>1. h[U] = G(U)[U]
          BY <3>1, <4>2
        <5>2. G(U)[U] = 0
          BY <2>1, <3>1, <4>2, AddsUpValue
        <5> QED  BY <3>1, <5>1, <5>2
      <4> QED  BY <4>1, <4>2
    <3>2. CASE U # {}
      <4>1. V \in SUBSET T /\ V # T /\ V # U /\ V \in SUBSET U
        BY <3>2, PickIn
      <4>2. h[V] = G(V)[V]
        BY <4>1
      <4>3. CASE U = T
        BY <3>2, <4>2, <4>3
      <4>4. CASE U # T
        <5>1. AddsUp(G(U), f, U) /\ AddsUp(G(V), f, V)
          BY <2>1, <4>1, <4>4
        <5>2. G(U)[U] = f[Pick(U)] + G(U)[V]
          BY <3>2, <5>1, AddsUpValue
        <5>3. IsFiniteSet(V)
          BY <1>1, <4>1, FS_Subset
        <5>4. G(V)[V] = G(U)[V]
          BY <4>1, <5>1, <5>3, AddsUpSame
        <5> QED  BY <3>2, <4>2, <4>4, <5>2, <5>4
      <4> QED  BY <4>3, <4>4
    <3> QED  BY <3>1, <3>2
  <2>3. h = [U \in SUBSET T |-> h[U]]
    OBVIOUS
  <2> HIDE DEF h
  <2>4. AddsUp(h, f, T)
    BY <2>2, <2>3 DEF AddsUp
  <2> QED  BY <2>4
<1> HIDE DEF Good
<1>2. S \in Good
  BY <1>1, SetInduction
<1> QED  BY <1>2 DEF Good

-----------------------------------------------------------------------------
(* Sums *)

\* The sum over no elements.
LEMMA SumEmpty ==
  ASSUME NEW f
  PROVE  SumFunctionOnSet(f, {}) = 0
<1>1. AddsUp(CHOOSE g : AddsUp(g, f, {}), f, {})
  BY AddsUpExists, FS_EmptySet
<1> QED  BY <1>1, SumUnfolds, AddsUpValue

LEMMA SumPicked ==
  ASSUME NEW f, NEW S, IsFiniteSet(S), S # {}
  PROVE  SumFunctionOnSet(f, S) = f[Pick(S)] + SumFunctionOnSet(f, S \ {Pick(S)})
<1> DEFINE R == S \ {Pick(S)}
           G(T) == CHOOSE g : AddsUp(g, f, T)
<1>1. IsFiniteSet(R) /\ R \subseteq S
  BY FS_Subset
<1>2. AddsUp(G(S), f, S) /\ AddsUp(G(R), f, R)
  <2>1. \A T : IsFiniteSet(T) => AddsUp(G(T), f, T)
    BY AddsUpExists
  <2> QED  BY <1>1, <2>1
<1> HIDE DEF G
<1>3. G(S)[S] = f[Pick(S)] + G(S)[R]
  BY <1>2, AddsUpValue
<1>4. G(R)[R] = G(S)[R]
  <2>1. \A T \in SUBSET R : G(R)[T] = G(S)[T]
    BY <1>1, <1>2, AddsUpSame
  <2> QED  BY <2>1
<1>5. SumFunctionOnSet(f, S) = G(S)[S] /\ SumFunctionOnSet(f, R) = G(R)[R]
  BY SumUnfolds DEF G
<1> QED  BY <1>3, <1>4, <1>5

LEMMA SumType ==
  ASSUME NEW f, NEW S, IsFiniteSet(S), \A x \in S : f[x] \in Int
  PROVE  \A T \in SUBSET S : SumFunctionOnSet(f, T) \in Int
<1> DEFINE Good == {T \in SUBSET S : SumFunctionOnSet(f, T) \in Int}
<1>1. ASSUME NEW T \in SUBSET S, \A U \in SUBSET T : U # T => U \in Good
      PROVE  T \in Good
  <2>1. CASE T = {}
    BY <2>1, SumEmpty
  <2>2. CASE T # {}
    <3>1. Pick(T) \in T /\ T \ {Pick(T)} \in Good
      BY <1>1, <2>2, PickIn
    <3>2. IsFiniteSet(T)
      BY FS_Subset
    <3>3. SumFunctionOnSet(f, T) = f[Pick(T)] + SumFunctionOnSet(f, T \ {Pick(T)})
      BY <2>2, <3>2, SumPicked
    <3>4. f[Pick(T)] \in Int /\ SumFunctionOnSet(f, T \ {Pick(T)}) \in Int
      BY <3>1
    <3> QED  BY <3>3, <3>4
  <2> QED  BY <2>1, <2>2
<1> HIDE DEF Good
<1>2. \A T \in SUBSET S : T \in Good
  BY <1>1, SetInduction
<1> QED  BY <1>2 DEF Good

\* A sum of naturals is one.
LEMMA SumNat ==
  ASSUME NEW f, NEW S, IsFiniteSet(S), \A x \in S : f[x] \in Nat
  PROVE  \A T \in SUBSET S : SumFunctionOnSet(f, T) \in Nat
<1> DEFINE Good == {T \in SUBSET S : SumFunctionOnSet(f, T) \in Nat}
<1>1. ASSUME NEW T \in SUBSET S, \A U \in SUBSET T : U # T => U \in Good
      PROVE  T \in Good
  <2>1. CASE T = {}
    BY <2>1, SumEmpty
  <2>2. CASE T # {}
    <3>1. Pick(T) \in T /\ T \ {Pick(T)} \in Good
      BY <1>1, <2>2, PickIn
    <3>2. IsFiniteSet(T)
      BY FS_Subset
    <3>3. SumFunctionOnSet(f, T) = f[Pick(T)] + SumFunctionOnSet(f, T \ {Pick(T)})
      BY <2>2, <3>2, SumPicked
    <3>4. f[Pick(T)] \in Nat /\ SumFunctionOnSet(f, T \ {Pick(T)}) \in Nat
      BY <3>1
    <3> QED  BY <3>3, <3>4
  <2> QED  BY <2>1, <2>2
<1> HIDE DEF Good
<1>2. \A T \in SUBSET S : T \in Good
  BY <1>1, SetInduction
<1> QED  BY <1>2 DEF Good

\* Functions that agree on a set have the same sum over it.
LEMMA SumSame ==
  ASSUME NEW f, NEW g, NEW S, IsFiniteSet(S), \A x \in S : f[x] = g[x]
  PROVE  SumFunctionOnSet(f, S) = SumFunctionOnSet(g, S)
<1> DEFINE Good == {T \in SUBSET S : SumFunctionOnSet(f, T) = SumFunctionOnSet(g, T)}
<1>1. ASSUME NEW T \in SUBSET S, \A U \in SUBSET T : U # T => U \in Good
      PROVE  T \in Good
  <2>1. CASE T = {}
    BY <2>1, SumEmpty
  <2>2. CASE T # {}
    <3>1. Pick(T) \in T /\ T \ {Pick(T)} \in Good
      BY <1>1, <2>2, PickIn
    <3>2. IsFiniteSet(T)
      BY FS_Subset
    <3>3. SumFunctionOnSet(f, T) = f[Pick(T)] + SumFunctionOnSet(f, T \ {Pick(T)})
      BY <2>2, <3>2, SumPicked
    <3>4. SumFunctionOnSet(g, T) = g[Pick(T)] + SumFunctionOnSet(g, T \ {Pick(T)})
      BY <2>2, <3>2, SumPicked
    <3> QED  BY <3>1, <3>3, <3>4
  <2> QED  BY <2>1, <2>2
<1> HIDE DEF Good
<1>2. \A T \in SUBSET S : T \in Good
  BY <1>1, SetInduction
<1> QED  BY <1>2 DEF Good

\* Any element can be taken out of a sum.
LEMMA SumTakeOut ==
  ASSUME NEW f, NEW S, IsFiniteSet(S), \A x \in S : f[x] \in Int, NEW y \in S
  PROVE  /\ SumFunctionOnSet(f, S) = f[y] + SumFunctionOnSet(f, S \ {y})
         /\ SumFunctionOnSet(f, S \ {y}) \in Int
<1> DEFINE Sum(T) == SumFunctionOnSet(f, T)
           Good == {T \in SUBSET S : \A x \in T : Sum(T) = f[x] + Sum(T \ {x})}
<1>1. \A T \in SUBSET S : Sum(T) \in Int
  BY SumType
<1>2. \A T \in SUBSET S : T # {} => Sum(T) = f[Pick(T)] + Sum(T \ {Pick(T)})
  BY SumPicked, FS_Subset
<1> HIDE DEF Sum
<1>3. ASSUME NEW T \in SUBSET S, \A U \in SUBSET T : U # T => U \in Good
      PROVE  T \in Good
  <2> SUFFICES ASSUME NEW x \in T
               PROVE  Sum(T) = f[x] + Sum(T \ {x})
    OBVIOUS
  <2> DEFINE p == Pick(T)
  <2>1. p \in T /\ Sum(T) = f[p] + Sum(T \ {p})
    BY <1>2, PickIn
  <2> HIDE DEF p
  <2>2. CASE x = p
    BY <2>1, <2>2
  <2>3. CASE x # p
    <3> DEFINE A == T \ {p}
               B == T \ {x}
    <3>1. /\ A \in SUBSET T /\ A # T /\ x \in A
          /\ B \in SUBSET T /\ B # T /\ p \in B
      BY <2>1, <2>3
    <3>2. Sum(A) = f[x] + Sum(A \ {x}) /\ Sum(B) = f[p] + Sum(B \ {p})
      BY <1>3, <3>1
    <3>3. A \ {x} = B \ {p}
      OBVIOUS
    <3>4. f[x] \in Int /\ f[p] \in Int /\ Sum(B \ {p}) \in Int
      BY <1>1, <2>1
    <3>5. Sum(T) = f[p] + Sum(A)
      BY <2>1
    <3> HIDE DEF A, B
    <3> DEFINE rest == Sum(B \ {p})
    <3>6. Sum(A) = f[x] + rest /\ Sum(B) = f[p] + rest /\ rest \in Int
      BY <3>2, <3>3, <3>4
    <3> HIDE DEF rest
    <3>7. f[p] + (f[x] + rest) = f[x] + (f[p] + rest)
      BY <3>4, <3>6
    <3>8. Sum(T) = f[x] + Sum(B)
      BY <3>5, <3>6, <3>7
    <3> QED  BY <3>8 DEF B
  <2> QED  BY <2>2, <2>3
<1> HIDE DEF Good
<1>4. S \in Good
  BY <1>3, SetInduction
<1>5. Sum(S) = f[y] + Sum(S \ {y})
  BY <1>4 DEF Good
<1> QED  BY <1>1, <1>5 DEF Sum

LEMMA SumAdd ==
  ASSUME NEW f, NEW S, IsFiniteSet(S), NEW y, y \notin S,
         \A x \in S \cup {y} : f[x] \in Int
  PROVE  SumFunctionOnSet(f, S \cup {y}) = f[y] + SumFunctionOnSet(f, S)
<1>1. IsFiniteSet(S \cup {y}) /\ (S \cup {y}) \ {y} = S /\ y \in S \cup {y}
  BY FS_AddElement
<1> DEFINE T == S \cup {y}
<1> HIDE DEF T
<1>2. IsFiniteSet(T) /\ T \ {y} = S /\ y \in T /\ \A x \in T : f[x] \in Int
  BY <1>1 DEF T
<1>3. SumFunctionOnSet(f, T) = f[y] + SumFunctionOnSet(f, T \ {y})
  BY <1>2, SumTakeOut
<1> QED  BY <1>2, <1>3 DEF T

\* A sum changes by as much as one of its summands.
LEMMA SumChange ==
  ASSUME NEW f, NEW g, NEW S, IsFiniteSet(S), NEW y \in S,
         \A x \in S : f[x] \in Int /\ g[x] \in Int,
         \A x \in S \ {y} : f[x] = g[x]
  PROVE  SumFunctionOnSet(g, S) = SumFunctionOnSet(f, S) - f[y] + g[y]
<1> DEFINE R == S \ {y}
<1>1. SumFunctionOnSet(f, S) = f[y] + SumFunctionOnSet(f, R) /\ SumFunctionOnSet(f, R) \in Int
  BY SumTakeOut
<1>2. SumFunctionOnSet(g, S) = g[y] + SumFunctionOnSet(g, R)
  BY SumTakeOut
<1>3. SumFunctionOnSet(f, R) = SumFunctionOnSet(g, R)
  <2>1. IsFiniteSet(R) /\ \A x \in R : f[x] = g[x]
    BY FS_Subset
  <2> HIDE DEF R
  <2> QED  BY <2>1, SumSame
<1> QED  BY <1>1, <1>2, <1>3

\* No summand is larger than a sum of naturals.
LEMMA SumCovers ==
  ASSUME NEW f, NEW S, IsFiniteSet(S), \A x \in S : f[x] \in Nat, NEW y \in S
  PROVE  SumFunctionOnSet(f, S) \in Nat /\ f[y] <= SumFunctionOnSet(f, S)
<1>1. SumFunctionOnSet(f, S) = f[y] + SumFunctionOnSet(f, S \ {y})
  BY SumTakeOut
<1>2. SumFunctionOnSet(f, S) \in Nat /\ SumFunctionOnSet(f, S \ {y}) \in Nat
  BY SumNat
<1> QED  BY <1>1, <1>2

\* Terms that are zero add nothing.
LEMMA SumOfZeros ==
  ASSUME NEW f, NEW S, IsFiniteSet(S), \A x \in S : f[x] = 0
  PROVE  SumFunctionOnSet(f, S) = 0
<1> DEFINE Good == {T \in SUBSET S : SumFunctionOnSet(f, T) = 0}
<1>1. ASSUME NEW T \in SUBSET S, \A U \in SUBSET T : U # T => U \in Good
      PROVE  T \in Good
  <2>1. CASE T = {}
    BY <2>1, SumEmpty
  <2>2. CASE T # {}
    <3>1. IsFiniteSet(T) /\ Pick(T) \in T
      BY <2>2, PickIn, FS_Subset
    <3>2. SumFunctionOnSet(f, T) = f[Pick(T)] + SumFunctionOnSet(f, T \ {Pick(T)})
      BY <2>2, <3>1, SumPicked
    <3>3. T \ {Pick(T)} \in Good
      BY <1>1, <3>1
    <3> QED  BY <3>1, <3>2, <3>3
  <2> QED  BY <2>1, <2>2
<1> HIDE DEF Good
<1>2. \A T \in SUBSET S : T \in Good
  BY <1>1, SetInduction
<1> QED  BY <1>2 DEF Good

\* The sum over a set is the sum over a part of it and over the rest.
LEMMA SumSplit ==
  ASSUME NEW f, NEW S, IsFiniteSet(S), \A x \in S : f[x] \in Nat, NEW P
  PROVE  SumFunctionOnSet(f, S \cap P) + SumFunctionOnSet(f, S \ P) = SumFunctionOnSet(f, S)
<1> DEFINE Sum(T) == SumFunctionOnSet(f, T)
           Good == {T \in SUBSET S : Sum(T) = Sum(T \cap P) + Sum(T \ P)}
<1>1. ASSUME NEW T \in SUBSET S, \A U \in SUBSET T : U # T => U \in Good
      PROVE  T \in Good
  <2>1. CASE T = {}
    <3>1. T \cap P = {} /\ T \ P = {}
      BY <2>1
    <3> QED  BY <2>1, <3>1, SumEmpty
  <2>2. CASE T # {}
    <3> DEFINE y == Pick(T)
               R == T \ {y}
    <3>1. y \in T
      BY <2>2, PickIn
    <3>2. /\ IsFiniteSet(T) /\ IsFiniteSet(T \cap P) /\ IsFiniteSet(T \ P)
          /\ \A x \in T : f[x] \in Int
      BY FS_Subset
    <3>3. R \in SUBSET T /\ R # T
      BY <3>1
    <3>4. Sum(R) = Sum(R \cap P) + Sum(R \ P)
      BY <1>1, <3>3
    <3>5. Sum(T) = f[y] + Sum(R)
      BY <3>1, <3>2, SumTakeOut
    <3>6. Sum(R \cap P) \in Int /\ Sum(R \ P) \in Int /\ f[y] \in Int
      <4>1. IsFiniteSet(R) /\ \A x \in R : f[x] \in Int
        BY <3>2, <3>3, FS_Subset
      <4>2. \A U \in SUBSET R : SumFunctionOnSet(f, U) \in Int
        BY <4>1, SumType
      <4> QED  BY <3>1, <3>2, <4>2
    <3>7. CASE y \in P
      <4>1. R \ P = T \ P /\ R \cap P = (T \cap P) \ {y} /\ y \in T \cap P
        BY <3>1, <3>7
      <4>2. \A x \in T \cap P : f[x] \in Int
        BY <3>2
      <4>3. SumFunctionOnSet(f, T \cap P) = f[y] + SumFunctionOnSet(f, (T \cap P) \ {y})
        BY <3>2, <4>1, <4>2, SumTakeOut
      <4>4. Sum(T \cap P) = f[y] + Sum(R \cap P) /\ Sum(R \ P) = Sum(T \ P)
        BY <4>1, <4>3
      <4> HIDE DEF Sum, y, R
      <4> QED  BY <3>4, <3>5, <3>6, <4>4
    <3>8. CASE y \notin P
      <4>1. R \cap P = T \cap P /\ R \ P = (T \ P) \ {y} /\ y \in T \ P
        BY <3>1, <3>8
      <4>2. \A x \in T \ P : f[x] \in Int
        BY <3>2
      <4>3. SumFunctionOnSet(f, T \ P) = f[y] + SumFunctionOnSet(f, (T \ P) \ {y})
        BY <3>2, <4>1, <4>2, SumTakeOut
      <4>4. Sum(T \ P) = f[y] + Sum(R \ P) /\ Sum(R \cap P) = Sum(T \cap P)
        BY <4>1, <4>3
      <4> HIDE DEF Sum, y, R
      <4> QED  BY <3>4, <3>5, <3>6, <4>4
    <3> QED  BY <3>7, <3>8
  <2> QED  BY <2>1, <2>2
<1> HIDE DEF Good
<1>2. \A T \in SUBSET S : T \in Good
  BY <1>1, SetInduction
<1> QED  BY <1>2 DEF Good

-----------------------------------------------------------------------------
(* Totals: the sum of a function into the naturals over its domain. *)

\* A total is a natural number that no summand exceeds.
LEMMA TotalNat ==
  ASSUME NEW S, IsFiniteSet(S), NEW f \in [S -> Nat]
  PROVE  SumFunction(f) \in Nat /\ \A y \in S : f[y] <= SumFunction(f)
<1>1. SumFunction(f) = SumFunctionOnSet(f, S)
  BY DEF SumFunction
<1>2. SumFunctionOnSet(f, S) \in Nat
  BY SumNat
<1>3. \A y \in S : f[y] <= SumFunctionOnSet(f, S)
  BY SumCovers
<1> QED  BY <1>1, <1>2, <1>3

LEMMA TotalZero ==
  ASSUME NEW S, IsFiniteSet(S)
  PROVE  SumFunction([x \in S |-> 0]) = 0
<1> DEFINE f == [x \in S |-> 0]
<1>1. DOMAIN f = S /\ \A x \in S : f[x] = 0
  OBVIOUS
<1> HIDE DEF f
<1>2. SumFunctionOnSet(f, S) = 0
  BY <1>1, SumOfZeros
<1> QED  BY <1>1, <1>2 DEF SumFunction, f

LEMMA TotalChanged ==
  ASSUME NEW S, IsFiniteSet(S), NEW f \in [S -> Nat], NEW g \in [S -> Nat], NEW y \in S,
         \A x \in S \ {y} : g[x] = f[x]
  PROVE  SumFunction(g) = SumFunction(f) - f[y] + g[y]
<1>1. /\ \A x \in S : f[x] \in Int /\ g[x] \in Int
      /\ \A x \in S \ {y} : f[x] = g[x]
  OBVIOUS
<1>2. SumFunctionOnSet(g, S) = SumFunctionOnSet(f, S) - f[y] + g[y]
  BY <1>1, SumChange
<1> QED  BY <1>2 DEF SumFunction

LEMMA TotalExtended ==
  ASSUME NEW S, IsFiniteSet(S), NEW y, y \notin S,
         NEW R, R = S \cup {y},
         NEW f \in [S -> Nat], NEW g \in [R -> Nat], \A x \in S : g[x] = f[x]
  PROVE  SumFunction(g) = SumFunction(f) + g[y]
<1>1. \A x \in S \cup {y} : g[x] \in Nat
  OBVIOUS
<1>2. SumFunctionOnSet(g, S \cup {y}) = g[y] + SumFunctionOnSet(g, S)
  BY <1>1, SumAdd
<1>3. SumFunctionOnSet(g, S) = SumFunctionOnSet(f, S)
  BY SumSame
<1>4. SumFunctionOnSet(f, S) \in Nat
  BY SumNat
<1>5. SumFunction(g) = SumFunctionOnSet(g, S \cup {y}) /\ SumFunction(f) = SumFunctionOnSet(f, S)
  BY DEF SumFunction
<1> QED  BY <1>1, <1>2, <1>3, <1>4, <1>5

\* A set sorted into finitely many groups: the sums of the groups add up to its own.
LEMMA TotalOfGroups ==
  ASSUME NEW f, NEW S, IsFiniteSet(S), \A x \in S : f[x] \in Nat,
         NEW A, IsFiniteSet(A), NEW group, \A x \in S : group[x] \in A
  PROVE  SumFunction([a \in A |-> SumFunctionOnSet(f, {x \in S : group[x] = a})])
           = SumFunctionOnSet(f, S)
<1> DEFINE Part(T, a) == {x \in T : group[x] = a}
           G(T) == [a \in A |-> SumFunctionOnSet(f, Part(T, a))]
           Good == {T \in SUBSET S : SumFunction(G(T)) = SumFunctionOnSet(f, T)}
<1>1. ASSUME NEW T \in SUBSET S
      PROVE  G(T) \in [A -> Nat] /\ IsFiniteSet(T)
  <2>1. \A U \in SUBSET S : SumFunctionOnSet(f, U) \in Nat
    BY SumNat
  <2>2. \A a \in A : Part(T, a) \in SUBSET S
    OBVIOUS
  <2>3. IsFiniteSet(T)
    BY FS_Subset
  <2> QED  BY <2>1, <2>2, <2>3
<1>2. ASSUME NEW T \in SUBSET S, \A U \in SUBSET T : U # T => U \in Good
      PROVE  T \in Good
  <2>1. CASE T = {}
    <3>1. \A a \in A : Part(T, a) = {}
      BY <2>1
    <3>2. G(T) = [a \in A |-> 0]
      BY <3>1, SumEmpty
    <3> QED  BY <2>1, <3>2, SumEmpty, TotalZero
  <2>2. CASE T # {}
    <3> DEFINE y == Pick(T)
               b == group[y]
               R == T \ {y}
    <3>1. y \in T /\ b \in A /\ R \in SUBSET T /\ R # T
      BY <2>2, PickIn
    <3>2. SumFunction(G(R)) = SumFunctionOnSet(f, R)
      BY <1>2, <3>1
    <3>3. SumFunctionOnSet(f, T) = f[y] + SumFunctionOnSet(f, R) /\ SumFunctionOnSet(f, R) \in Int
      <4>1. IsFiniteSet(T) /\ \A x \in T : f[x] \in Int
        BY <1>1
      <4> QED  BY <3>1, <4>1, SumTakeOut
    <3>4. G(T)[b] = f[y] + G(R)[b]
      <4>1. y \in Part(T, b) /\ Part(R, b) = Part(T, b) \ {y}
        BY <3>1
      <4>2. IsFiniteSet(Part(T, b)) /\ \A x \in Part(T, b) : f[x] \in Int
        <5>1. Part(T, b) \subseteq T
          OBVIOUS
        <5> QED  BY <1>1, <5>1, FS_Subset
      <4> DEFINE P == Part(T, b)
      <4> HIDE DEF Part, P, y, b, R
      <4>3. SumFunctionOnSet(f, P) = f[y] + SumFunctionOnSet(f, P \ {y})
        <5>1. IsFiniteSet(P) /\ y \in P /\ \A x \in P : f[x] \in Int
          BY <4>1, <4>2 DEF P
        <5> QED  BY <5>1, SumTakeOut
      <4> QED  BY <3>1, <4>1, <4>3 DEF P
    <3>5. \A a \in A \ {b} : G(T)[a] = G(R)[a]
      <4>1. \A a \in A \ {b} : Part(T, a) = Part(R, a)
        OBVIOUS
      <4> QED  BY <4>1
    <3>6. G(T) \in [A -> Nat] /\ G(R) \in [A -> Nat]
      BY <1>1, <3>1
    <3>7. f[y] \in Nat
      BY <3>1
    <3> HIDE DEF G, y, b, R
    <3>8. SumFunction(G(T)) = SumFunction(G(R)) - G(R)[b] + G(T)[b]
      BY <3>1, <3>5, <3>6, TotalChanged
    <3>9. G(R)[b] \in Nat
      BY <3>1, <3>6
    <3>10. SumFunction(G(T)) = SumFunctionOnSet(f, T)
      BY <3>2, <3>3, <3>4, <3>7, <3>8, <3>9
    <3> QED  BY <3>10
  <2> QED  BY <2>1, <2>2
<1> HIDE DEF Good
<1>3. \A T \in SUBSET S : T \in Good
  BY <1>2, SetInduction
<1> QED  BY <1>3 DEF Good

-----------------------------------------------------------------------------
(* What tickets are paid one by one *)

\* Equal terms sum to a multiple.
LEMMA SumOfEquals ==
  ASSUME NEW D, IsFiniteSet(D), NEW f, NEW each \in Int, \A i \in D : f[i] = each
  PROVE  \A S \in SUBSET D : SumFunctionOnSet(f, S) = each * Cardinality(S)
<1> DEFINE Good == {S \in SUBSET D : SumFunctionOnSet(f, S) = each * Cardinality(S)}
<1>1. ASSUME NEW S \in SUBSET D, \A U \in SUBSET S : U # S => U \in Good
      PROVE  S \in Good
  <2>1. CASE S = {}
    BY <2>1, SumEmpty, FS_EmptySet
  <2>2. CASE S # {}
    <3> DEFINE y == Pick(S)
               R == S \ {y}
    <3>1. y \in S /\ R \in SUBSET S /\ R # S /\ f[y] = each
      BY <2>2, PickIn
    <3>2. SumFunctionOnSet(f, R) = each * Cardinality(R)
      BY <1>1, <3>1
    <3>3. IsFiniteSet(S) /\ \A i \in S : f[i] \in Int
      BY FS_Subset
    <3> HIDE DEF y
    <3>4. SumFunctionOnSet(f, S) = f[y] + SumFunctionOnSet(f, R)
      BY <3>1, <3>3, SumTakeOut
    <3>5. Cardinality(S) \in Nat /\ Cardinality(R) = Cardinality(S) - 1
      BY <3>1, <3>3, FS_RemoveElement, FS_CardinalityType
    <3>6. \A n \in Nat : each + each * (n - 1) = each * n
      OBVIOUS
    <3> QED  BY <3>1, <3>2, <3>4, <3>5, <3>6
  <2> QED  BY <2>1, <2>2
<1> HIDE DEF Good
<1>2. \A S \in SUBSET D : S \in Good
  BY <1>1, SetInduction
<1> QED  BY <1>2 DEF Good

\* The tickets of S in tier t, by their matches.
TierIn(matches, S, t) == {i \in S : TierOf(matches[i]) = t}
CountsIn(matches, S) == [t \in Tiers |-> Cardinality(TierIn(matches, S, t))]

\* Ticket by ticket, the prizes of a draw sum to what its tiers distribute.
LEMMA PayoutsSumToTiers ==
  ASSUME NEW D, IsFiniteSet(D), NEW matches \in [D -> Nat], NEW tiers \in [Tiers -> Nat],
         NEW f, \A i \in D : f[i] = PayoutForMatches(tiers, matches[i])
  PROVE  \A S \in SUBSET D :
           SumFunctionOnSet(f, S) = Distributed(tiers, CountsIn(matches, S))
<1> DEFINE Good == {S \in SUBSET D : SumFunctionOnSet(f, S) = Distributed(tiers, CountsIn(matches, S))}
<1>1. \A i \in D : f[i] \in Nat /\ f[i] = PayoutForMatches(tiers, matches[i])
  BY PayoutType
<1>2. ASSUME NEW S \in SUBSET D
      PROVE  /\ IsFiniteSet(S) /\ CountsIn(matches, S) \in [Tiers -> Nat]
             /\ \A t \in Tiers : IsFiniteSet(TierIn(matches, S, t))
  <2>1. IsFiniteSet(S) /\ \A t \in Tiers : IsFiniteSet(TierIn(matches, S, t))
    BY FS_Subset DEF TierIn
  <2>2. \A t \in Tiers : Cardinality(TierIn(matches, S, t)) \in Nat
    BY <2>1, FS_CardinalityType
  <2> QED  BY <2>1, <2>2 DEF CountsIn
<1>3. ASSUME NEW S \in SUBSET D, \A U \in SUBSET S : U # S => U \in Good
      PROVE  S \in Good
  <2>1. CASE S = {}
    <3>1. \A t \in Tiers : CountsIn(matches, S)[t] = 0
      BY <2>1, FS_EmptySet DEF TierIn, CountsIn
    <3>2. \A t \in Tiers : tiers[t] * CountsIn(matches, S)[t] = 0
      BY <3>1
    <3>3. Distributed(tiers, CountsIn(matches, S)) = 0
        <4> QED  BY <3>2 DEF Distributed, Tiers
    <3> QED  BY <2>1, <3>3, SumEmpty
  <2>2. CASE S # {}
    <3> DEFINE y == Pick(S)
               R == S \ {y}
               t == TierOf(matches[y])
    <3>1. y \in S /\ y \in D /\ R \in SUBSET S /\ R # S /\ R \in SUBSET D
      BY <2>2, PickIn
    <3>2. SumFunctionOnSet(f, R) = Distributed(tiers, CountsIn(matches, R))
      BY <1>3, <3>1
    <3>3. SumFunctionOnSet(f, S) = f[y] + SumFunctionOnSet(f, R)
      <4>1. IsFiniteSet(S) /\ \A i \in S : f[i] \in Int
        BY <1>1, <1>2
      <4> HIDE DEF y
      <4> QED  BY <3>1, <4>1, SumTakeOut
    <3>4. t \in Tiers \cup {0} /\ f[y] = IF t = 0 THEN 0 ELSE tiers[t]
      BY <1>1, <3>1, PayoutType DEF PayoutForMatches
    <3>5. \A u \in Tiers \ {t} : CountsIn(matches, S)[u] = CountsIn(matches, R)[u]
      <4>1. \A u \in Tiers \ {t} : TierIn(matches, S, u) = TierIn(matches, R, u)
        BY DEF TierIn
      <4> QED  BY <4>1 DEF CountsIn
    <3>6. CountsIn(matches, S) \in [Tiers -> Nat] /\ CountsIn(matches, R) \in [Tiers -> Nat]
      BY <1>2, <3>1
    <3>7. CASE t = 0
      <4>1. CountsIn(matches, S) = CountsIn(matches, R)
        <5>1. 0 \notin Tiers
          BY DEF Tiers
        <5> QED  BY <3>5, <3>7, <5>1 DEF CountsIn
      <4>2. SumFunctionOnSet(f, R) \in Int
        BY <1>1, <1>2, <3>1, SumType
      <4> HIDE DEF y, R, t
      <4> QED  BY <3>2, <3>3, <3>4, <3>7, <4>1, <4>2
    <3>8. CASE t \in Tiers
      <4>1. CountsIn(matches, S)[t] = CountsIn(matches, R)[t] + 1
        <5>1. y \in TierIn(matches, S, t) /\ TierIn(matches, R, t) = TierIn(matches, S, t) \ {y}
          BY <3>1 DEF TierIn
        <5>2. IsFiniteSet(TierIn(matches, S, t))
          BY <1>2, <3>8
        <5>3. /\ Cardinality(TierIn(matches, R, t)) = Cardinality(TierIn(matches, S, t)) - 1
              /\ Cardinality(TierIn(matches, S, t)) \in Nat
          <6> HIDE DEF y, t, R
          <6> QED  BY <5>1, <5>2, FS_RemoveElement, FS_CardinalityType
        <5> QED  BY <3>8, <5>3 DEF CountsIn
      <4>2. f[y] = tiers[t]
        <5>1. 0 \notin Tiers
          BY DEF Tiers
        <5> QED  BY <3>4, <3>8, <5>1
      <4> HIDE DEF y, R, t
      <4>3. Distributed(tiers, CountsIn(matches, S)) = Distributed(tiers, CountsIn(matches, R)) + tiers[t]
        BY <3>5, <3>6, <3>8, <4>1, OneWinnerFewer
      <4>4. Distributed(tiers, CountsIn(matches, R)) \in Nat /\ tiers[t] \in Nat
        BY <3>6, <3>8, DistributedType
      <4>5. SumFunctionOnSet(f, S) = Distributed(tiers, CountsIn(matches, S))
        BY <3>2, <3>3, <4>2, <4>3, <4>4
      <4> QED  BY <4>5
    <3> QED  BY <3>4, <3>7, <3>8
  <2> QED  BY <2>1, <2>2
<1> HIDE DEF Good
<1>4. \A S \in SUBSET D : S \in Good
  BY <1>1, <1>3, SetInduction
<1> QED  BY <1>4 DEF Good
=============================================================================
