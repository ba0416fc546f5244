----------------------------- MODULE PrizeTiers -----------------------------
(***************************************************************************)
(* What a draw pays: TierCounts, compute_prize_tiers, the "Must Be Won"    *)
(* rolldown and payout_for_matches of contracts/winsaf/src/contract.rs.    *)
(* A tier is named by its number of matches, 3 to 6; six stands for six or *)
(* more.  Counts and payouts are functions from tiers to Nat.              *)
(***************************************************************************)
EXTENDS Integers, FiniteSets, FundSplit

Tiers == 3..6

TierBps == [t \in Tiers |-> CASE t = 6 -> 6000
                              [] t = 5 -> 2000
                              [] t = 4 -> 1200
                              [] t = 3 -> 800]

NoPrizes == [t \in Tiers |-> 0]

CountMatches(numbers, winning) == Cardinality(numbers \cap winning)

\* The tier of a match count; 0 for a ticket that is in no tier.
TierOf(matches) == IF matches >= 6 THEN 6 ELSE IF matches >= 3 THEN matches ELSE 0

\* The tickets of the sequence ts that are in tier t once winning is known.
InTier(ts, winning, t) ==
  {i \in DOMAIN ts : TierOf(CountMatches(ts[i].numbers, winning)) = t}

TierCounts(ts, winning) == [t \in Tiers |-> Cardinality(InTier(ts, winning, t))]

\* The part of the pool that belongs to tier t, whether or not it has winners.
Allocation(pool, t) == Share(pool, TierBps[t])

PerWinner(amount, winners) == IF winners = 0 THEN 0 ELSE amount \div winners

ComputePrizeTiers(pool, counts) ==
  [t \in Tiers |-> PerWinner(Allocation(pool, t), counts[t])]

\* With a slip, for the checks: the lowest such tier.
RolldownTierLowest(counts) ==
  CASE counts[3] > 0 -> 3
    [] counts[3] = 0 /\ counts[4] > 0 -> 4
    [] counts[3] = 0 /\ counts[4] = 0 /\ counts[5] > 0 -> 5
    [] OTHER -> 0

\* The best tier below the jackpot that has a winner, 0 when none has.
RolldownTier(counts) ==
  CASE counts[5] > 0 -> 5
    [] counts[5] = 0 /\ counts[4] > 0 -> 4
    [] counts[5] = 0 /\ counts[4] = 0 /\ counts[3] > 0 -> 3
    [] OTHER -> 0

\* What each winner of the rolldown tier gets on top when the jackpot
\* allocation is forced down; 0 when nothing can be forced.
RolldownShare(pool, counts) ==
  LET b == RolldownTier(counts)
  IN  IF b = 0 THEN 0 ELSE PerWinner(Allocation(pool, 6), counts[b])

\* The payouts of a draw; force is set when the dry streak has reached its cap.
PayoutTiers(pool, counts, force) ==
  LET base  == ComputePrizeTiers(pool, counts)
      share == RolldownShare(pool, counts)
  IN  [t \in Tiers |-> IF force /\ t = RolldownTier(counts) THEN base[t] + share ELSE base[t]]

PayoutForMatches(tiers, matches) == IF TierOf(matches) = 0 THEN 0 ELSE tiers[TierOf(matches)]

\* With a slip: every tier is written off once.
DistributedOnce(tiers, counts) == tiers[3] + tiers[4] + tiers[5] + tiers[6]

\* The second pass of a draw adds one payout per ticket: per tier, its payout
\* as often as it has winners.
Distributed(tiers, counts) ==
  tiers[3] * counts[3] + tiers[4] * counts[4] + tiers[5] * counts[5] + tiers[6] * counts[6]
=============================================================================
