---------------------------- MODULE MCPrizeTiers ----------------------------
(***************************************************************************)
(* The payouts of a draw checked against what they are for: tickets are    *)
(* sold one by one into a round with a given pool, and each state is drawn *)
(* without and, unless the jackpot is hit, with the forced rolldown.       *)
(***************************************************************************)
EXTENDS PrizeTiers, Sequences, FiniteSetsExt

CONSTANTS Pools, MatchCounts, MaxTickets

ASSUME TiersAssumption ==
  Pools \subseteq Nat /\ MatchCounts \subseteq 0..6 /\ MaxTickets \in Nat

Winning == 1..6
Matching(k) == (1..k) \cup (11..(16 - k))

VARIABLES pool, ts

Init == pool \in Pools /\ ts = <<>>

Next ==
  /\ Len(ts) < MaxTickets
  /\ \E k \in MatchCounts : ts' = Append(ts, [numbers |-> Matching(k)])
  /\ UNCHANGED pool

Spec == Init /\ [][Next]_<<pool, ts>>

Counts == TierCounts(ts, Winning)

Matches(i) == CountMatches(ts[i].numbers, Winning)

\* What the tickets at the positions in S are paid, one by one.
Payouts(force) ==
  [i \in DOMAIN ts |-> PayoutForMatches(PayoutTiers(pool, Counts, force), Matches(i))]

PaidTo(S, force) == SumFunctionOnSet(Payouts(force), S)

\* The per-tier totals a draw writes off the pool are what its tickets are paid
\* one by one, and no draw pays more than the pool, forced or not.
PaidPerTicket ==
  \A force \in {FALSE, Counts[6] = 0} :
    LET paid == PaidTo(DOMAIN ts, force)
    IN  paid = Distributed(PayoutTiers(pool, Counts, force), Counts) /\ paid <= pool

\* The best tier with a winner below the jackpot, read off the tickets.
BestBelowJackpot ==
  {i \in DOMAIN ts :
     /\ Matches(i) \in 3..5
     /\ \A j \in DOMAIN ts : Matches(j) # 6 => Matches(j) <= Matches(i)}

\* A forced draw without a jackpot winner hands the jackpot allocation, on top of
\* their own, to the best tickets below: short of it by less than two units each.
RolldownReachesBest ==
  Counts[6] = 0 /\ BestBelowJackpot # {} =>
    LET tier == CHOOSE m \in 3..5 : \E i \in BestBelowJackpot : Matches(i) = m
        due  == Allocation(pool, tier) + Allocation(pool, 6)
        paid == PaidTo(BestBelowJackpot, TRUE)
    IN  paid <= due /\ due < paid + 2 * Cardinality(BestBelowJackpot)
=============================================================================
