--------------------------- MODULE QueriesProofs ----------------------------
(***************************************************************************)
(* What the queries tell: the views of finished rounds, and a client that  *)
(* pages through tickets while the contract goes on.                       *)
(***************************************************************************)
EXTENDS Queries, LotteryProofs

-----------------------------------------------------------------------------
(* The view of a settled round *)

\* Of a finished round nothing changes any more but its pool.
LEMMA FinishedRoundKept ==
  ASSUME LotteryInv, [Next]_lotteryVars, NEW r \in DOMAIN rounds, ~InFlight(rounds[r])
  PROVE  r \in DOMAIN rounds' /\ rounds'[r] = [rounds[r] EXCEPT !.pool = rounds'[r].pool]
<1>1. /\ rounds[r] \in Round /\ r # current_round /\ DOMAIN rounds = 1..current_round
      /\ current_round \in Nat
      /\ r \notin {x \in DOMAIN rounds : rounds[x].status \in {"Open", "Drawing"}}
  BY BasicsAssumption DEF LotteryInv, TypeOK, OneRoundInFlight, InFlight
<1> SUFFICES ASSUME r \in DOMAIN rounds', rounds'[r] # rounds[r]
             PROVE  rounds'[r] = [rounds[r] EXCEPT !.pool = rounds'[r].pool]
  <2>1. r \in DOMAIN rounds'
    BY StepKept DEF RoundsKept
  <2>2. rounds[r] = [rounds[r] EXCEPT !.pool = rounds[r].pool]
    BY <1>1 DEF Round
  <2> QED  BY <2>1, <2>2
<1>2. CASE \/ \E buyer \in Accounts, picks \in Purchases, referred \in BOOLEAN :
                BuyTickets(buyer, picks, referred)
           \/ \E owner \in Accounts, picks \in Purchases : GrantBonusTicket(owner, picks)
           \/ \E amount \in TopUps, x \in DOMAIN rounds : TopUpPool(x, amount)
           \/ CloseRound
           \/ \E backfill \in {{}} \cup {{amount} : amount \in Backfills}, reset \in BOOLEAN :
                Migrate(backfill, reset)
           \/ Tick \/ UNCHANGED lotteryVars
  <2>1. rounds'[r] = rounds[r]
    BY <1>1, <1>2 DEF BuyTickets, GrantBonusTicket, Mint, TopUpPool, CloseRound, Migrate, Tick,
                      lotteryVars
  <2> QED  BY <2>1
<1>3. CASE \E x \in DOMAIN rounds, winning \in Draws, config \in Configs, pending \in Escrows :
             Draw(x, winning, config, pending)
  <2>1. PICK x, closed, ts, config, rollover, pending :
          /\ x \in DOMAIN rounds /\ rounds[x].status = "Drawing"
          /\ OpenNextRound(x, closed, ts, config, rollover, pending)
    BY <1>3 DEF Draw
  <2>2. x # r /\ x = current_round
    BY <1>1, <2>1 DEF LotteryInv, OneRoundInFlight, InFlight
  <2> QED  BY <1>1, <2>1, <2>2 DEF OpenNextRound
<1>4. CASE \E x \in DOMAIN rounds, config \in Configs, pending \in Escrows :
             CancelRound(x, config, pending)
  <2>1. PICK x, closed, ts, config, rollover, pending :
          /\ x \in DOMAIN rounds /\ rounds[x].status = "Drawing"
          /\ OpenNextRound(x, closed, ts, config, rollover, pending)
    BY <1>4 DEF CancelRound
  <2>2. x # r /\ x = current_round
    BY <1>1, <2>1 DEF LotteryInv, OneRoundInFlight, InFlight
  <2> QED  BY <1>1, <2>1, <2>2 DEF OpenNextRound
<1>5. CASE \E x \in DOMAIN rounds : \E i \in DOMAIN tickets[x] :
             ClaimReward(tickets[x][i].owner, x, i)
  BY <1>1, <1>5 DEF ClaimReward, Round
<1> QED  BY <1>2, <1>3, <1>4, <1>5 DEF Next

\* A step of the contract with its client is one of the contract alone or none.
LEMMA LotteryPartOfStep ==
  ASSUME [QueriesNext]_<<lotteryVars, reader>>
  PROVE  [Next]_lotteryVars
  BY DEF QueriesNext, Continue

LEMMA QueriesInvariant == QueriesSpec => []LotteryInv
<1>1. QueriesInit => LotteryInv
  BY InitInv DEF QueriesInit
<1>2. LotteryInv /\ [QueriesNext]_<<lotteryVars, reader>> => LotteryInv'
  BY LotteryPartOfStep, NextInv
<1> QED  BY <1>1, <1>2, PTL DEF QueriesSpec

\* The view of a settled round is final, its streak included, whatever later rounds do
\* to the streak.
THEOREM SettledViewIsFinal == QueriesSpec => SettledViewFinal
<1> DEFINE Final ==
      \A r \in DOMAIN rounds :
        rounds[r].status = "Settled" =>
          QueryRound(r)' = [QueryRound(r) EXCEPT !.pool = rounds'[r].pool]
<1>1. LotteryInv /\ [QueriesNext]_<<lotteryVars, reader>> => [Final]_<<lotteryVars, reader>>
  <2> SUFFICES ASSUME LotteryInv, [QueriesNext]_<<lotteryVars, reader>>,
                      NEW r \in DOMAIN rounds, rounds[r].status = "Settled"
               PROVE  QueryRound(r)' = [QueryRound(r) EXCEPT !.pool = rounds'[r].pool]
    OBVIOUS
  <2>1. rounds'[r] = [rounds[r] EXCEPT !.pool = rounds'[r].pool]
    BY LotteryPartOfStep, FinishedRoundKept DEF InFlight
  <2>2. rounds[r] \in Round
    BY DEF LotteryInv, TypeOK
  <2>3. /\ rounds'[r].status = rounds[r].status
        /\ rounds'[r].winning_numbers = rounds[r].winning_numbers
        /\ rounds'[r].prize_tiers = rounds[r].prize_tiers
        /\ rounds'[r].ticket_count = rounds[r].ticket_count
        /\ rounds'[r].player_count = rounds[r].player_count
        /\ rounds'[r].closes_at = rounds[r].closes_at
        /\ rounds'[r].top_up_total = rounds[r].top_up_total
        /\ rounds'[r].rollover_in = rounds[r].rollover_in
        /\ rounds'[r].dry_streak_after = rounds[r].dry_streak_after
    <3> DEFINE pool == rounds'[r].pool
               later == rounds'[r]
    <3>1. later = [rounds[r] EXCEPT !.pool = pool]
      BY <2>1
    <3> HIDE DEF pool, later
    <3>2. /\ later.status = rounds[r].status
          /\ later.winning_numbers = rounds[r].winning_numbers
          /\ later.prize_tiers = rounds[r].prize_tiers
          /\ later.ticket_count = rounds[r].ticket_count
          /\ later.player_count = rounds[r].player_count
          /\ later.closes_at = rounds[r].closes_at
          /\ later.top_up_total = rounds[r].top_up_total
          /\ later.rollover_in = rounds[r].rollover_in
          /\ later.dry_streak_after = rounds[r].dry_streak_after
      BY <2>2, <3>1 DEF Round
    <3> QED  BY <3>2 DEF later
  <2> QED  BY <2>3 DEF QueryRound
<1> QED  BY <1>1, QueriesInvariant, PTL DEF QueriesSpec, SettledViewFinal

-----------------------------------------------------------------------------
(* The view of the prizes *)

Prizes(ts) == [i \in DOMAIN ts |-> ts[i].prize]

WinningOf(ts, owner) == {i \in DOMAIN ts : ts[i].owner = owner /\ ts[i].prize # 0}

LEMMA PrizesType ==
  ASSUME NEW ts \in Seq(Ticket)
  PROVE  /\ IsFiniteSet(DOMAIN ts) /\ DOMAIN Prizes(ts) = DOMAIN ts
         /\ \A i \in DOMAIN ts : ts[i] \in Ticket /\ Prizes(ts)[i] = ts[i].prize /\ Prizes(ts)[i] \in Nat
<1>1. IsFiniteSet(DOMAIN ts)
  BY TicketsFinite
<1>2. \A i \in DOMAIN ts : ts[i] \in Ticket
  OBVIOUS
<1> QED  BY <1>1, <1>2 DEF Prizes, Ticket

\* What a player can claim and what he has claimed are together what he has won.
LEMMA WonIsOfferedOrPaid ==
  ASSUME NEW ts \in Seq(Ticket), NEW owner
  PROVE  SumFunctionOnSet(Prizes(ts), {i \in WinningOf(ts, owner) : ~ts[i].claimed})
           + SumFunctionOnSet(Prizes(ts), {i \in WinningOf(ts, owner) : ts[i].claimed})
           = SumFunctionOnSet(Prizes(ts), WinningOf(ts, owner))
<1> DEFINE W == WinningOf(ts, owner)
           P == {i \in W : ~ts[i].claimed}
           f == Prizes(ts)
<1>1. W \cap P = P /\ W \ P = {i \in W : ts[i].claimed}
  OBVIOUS
<1>2. IsFiniteSet(W) /\ \A i \in W : f[i] \in Nat
  BY PrizesType, FS_Subset DEF WinningOf
<1> HIDE DEF W, P, f
<1>3. SumFunctionOnSet(f, W \cap P) + SumFunctionOnSet(f, W \ P) = SumFunctionOnSet(f, W)
  BY <1>2, SumSplit
<1> QED  BY <1>1, <1>3 DEF W, P, f

\* What the players of a finished round can claim and have claimed never changes.
THEOREM PrizeViewIsStable == QueriesSpec => PrizeViewStable
<1> DEFINE Stable ==
      \A r \in DOMAIN rounds, a \in Accounts :
        ~InFlight(rounds[r]) =>
          QueryPrize(r, a)'.claimable + QueryPrize(r, a)'.claimed
            = QueryPrize(r, a).claimable + QueryPrize(r, a).claimed
<1>1. LotteryInv /\ LotteryInv' /\ [QueriesNext]_<<lotteryVars, reader>> =>
        [Stable]_<<lotteryVars, reader>>
  <2> SUFFICES ASSUME LotteryInv, LotteryInv', [QueriesNext]_<<lotteryVars, reader>>,
                      NEW r \in DOMAIN rounds, NEW a \in Accounts, ~InFlight(rounds[r])
               PROVE  QueryPrize(r, a)'.claimable + QueryPrize(r, a)'.claimed
                        = QueryPrize(r, a).claimable + QueryPrize(r, a).claimed
    OBVIOUS
  <2> DEFINE old == tickets[r]
             new == tickets'[r]
  <2>1. /\ r \in DOMAIN rounds' /\ Len(new) = Len(old)
        /\ \A i \in DOMAIN old : new[i].owner = old[i].owner /\ new[i].prize = old[i].prize
    BY LotteryPartOfStep, StepKept DEF RoundsKept, RoundKept, InFlight
  <2>2. old \in Seq(Ticket) /\ new \in Seq(Ticket)
    BY <2>1 DEF LotteryInv, TypeOK
  <2>3. /\ QueryPrize(r, a).claimable
             = SumFunctionOnSet(Prizes(old), {i \in WinningOf(old, a) : ~old[i].claimed})
        /\ QueryPrize(r, a).claimed
             = SumFunctionOnSet(Prizes(old), {i \in WinningOf(old, a) : old[i].claimed})
    BY DEF QueryPrize, PrizeSum, Prizes, Winning, WinningOf
  <2>4. /\ QueryPrize(r, a)'.claimable
             = SumFunctionOnSet(Prizes(new), {i \in WinningOf(new, a) : ~new[i].claimed})
        /\ QueryPrize(r, a)'.claimed
             = SumFunctionOnSet(Prizes(new), {i \in WinningOf(new, a) : new[i].claimed})
    BY DEF QueryPrize, PrizeSum, Prizes, Winning, WinningOf
  <2>5. DOMAIN new = DOMAIN old
    BY <2>1, <2>2
  <2>6. Prizes(new) = Prizes(old) /\ WinningOf(new, a) = WinningOf(old, a)
    BY <2>1, <2>5 DEF Prizes, WinningOf
  <2> HIDE DEF old, new
  <2> QED  BY <2>2, <2>3, <2>4, <2>6, WonIsOfferedOrPaid
<1> QED  BY <1>1, QueriesInvariant, PTL DEF QueriesSpec, PrizeViewStable

\* A finished round retains the sum of the prizes nobody has claimed.
LEMMA PoolIsUnclaimedPrizes ==
  ASSUME LotteryInv, NEW r \in DOMAIN rounds, ~InFlight(rounds[r])
  PROVE  rounds[r].pool = SumFunctionOnSet(Prizes(tickets[r]), Unclaimed(tickets[r]))
<1> DEFINE ts == tickets[r]
           tiers == rounds[r].prize_tiers
<1>1. ts \in Seq(Ticket) /\ rounds[r] \in Round /\ tiers \in [Tiers -> Nat]
  <2>1. ts \in Seq(Ticket) /\ rounds[r] \in Round
    BY DEF LotteryInv, TypeOK
  <2> QED  BY <2>1 DEF Round
<1>2. Unclaimed(ts) \in SUBSET (DOMAIN ts)
  BY DEF Unclaimed
<1>3. RoundBacked(rounds[r], ts)
  BY DEF LotteryInv, RoundInv
<1>4. CASE rounds[r].status = "Settled"
  <2>1. /\ \A i \in DOMAIN ts : ts[i].prize = PayoutForMatches(tiers, ts[i].matches)
        /\ rounds[r].pool = Distributed(tiers, UnclaimedCounts(ts))
    BY <1>3, <1>4 DEF RoundBacked, SettledBacked
  <2> DEFINE D == DOMAIN ts
             matches == [i \in D |-> ts[i].matches]
             f == Prizes(ts)
  <2>2. UnclaimedCounts(ts) = CountsIn(matches, Unclaimed(ts))
    BY DEF UnclaimedCounts, UnclaimedIn, Unclaimed, TierIn, CountsIn
  <2>3. /\ IsFiniteSet(D) /\ matches \in [D -> Nat]
        /\ \A i \in D : f[i] = PayoutForMatches(tiers, matches[i])
    BY <1>1, <2>1, PrizesType DEF Ticket
  <2> HIDE DEF matches, D, tiers, f
  <2>4. \A S \in SUBSET D :
          SumFunctionOnSet(f, S) = Distributed(tiers, CountsIn(matches, S))
    BY <1>1, <2>3, PayoutsSumToTiers
  <2> DEFINE U == Unclaimed(ts)
  <2>5. U \in SUBSET D
    BY <1>2 DEF D
  <2> HIDE DEF ts, U
  <2>6. SumFunctionOnSet(f, U) = Distributed(tiers, UnclaimedCounts(ts))
    BY <2>2, <2>4, <2>5 DEF U
  <2> QED  BY <2>1, <2>6 DEF ts, f, U
<1>5. CASE rounds[r].status = "Cancelled"
  <2>1. PICK refund \in {0} \cup {ts[i].prize : i \in DOMAIN ts} :
          /\ \A i \in DOMAIN ts : ts[i].prize = refund
          /\ rounds[r].pool = refund * Cardinality(Unclaimed(ts))
    BY <1>3, <1>5 DEF RoundBacked, CancelledBacked
  <2>2. refund \in Nat
    <3>1. \A i \in DOMAIN ts : ts[i].prize \in Nat
      BY <1>1, PrizesType
    <3> QED  BY <3>1
  <2> DEFINE D == DOMAIN ts
             f == Prizes(ts)
  <2>3. IsFiniteSet(D) /\ \A i \in D : f[i] = refund
    BY <1>1, <2>1, PrizesType
  <2> HIDE DEF D, f
  <2>4. \A S \in SUBSET D : SumFunctionOnSet(f, S) = refund * Cardinality(S)
    <3> DEFINE each == refund
    <3>1. each \in Int /\ \A i \in D : f[i] = each
      BY <2>2, <2>3
    <3> HIDE DEF each
    <3>2. \A S \in SUBSET D : SumFunctionOnSet(f, S) = each * Cardinality(S)
      BY <2>3, <3>1, SumOfEquals
    <3> QED  BY <3>2 DEF each
  <2> QED  BY <1>2, <2>1, <2>4 DEF ts, D, f
<1> QED  BY <1>1, <1>4, <1>5 DEF Round, Statuses, InFlight

\* What the players are offered are the prizes nobody has claimed: every ticket has
\* one owner, who is told of it unless it won nothing.
LEMMA OffersAreUnclaimedPrizes ==
  ASSUME NEW ts \in Seq(Ticket)
  PROVE  SumFunction([a \in Accounts |->
           SumFunctionOnSet(Prizes(ts), {i \in WinningOf(ts, a) : ~ts[i].claimed})])
           = SumFunctionOnSet(Prizes(ts), Unclaimed(ts))
<1> DEFINE U == Unclaimed(ts)
           Q == {i \in DOMAIN ts : ts[i].prize # 0}
           W == U \cap Q
           f == Prizes(ts)
           group == [i \in DOMAIN ts |-> ts[i].owner]
<1>1. /\ IsFiniteSet(U) /\ IsFiniteSet(W) /\ IsFiniteSet(U \ Q)
      /\ \A i \in U : f[i] \in Nat
      /\ \A i \in U \ Q : f[i] = 0
      /\ \A i \in W : group[i] \in Accounts
  <2>1. U \subseteq DOMAIN ts
    BY DEF Unclaimed
  <2>2. IsFiniteSet(U) /\ IsFiniteSet(W) /\ IsFiniteSet(U \ Q)
    BY <2>1, PrizesType, FS_Subset
  <2> QED  BY <2>1, <2>2, PrizesType DEF Ticket
<1>2. \A a \in Accounts : {i \in W : group[i] = a} = {i \in WinningOf(ts, a) : ~ts[i].claimed}
  BY DEF Unclaimed, WinningOf
<1>3. IsFiniteSet(Accounts)
  BY BasicsAssumption
<1> HIDE DEF U, Q, f, group
<1>4. SumFunctionOnSet(f, W) + SumFunctionOnSet(f, U \ Q) = SumFunctionOnSet(f, U)
  BY <1>1, SumSplit
<1>5. SumFunctionOnSet(f, U \ Q) = 0
  BY <1>1, SumOfZeros
<1>6. SumFunctionOnSet(f, W) \in Nat
  BY <1>1, SumNat
<1> HIDE DEF W
<1>7. SumFunction([a \in Accounts |-> SumFunctionOnSet(f, {i \in W : group[i] = a})])
        = SumFunctionOnSet(f, W)
  <2>1. IsFiniteSet(W) /\ (\A i \in W : f[i] \in Nat) /\ \A i \in W : group[i] \in Accounts
    BY <1>1 DEF W
  <2> QED  BY <1>3, <2>1, TotalOfGroups
<1>8. [a \in Accounts |-> SumFunctionOnSet(f, {i \in W : group[i] = a})]
        = [a \in Accounts |-> SumFunctionOnSet(f, {i \in WinningOf(ts, a) : ~ts[i].claimed})]
  BY <1>2
<1>9. SumFunctionOnSet(f, W) = SumFunctionOnSet(f, U)
  BY <1>4, <1>5, <1>6
<1> QED  BY <1>7, <1>8, <1>9 DEF f, U

\* What the players of a finished round are told they can claim adds up to exactly what
\* the round retains.
THEOREM PrizeViewIsBacked == QueriesSpec => []PrizeViewBacked
<1>1. ASSUME LotteryInv, NEW r \in DOMAIN rounds, ~InFlight(rounds[r])
      PROVE  rounds[r].pool = SumFunction([a \in Accounts |-> QueryPrize(r, a).claimable])
  <2>1. \A a \in Accounts : QueryPrize(r, a).claimable =
          SumFunctionOnSet(Prizes(tickets[r]),
                           {i \in WinningOf(tickets[r], a) : ~tickets[r][i].claimed})
    BY DEF QueryPrize, PrizeSum, Prizes, Winning, WinningOf
  <2>2. tickets[r] \in Seq(Ticket)
    BY <1>1 DEF LotteryInv, TypeOK
  <2> DEFINE ts == tickets[r]
  <2> HIDE DEF ts
  <2>3. SumFunction([a \in Accounts |->
          SumFunctionOnSet(Prizes(ts), {i \in WinningOf(ts, a) : ~ts[i].claimed})])
          = SumFunctionOnSet(Prizes(ts), Unclaimed(ts))
    BY <2>2, OffersAreUnclaimedPrizes DEF ts
  <2>4. [a \in Accounts |-> QueryPrize(r, a).claimable] =
          [a \in Accounts |->
            SumFunctionOnSet(Prizes(ts), {i \in WinningOf(ts, a) : ~ts[i].claimed})]
    BY <2>1 DEF ts
  <2>5. rounds[r].pool = SumFunctionOnSet(Prizes(ts), Unclaimed(ts))
    BY <1>1, PoolIsUnclaimedPrizes DEF ts
  <2> QED  BY <2>3, <2>4, <2>5
<1>2. LotteryInv => PrizeViewBacked
  BY <1>1 DEF PrizeViewBacked
<1> QED  BY <1>2, QueriesInvariant, PTL

-----------------------------------------------------------------------------
(* Ids sort as the tickets were sold *)

LEMMA LeastNatural ==
  ASSUME NEW T \in SUBSET Nat, T # {}
  PROVE  \E x \in T : \A y \in T : x <= y
<1>1. PICK x \in T : \A y \in T : <<y, x>> \notin OpToRel(<, Nat)
  BY NatLessThanWellFounded, WFMin
<1>2. ASSUME NEW y \in T PROVE x <= y
  <2>1. x \in Nat /\ y \in Nat /\ ~(y < x)
    BY <1>1 DEF OpToRel
  <2> QED  BY <2>1
<1> QED  BY <1>2

LEMMA QuotientUnique ==
  ASSUME NEW x \in Nat, NEW w \in Nat \ {0}, NEW q \in Nat, q * w <= x, x < q * w + w
  PROVE  x \div w = q
<1> DEFINE r == x \div w
<1>1. r \in Nat /\ r * w <= x /\ x < r * w + w
  BY SMT
<1> HIDE DEF r
<1>2. CASE r < q
  <2> DEFINE more == q - r - 1
  <2>1. more \in Nat /\ q = r + 1 + more
    BY <1>1, <1>2
  <2> HIDE DEF more
  <2>2. (r + 1 + more) * w = r * w + w + more * w /\ more * w \in Nat /\ r * w \in Nat
    BY <1>1, <2>1
  <2>3. q * w >= r * w + w
    BY <2>1, <2>2
  <2> QED  BY <1>1, <2>2, <2>3
<1>3. CASE q < r
  <2> DEFINE more == r - q - 1
  <2>1. more \in Nat /\ r = q + 1 + more
    BY <1>1, <1>3
  <2> HIDE DEF more
  <2>2. (q + 1 + more) * w = q * w + w + more * w /\ more * w \in Nat /\ q * w \in Nat
    BY <1>1, <2>1
  <2>3. r * w >= q * w + w
    BY <2>1, <2>2
  <2> QED  BY <1>1, <2>2, <2>3
<1>4. CASE r = q
  BY <1>4 DEF r
<1> QED  BY <1>1, <1>2, <1>3, <1>4

\* Dropping a digit twice over.
LEMMA QuotientOfQuotient ==
  ASSUME NEW x \in Nat, NEW b \in Nat \ {0}, NEW p \in Nat \ {0}
  PROVE  x \div (b * p) = (x \div p) \div b
<1> DEFINE q == x \div p
           r == q \div b
<1>1. q \in Nat /\ q * p <= x /\ x < q * p + p
  BY SMT
<1>2. r \in Nat /\ r * b <= q /\ q < r * b + b
  <2> HIDE DEF q
  <2> QED  BY <1>1, SMT
<1> HIDE DEF q, r
<1>3. b * p \in Nat \ {0}
  BY SMT
<1>4. r * (b * p) = (r * b) * p /\ r * b \in Nat
  BY <1>2
<1>5. (r * b) * p <= q * p
  <2> DEFINE less == q - r * b
  <2>1. less \in Nat /\ q = r * b + less
    BY <1>1, <1>2, <1>4
  <2> HIDE DEF less
  <2> DEFINE s == r * b
  <2>2. s \in Nat /\ q = s + less
    BY <2>1, <1>4
  <2> HIDE DEF s
  <2>3. (s + less) * p = s * p + less * p /\ less * p \in Nat /\ s * p \in Nat
    BY <2>1, <2>2
  <2>4. s * p <= q * p
    BY <2>2, <2>3
  <2> QED  BY <2>4 DEF s
<1>6. q * p + p <= (r * b) * p + b * p
  <2> DEFINE less == r * b + b - q - 1
             s == r * b
  <2>1. s \in Nat
    BY <1>4
  <2>2. less \in Nat /\ s + b = q + 1 + less
    BY <1>1, <1>2, <1>4
  <2> HIDE DEF less, s
  <2>3. (s + b) * p = s * p + b * p /\ (q + 1 + less) * p = q * p + p + less * p
        /\ less * p \in Nat /\ s * p \in Nat /\ q * p \in Nat /\ b * p \in Nat
    BY <1>1, <2>1, <2>2
  <2>4. q * p + p <= s * p + b * p
    <3>1. (s + b) * p = (q + 1 + less) * p
      BY <2>2
    <3> QED  BY <3>1, <2>3
  <2> QED  BY <2>4 DEF s
<1>7. r * (b * p) <= x /\ x < r * (b * p) + b * p
  <2> DEFINE u == (r * b) * p
             v == q * p
             w == b * p
  <2>1. u \in Nat /\ v \in Nat /\ w \in Nat
    BY <1>1, <1>4, <1>3
  <2>2. u <= v /\ v + p <= u + w /\ v <= x /\ x < v + p
    BY <1>1, <1>5, <1>6
  <2> HIDE DEF u, v, w
  <2>3. u <= x /\ x < u + w
    BY <2>1, <2>2
  <2>4. r * (b * p) = u /\ b * p = w
    BY <1>4 DEF u, w
  <2> QED  BY <2>3, <2>4
<1>8. x \div (b * p) = r
  <2> DEFINE w == b * p
  <2>1. w \in Nat \ {0} /\ r * w <= x /\ x < r * w + w
    BY <1>3, <1>7
  <2> HIDE DEF w
  <2>2. x \div w = r
    BY <1>2, <2>1, QuotientUnique
  <2> QED  BY <2>2 DEF w
<1> QED  BY <1>8 DEF q, r

\* A larger number does not have a smaller quotient.
LEMMA QuotientMonotonic ==
  ASSUME NEW x \in Nat, NEW y \in Nat, x <= y, NEW w \in Nat \ {0}
  PROVE  x \div w <= y \div w
<1> DEFINE q == x \div w
           r == y \div w
<1>1. q \in Nat /\ q * w <= x /\ r \in Nat /\ y < r * w + w
  BY SMT
<1> HIDE DEF q, r
<1> SUFFICES ASSUME r < q PROVE FALSE
  BY <1>1 DEF q, r
<1> DEFINE more == q - r - 1
<1>2. more \in Nat /\ q = r + 1 + more
  BY <1>1
<1> HIDE DEF more
<1>3. (r + 1 + more) * w = r * w + w + more * w /\ more * w \in Nat /\ r * w \in Nat
  BY <1>1, <1>2
<1> QED  BY <1>1, <1>2, <1>3

\* An id shows the last TicketIdWidth digits of a number, and the quotients by the
\* powers of the base, which they are the rests of, start at 0 and end at the number.
Quotient(x, i) == x \div (Base ^ (TicketIdWidth - i))

LEMMA PowerType == \A i \in 0..TicketIdWidth : Base ^ (TicketIdWidth - i) \in Nat \ {0}
<1>1. Base \in Nat \ {0} /\ TicketIdWidth \in Nat \ {0}
  BY QueriesAssumption
<1>2. ASSUME NEW n \in 1..TicketIdWidth
      PROVE  Base ^ (n - 1) \in Nat \ {0} /\ Base ^ n \in Nat \ {0}
  <2>1. Base ^ (n - 1) \in Nat \ {0} /\ Base ^ n = Base * Base ^ (n - 1)
    BY PowersAssumption
  <2> DEFINE p == Base ^ (n - 1)
  <2>2. p \in Nat \ {0} /\ Base ^ n = Base * p
    BY <2>1
  <2> HIDE DEF p
  <2>3. Base * p \in Nat \ {0}
    BY <1>1, <2>2
  <2> QED  BY <2>1, <2>2, <2>3
<1>3. ASSUME NEW m \in 0..TicketIdWidth PROVE Base ^ m \in Nat \ {0}
  <2>1. CASE m = 0
    <3>1. 1 \in 1..TicketIdWidth /\ 1 - 1 = 0
      BY <1>1
    <3>2. Base ^ (1 - 1) \in Nat \ {0}
      BY <1>2, <3>1
    <3> QED  BY <2>1, <3>1, <3>2
  <2>2. CASE m # 0
    <3>1. m \in 1..TicketIdWidth
      BY <1>1, <2>2
    <3> QED  BY <1>2, <3>1
  <2> QED  BY <2>1, <2>2
<1>4. \A i \in 0..TicketIdWidth : TicketIdWidth - i \in 0..TicketIdWidth
  BY <1>1
<1> QED  BY <1>3, <1>4

LEMMA QuotientEnds ==
  ASSUME NEW x \in Nat
  PROVE  /\ \A i \in 0..TicketIdWidth : Quotient(x, i) \in Nat
         /\ Quotient(x, TicketIdWidth) = x
         /\ x < Base ^ TicketIdWidth => Quotient(x, 0) = 0
<1>1. TicketIdWidth \in Nat \ {0} /\ TicketIdWidth - TicketIdWidth = 0 /\ TicketIdWidth - 0 = TicketIdWidth
  BY QueriesAssumption
<1>2. ASSUME NEW i \in 0..TicketIdWidth PROVE Quotient(x, i) \in Nat
  <2> DEFINE p == Base ^ (TicketIdWidth - i)
  <2>1. p \in Nat \ {0}
    BY PowerType
  <2> HIDE DEF p
  <2>2. x \div p \in Nat
    BY <2>1, SMT
  <2> QED  BY <2>2 DEF p, Quotient
<1>3. Quotient(x, TicketIdWidth) = x
  <2>1. Base ^ (TicketIdWidth - TicketIdWidth) = 1
    BY <1>1, PowersAssumption
  <2>2. x \div 1 = x
    BY SMT
  <2> QED  BY <2>1, <2>2 DEF Quotient
<1>4. ASSUME x < Base ^ TicketIdWidth PROVE Quotient(x, 0) = 0
  <2> DEFINE p == Base ^ TicketIdWidth
  <2>1. 0 \in 0..TicketIdWidth /\ Base ^ (TicketIdWidth - 0) = p
    BY <1>1
  <2>2. p \in Nat \ {0} /\ x < p
    BY <1>4, <2>1, PowerType
  <2> HIDE DEF p
  <2>3. x \div p = 0
    BY <2>2, SMT
  <2> QED  BY <2>1, <2>3 DEF Quotient
<1> QED  BY <1>2, <1>3, <1>4

\* The i-th digit takes the (i-1)-th quotient to the i-th.
LEMMA QuotientStep ==
  ASSUME NEW x \in Nat, NEW i \in 1..TicketIdWidth
  PROVE  /\ TicketId(x)[i] = Quotient(x, i) % Base
         /\ TicketId(x)[i] \in 0..(Base - 1)
         /\ Quotient(x, i) = Base * Quotient(x, i - 1) + TicketId(x)[i]
<1>1. /\ TicketIdWidth \in Nat /\ i \in 0..TicketIdWidth /\ i - 1 \in 0..TicketIdWidth
      /\ Base \in Nat \ {0} /\ TicketIdWidth - i + 1 \in 1..TicketIdWidth
      /\ TicketIdWidth - (i - 1) = TicketIdWidth - i + 1
      /\ TicketIdWidth - i + 1 - 1 = TicketIdWidth - i
  BY QueriesAssumption
<1>2. TicketId(x)[i] = Quotient(x, i) % Base
  BY DEF TicketId, Quotient
<1> DEFINE p == Base ^ (TicketIdWidth - i)
<1>3. p \in Nat \ {0}
  BY <1>1, PowerType
<1>4. Base ^ (TicketIdWidth - (i - 1)) = Base * p
  BY <1>1, PowersAssumption
<1> HIDE DEF p
<1>5. x \div (Base * p) = (x \div p) \div Base
  BY <1>1, <1>3, QuotientOfQuotient
<1>6. Quotient(x, i) = x \div p /\ Quotient(x, i - 1) = (x \div p) \div Base
  BY <1>4, <1>5 DEF Quotient, p
<1> DEFINE q == x \div p
<1>7. q \in Nat
  BY <1>3, SMT
<1> HIDE DEF q
<1>8. q % Base \in 0..(Base - 1) /\ q = Base * (q \div Base) + (q % Base)
  BY <1>1, <1>7, SMT
<1> QED  BY <1>2, <1>6, <1>8 DEF q

\* Two sequence numbers differ first at one of their digits, and there the later one
\* has the larger digit.
LEMMA LaterIdAfter ==
  ASSUME NEW x \in Nat, NEW y \in Nat, x < y, y < Base ^ TicketIdWidth
  PROVE  \E i \in 1..TicketIdWidth :
           /\ TicketId(x)[i] < TicketId(y)[i]
           /\ \A j \in 1..(i - 1) : TicketId(x)[j] = TicketId(y)[j]
<1>1. TicketIdWidth \in Nat \ {0} /\ Base \in Nat \ {0} /\ Base ^ TicketIdWidth \in Nat
  <2>1. TicketIdWidth \in Nat \ {0} /\ Base \in Nat \ {0} /\ 0 \in 0..TicketIdWidth
        /\ TicketIdWidth - 0 = TicketIdWidth
    BY QueriesAssumption
  <2> QED  BY <2>1, PowerType
<1>2. x < Base ^ TicketIdWidth
  BY <1>1
<1> DEFINE Differ == {i \in 1..TicketIdWidth : Quotient(x, i) # Quotient(y, i)}
<1>3. TicketIdWidth \in Differ
  BY <1>1, QuotientEnds
<1>4. PICK i \in Differ : \A j \in Differ : i <= j
  <2>1. Differ \in SUBSET Nat /\ Differ # {}
    BY <1>3
  <2> HIDE DEF Differ
  <2> QED  BY <2>1, LeastNatural
<1>5. i \in 1..TicketIdWidth /\ Quotient(x, i) # Quotient(y, i)
  OBVIOUS
<1>6. ASSUME NEW j \in 0..(i - 1) PROVE Quotient(x, j) = Quotient(y, j)
  <2>1. CASE j = 0
    BY <1>2, <2>1, QuotientEnds
  <2>2. CASE j # 0
    <3>1. j \in 1..TicketIdWidth /\ ~(i <= j)
      BY <1>5, <1>1, <2>2
    <3> QED  BY <1>4, <3>1
  <2> QED  BY <2>1, <2>2
<1>7. ASSUME NEW j \in 1..(i - 1) PROVE TicketId(x)[j] = TicketId(y)[j]
  <2>1. j \in 0..(i - 1) /\ j \in 1..TicketIdWidth
    BY <1>1, <1>5
  <2> QED  BY <1>6, <2>1, QuotientStep
<1>8. TicketId(x)[i] < TicketId(y)[i]
  <2> DEFINE p == Base ^ (TicketIdWidth - i)
  <2>1. p \in Nat \ {0}
    BY <1>1, <1>5, PowerType
  <2>2. Quotient(x, i) <= Quotient(y, i)
    <3> HIDE DEF p
    <3>1. x \div p <= y \div p
      BY <2>1, QuotientMonotonic
    <3> QED  BY <3>1 DEF Quotient, p
  <2>3. i - 1 \in 0..(i - 1) /\ i - 1 \in 0..TicketIdWidth /\ i \in 0..TicketIdWidth
    BY <1>1, <1>5
  <2>4. Quotient(x, i - 1) = Quotient(y, i - 1) /\ Quotient(x, i - 1) \in Nat
    BY <1>6, <2>3, QuotientEnds
  <2>5. /\ Quotient(x, i) = Base * Quotient(x, i - 1) + TicketId(x)[i]
        /\ Quotient(y, i) = Base * Quotient(x, i - 1) + TicketId(y)[i]
        /\ TicketId(x)[i] \in Int /\ TicketId(y)[i] \in Int
    BY <1>5, <2>4, QuotientStep
  <2> DEFINE a == Base * Quotient(x, i - 1)
  <2>6. a \in Nat
    BY <1>1, <2>4
  <2> HIDE DEF a
  <2> QED  BY <1>5, <2>2, <2>5, <2>6 DEF a
<1> QED  BY <1>5, <1>7, <1>8

LEMMA IdIsSequence ==
  ASSUME NEW x \in Nat
  PROVE  /\ TicketId(x) \in Seq(0..(Base - 1)) /\ Len(TicketId(x)) = TicketIdWidth
         /\ DOMAIN TicketId(x) = 1..TicketIdWidth /\ TicketId(x) # <<>>
<1>1. TicketIdWidth \in Nat \ {0}
  BY QueriesAssumption
<1>2. \A i \in 1..TicketIdWidth :
        (x \div Base ^ (TicketIdWidth - i)) % Base \in 0..(Base - 1)
  BY QuotientStep DEF TicketId
<1>3. TicketId(x) \in [1..TicketIdWidth -> 0..(Base - 1)]
  BY <1>2 DEF TicketId
<1> DEFINE s == TicketId(x)
           D == 0..(Base - 1)
           w == TicketIdWidth
<1>4. s \in [1..w -> D] /\ w \in Nat \ {0}
  BY <1>1, <1>3
<1> HIDE DEF s, D, w
<1>5. s \in Seq(D) /\ Len(s) = w /\ DOMAIN s = 1..w
  BY <1>4
<1>6. s # <<>>
  BY <1>4, <1>5
<1> QED  BY <1>5, <1>6 DEF s, D, w

\* Ids sort as sequence numbers, and every id is after the absent one.
LEMMA IdsInOrder ==
  ASSUME NEW x \in Nat, NEW y \in Nat, x < Base ^ TicketIdWidth, y < Base ^ TicketIdWidth
  PROVE  Before(TicketId(x), TicketId(y)) <=> x < y
<1>1. ASSUME NEW a \in Nat, NEW b \in Nat PROVE ~IsStrictPrefix(TicketId(a), TicketId(b))
  <2> DEFINE s == TicketId(a)
             t == TicketId(b)
             D == 0..(Base - 1)
  <2>1. s \in Seq(D) /\ t \in Seq(D) /\ Len(s) = Len(t)
    BY IdIsSequence
  <2> HIDE DEF s, t, D
  <2>2. SubSeq(s, 1, Len(s)) = s /\ SubSeq(t, 1, Len(t)) = t
    BY <2>1, SubSeqFull
  <2>3. ~IsStrictPrefix(s, t)
    BY <2>1, <2>2 DEF IsStrictPrefix, IsPrefix
  <2> QED  BY <2>3 DEF s, t
<1>2. \A a, b \in Nat :
        Before(TicketId(a), TicketId(b)) <=>
          \E i \in 1..TicketIdWidth :
            /\ TicketId(a)[i] < TicketId(b)[i]
            /\ \A j \in 1..(i - 1) : TicketId(a)[j] = TicketId(b)[j]
  BY <1>1, IdIsSequence DEF Before
<1>3. CASE x < y
  BY <1>2, <1>3, LaterIdAfter
<1>4. CASE ~(x < y)
  <2> SUFFICES ASSUME Before(TicketId(x), TicketId(y)) PROVE FALSE
    BY <1>4
  <2>1. PICK i \in 1..TicketIdWidth :
          /\ TicketId(x)[i] < TicketId(y)[i]
          /\ \A j \in 1..(i - 1) : TicketId(x)[j] = TicketId(y)[j]
    BY <1>2
  <2>2. TicketIdWidth \in Nat
    BY QueriesAssumption
  <2>3. \A j \in 1..TicketIdWidth :
          TicketId(x)[j] \in Int /\ TicketId(y)[j] \in Int
    BY QuotientStep
  <2>4. CASE x = y
    BY <2>1, <2>3, <2>4
  <2>5. CASE y < x
    <3>1. PICK k \in 1..TicketIdWidth :
            /\ TicketId(y)[k] < TicketId(x)[k]
            /\ \A j \in 1..(k - 1) : TicketId(y)[j] = TicketId(x)[j]
      BY <2>5, LaterIdAfter
    <3> DEFINE s == TicketId(x)
               t == TicketId(y)
    <3>2. s[i] < t[i] /\ t[k] < s[k] /\ s[i] \in Int /\ t[i] \in Int /\ s[k] \in Int /\ t[k] \in Int
      BY <2>1, <2>3, <3>1
    <3>3. /\ \A j \in 1..(i - 1) : s[j] = t[j]
          /\ \A j \in 1..(k - 1) : t[j] = s[j]
      BY <2>1, <3>1
    <3>4. i \in 1..TicketIdWidth /\ k \in 1..TicketIdWidth /\ TicketIdWidth \in Nat
      BY <2>2
    <3> HIDE DEF s, t
    <3>5. CASE i = k
      BY <3>2, <3>5
    <3>6. CASE i < k
      BY <3>2, <3>3, <3>4, <3>6
    <3>7. CASE k < i
      BY <3>2, <3>3, <3>4, <3>7
    <3> QED  BY <3>4, <3>5, <3>6, <3>7
  <2> QED  BY <1>4, <2>4, <2>5
<1> QED  BY <1>3, <1>4

LEMMA NotStartedFirst ==
  ASSUME NEW x \in Nat
  PROVE  Before(NotStarted, TicketId(x))
<1> DEFINE t == TicketId(x)
           D == 0..(Base - 1)
<1>1. t \in Seq(D) /\ t # <<>> /\ Len(t) \in Nat
  BY IdIsSequence
<1> HIDE DEF t, D
<1>2. SubSeq(t, 1, 0) = <<>>
  BY SubSeqEmpty
<1>3. Len(<<>>) = 0 /\ SubSeq(<<>>, 1, 0) = <<>>
  BY SubSeqEmpty
<1>4. IsPrefix(<<>>, t)
  BY <1>1, <1>2, <1>3 DEF IsPrefix
<1>5. IsStrictPrefix(<<>>, t)
  BY <1>1, <1>4 DEF IsStrictPrefix
<1> QED  BY <1>5 DEF Before, NotStarted, t

-----------------------------------------------------------------------------
(* The client's pages *)

\* The tickets of a round sort as they were sold, and the absent start_after is before
\* all of them.
LEMMA TicketsInOrder ==
  ASSUME LotteryInv, NEW r \in DOMAIN rounds
  PROVE  /\ DOMAIN tickets[r] \subseteq Nat /\ IsFiniteSet(DOMAIN tickets[r])
         /\ \A i, j \in DOMAIN tickets[r] : Before(IdOf(i), IdOf(j)) <=> i < j
         /\ \A i \in DOMAIN tickets[r] : Before(NotStarted, IdOf(i))
<1>1. /\ tickets[r] \in Seq(Ticket) /\ Len(tickets[r]) <= MaxTicketsPerRound
      /\ Len(tickets[r]) \in Nat /\ DOMAIN tickets[r] = 1..Len(tickets[r])
  <2>1. tickets[r] \in Seq(Ticket)
    BY DEF LotteryInv, TypeOK
  <2>2. Len(tickets[r]) <= MaxTicketsPerRound
    BY DEF LotteryInv, RoundInv, RoundCounts
  <2> QED  BY <2>1, <2>2
<1>2. MaxTicketsPerRound \in Nat /\ MaxTicketsPerRound <= Base ^ TicketIdWidth
  BY LotteryAssumption, QueriesAssumption
<1>3. Base ^ TicketIdWidth \in Nat
  <2>1. TicketIdWidth \in Nat /\ 0 \in 0..TicketIdWidth /\ TicketIdWidth - 0 = TicketIdWidth
    BY QueriesAssumption
  <2> QED  BY <2>1, PowerType
<1>4. ASSUME NEW i \in DOMAIN tickets[r]
      PROVE  i - 1 \in Nat /\ i - 1 < Base ^ TicketIdWidth
  <2> DEFINE b == Base ^ TicketIdWidth
  <2>1. b \in Nat /\ MaxTicketsPerRound <= b
    BY <1>2, <1>3
  <2> HIDE DEF b
  <2>2. i - 1 \in Nat /\ i - 1 < b
    BY <1>1, <1>2, <2>1
  <2> QED  BY <2>2 DEF b
<1>5. ASSUME NEW i \in DOMAIN tickets[r], NEW j \in DOMAIN tickets[r]
      PROVE  Before(IdOf(i), IdOf(j)) <=> i < j
  <2>1. Before(TicketId(i - 1), TicketId(j - 1)) <=> i - 1 < j - 1
    BY <1>4, IdsInOrder
  <2>2. i \in Nat /\ j \in Nat
    BY <1>1
  <2> QED  BY <2>1, <2>2 DEF IdOf
<1>6. ASSUME NEW i \in DOMAIN tickets[r] PROVE Before(NotStarted, IdOf(i))
  BY <1>4, NotStartedFirst DEF IdOf
<1>7. DOMAIN tickets[r] \subseteq Nat
  BY <1>1
<1>8. IsFiniteSet(DOMAIN tickets[r])
  BY <1>1, FS_Interval
<1> QED  BY <1>5, <1>6, <1>7, <1>8

\* A page takes the tickets it is taken from in order, leaving none out, and all of
\* them unless it is full.
LEMMA PageInOrder ==
  ASSUME NEW n \in Nat, NEW set \in SUBSET Nat, IsFiniteSet(set),
         \A i, j \in set : Before(IdOf(i), IdOf(j)) <=> i < j
  PROVE  LET page == FirstOf(n, set)
         IN  /\ page \subseteq set /\ IsFiniteSet(page)
             /\ \A i \in page, j \in set : j < i => j \in page
             /\ Cardinality(page) < n => page = set
<1> DEFINE Rank(i) == {j \in set : Before(IdOf(j), IdOf(i))}
           page == FirstOf(n, set)
<1>1. page = {i \in set : Cardinality(Rank(i)) < n}
  BY DEF FirstOf
<1>2. \A i \in set : Rank(i) = {j \in set : j < i}
  OBVIOUS
<1> HIDE DEF Rank, page
<1>3. page \subseteq set
  BY <1>1
<1>4. IsFiniteSet(page)
  BY <1>3, FS_Subset
<1>5. \A i \in set : IsFiniteSet(Rank(i)) /\ Cardinality(Rank(i)) \in Nat
  <2> SUFFICES ASSUME NEW i \in set PROVE IsFiniteSet(Rank(i)) /\ Cardinality(Rank(i)) \in Nat
    OBVIOUS
  <2>1. Rank(i) \in SUBSET set
    BY <1>2
  <2>2. IsFiniteSet(Rank(i))
    BY <2>1, FS_Subset
  <2> QED  BY <2>2, FS_CardinalityType
<1>6. ASSUME NEW i \in page, NEW j \in set, j < i PROVE j \in page
  <2>1. i \in set /\ i \in Nat /\ j \in Nat
    BY <1>3
  <2>2. Rank(j) \in SUBSET Rank(i)
    <3>1. Rank(i) = {k \in set : k < i} /\ Rank(j) = {k \in set : k < j}
      BY <1>2, <2>1
    <3>2. \A k \in set : k < j => k < i
      BY <1>6, <2>1
    <3> QED  BY <3>1, <3>2
  <2>3. Cardinality(Rank(j)) <= Cardinality(Rank(i))
    BY <1>5, <2>1, <2>2, FS_Subset
  <2>4. Cardinality(Rank(i)) < n
    BY <1>1
  <2> QED  BY <1>1, <1>5, <2>1, <2>3, <2>4
<1>7. ASSUME Cardinality(page) < n, page # set PROVE FALSE
  <2>1. PICK m \in set \ page : \A j \in set \ page : m <= j
    <3>1. set \ page \in SUBSET Nat /\ set \ page # {}
      BY <1>3, <1>7
    <3> QED  BY <3>1, LeastNatural
  <2>2. \A j \in set : j \in Nat
    OBVIOUS
  <2>3. Rank(m) \in SUBSET page
    <3>1. Rank(m) = {j \in set : j < m}
      BY <1>2, <2>1
    <3>2. \A j \in set : j < m => j \in page
      BY <2>1, <2>2
    <3> QED  BY <3>1, <3>2
  <2>4. Cardinality(Rank(m)) <= Cardinality(page)
    BY <1>4, <2>3, FS_Subset
  <2>5. Cardinality(page) \in Nat
    BY <1>4, FS_CardinalityType
  <2> QED  BY <1>1, <1>5, <1>7, <2>1, <2>4, <2>5
<1> QED  BY <1>3, <1>4, <1>6, <1>7 DEF page

\* The last ticket of a page.
LEMMA GreatestNatural ==
  ASSUME NEW T \in SUBSET Nat, T # {}, NEW n \in Nat, \A x \in T : x <= n
  PROVE  \E x \in T : \A y \in T : y <= x
<1> DEFINE Rest == {n - x : x \in T}
<1>1. Rest \in SUBSET Nat /\ Rest # {}
  <2>1. \A x \in T : x \in Nat /\ n - x \in Nat
    OBVIOUS
  <2> QED  BY <2>1
<1>2. PICK d \in Rest : \A e \in Rest : d <= e
  <2> HIDE DEF Rest
  <2> QED  BY <1>1, LeastNatural
<1>3. PICK x \in T : d = n - x
  BY <1>2
<1>4. ASSUME NEW y \in T PROVE y <= x
  <2>1. n - y \in Rest
    OBVIOUS
  <2>2. n - x <= n - y
    BY <1>2, <1>3, <2>1
  <2>3. x \in Nat /\ y \in Nat
    OBVIOUS
  <2> QED  BY <2>2, <2>3
<1> QED  BY <1>4

\* A client q has been told exactly what it asked for up to its cursor.
Cursor(q) ==
  LET owned == OwnedBy(q.round, q.owner)
  IN  \/ q.told = {} /\ q.start_after = NotStarted
      \/ \E k \in owned : q.start_after = IdOf(k) /\ q.told = {j \in owned : j <= k}

ReaderGood(q) ==
  /\ q \in Reader /\ q.round \in DOMAIN rounds
  /\ q.answers = Cardinality(q.told)
  /\ Cursor(q)

ReaderInv == ReaderGood(reader)

\* The next page of a client takes it further without a gap, and to the end if it is
\* not full.
LEMMA AskKeeps ==
  ASSUME LotteryInv, NEW q, ReaderGood(q), Ask(q)
  PROVE  \E p : /\ reader' = p /\ ReaderGood(p)
                /\ p.done => p.told = OwnedBy(p.round, p.owner)
<1> DEFINE all == DOMAIN tickets[q.round]
           owned == OwnedBy(q.round, q.owner)
           set == After(q.round, q.start_after) \cap owned
           n == AtMost(q.limit)
           page == FirstOf(n, set)
           last == CHOOSE i \in page : \A j \in page : ~Before(IdOf(i), IdOf(j))
           p == [q EXCEPT
                  !.told = @ \cup page, !.answers = @ + Cardinality(page),
                  !.start_after = IF page = {} THEN @ ELSE IdOf(last),
                  !.done = Cardinality(page) < n]
<1>1. reader' = p
  BY DEF Ask, QueryTickets
<1>2. q \in Reader /\ q.round \in DOMAIN rounds /\ q.answers = Cardinality(q.told) /\ Cursor(q)
  BY DEF ReaderGood
<1>3. /\ all \subseteq Nat /\ IsFiniteSet(all)
      /\ \A i, j \in all : Before(IdOf(i), IdOf(j)) <=> i < j
      /\ \A i \in all : Before(NotStarted, IdOf(i))
  BY <1>2, TicketsInOrder
<1>4. owned \subseteq all
  BY DEF OwnedBy
<1>5. set = {j \in owned : Before(q.start_after, IdOf(j))}
  BY DEF After, OwnedBy
<1>6. q.limit \in Nat /\ n \in Nat
  BY <1>2, QueriesAssumption DEF Reader, AtMost
<1>7. set \subseteq owned /\ set \in SUBSET Nat /\ IsFiniteSet(set)
  <2>1. set \subseteq owned /\ set \in SUBSET all
    BY <1>4, <1>5
  <2> QED  BY <1>3, <2>1, FS_Subset
<1> HIDE DEF set
<1>8. /\ page \subseteq set /\ IsFiniteSet(page)
      /\ \A i \in page, j \in set : j < i => j \in page
      /\ Cardinality(page) < n => page = set
  <2>1. \A i, j \in set : Before(IdOf(i), IdOf(j)) <=> i < j
    BY <1>3, <1>4, <1>7
  <2> HIDE DEF n
  <2> QED  BY <1>6, <1>7, <2>1, PageInOrder
<1> HIDE DEF all, owned, page, n
<1>9. /\ q.told \subseteq owned
      /\ set = owned \ q.told
  <2>1. CASE q.told = {} /\ q.start_after = NotStarted
    BY <1>3, <1>4, <1>5, <2>1
  <2>2. ASSUME NEW k \in owned, q.start_after = IdOf(k), q.told = {j \in owned : j <= k}
        PROVE  q.told \subseteq owned /\ set = owned \ q.told
    <3>1. \A j \in owned : Before(q.start_after, IdOf(j)) <=> k < j
      BY <1>3, <1>4, <2>2
    <3>2. \A j \in owned : k < j <=> ~(j <= k)
      BY <1>3, <1>4
    <3> QED  BY <1>5, <2>2, <3>1, <3>2
  <2> QED  BY <1>2, <2>1, <2>2 DEF Cursor, owned
<1>10. /\ q.told \cap page = {} /\ IsFiniteSet(q.told)
       /\ Cardinality(q.told \cup page) = Cardinality(q.told) + Cardinality(page)
       /\ Cardinality(q.told) \in Nat /\ Cardinality(page) \in Nat
  <2>1. q.told \cap page = {}
    BY <1>8, <1>9
  <2>2. q.told \in SUBSET all
    BY <1>4, <1>9
  <2>3. IsFiniteSet(q.told)
    BY <1>3, <2>2, FS_Subset
  <2>4. Cardinality(q.told) \in Nat /\ Cardinality(page) \in Nat
    BY <1>8, <2>3, FS_CardinalityType
  <2>5. Cardinality(q.told \cup page)
          = Cardinality(q.told) + Cardinality(page) - Cardinality(q.told \cap page)
    BY <1>8, <2>3, FS_Union
  <2>6. Cardinality({}) = 0
    BY FS_EmptySet
  <2>7. Cardinality(q.told \cap page) = 0
    BY <2>1, <2>6
  <2>8. Cardinality(q.told \cup page) = Cardinality(q.told) + Cardinality(page)
    BY <2>4, <2>5, <2>7
  <2> QED  BY <2>1, <2>3, <2>4, <2>8
<1>11. ASSUME page # {}
       PROVE  /\ last \in page
              /\ q.told \cup page = {j \in owned : j <= last}
  <2>1. page \in SUBSET Nat /\ \A i, j \in page : Before(IdOf(i), IdOf(j)) <=> i < j
    BY <1>3, <1>4, <1>7, <1>8
  <2>2. PICK m \in page : \A j \in page : j <= m
    <3>1. IsFiniteSet(page) /\ page \in SUBSET Nat
      BY <1>8, <2>1
    <3>2. PICK b \in Nat : \A x \in page : x <= b
      <4>1. tickets[q.round] \in Seq(Ticket)
        BY <1>2 DEF LotteryInv, TypeOK
      <4>2. \A x \in all : x <= Len(tickets[q.round])
        BY <4>1 DEF all
      <4>3. Len(tickets[q.round]) \in Nat /\ \A x \in page : x <= Len(tickets[q.round])
        BY <1>4, <1>7, <1>8, <4>1, <4>2
      <4> QED  BY <4>3
    <3> QED  BY <1>11, <3>1, <3>2, GreatestNatural
  <2>3. \A j \in page : ~Before(IdOf(m), IdOf(j))
    <3>1. \A j \in page : j \in Nat /\ m \in Nat /\ ~(m < j)
      BY <2>1, <2>2
    <3> QED  BY <2>1, <3>1
  <2>4. last \in page /\ \A j \in page : ~Before(IdOf(last), IdOf(j))
    BY <2>3
  <2> HIDE DEF last
  <2>5. \A j \in page : j <= last
    <3>1. \A j \in page : j \in Nat /\ last \in Nat /\ ~(last < j)
      BY <2>1, <2>4
    <3> QED  BY <3>1
  <2>6. last \in owned /\ last \in Nat
    BY <1>7, <1>8, <2>1, <2>4
  <2>7. ASSUME NEW j \in owned, j <= last PROVE j \in q.told \cup page
    <3>1. CASE j \in set
      <4>1. j = last \/ j < last
        BY <1>3, <1>4, <2>6, <2>7
      <4> QED  BY <1>8, <2>4, <3>1, <4>1
    <3>2. CASE j \notin set
      BY <1>9, <3>2
    <3> QED  BY <3>1, <3>2
  <2>8. ASSUME NEW j \in q.told PROVE j <= last
    <3>1. j \in owned /\ j \in Nat
      BY <1>3, <1>4, <1>9
    <3>2. PICK k \in owned : q.start_after = IdOf(k) /\ q.told = {i \in owned : i <= k}
      BY <1>2, <2>8 DEF Cursor, owned
    <3>3. k \in Nat /\ j <= k
      BY <1>3, <1>4, <2>8, <3>2
    <3>4. last \notin q.told
      BY <1>8, <1>9, <2>4
    <3>5. ~(last <= k)
      BY <2>6, <3>2, <3>4
    <3> QED  BY <2>6, <3>1, <3>3, <3>5
  <2> QED  BY <1>7, <1>8, <1>9, <2>4, <2>5, <2>7, <2>8
<1> HIDE DEF last
<1>12. /\ p.round = q.round /\ p.owner = q.owner /\ p.told = q.told \cup page
       /\ p.answers = q.answers + Cardinality(page)
       /\ p.start_after = IF page = {} THEN q.start_after ELSE IdOf(last)
       /\ p.done = (Cardinality(page) < n)
  BY <1>2 DEF Reader
<1>13. p \in Reader
  <2>1. q.answers \in Nat /\ q.told \in SUBSET Nat /\ q.start_after \in Seq(0..(Base - 1))
    BY <1>2 DEF Reader
  <2>2. q.told \cup page \in SUBSET Nat
    BY <1>7, <1>8, <2>1
  <2>3. q.answers + Cardinality(page) \in Nat
    BY <1>10, <2>1
  <2>4. page # {} => IdOf(last) \in Seq(0..(Base - 1))
    <3> SUFFICES ASSUME page # {} PROVE IdOf(last) \in Seq(0..(Base - 1))
      OBVIOUS
    <3>1. last \in DOMAIN tickets[q.round]
      BY <1>4, <1>7, <1>8, <1>11 DEF all
    <3>2. tickets[q.round] \in Seq(Ticket)
      BY <1>2 DEF LotteryInv, TypeOK
    <3>3. last - 1 \in Nat
      BY <3>1, <3>2
    <3> QED  BY <3>3, IdIsSequence DEF IdOf
  <2>5. (IF page = {} THEN q.start_after ELSE IdOf(last)) \in Seq(0..(Base - 1))
    BY <2>1, <2>4
  <2>6. (Cardinality(page) < n) \in BOOLEAN
    OBVIOUS
  <2> DEFINE answers == q.answers + Cardinality(page)
             told == q.told \cup page
             start_after == IF page = {} THEN q.start_after ELSE IdOf(last)
             done == Cardinality(page) < n
  <2>7. /\ answers \in Nat /\ told \in SUBSET Nat /\ start_after \in Seq(0..(Base - 1))
        /\ done \in BOOLEAN
    BY <2>2, <2>3, <2>5, <2>6
  <2>8. p = [q EXCEPT !.told = told, !.answers = answers, !.start_after = start_after,
                      !.done = done]
    BY <1>2 DEF Reader
  <2> HIDE DEF p, answers, told, start_after, done
  <2> QED  BY <1>2, <2>7, <2>8 DEF Reader
<1>14. Cursor(p)
  <2>1. CASE page = {}
    BY <1>2, <1>12, <2>1 DEF Cursor, owned
  <2>2. CASE page # {}
    <3>1. last \in owned /\ p.start_after = IdOf(last) /\ p.told = {j \in owned : j <= last}
      BY <1>7, <1>8, <1>11, <1>12, <2>2
    <3> QED  BY <1>12, <3>1 DEF Cursor, owned
  <2> QED  BY <2>1, <2>2
<1>15. p.done => p.told = OwnedBy(p.round, p.owner)
  BY <1>8, <1>9, <1>12 DEF owned
<1>16. ReaderGood(p)
  BY <1>2, <1>10, <1>12, <1>13, <1>14 DEF ReaderGood
<1> HIDE DEF p
<1> QED  BY <1>1, <1>15, <1>16

\* A step of the contract leaves a client where it is: tickets are only added after
\* those there are.
LEMMA StepKeepsReader ==
  ASSUME LotteryInv, LotteryInv', ReaderGood(reader), [Next]_lotteryVars, UNCHANGED reader
  PROVE  ReaderGood(reader)'
<1> DEFINE q == reader
           ts == tickets[q.round]
           sold == tickets'[q.round]
<1>1. q \in Reader /\ q.round \in DOMAIN rounds /\ q.answers = Cardinality(q.told) /\ Cursor(q)
  BY DEF ReaderGood
<1>2. /\ q.round \in DOMAIN rounds'
      /\ \A i \in DOMAIN ts : i \in DOMAIN sold /\ sold[i].owner = ts[i].owner
  BY <1>1, StepKept DEF RoundsKept, RoundKept
<1>3. /\ DOMAIN ts = 1..Len(ts) /\ Len(ts) \in Nat
      /\ DOMAIN sold = 1..Len(sold) /\ Len(sold) \in Nat
  <2>1. ts \in Seq(Ticket)
    BY <1>1 DEF LotteryInv, TypeOK
  <2>2. sold \in Seq(Ticket)
    BY <1>2 DEF LotteryInv, TypeOK
  <2> HIDE DEF ts, sold
  <2> QED  BY <2>1, <2>2
<1> DEFINE owned == OwnedBy(q.round, q.owner)
           later == {i \in DOMAIN sold : q.owner = Nobody \/ sold[i].owner = q.owner}
<1>4. owned = {i \in DOMAIN ts : q.owner = Nobody \/ ts[i].owner = q.owner}
  BY DEF OwnedBy
<1>5. OwnedBy(q.round, q.owner)' = later
  BY DEF OwnedBy
<1> HIDE DEF ts, sold, owned, later
<1>6. ASSUME NEW k \in owned
      PROVE  k \in later /\ {j \in owned : j <= k} = {j \in later : j <= k}
  <2>1. k \in DOMAIN ts /\ k \in later
    BY <1>2, <1>4 DEF later
  <2>2. ASSUME NEW j \in later, j <= k PROVE j \in owned
    <3>1. j \in DOMAIN sold
      BY DEF later
    <3>2. j \in DOMAIN ts
      BY <1>3, <2>1, <2>2, <3>1
    <3> QED  BY <1>2, <1>4, <3>2 DEF later
  <2>3. owned \subseteq later
    BY <1>2, <1>4 DEF later
  <2> QED  BY <2>1, <2>2, <2>3
<1>7. Cursor(q)'
  <2>1. CASE q.told = {} /\ q.start_after = NotStarted
    BY <2>1 DEF Cursor, NotStarted
  <2>2. ASSUME NEW k \in owned, q.start_after = IdOf(k), q.told = {j \in owned : j <= k}
        PROVE  Cursor(q)'
    <3>1. k \in later /\ q.told = {j \in later : j <= k}
      BY <1>6, <2>2
    <3>2. IdOf(k)' = IdOf(k)
      BY DEF IdOf, TicketId
    <3>3. q'.start_after = IdOf(k) /\ q'.told = {j \in later : j <= k} /\ q' = q
      BY <2>2, <3>1
    <3> QED  BY <1>5, <3>1, <3>2, <3>3 DEF Cursor
  <2> QED  BY <1>1, <2>1, <2>2 DEF Cursor, owned
<1>8. (q \in Reader)'
  BY <1>1 DEF Reader, Maybe
<1> QED  BY <1>1, <1>2, <1>7, <1>8 DEF ReaderGood

LEMMA ReaderNext ==
  ASSUME LotteryInv, LotteryInv', ReaderInv, [QueriesNext]_<<lotteryVars, reader>>
  PROVE  /\ ReaderInv'
         /\ reader'.done /\ reader' # reader => reader'.told = OwnedBy(reader'.round, reader'.owner)
<1>1. CASE [Next]_lotteryVars /\ UNCHANGED reader
  BY <1>1, StepKeepsReader DEF ReaderInv
<1>2. ASSUME NEW q, ReaderGood(q), Ask(q), UNCHANGED lotteryVars
      PROVE  /\ ReaderInv'
             /\ reader'.done => reader'.told = OwnedBy(reader'.round, reader'.owner)
  <2>1. PICK p : /\ reader' = p /\ ReaderGood(p)
                 /\ p.done => p.told = OwnedBy(p.round, p.owner)
    BY <1>2, AskKeeps
  <2>2. ReaderInv'
    BY <1>2, <2>1 DEF ReaderInv, ReaderGood, Cursor, OwnedBy, IdOf, TicketId, NotStarted, Reader, Maybe, lotteryVars
  <2> QED  BY <2>1, <2>2
<1>3. CASE /\ \E r \in DOMAIN rounds, owner \in Maybe, limit \in Limits : Start(r, owner, limit)
           /\ UNCHANGED lotteryVars
  <2>1. PICK r \in DOMAIN rounds, owner \in Maybe, limit \in Limits : Start(r, owner, limit)
    BY <1>3
  <2> DEFINE q == [round |-> r, owner |-> owner, limit |-> limit, start_after |-> NotStarted,
                   told |-> {}, answers |-> 0, done |-> FALSE]
  <2>2. Ask(q)
    BY <2>1 DEF Start
  <2>3. r \in 1..MaxRounds
    BY BasicsAssumption DEF LotteryInv, TypeOK
  <2>4. NotStarted \in Seq(0..(Base - 1))
    BY DEF NotStarted
  <2>5. q \in Reader
    BY <2>3, <2>4 DEF Reader
  <2>6. Cardinality({}) = 0
    BY FS_EmptySet
  <2>7. ReaderGood(q)
    BY <2>5, <2>6 DEF ReaderGood, Cursor
  <2> HIDE DEF q
  <2> QED  BY <1>2, <1>3, <2>2, <2>7
<1>4. CASE Continue /\ UNCHANGED lotteryVars
  BY <1>2, <1>4 DEF Continue, ReaderInv
<1> QED  BY <1>1, <1>3, <1>4 DEF QueriesNext

LEMMA ReaderInitInv == QueriesInit => ReaderInv
<1> SUFFICES ASSUME QueriesInit PROVE ReaderInv
  OBVIOUS
<1>1. LotteryInv
  BY InitInv DEF QueriesInit
<1>2. 1 \in DOMAIN rounds /\ 1 \in 1..MaxRounds
  BY <1>1, BasicsAssumption DEF LotteryInv, TypeOK
<1>3. (CHOOSE l \in Limits : TRUE) \in Limits
  BY QueriesAssumption
<1>4. NotStarted \in Seq(0..(Base - 1))
  BY DEF NotStarted
<1>5. Cardinality({}) = 0
  BY FS_EmptySet
<1> DEFINE l == CHOOSE l \in Limits : TRUE
<1>6. /\ l \in Limits
      /\ reader = [round |-> 1, owner |-> Nobody, limit |-> l,
                   start_after |-> NotStarted, told |-> {}, answers |-> 0, done |-> TRUE]
  BY <1>3 DEF QueriesInit
<1> HIDE DEF l
<1>7. reader \in Reader
  BY <1>2, <1>4, <1>6 DEF Reader, Maybe
<1> QED  BY <1>2, <1>5, <1>6, <1>7 DEF ReaderInv, ReaderGood, Cursor

LEMMA ReaderInvariant == QueriesSpec => [](LotteryInv /\ ReaderInv)
<1>1. QueriesInit => ReaderInv
  BY ReaderInitInv
<1>2. LotteryInv /\ LotteryInv' /\ ReaderInv /\ [QueriesNext]_<<lotteryVars, reader>> => ReaderInv'
  BY ReaderNext
<1> QED  BY <1>1, <1>2, QueriesInvariant, PTL DEF QueriesSpec

\* However many sales, draws and claims fall between the pages of a client, and
\* whichever round, owner and limits it asks for, it is told no ticket twice and
\* skips none (query_tickets with start_after).
THEOREM PagesAreExact == QueriesSpec => []PagesExact
<1>1. LotteryInv /\ ReaderInv => PagesExact
  <2> SUFFICES ASSUME LotteryInv, ReaderInv PROVE PagesExact
    OBVIOUS
  <2> DEFINE owned == OwnedBy(reader.round, reader.owner)
  <2>1. reader.round \in DOMAIN rounds /\ reader.answers = Cardinality(reader.told) /\ Cursor(reader)
    BY DEF ReaderInv, ReaderGood
  <2>2. owned \subseteq Nat
    <3>1. DOMAIN tickets[reader.round] \subseteq Nat
      BY <2>1, TicketsInOrder
    <3> QED  BY <3>1 DEF OwnedBy
  <2> HIDE DEF owned
  <2>3. CASE reader.told = {}
    BY <2>1, <2>3 DEF PagesExact, owned
  <2>4. CASE reader.told # {}
    <3>1. PICK k \in owned : reader.told = {j \in owned : j <= k}
      BY <2>1, <2>4 DEF Cursor, owned
    <3>2. \A i \in reader.told, j \in owned \ reader.told : i < j
      <4>1. \A i, j \in owned : i <= k /\ ~(j <= k) => i < j
        BY <2>2
      <4> QED  BY <3>1, <4>1
    <3> QED  BY <2>1, <3>1, <3>2 DEF PagesExact, owned
  <2> QED  BY <2>3, <2>4
<1> QED  BY <1>1, ReaderInvariant, PTL

\* A client that stops at the first page that is not full knows every ticket it asked
\* for that there was when it was answered.
THEOREM LastPageIsComplete == QueriesSpec => LastPageComplete
<1>1. LotteryInv /\ LotteryInv' /\ ReaderInv /\ [QueriesNext]_<<lotteryVars, reader>>
        => [reader'.done /\ reader' # reader =>
              reader'.told = OwnedBy(reader'.round, reader'.owner)]_<<lotteryVars, reader>>
  BY ReaderNext
<1> QED  BY <1>1, ReaderInvariant, PTL DEF QueriesSpec, LastPageComplete
=============================================================================
