------------------------------ MODULE Lottery ------------------------------
(***************************************************************************)
(* The lottery subsystem of contracts/winsaf/src/contract.rs: rounds, the  *)
(* tickets of each round, their prizes, and the "Must Be Won" streak.      *)
(*                                                                         *)
(* Every message is one atomic transaction, so every handler is one action *)
(* (an error rolls the transaction back: no step).  The other subsystems   *)
(* reach the lottery through the parameters of the actions: the amount a   *)
(* sale adds to the pool, the configuration in force (an admin may change  *)
(* it between any two messages), the winning numbers of a draw, and the    *)
(* escrow folded into a new round.  Module Winsaf conjoins the actions     *)
(* with those of the other subsystems; Next closes them over every value.  *)
(***************************************************************************)
EXTENDS Sequences, Basics, PrizeTiers, Schedule

CONSTANTS
  TicketPrice,         \* Config.ticket_price.amount
  Split,               \* Config.split
  Configs,             \* the values of the rest of Config the lottery reads
  TopUps,              \* amounts of a promotional top-up
  Escrows,             \* amounts a new round may find in escrow, 0 for none
  Backfills,           \* amounts migrate may declare as rolled over
  MaxTicketsPerTx,     \* MAX_TICKETS_PER_TX
  MaxTicketsPerRound,  \* MAX_TICKETS_PER_ROUND
  StartTime,           \* block time of instantiate
  Horizon,             \* bound of the model on the block time
  MaxTopUp             \* bound of the model on the top-ups of one round

LotteryConfig ==
  [draw_interval : Nat \ {0}, schedule_anchor : Nat \cup {NoAnchor},
   max_dry_rounds : Nat, rollover_on_no_winner : BOOLEAN]

ASSUME LotteryAssumption ==
  /\ TicketPrice \in Nat \ {0}
  /\ Split \in FundSplitBps /\ Validate(Split)
  /\ Configs \subseteq LotteryConfig
  /\ TopUps \subseteq Nat \ {0} /\ Escrows \subseteq Nat
  /\ Backfills \subseteq Nat
  /\ MaxTicketsPerTx \in Nat /\ MaxTicketsPerRound \in Nat
  /\ MaxTopUp \in Nat
  /\ StartTime \in Nat /\ Horizon \in Nat /\ StartTime <= Horizon

MIN_PLAYERS_FOR_DRY_STREAK == 2

VARIABLES
  now,           \* block time, seconds
  current_round, \* CURRENT_ROUND
  rounds,        \* ROUNDS: round id -> round
  tickets,       \* TICKETS: round id -> sequence of tickets; its length is TICKET_SEQ
  dry_streak     \* DRY_STREAK

lotteryVars == <<now, current_round, rounds, tickets, dry_streak>>

Statuses == {"Open", "Drawing", "Settled", "Cancelled"}

Round ==
  [status : Statuses, pool : Nat, ticket_count : Nat, player_count : Nat,
   closes_at : Nat, winning_numbers : Draws \cup {{}}, prize_tiers : [Tiers -> Nat],
   dry_streak_after : Nat, top_up_total : Nat, rollover_in : Nat]

Ticket ==
  [owner : Accounts, numbers : Picks, matches : Nat, prize : Nat, claimed : BOOLEAN]

TypeOK ==
  /\ now \in StartTime..Horizon
  /\ current_round \in 1..MaxRounds
  /\ rounds \in [1..current_round -> Round]
  /\ tickets \in [1..current_round -> Seq(Ticket)]
  /\ dry_streak \in Nat

-----------------------------------------------------------------------------
(* Opening a round: instantiate, and open_next_round for every later one.  *)

\* Round::new_open_with_top_up; {} stands for no winning numbers yet.
NewOpen(closes_at, rollover, top_up) ==
  [status |-> "Open", pool |-> rollover + top_up, ticket_count |-> 0, player_count |-> 0,
   closes_at |-> closes_at, winning_numbers |-> {}, prize_tiers |-> NoPrizes,
   dry_streak_after |-> 0, top_up_total |-> top_up, rollover_in |-> rollover]

Init ==
  \E config \in Configs :
    /\ now = StartTime
    /\ Schedulable(config, now)
    /\ current_round = 1
    /\ rounds = [r \in {1} |-> NewOpen(NextCloseAt(config, now), 0, 0)]
    /\ tickets = [r \in {1} |-> <<>>]
    /\ dry_streak = 0

\* The maps after round r became closed with tickets ts and round r + 1 opened.
OpenNextRound(r, closed, ts, config, rollover, pending) ==
  LET next == r + 1
      ids  == DOMAIN rounds \cup {next}
      opened == NewOpen(NextCloseAt(config, now), rollover, pending)
  IN  /\ next <= MaxRounds
      /\ Schedulable(config, now)
      /\ current_round' = next
      /\ rounds' = [x \in ids |->
           IF x = next THEN opened ELSE IF x = r THEN closed ELSE rounds[x]]
      /\ tickets' = [x \in ids |->
           IF x = next THEN <<>> ELSE IF x = r THEN ts ELSE tickets[x]]

-----------------------------------------------------------------------------
(* Selling *)

Owners(ts) == {ts[i].owner : i \in DOMAIN ts}

\* The number sets of one purchase: chosen by the buyer or quick-picked.
Purchases == UNION {[1..n -> Picks] : n \in 1..MaxTicketsPerTx}

NewTicket(owner, numbers) ==
  [owner |-> owner, numbers |-> numbers, matches |-> 0, prize |-> 0, claimed |-> FALSE]

\* With a slip, for the checks: the cap is compared before the sale is added.
MintPastCap(owner, picks, amount) ==
  LET r == current_round
  IN  /\ rounds[r].status = "Open"
      /\ rounds[r].ticket_count <= MaxTicketsPerRound
      /\ rounds' = [rounds EXCEPT ![r].pool = @ + amount, ![r].ticket_count = @ + Len(picks),
           ![r].player_count = IF owner \in Owners(tickets[r]) THEN @ ELSE @ + 1]
      /\ tickets' = [tickets EXCEPT
           ![r] = @ \o [i \in 1..Len(picks) |-> NewTicket(owner, picks[i])]]
      /\ UNCHANGED <<now, current_round, dry_streak>>

\* mint_tickets into the current round, whose pool the sale grows by amount.
\* A first ticket makes its owner a player of the round (PLAYERS).
Mint(owner, picks, amount) ==
  LET r == current_round
      minted == [i \in 1..Len(picks) |-> NewTicket(owner, picks[i])]
  IN  /\ rounds[r].status = "Open"
      /\ rounds[r].ticket_count + Len(picks) <= MaxTicketsPerRound
      /\ rounds' = [rounds EXCEPT
           ![r].pool = @ + amount,
           ![r].ticket_count = @ + Len(picks),
           ![r].player_count = IF owner \in Owners(tickets[r]) THEN @ ELSE @ + 1]
      /\ tickets' = [tickets EXCEPT ![r] = @ \o minted]
      /\ UNCHANGED <<now, current_round, dry_streak>>

\* What a sale of n tickets costs.
Cost(n) == TicketPrice * n

\* With a slip: without a referrer the referral cut goes nowhere.
PrizeCutOnly(n, referred) == Apply(Split, Cost(n)).prize

\* The prize cut of a sale; without a referrer it absorbs the referral cut.
PrizeCut(n, referred) ==
  LET split == Apply(Split, Cost(n))
  IN  IF referred THEN split.prize ELSE split.prize + split.referral

BuyTickets(buyer, picks, referred) == Mint(buyer, picks, PrizeCut(Len(picks), referred))

\* GrantBonusTicket and GrantBonusTicketFromTreasury: all of it goes to the pool.
GrantBonusTicket(owner, picks) == Mint(owner, picks, Cost(Len(picks)))

\* The branch of TopUpPool that finds the round.
TopUpPool(r, amount) ==
  /\ r \in DOMAIN rounds
  /\ rounds[r].status = "Open"
  /\ rounds[r].top_up_total + amount <= MaxTopUp
  /\ rounds' = [rounds EXCEPT ![r].pool = @ + amount, ![r].top_up_total = @ + amount]
  /\ UNCHANGED <<now, current_round, tickets, dry_streak>>

-----------------------------------------------------------------------------
(* Closing, drawing, cancelling *)

CloseRound ==
  /\ rounds[current_round].status = "Open"
  /\ now >= rounds[current_round].closes_at
  /\ rounds' = [rounds EXCEPT ![current_round].status = "Drawing"]
  /\ UNCHANGED <<now, current_round, tickets, dry_streak>>

\* A round with too few players neither grows nor resets the streak.
CountsTowardStreak(round) == round.player_count >= MIN_PLAYERS_FOR_DRY_STREAK

\* With a slip: the draw that reaches the cap is not forced yet.
ForceRolldownLate(round, counts, config) ==
  /\ CountsTowardStreak(round)
  /\ counts[6] = 0
  /\ config.max_dry_rounds > 0
  /\ dry_streak + 1 > config.max_dry_rounds

ForceRolldown(round, counts, config) ==
  /\ CountsTowardStreak(round)
  /\ counts[6] = 0
  /\ config.max_dry_rounds > 0
  /\ dry_streak + 1 >= config.max_dry_rounds

\* With a slip: a share that rounds to zero counts as paid.
ForcedPaidNothing(round, counts, config) ==
  ForceRolldown(round, counts, config) /\ RolldownTier(counts) # 0

\* Whether a forced rolldown hands anything out.
ForcedPaid(round, counts, config) ==
  ForceRolldown(round, counts, config) /\ RolldownShare(round.pool, counts) > 0

\* All that execute_draw computes for round r and the given winning numbers.
DrawOutcome(r, winning, config) ==
  LET round  == rounds[r]
      counts == TierCounts(tickets[r], winning)
      tiers  == PayoutTiers(round.pool, counts, ForceRolldown(round, counts, config))
  IN  [tiers |-> tiers,
       distributed |-> Distributed(tiers, counts),
       streak |-> IF counts[6] > 0 \/ ForcedPaid(round, counts, config) THEN 0
                  ELSE IF CountsTowardStreak(round) THEN dry_streak + 1
                  ELSE dry_streak]

\* The second pass over the tickets of r.
Drawn(r, winning, tiers) ==
  [i \in DOMAIN tickets[r] |->
    LET m == CountMatches(tickets[r][i].numbers, winning)
    IN  [tickets[r][i] EXCEPT !.matches = m, !.prize = PayoutForMatches(tiers, m)]]

\* What the draw of r leaves undistributed: rolled over, or swept into the treasury.
Leftover(r, winning, config) == rounds[r].pool - DrawOutcome(r, winning, config).distributed

Draw(r, winning, config, pending) ==
  LET outcome == DrawOutcome(r, winning, config)
      settled == [rounds[r] EXCEPT
                   !.status = "Settled", !.pool = outcome.distributed,
                   !.winning_numbers = winning, !.prize_tiers = outcome.tiers,
                   !.dry_streak_after = outcome.streak]
      rollover == IF config.rollover_on_no_winner THEN Leftover(r, winning, config) ELSE 0
  IN  /\ r \in DOMAIN rounds
      /\ rounds[r].status = "Drawing"
      /\ outcome.distributed <= rounds[r].pool
      /\ dry_streak' = outcome.streak
      /\ OpenNextRound(r, settled, Drawn(r, winning, outcome.tiers), config, rollover, pending)
      /\ UNCHANGED now

\* Round::ticket_contributions, with the saturation of its subtractions.
SatSub(a, b) == IF a >= b THEN a - b ELSE 0

\* With a slip: the inherited jackpot and the top-ups are refunded too.
ContributionsOfPool(round) == round.pool

TicketContributions(round) ==
  SatSub(SatSub(round.pool, round.rollover_in), round.top_up_total)

\* With a slip: rounded up.
RefundRoundedUp(round) ==
  IF round.ticket_count = 0 THEN 0
  ELSE (TicketContributions(round) + round.ticket_count - 1) \div round.ticket_count

RefundPerTicket(round) ==
  IF round.ticket_count = 0 THEN 0 ELSE TicketContributions(round) \div round.ticket_count

\* A zero refund leaves the tickets alone.
Refunded(r, per_ticket) ==
  IF per_ticket = 0 THEN tickets[r]
  ELSE [i \in DOMAIN tickets[r] |->
         [tickets[r][i] EXCEPT !.prize = per_ticket, !.matches = 0, !.claimed = FALSE]]

\* With a slip: the status is not looked at.
CancelRoundAnyStatus(r, config, pending) ==
  LET per_ticket == RefundPerTicket(rounds[r])
      assigned   == per_ticket * Len(tickets[r])
      cancelled  == [rounds[r] EXCEPT !.status = "Cancelled", !.pool = assigned]
  IN  /\ assigned <= rounds[r].pool
      /\ OpenNextRound(r, cancelled, Refunded(r, per_ticket), config,
                       rounds[r].pool - assigned, pending)
      /\ UNCHANGED <<now, dry_streak>>

\* With a slip: the status is not changed.
CancelRoundUnmarked(r, config, pending) ==
  LET per_ticket == RefundPerTicket(rounds[r])
      assigned   == per_ticket * Len(tickets[r])
  IN  /\ rounds[r].status = "Drawing"
      /\ assigned <= rounds[r].pool
      /\ OpenNextRound(r, [rounds[r] EXCEPT !.pool = assigned], Refunded(r, per_ticket),
                       config, rounds[r].pool - assigned, pending)
      /\ UNCHANGED <<now, dry_streak>>

\* One refund per stored ticket: assigned is what they sum to.
CancelRound(r, config, pending) ==
  LET per_ticket == RefundPerTicket(rounds[r])
      assigned   == per_ticket * Len(tickets[r])
      cancelled  == [rounds[r] EXCEPT !.status = "Cancelled", !.pool = assigned]
  IN  /\ r \in DOMAIN rounds
      /\ rounds[r].status = "Drawing"
      /\ assigned <= rounds[r].pool
      /\ OpenNextRound(r, cancelled, Refunded(r, per_ticket), config,
                       rounds[r].pool - assigned, pending)
      /\ UNCHANGED <<now, dry_streak>>

-----------------------------------------------------------------------------
(* Claiming, migrating, time *)

\* With a slip: a claim does not look at claimed, nor at what the pool holds.
ClaimRewardUnchecked(sender, r, i) ==
  /\ tickets[r][i].owner = sender
  /\ tickets[r][i].prize # 0
  /\ tickets' = [tickets EXCEPT ![r][i].claimed = TRUE]
  /\ rounds' = [rounds EXCEPT ![r].pool = @ - tickets[r][i].prize]
  /\ UNCHANGED <<now, current_round, dry_streak>>

ClaimReward(sender, r, i) ==
  /\ r \in DOMAIN rounds /\ i \in DOMAIN tickets[r]
  /\ tickets[r][i].owner = sender
  /\ tickets[r][i].prize # 0
  /\ ~tickets[r][i].claimed
  /\ tickets[r][i].prize <= rounds[r].pool
  /\ tickets' = [tickets EXCEPT ![r][i].claimed = TRUE]
  /\ rounds' = [rounds EXCEPT ![r].pool = @ - tickets[r][i].prize]
  /\ UNCHANGED <<now, current_round, dry_streak>>

\* With a slip: top-ups may be declared as rolled over.
MigrateUnbounded(backfill, reset_dry_streak) ==
  /\ \A amount \in backfill :
       /\ amount <= rounds[current_round].pool
       /\ rounds' = [rounds EXCEPT ![current_round].rollover_in = amount]
  /\ backfill = {} => UNCHANGED rounds
  /\ dry_streak' = IF reset_dry_streak THEN 0 ELSE dry_streak
  /\ UNCHANGED <<now, current_round, tickets>>

\* The part of migrate that rewrites lottery state: the rollover backfill of
\* the current round (a set: none or one amount) and the reset of the streak.
Migrate(backfill, reset_dry_streak) ==
  LET round == rounds[current_round]
  IN  /\ \A amount \in backfill : amount <= SatSub(round.pool, round.top_up_total)
      /\ rounds' = [rounds EXCEPT ![current_round].rollover_in =
                      IF backfill = {} THEN @ ELSE CHOOSE amount \in backfill : TRUE]
      /\ dry_streak' = IF reset_dry_streak THEN 0 ELSE dry_streak
      /\ UNCHANGED <<now, current_round, tickets>>

Tick ==
  /\ now < Horizon
  /\ now' = now + 1
  /\ UNCHANGED <<current_round, rounds, tickets, dry_streak>>

-----------------------------------------------------------------------------
Next ==
  \/ \E buyer \in Accounts, picks \in Purchases, referred \in BOOLEAN :
       BuyTickets(buyer, picks, referred)
  \/ \E owner \in Accounts, picks \in Purchases : GrantBonusTicket(owner, picks)
  \/ \E r \in DOMAIN rounds, amount \in TopUps : TopUpPool(r, amount)
  \/ CloseRound
  \/ \E r \in DOMAIN rounds, winning \in Draws, config \in Configs, pending \in Escrows :
       Draw(r, winning, config, pending)
  \/ \E r \in DOMAIN rounds, config \in Configs, pending \in Escrows :
       CancelRound(r, config, pending)
  \/ \E r \in DOMAIN rounds : \E i \in DOMAIN tickets[r] :
       ClaimReward(tickets[r][i].owner, r, i)
  \/ \E backfill \in {{}} \cup {{amount} : amount \in Backfills}, reset \in BOOLEAN :
       Migrate(backfill, reset)
  \/ Tick

Spec == Init /\ [][Next]_lotteryVars
-----------------------------------------------------------------------------
(* Properties *)

InFlight(round) == round.status \in {"Open", "Drawing"}

\* Exactly the current round is in flight: CURRENT_ROUND, which every sale and
\* every close reads, and the status that Draw, CancelRound and TopUpPool read
\* of the round they are given never disagree, so no draw or cancel of an older
\* round can overwrite a later one in open_next_round.
OneRoundInFlight == \A r \in DOMAIN rounds : InFlight(rounds[r]) <=> r = current_round

RoundCounts(round, ts) ==
  /\ round.ticket_count = Len(ts)
  /\ round.player_count = Cardinality(Owners(ts))
  /\ round.ticket_count <= MaxTicketsPerRound

\* The counters that divide a refund (ticket_count) and that arm the rolldown
\* (player_count) agree with the tickets that are stored, and however purchases
\* and grants interleave these never pass the cap the loops of a draw rely on.
CountsAgree == \A r \in DOMAIN rounds : RoundCounts(rounds[r], tickets[r])

RoundCarries(round) ==
  InFlight(round) => round.rollover_in + round.top_up_total <= round.pool

\* While a round is in flight, the money it did not take in from tickets is
\* still in its pool: the subtractions of ticket_contributions never saturate.
CarriedWithinPool == \A r \in DOMAIN rounds : RoundCarries(rounds[r])

Unclaimed(ts) == {i \in DOMAIN ts : ~ts[i].claimed}
UnclaimedIn(ts, t) == {i \in Unclaimed(ts) : TierOf(ts[i].matches) = t}
UnclaimedCounts(ts) == [t \in Tiers |-> Cardinality(UnclaimedIn(ts, t))]

SettledBacked(round, ts) ==
  /\ \A i \in DOMAIN ts : ts[i].prize = PayoutForMatches(round.prize_tiers, ts[i].matches)
  /\ round.pool = Distributed(round.prize_tiers, UnclaimedCounts(ts))

CancelledBacked(round, ts) ==
  \E refund \in {0} \cup {ts[i].prize : i \in DOMAIN ts} :
    /\ \A i \in DOMAIN ts : ts[i].prize = refund
    /\ round.pool = refund * Cardinality(Unclaimed(ts))

RoundBacked(round, ts) ==
  /\ round.status = "Settled" => SettledBacked(round, ts)
  /\ round.status = "Cancelled" => CancelledBacked(round, ts)

\* The pool a finished round retains is exactly what its unclaimed prizes sum
\* to: tier by tier in a settled round, one refund per ticket in a cancelled one.
PoolBacksPrizes == \A r \in DOMAIN rounds : RoundBacked(rounds[r], tickets[r])

RoundFresh(round, ts) ==
  InFlight(round) => \A i \in DOMAIN ts : ts[i].prize = 0 /\ ~ts[i].claimed

\* A round that can still be drawn or cancelled owes nothing and has paid nothing:
\* no ticket reaches its draw, or its refund, with a claim already made on it.
NothingOwedInFlight == \A r \in DOMAIN rounds : RoundFresh(rounds[r], tickets[r])

\* The inductive invariant: what has to hold of every round for each of the
\* invariants to survive a step.
RoundInv(round, ts) ==
  RoundCounts(round, ts) /\ RoundCarries(round) /\ RoundFresh(round, ts) /\ RoundBacked(round, ts)

LotteryInv ==
  /\ TypeOK
  /\ OneRoundInFlight
  /\ \A r \in DOMAIN rounds : RoundInv(rounds[r], tickets[r])

\* No claim on a finished round ever meets PoolUnderflow.
ClaimsCovered ==
  \A r \in DOMAIN rounds : \A i \in DOMAIN tickets[r] :
    ~InFlight(rounds[r]) /\ ~tickets[r][i].claimed => tickets[r][i].prize <= rounds[r].pool

\* Whatever numbers come up and whatever the configuration, neither the draw nor
\* the cancellation of a closed round can promise more than the pool: the
\* accounting errors of the two handlers cannot trap a round in Drawing.
ResolutionCovered ==
  \A r \in DOMAIN rounds :
    rounds[r].status = "Drawing" =>
      /\ \A winning \in Draws, config \in Configs :
           DrawOutcome(r, winning, config).distributed <= rounds[r].pool
      /\ RefundPerTicket(rounds[r]) * Len(tickets[r]) <= rounds[r].pool

\* A sold ticket is never lost or changed hands, a claim is never undone, a round
\* that is closed takes no further ticket, so that what a reveal or a draw counts
\* is what was sold, and a finished round keeps its status and what it owes.
PrizesFinal ==
  [][\A r \in DOMAIN rounds :
       /\ r \in DOMAIN rounds'
       /\ \A i \in DOMAIN tickets[r] :
            /\ i \in DOMAIN tickets'[r]
            /\ tickets'[r][i].owner = tickets[r][i].owner
            /\ tickets'[r][i].numbers = tickets[r][i].numbers
            /\ tickets[r][i].claimed => tickets'[r][i].claimed
       /\ rounds[r].status # "Open" => Len(tickets'[r]) = Len(tickets[r])
       /\ ~InFlight(rounds[r]) =>
            /\ rounds'[r].status = rounds[r].status
            /\ \A i \in DOMAIN tickets[r] : tickets'[r][i].prize = tickets[r][i].prize
    ]_lotteryVars

\* Cancelling a round hands its buyers at most what its tickets paid in; the
\* jackpot it had inherited and its promotional money reach the next round.
JackpotCarriedForward ==
  [][\A r \in DOMAIN rounds :
       rounds[r].status = "Drawing" /\ rounds'[r].status = "Cancelled" =>
         /\ rounds'[r].pool + rounds'[r + 1].rollover_in = rounds[r].pool
         /\ rounds'[r + 1].rollover_in >= rounds[r].rollover_in + rounds[r].top_up_total
    ]_lotteryVars

\* The tickets of r that are in the best tier any of them reached.
BestTickets(r) ==
  LET tier(i) == TierOf(tickets[r][i].matches)
  IN  {i \in DOMAIN tickets[r] : tier(i) # 0 /\ \A j \in DOMAIN tickets[r] : tier(j) <= tier(i)}

\* "Must Be Won": a draw that would bring the streak to the cap pays the jackpot
\* allocation out, but for less than a unit per best ticket, and ends the streak; it
\* lets the streak grow only if no ticket is in a tier or the allocation is not worth
\* a unit to each of the best, and then all of it is left over for the next round.
MustBeWon ==
  [][\A r \in DOMAIN rounds :
       /\ rounds[r].status = "Drawing" /\ rounds'[r].status = "Settled"
       /\ CountsTowardStreak(rounds[r])
       /\ \A config \in Configs :
            config.max_dry_rounds > 0 /\ dry_streak + 1 >= config.max_dry_rounds
       => LET jackpot == Allocation(rounds[r].pool, 6)
              best    == BestTickets(r)'
              hit     == \E i \in best : tickets'[r][i].matches >= 6
          IN  IF hit \/ (best # {} /\ Cardinality(best) <= jackpot)
                THEN dry_streak' = 0 /\ rounds'[r].pool + Cardinality(best) > jackpot
                ELSE dry_streak' = dry_streak + 1 /\ rounds'[r].pool + jackpot <= rounds[r].pool
    ]_lotteryVars
-----------------------------------------------------------------------------
(* What a comment says of the lottery, and a run refutes.                    *)

\* What the comment on the forced rolldown in execute_draw says: in a round that
\* counts toward the streak it always finds a winner below the jackpot.
ForcedRolldownFindsWinner ==
  [][\A r \in DOMAIN rounds :
       rounds[r].status = "Drawing" /\ rounds'[r].status = "Settled" =>
         LET counts == TierCounts(tickets[r], rounds'[r].winning_numbers)
         IN  (\A config \in Configs : ForceRolldown(rounds[r], counts, config))
               => RolldownTier(counts) # 0
    ]_lotteryVars
=============================================================================
