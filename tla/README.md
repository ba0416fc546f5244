# WinSaf lottery contract in TLA+

A TLA+ model of the WinSaf lottery, a single CosmWasm contract
(`src/contracts/winsaf`) with a small shared crate (`src/packages/winsaf-shared`).
TLC checks the model on small instances; TLAPS proves the main results about it
for every instance. This file says what is modelled, what the runs and the proofs
show, and what is left.

## 1. The system

The contract sells tickets for numbered rounds, draws each round with a public or a
committed random value, and lets winners, referrers and the operator pull what they
are owed. Every message is one atomic transaction: an error rolls everything back.
So interleavings are those of whole messages, from any sender, in any block; in
between, time and height advance.

| Part | Source | State it keeps | Operations |
|---|---|---|---|
| Round lifecycle, tickets | `contract.rs` 333-864, 1082-1626; `state.rs` | `CURRENT_ROUND`, `ROUNDS`, `TICKETS`, `TICKET_SEQ`, `PLAYERS`, `DRY_STREAK` | buy, grant, top up, close, draw, cancel, claim |
| Prize tiers, "Must Be Won" | `contract.rs` 1142-1205, 2816-2906 | none (pure), reads `DRY_STREAK` | tier counts, payouts, forced rolldown |
| Revenue split | `split.rs` | none (pure) | validate, apply |
| Schedule, beacon binding | `contract.rs` 782-796, 1321-1363 | none (pure) | close time, bound beacon |
| Randomness and recovery | `contract.rs` 829-1076, 1404-1491, 2716-2726 | `RANDOMNESS` | request, submit, commit, reveal, cancel rules |
| Beacon verification | `verify.rs` | none (pure) | digest and signature of a beacon, digest of a reveal |
| Number picks | `contract.rs` 2553-2600, 2676-2716 | none (pure) | number domain, validation of a slip, `pick_distinct` |
| Referral | `contract.rs` 1632-1740, 2730-2790 | `REFERRAL_CODES`, `REFERRER`, `REFERRAL_EARNINGS`, `REFERRAL_TOTALS` | bind, register, credit, claim |
| Treasury, escrow | `contract.rs` 1746-1894, 1387-1393 | `TREASURY`, `PENDING_TOPUPS` | withdraw, sponsor, escrow, cancel escrow, sweep |
| Funds | `money.rs` | none (pure) | which coins a handler accepts |
| Operator | `contract.rs` 1923-2107, 2302-2454 | `CONFIG` | set config, pause, migrate |
| Queries | `contract.rs` 2111-2300 | none, read everything | views of rounds, tickets and prizes, with paging |

How they interact. A sale splits its payment between the round's pool, the treasury
and a referrer's earnings. Closing a round creates its randomness slot; drawing needs
the slot fulfilled, cancelling needs it not. Both end a round by opening the next one
in the same transaction, with the leftover (rolled over, swept or carried) and the
escrow for its id. All of them read the configuration stored at that moment, which
the operator may have changed since the round opened.

What is hard, and what the properties are for (the list with source lines is
`hazards` in `PROJECT.json`):

* *Order of messages.* Late beacons and reveals, cancel racing draw, a commitment
  whose author loses the role, top-ups racing the opening of their round, migration
  in the middle of a draw, claims in any order on any round.
* *Money split over maps.* A round's pool, its tickets' prizes, two ledgers of
  referrers, the treasury and the escrow are updated separately; roundings, rollovers
  and refunds must never make one promise what another does not hold.
  Coins also arrive that no handler looks at.
* *Configuration that moves.* The operator may change the mechanism, the beacon, the
  number domain or the interval between the close of a round and its draw.
* *Boundaries.* Grid points, publication times, the streak cap, one unit of dust, a
  `u8` counter in the generator of numbers, the cap on the tickets of a round.
* *Readers.* A client needs several queries for the tickets of a round, and a sale, a
  draw or a claim may fall between any two of them.
* *Progress.* Nobody is obliged to deliver randomness; rounds must end all the same.

## 2. Modules

| Module | What it models |
|---|---|
| `Basics` | constants shared by all: accounts, number sets, round ids |
| `FundSplit` | `FundSplitBps::validate`, `apply` |
| `Funds` | `must_pay_denom_only`, `assert_exact_denom` over the coins of a message |
| `PrizeTiers` | tier counting, `compute_prize_tiers`, rolldown, `payout_for_matches` |
| `Schedule` | `next_close_at` with its overflow failures, `drand_round_after` |
| `Verify` | `verify_drand`, `verify_reveal` over uninterpreted hashes and signatures |
| `Picks` | the number domain, `validate_ticket_numbers` and `pick_distinct`, turn by turn |
| `Lottery` | rounds, tickets, prizes, dry streak: a specification of its own |
| `Referral` | codes, bindings, earnings, totals: a specification of its own |
| `Randomness` | what the handlers do to `RANDOMNESS`, and who may cancel when |
| `Treasury` | what they do to `TREASURY`, `PENDING_TOPUPS` and the bank balance |
| `Ledger` | abstract specification: four purses that, with gifts, always add up to the balance |
| `Winsaf` | the composition: one action per message, `migrate`, and blocks |
| `Audit` | `Winsaf` with an observer who notes the key a round was closed under and the number domains it saw; its variables are history, which no action reads |
| `Queries` | `Lottery` with a client that pages through the tickets of a round |
| `ArithmeticProofs` | TLAPS: division and shares, prize tiers, sums of functions over finite sets |
| `AlgorithmProofs`, `DrawProofs` | TLAPS: schedule, beacons, picks and slips; the payouts of a draw |
| `LotteryProofs`, `ReferralProofs` | TLAPS: the two specifications, their invariants and theorems |
| `WinsafProofs`, `BooksProofs` | TLAPS: the composition, its outcomes and what `Audit` says of them; its money, balance and refinement of `Ledger` |
| `QueriesProofs` | TLAPS: the views and the paging client |
| `MC*` | instances for TLC; `MCSchedule`, `MCPrizeTiers`, `MCPicks` also hold the checks of the pure parts |

`Winsaf` extends `Lottery`, `Randomness` (which extends `Verify` and `Schedule`),
`Referral` and `Treasury` (which extends `Funds`), whose actions take what they need
from each other as parameters: the referral decision of a sale, the configuration in
force, the winning numbers of a draw, the escrow a new round absorbs. `ExecuteDraw`,
say, is the conjunction of `Draw` with the slot's outcome and `AbsorbEscrow` with the
swept leftover. Each `Execute*` action is the handler of the same name, from its first
check to its last save.

Names follow the source; constants in capitals are its constants. Some conventions:

* `rounds` and `tickets` are functions on `1..current_round`; the tickets of a round
  are a sequence, so `TICKET_SEQ` is its length and `PLAYERS` its set of owners.
  `Queries` adds the ids, whose digits decide the order a page is read in.
* The absent value of an option is `Nobody`, `NoValue`, `{}` (no winning numbers),
  `NoAnchor`, or 0 for an absent amount.
* A ticket's picks and a draw's result are finite sets of numbers, of any size: so
  everything holds whatever the number domain, even across the migration that
  changes it. A delivered random value is a value, and `WinningNumbersFor` makes
  numbers of it under the domain configured when the round is drawn, which need not be
  the one its tickets were sold under: the code lets `migrate` change the domain at any
  time (`DrawnAsSold`, `DrawnFromSlot` say what remains true). Picks are taken
  as given, since `Picks` shows that a slip is accepted and a set generated only if
  it is one of the domain.
* Hashes are uninterpreted: `Sha256` and `RevealSeed` are operators the constants
  supply, of which a proof knows only that they yield values. A drand signature is
  the one a key has for a beacon. So an outcome is right when it was made of the right
  things, which is what `OutcomeAuditable` is about.
* A message comes with a list of coins, and a handler that looks at it accepts or
  refuses it as `money.rs` does. Coins attached to a message that does not look at
  them, or sent by a bank transfer, are a `Gift`.
* Operators whose comment says *with a slip* are not the code: each is the code with
  one plausible mistake, and TLC finds the property it is meant for violated when the
  slip is put in (`mutants` in `PROJECT.json`).

Price, split and denom are constants. `set_config` refuses to change price and split
while the current round is in flight, and the theorem `OneRoundInFlightAlways` says it
always is. For the same reason the comment that such changes "apply from the NEXT
round only" describes a change no message can make.

### Not modelled

* The queries `Config`, `Referrer`, `ReferralSummary`, `TreasuryBalance` and
  `PendingTopUp`: they hand out one stored value each.
* The `randomness` field of `query_round` (`contract.rs` 2152, 2173), a copy of the
  round's slot: that a filled slot stays as it is is `SlotsFinal`, in the run
  *randomness*; `SettledViewFinal` speaks of the other fields.
* Events, and the fields `free`, `opens_at`, `rolled_over_from`, `winning_tickets`:
  written, never decided upon.
* The bytes: lengths and hex of keys and signatures, bech32 addresses, the
  normalisation of codes, the pairing arithmetic, the statistics of the xorshift
  stream (it may yield anything, so nothing here rests on it).
* The overflow of u128 amounts: a checked operation that overflows rejects the message,
  at amounts far beyond any supply. Overflow of u64 times and of the generator's u8 is
  modelled.
* The development build with its `Mock` and `Dev` modes.
* `beacon.rs` (`BeaconRef`, which the contract does not use), message and error
  types, the schema generator and the scripts: no behaviour.

## 3. Runs

All runs are listed in `PROJECT.json`. `CHECK_DEADLOCK FALSE` is set since the models
stop at their bounds. Sizes are distinct states.

### Checks that pass

* **lottery** (`MCLottery.cfg`, 86 thousand). Two accounts, two rounds, up to two tickets, picks
  with 2, 5 and 6 hits, one top-up amount, one backfill amount, escrow of 0 or 7,
  rollover and sweep configurations, a streak cap of two. Enough for every tier branch,
  a shared tier, a refund of a shared pool and a claim in each kind of finished round.
  `PoolBacksPrizes` is the central invariant: what a finished round keeps is exactly
  what its tickets can still claim. `ClaimsCovered` and `ResolutionCovered` say that the
  accounting errors of the code (`PoolUnderflow`) are unreachable; `PrizesFinal` that no
  message rewrites a finished round; `JackpotCarriedForward` that a cancellation never
  refunds inherited or promotional money. The cap of two tickets per round is reached by
  purchases and grants together.
* **streak** (`MCStreak.cfg`, 615 thousand). Three rounds, four tickets, cap of two: two qualifying
  rounds in a row need two players each. `MustBeWon` says what a capped draw does: it
  pays the jackpot allocation out, but for less than a unit per best ticket, if it is worth
  a unit to each of them, and if not, the streak goes on and all of the allocation is left
  over. A price of 2 makes pools so small that this happens. The property means
  something only where every configuration caps the dry rounds, as all of this run do.
* **schedule** (2520), **prize_tiers** (3905). The pure parts against declarative definitions: the
  first usable grid point as a minimum over the grid, the first beacon after a close
  as the least round number, payouts added up ticket by ticket. Intervals 1 to 8 cover
  both sides of the quarter-interval rule and its rounding to zero; pools from 0 to
  10007 cover allocations of zero and every remainder of up to four winners.
* **picks** (`MCPicks.cfg`, 1220). The generator on every stream, for every valid domain of
  a byte of 0..4 and a first loop of at most five turns. `PickedWell`: it returns the
  right number of distinct numbers of the domain; `PickEnds`: it ends, however
  the stream collides; `AbortsOnlyOnFullDomain`: its u8 counter overflows only when all
  numbers of the largest domain are wanted, so not for a domain anyone would
  configure. `AcceptsExactlyTickets` compares the validation of a slip with what it
  should accept, for every list of up to five bytes: with zeros, repetitions, numbers
  beyond the domain, in any order.
* **referral** (`MCReferral.cfg`, 1262). Three accounts, one code, credits of 1 and 2.
* **queries** (`MCQueries.cfg`, 33 thousand). A client pages through the tickets of a round,
  filtered by owner or not, with a limit below or above the cap of two, while
  the lottery goes on. Ids have two ternary digits, so that the fourth ticket carries
  over: with ids that are not padded the order of keys is not that of the sales, and
  `PagesExact` fails. `LastPageComplete`: a client that stops at a short page has seen
  all. `PrizeViewBacked` and `PrizeViewStable`: what players of a finished round are
  offered is what its pool holds, and what is offered and paid never changes.
  `SettledViewFinal`: a settled round reports its own streak for ever.
* **money** (`MCMoney.cfg`, 40 thousand). The whole contract with two accounts, two rounds, two
  tickets, one top-up, one withdrawal, at most one of: a binding, a code registration, a
  gift, a configuration that gives a leftover to the treasury,
  and payments that are right, wrong, of another coin, split over two coins, empty
  or zero. `KeepsBooks` is refinement: under
  the mapping from pools, earnings, treasury and escrow, `Winsaf` implements `Ledger`.
  `PaymentsCovered`: the balance covers whatever the contract may be asked to pay next,
  so the bank never refuses a claim, a withdrawal or a cancelled top-up.
  `IsLottery` is refinement too: what `Winsaf` does to the lottery's variables is a
  behaviour of `Lottery`, so what is proved about `Lottery` holds in the composition.
  The price of 10 with a split of 20/10/70 makes one sale and a sweep pay for a
  sponsored ticket.
* **randomness** (`MCRandomness.cfg`, 132 thousand; module `MCAudit`). Two rounds with up to
  one ticket, both mechanisms, a wrong drand genesis, which binds a beacon already out,
  and a wrong key; migrations between these and between two number domains, while tickets
  are sold and while a closed round waits; and two staffs: admin with alice as submitter,
  or alice in charge and admin nobody. A height bound of 2 lets commitments, reveals and cancels
  overlap. `DrawnFromSlot`: a settled round has the numbers of the value its slot still
  holds, under the domain in force when it was drawn. `DrawnAsSold`: tickets and numbers
  of a round are of one domain unless a migration changed it meanwhile; if one did, nothing
  in the code protects the tickets sold before. `OutcomeAuditable`: every value
  can be recomputed from the signature of the beacon the round was bound to, under the key of
  its close, or from the committed value with the round's tickets and a later block, and
  the numbers of a settled round from that. A cancelled round's slot can still be filled
  later, even under a later key; `OutcomeStands` and `PrizesFinal` say this changes nothing.
* **liveness** (`MCLive.cfg`, 35 thousand). Three rounds; `RoundsResolve` speaks of rounds whose
  grace period ends within the time bound. Among the settings is an interval under
  which no next round can be opened: draw and cancel then fail, and the property says
  the waiting round is resolved if in the end the settings are schedulable again.

### Checks that find a disagreement

Each of these checks what a comment says; the code does otherwise (`findings` in
`PROJECT.json` quotes both). The first leaves the jackpot where it is for another round.
The second is about money: a sale looks only at the round's status, the beacon of a round
is fixed by its `closes_at`, and so in a round that nobody closes in time a buyer who has
seen the beacon can still buy, the winning numbers included, and take the jackpot. The
properties of the run *randomness* hold all the same: they say that an outcome is
the right one, not that nobody knew it.

| Run | The comment | The code |
|---|---|---|
| **rolldown_doc** | a forced rolldown always finds a lower winner | a qualifying round may have no ticket in any tier |
| **beacon_doc** | the beacon does not exist when the round closes | it does when `CloseRound` comes late |

More comments are stale; reading shows it, and no run is spent on them:

* `contract.rs:1330` has a round last a full interval; the lines that follow it, and
  1359, allow a quarter of one.
* `contract.rs:384` and `:2774` have a credit under a code bind the buyer; it only credits.
* `status.rs` takes a round from `Drawing` over `Drawn` to `Settled`, while
  `execute_draw` settles at once and `Drawn` is never stored.
* `contract.rs:532`, `:1053` and `:2637` have commitments posted during `Open` and
  the tickets' entropy unknown then; the slot a commitment goes to exists only from
  `CloseRound` on, when the entropy is fixed. What the committer does not know is the
  block of the reveal, within the deadline.
* `msg.rs:132` calls `SubmitRandomness` authorized-submitter-only; a drand beacon that
  verifies is accepted from anybody. `msg.rs:254` has `CurrentRound` accept tickets;
  it may be drawing.

### Bounds

`MaxRounds`, `Horizon`, `MaxHeight`, `MaxTopUp`, `MaxEscrow`, `MaxLifetime`, `LastBeacon` bound
what grows without end and stand in guards or ranges; `MaxRounds` and `MaxTime` also stand for
`u64::MAX`, where the code fails. The model stops opening rounds at `MaxRounds`, so the
last round can be sold into, topped up and closed, not drawn. From `MaxHeight` on
blocks are not told apart; in the largest case a commitment there can no longer be
revealed, only cancelled. `MaxTicketsSold`, `MaxExtras` (bindings, codes, gifts and a leftover for the treasury),
`MaxGift` and `MayPause` are constraints of the
instances. `Settings`, `Migrations`, `Payments`, `Nonces`, `Values`, `Escrows`, `TopUps`,
`Backfills`, `Withdrawals`, `Limits` are the inputs enumerated. `MaxByte`, `MaxIterations`,
`Base`, `TicketIdWidth` and `MaxQueryLimit` are small versions of constants of the
code; `MaxNumbers` bounds the lists of numbers tried. The slot of a round depends on
earlier rounds only through the
configuration and the time, and a round's money only through one rollover amount, so
two or three rounds show every interaction of neighbours.

### Fairness

`LiveSpec` assumes weak fairness of four things and of nothing else: `CloseRound`,
`Draw` of a round whose outcome is there, cancelling after the grace period by someone
who is not the operator, and the passing of time. The first three take no permission
and cost no deposit, so any ticket holder can and wants to send them; weak fairness
is enough, since none of them is disabled for ever again except by the round being
resolved, once the settings stay schedulable.
Nobody has to deliver a beacon, commit or reveal, and the operator may change the
configuration, pause and migrate for ever. What he must not do for ever is keep an
interval near the end of u64, which `set_config` accepts: under it no next round opens,
so draws and cancels fail. That is the premise of `RoundsResolve`.
`PickSpec` assumes that a loop takes its next turn: it runs within one message.

## 4. Proofs

Model values, prices, splits, numbers of rounds and tickets are arbitrary here; what is
assumed is in the named ASSUMEs of the modules (`BasicsAssumption`: finitely many
accounts, picks and draws are finite sets of numbers; `LotteryAssumption`: a non-zero
price, a valid split, well-typed configurations; `MaxTimeAssumption`;
`ReferralAssumption`; `FundsAssumption`, `TreasuryAssumption`, `VerifyAssumption`,
`RandomnessAssumption`; `WinsafAssumption`: settings are valid configurations, draws of
a domain exist, every escrow is an amount a new round may absorb; `PicksAssumption`;
`QueriesAssumption`: the cap on the tickets of a round fits the digits of an id;
`PowersAssumption`: what exponentiation is on those digits, of which the prover knows
nothing; `InstanceAssumption` of `MCSchedule`, `TiersAssumption` of `MCPrizeTiers`). TLC
evaluates all of them in the runs. One more hypothesis stands in the theorems about
`Winsaf` themselves since TLC cannot evaluate it: `SeedsAreValues`, the hash of a reveal
is a value.

The prover has no induction over data, and the sums and sorted lists of this model seem
to need one. Two ways round it are used. A set is finite, so proper inclusion on its
subsets is well-founded, and of the subsets for which a statement fails a least one can
be named (`SetInduction`, from the library's theorem that a non-empty set has a minimal
element); for numbers the same with `<`. And what a list, a stream or a page is for is
said by an invariant of the loop or of the client, one step at a time.

* `ArithmeticProofs`. `SplitConserves`: the cuts of a sale are non-negative and sum to
  the amount. `DistributedWithinPool`: no draw, forced or not, pays more than the pool,
  for any pool and any counts. The argument: each tier pays at most its allocation, the
  rolldown tier at most its own and the jackpot's, and the floors of four shares that
  sum to 100% are at most the whole. The second half is about sums: any order of taking
  elements out gives the same sum (`SumTakeOut`), hence what a change of one summand, a
  new one (`TotalChanged`, `TotalExtended`) or a partition (`TotalOfGroups`) does to it, and
  that payouts ticket by ticket add up to counts times tiers (`PayoutsSumToTiers`).
* `DrawProofs`. Both checks of the run *prize_tiers* for any pool and any list of tickets:
  `PaidPerTicket` from that lemma, `RolldownReachesBest` since the best tickets are
  exactly those of the rolldown tier, of which each gets both floors.
* `AlgorithmProofs`. Both checks of the run *schedule* for every interval, anchor, drand
  chain and opening time: the next grid point is a multiple of the interval from the
  anchor, just after the time (`NextPoint`), points are ordered like their numbers
  (`PointsOrdered`), so the chosen one is the least usable (`FirstUsable`); and
  likewise for beacons (`BeaconAfter`).
  `PickInv` is inductive: what was chosen is distinct and of the domain,
  everything below the second loop's counter has been chosen or the set is full. Hence
  `PickedWell` and `AbortsOnlyOnFullDomain` for every byte width and every stream.
  `AcceptsExactlyTickets`: sorting puts every entry in a place of its own, in order
  (`SortedSorts`: ranks are an injection of a finite set into itself, so onto it). In an
  ascending list equal numbers are neighbours and the ends bound the rest, so the
  comparisons the code makes are enough.
* `LotteryProofs`. `LotteryInv` is inductive: types,
  `OneRoundInFlight`, and for every round `RoundInv`: its counters agree with its
  tickets, what it carried is within its pool, it owes nothing while in flight and is
  exactly backed when finished. The parts need each other. A cancel is within the
  pool only because `ticket_count` is the number of tickets; a draw or cancel sets every
  ticket afresh only because nothing was claimed before; a claim keeps the pool exact
  because the payout of a tier leaves with one unclaimed winner of that tier (counted by
  `FS_RemoveElement`); and a draw overwrites no live round because the round it
  opens does not exist. `NextInv` splits on the action, with one lemma each, built on
  lemmas on what `OpenNextRound` leaves alone. The theorems then
  derive each invariant of the run *lottery*, and its action properties: `PrizesFinal` and
  `JackpotCarriedForward` because only the current round is drawn or cancelled and its
  contributions are within its pool, and `MustBeWon` (run *streak*) from the
  payouts of a forced draw.
* `ReferralProofs`. The referral ledger's invariants are inductive together with the
  types; `RefereesCounted` follows the set of referees through a binding, which grows
  it by one element since the referee was unbound.
* `WinsafProofs`. First, `LotteryStep`: under the configuration invariant every
  message, as far as the lottery's variables go, is a step of `Lottery` or none; hence
  `LotteryImplemented`, and with it all theorems about `Lottery` hold of the contract
  (`LotteryPromisesInContract` collects those that matter most).
  `WinsafInv` adds to `LotteryInv` that the configuration is a valid one, that escrow is
  held only for rounds to come (`EscrowAhead`), and that a round has a slot exactly from
  its close on (`SlotsMatchRounds`; of when its beacon is published this says nothing). These
  are proved together since a draw finds a slot only because the round was closed, and a
  close finds none only because it was open. `StepKinds` sorts the messages into the few
  kinds that differ for a slot, so that each conjunct is proved per kind.
  `SlotsAreFinal`, `OutcomesStand` and `MechanismIsFixed` then follow from the invariant
  and one step. `HistoryInv` is the invariant of `AuditSpec`: the observer's notes are of the
  rounds and slots there are, the last domain of the current round is the one in force
  and the key noted of a round that waits for its outcome the configured one (`NotesInv`, since
  the mechanism is fixed meanwhile); numbers come from their slots (`DrawnFromSlot`); every
  ticket is of a domain its round saw and the numbers of a drawn round of the last
  (`SoldInDomains`). `DrawnAsSold` follows. `OutcomeAuditable` needs one thing more: a slot that
  is still empty holds no signature (`SlotsAuditable`), or a reveal would leave one beside its
  outcome. It stays true of a filled slot because a round with a slot is closed, so
  takes no ticket (`EntropyKept`), and a submission is checked under the key of the close
  since the round of an empty slot is waiting or cancelled.
* `BooksProofs`. `KeepsBooks`: per message one lemma says by how much the balance and
  each purse changes (`SaleMoves`, `FinishMoves`, ...), in terms of one summand of a
  total: the pool of a round, the earnings of an account, the escrow of a round. That each
  such move is a step of `Ledger` is then arithmetic, and no move takes from what
  belongs to nobody, so `Surplus` never falls below zero. This is `SolventInv`, the
  inductive invariant, with `WinsafInv`, `ReferralInv` and the types of the treasury;
  `SolvencyAlways` and `PaymentsCoveredAlways` are corollaries, and so are the types of
  the whole state. `ReferralStep` shows that every message is to the referral ledger a
  step of its own or none, so its invariants hold in the contract too.
* `QueriesProofs`. `SettledViewIsFinal`: nothing of a finished round changes but its pool
  (`FinishedRoundKept`). `PrizeViewIsBacked`: the pool is the sum over the unclaimed tickets
  by `PoolBacksPrizes`, and grouped by owner these are the offers. For the paging: padded
  ids are ordered like the sequence numbers they come from (`IdsInOrder`, at the first
  digit where they differ); a page is the next tickets after the cursor, as many as
  fit (`PageInOrder`); and `ReaderInv`, that a client has been told exactly what it asked
  for up to its cursor, is kept by its queries and by every step of the lottery, which
  only appends. `PagesAreExact` and `LastPageIsComplete` follow.

The inductive invariants were checked by TLC on the small instances before they were
proved. Two definitions have the form they have for the sake of the proofs: totals are
sums of functions, and the sorted list of `validate_ticket_numbers` is defined by the
ranks of its entries.

Model-checked only: liveness (`RoundsResolve`, `PickEnds`), which is beyond the prover,
and of course the two disagreements of section 3. Every other property of a passing run
is a theorem.

## 5. Plan

Done: the modules, runs and theorems above. Left, in this order:

1. What the liveness argument rests on can be stated as safety and proved: a waiting round
   past its grace period can be cancelled by anyone or drawn, and the next round opens.
2. A client that reads the whole contract (`Queries` on `Winsaf`), by way of `IsLottery`.
3. Larger instances: anchored schedules and pauses in the run *money*.
