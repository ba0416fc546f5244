------------------------------- MODULE Winsaf -------------------------------
(***************************************************************************)
(* The whole contract, contracts/winsaf/src/contract.rs: its execute       *)
(* messages and its migration, each a conjunction of what it does to the   *)
(* lottery, the randomness slots, the referral ledger and the treasury,    *)
(* under the configuration stored at that moment.  A message is atomic; in *)
(* between, blocks are made.  The production build is modelled.            *)
(*                                                                         *)
(* Messages only the owner of something may send take the sender from that *)
(* thing; a permissionless message has no sender.  Coins attached to a     *)
(* message whose handler does not look at them are Gifts.                  *)
(***************************************************************************)
EXTENDS Lottery, Randomness, Referral, Treasury

CONSTANTS
  Settings,      \* the configurations the operator may choose
  Migrations,    \* the configurations a migration may ask for
  Withdrawals,   \* amounts of a treasury withdrawal
  Refers,        \* codes a purchase may carry: some of Codes, or Nobody for none
  MaxHeight,     \* bound of the model on the block height: it stands for all later ones
  WinningNumbersFor(_, _)  \* the numbers a draw makes of a value under a number domain

VARIABLE config  \* CONFIG

vars == <<lotteryVars, randomnessVars, referralVars, treasuryVars, config>>

\* Price, denom and split are constants: set_config refuses to change them while
\* the current round is in flight, and (OneRoundInFlight) it always is.
LotteryPart(c) ==
  [draw_interval |-> c.draw_interval, schedule_anchor |-> c.schedule_anchor,
   max_dry_rounds |-> c.max_dry_rounds, rollover_on_no_winner |-> c.rollover_on_no_winner]

Config ==
  [admin : Accounts, authorized_submitters : SUBSET Accounts, paused : BOOLEAN,
   randomness_mode : {"Mock", "Drand", "CommitReveal"}, verify_mode : {"Bls", "Dev"},
   drand_pubkey : DrandKeys, drand_genesis_time : Nat, drand_period : Nat,
   reveal_timeout : Nat, numbers_per_ticket : Nat \ {0}, number_max : Nat \ {0},
   min_claim_usaf : Nat, open_code_registration : BOOLEAN,
   draw_interval : Nat \ {0}, schedule_anchor : Nat \cup {NoAnchor},
   max_dry_rounds : Nat, rollover_on_no_winner : BOOLEAN]

\* The number domain of c, and the number sets it admits: of a slip that
\* validate_ticket_numbers accepts, of a quick pick and of a draw.
Domain(c) == [numbers_per_ticket |-> c.numbers_per_ticket, number_max |-> c.number_max]

InDomain(numbers, d) == numbers \subseteq 1..d.number_max /\ Cardinality(numbers) = d.numbers_per_ticket

\* A drand chain of which the stored configuration knows nothing is quicknet.
OrQuicknet(mode, stored, quicknet) == IF mode = "Drand" /\ stored = 0 THEN quicknet ELSE stored

\* What migrate makes of c when it is asked for new: the schedule, the dry cap,
\* the number domain and the randomness part; it cannot clear an anchor.
Migrated(c, new) ==
  [c EXCEPT
    !.draw_interval = new.draw_interval, !.max_dry_rounds = new.max_dry_rounds,
    !.numbers_per_ticket = new.numbers_per_ticket, !.number_max = new.number_max,
    !.schedule_anchor = IF new.schedule_anchor = NoAnchor THEN @ ELSE new.schedule_anchor,
    !.randomness_mode = new.randomness_mode, !.verify_mode = new.verify_mode,
    !.drand_pubkey = new.drand_pubkey,
    !.drand_genesis_time =
        OrQuicknet(new.randomness_mode, new.drand_genesis_time, BeaconGenesis),
    !.drand_period = OrQuicknet(new.randomness_mode, new.drand_period, BeaconPeriod)]

\* What the entropy of a round is a hash of: its tickets, in order.
Entropy(r) == [i \in DOMAIN tickets[r] |-> <<tickets[r][i].owner, tickets[r][i].numbers>>]

ASSUME WinsafAssumption ==
  /\ Settings \subseteq Config /\ Migrations \subseteq Config
  /\ \A c \in Settings :
       /\ ValidRandomnessConfig(c) /\ ~c.paused /\ LotteryPart(c) \in Configs
       /\ c.numbers_per_ticket <= c.number_max
       /\ \A value \in Values :
            WinningNumbersFor(value, Domain(c)) \in {draw \in Draws : InDomain(draw, Domain(c))}
  /\ \A c \in Settings, new \in Migrations : Migrated(c, new) \in Settings
  /\ \A funds \in Payments : MustPayDenomOnly(funds) => Paid(funds) \in TopUps
  /\ Withdrawals \subseteq Nat
  /\ 0..MaxEscrow \subseteq Escrows
  /\ MaxHeight \in Nat

WinsafTypeOK ==
  /\ TypeOK /\ ReferralTypeOK /\ TreasuryTypeOK
  /\ DOMAIN requests \subseteq DOMAIN rounds
  /\ \A r \in DOMAIN requests : requests[r] \in RandomnessRequest
  /\ height \in 0..MaxHeight
  /\ [config EXCEPT !.paused = FALSE] \in Settings

\* instantiate
WinsafInit ==
  /\ config \in Settings
  /\ now = StartTime
  /\ Schedulable(config, now)
  /\ current_round = 1
  /\ rounds = [r \in {1} |-> NewOpen(NextCloseAt(config, now), 0, 0)]
  /\ tickets = [r \in {1} |-> <<>>]
  /\ dry_streak = 0
  /\ requests = << >>
  /\ height = 0
  /\ ReferralInit
  /\ TreasuryInit

-----------------------------------------------------------------------------
(* Tickets *)

\* With a slip, for the checks: the numbers of a slip are not looked at.
PlayableAny(picks) == TRUE

Playable(picks) == \A i \in DOMAIN picks : InDomain(picks[i], Domain(config))

ExecuteBuyTickets(buyer, picks, code, funds) ==
  LET split    == Apply(Split, Cost(Len(picks)))
      credited == split.referral # 0 /\ ResolveBuyerReferrer(buyer, code) # Nobody
  IN  /\ ~config.paused
      /\ AssertExactDenom(funds, Cost(Len(picks)))
      /\ Playable(picks)
      /\ BuyTickets(buyer, picks, credited)
      /\ Receive(Paid(funds), split.treasury)
      /\ IF credited THEN CreditSale(buyer, code, split.referral) ELSE UNCHANGED referralVars
      /\ UNCHANGED <<randomnessVars, config>>

ExecuteGrantBonusTicket(sender, owner, picks, funds) ==
  /\ ~config.paused
  /\ IsSubmitter(config, sender)
  /\ AssertExactDenom(funds, Cost(Len(picks)))
  /\ Playable(picks)
  /\ GrantBonusTicket(owner, picks)
  /\ Receive(Paid(funds), 0)
  /\ UNCHANGED <<randomnessVars, referralVars, config>>

ExecuteGrantBonusTicketFromTreasury(sender, owner, picks, funds) ==
  /\ ~config.paused
  /\ IsAdmin(config, sender)
  /\ Nonpayable(funds)
  /\ Playable(picks)
  /\ Spend(Cost(Len(picks)))
  /\ GrantBonusTicket(owner, picks)
  /\ UNCHANGED <<randomnessVars, referralVars, config>>

-----------------------------------------------------------------------------
(* The life of a round *)

\* With a slip: before the round's closes_at.
ExecuteCloseRoundEarly ==
  /\ rounds[current_round].status = "Open"
  /\ rounds' = [rounds EXCEPT ![current_round].status = "Drawing"]
  /\ RequestRandomness(current_round,
       BoundBeacon(current_round, rounds[current_round].closes_at, config))
  /\ UNCHANGED <<now, current_round, tickets, dry_streak>>
  /\ UNCHANGED <<height, referralVars, treasuryVars, config>>

ExecuteCloseRound ==
  /\ CloseRound
  /\ RequestRandomness(current_round,
       BoundBeacon(current_round, rounds[current_round].closes_at, config))
  /\ UNCHANGED <<height, referralVars, treasuryVars, config>>

ExecuteSubmitRandomness(sender, r, randomness, signature) ==
  /\ Published(signature, now)
  /\ SubmitRandomness(sender, r, randomness, signature, config)
  /\ UNCHANGED <<height, lotteryVars, referralVars, treasuryVars, config>>

ExecuteCommitRandomness(sender, r, commitment) ==
  /\ CommitRandomness(sender, r, commitment, config, now)
  /\ UNCHANGED <<height, lotteryVars, referralVars, treasuryVars, config>>

ExecuteRevealRandomness(sender, r, value) ==
  /\ RevealRandomness(sender, r, value, Entropy(r), config, now)
  /\ UNCHANGED <<height, lotteryVars, referralVars, treasuryVars, config>>

\* With a slip: under the domain of instantiate.
WinningNumbersByDefault(r) ==
  WinningNumbersFor(requests[r].randomness, [numbers_per_ticket |-> 6, number_max |-> 16])

\* The numbers a draw of round r makes now.
WinningNumbers(r) == WinningNumbersFor(requests[r].randomness, Domain(config))

\* A leftover that does not roll over is swept into the treasury.
ExecuteDraw(r) ==
  /\ r \in DOMAIN rounds /\ rounds[r].status = "Drawing"
  /\ Fulfilled(r)
  /\ r + 1 \in RoundIds
  /\ LET winning == WinningNumbers(r)
     IN  /\ Draw(r, winning, LotteryPart(config), pending_topups[r + 1])
         /\ AbsorbEscrow(r + 1, IF config.rollover_on_no_winner THEN 0
                                ELSE Leftover(r, winning, LotteryPart(config)))
  /\ UNCHANGED <<randomnessVars, referralVars, config>>

ExecuteCancelRound(sender, r) ==
  /\ r \in DOMAIN rounds /\ rounds[r].status = "Drawing"
  /\ MayCancel(sender, r, rounds[r].closes_at, config, now)
  /\ r + 1 \in RoundIds
  /\ CancelRound(r, LotteryPart(config), pending_topups[r + 1])
  /\ AbsorbEscrow(r + 1, 0)
  /\ UNCHANGED <<randomnessVars, referralVars, config>>

ExecuteClaimReward(sender, r, i) ==
  /\ ClaimReward(sender, r, i)
  /\ Send(tickets[r][i].prize)
  /\ UNCHANGED <<randomnessVars, referralVars, config>>

-----------------------------------------------------------------------------
(* Referral *)

ExecuteBindReferrer(referee, target) ==
  /\ BindReferrer(referee, target)
  /\ UNCHANGED <<lotteryVars, randomnessVars, treasuryVars, config>>

ExecuteRegisterCode(sender, code) ==
  /\ RegisterCode(sender, code, config.open_code_registration \/ IsAdmin(config, sender))
  /\ UNCHANGED <<lotteryVars, randomnessVars, treasuryVars, config>>

ExecuteClaimReferral(claimant) ==
  /\ ClaimReferral(claimant, config.min_claim_usaf)
  /\ Send(earnings[claimant])
  /\ UNCHANGED <<lotteryVars, randomnessVars, config>>

-----------------------------------------------------------------------------
(* The operator *)

ExecuteWithdrawTreasury(sender, amount) ==
  /\ IsAdmin(config, sender)
  /\ WithdrawTreasury(amount)
  /\ UNCHANGED <<lotteryVars, randomnessVars, referralVars, config>>

\* Credited at once to a round that exists and is open, escrowed for a later one.
ExecuteTopUpPool(sender, r, funds) ==
  /\ IsAdmin(config, sender)
  /\ MustPayDenomOnly(funds)
  /\ IF r \in DOMAIN rounds
       THEN TopUpPool(r, Paid(funds)) /\ Receive(Paid(funds), 0)
       ELSE r > current_round /\ EscrowTopUp(r, Paid(funds)) /\ UNCHANGED lotteryVars
  /\ UNCHANGED <<randomnessVars, referralVars, config>>

ExecuteCancelPendingTopUp(sender, r, funds) ==
  /\ IsAdmin(config, sender)
  /\ Nonpayable(funds)
  /\ r \notin DOMAIN rounds
  /\ CancelPendingTopUp(r)
  /\ UNCHANGED <<lotteryVars, randomnessVars, referralVars, config>>

\* What set_config freezes while the current round is in flight.
Mechanism(c) == <<c.randomness_mode, c.verify_mode, c.drand_pubkey>>

\* With a slip: whatever is in flight.
ExecuteSetConfigAlways(sender, new) ==
  /\ IsAdmin(config, sender)
  /\ config' = [new EXCEPT !.paused = config.paused]
  /\ UNCHANGED <<lotteryVars, randomnessVars, referralVars, treasuryVars>>

\* It has no field for the number domain.
ExecuteSetConfig(sender, new) ==
  /\ IsAdmin(config, sender)
  /\ Domain(new) = Domain(config)
  /\ InFlight(rounds[current_round]) => Mechanism(new) = Mechanism(config)
  /\ config' = [new EXCEPT !.paused = config.paused]
  /\ UNCHANGED <<lotteryVars, randomnessVars, referralVars, treasuryVars>>

ExecuteSetPaused(sender, paused) ==
  /\ IsAdmin(config, sender)
  /\ config' = [config EXCEPT !.paused = paused]
  /\ UNCHANGED <<lotteryVars, randomnessVars, referralVars, treasuryVars>>

RandomnessPart(c) ==
  <<c.randomness_mode, c.verify_mode, c.drand_pubkey, c.drand_genesis_time, c.drand_period>>

\* migrate switches the randomness part only while the current round is open and
\* has no slot; the number domain whenever it likes.
ExecuteMigrate(new, backfill, reset_dry_streak) ==
  /\ RandomnessPart(new) # RandomnessPart(config) =>
       rounds[current_round].status = "Open" /\ ~Requested(current_round)
  /\ config' = Migrated(config, new)
  /\ Migrate(backfill, reset_dry_streak)
  /\ UNCHANGED <<randomnessVars, referralVars, treasuryVars>>

-----------------------------------------------------------------------------
\* Coins reach the contract that no handler looks at: by a bank transfer, or
\* attached to a message that does not expect any.
Gift(funds) ==
  /\ Donate(Paid(funds))
  /\ UNCHANGED <<lotteryVars, randomnessVars, referralVars, config>>

\* A block is made; its time is that of the last one or later.
NextBlock ==
  /\ height' = IF height < MaxHeight THEN height + 1 ELSE MaxHeight
  /\ Tick \/ UNCHANGED lotteryVars
  /\ UNCHANGED <<requests, referralVars, treasuryVars, config>>

WinsafNext ==
  \/ \E buyer \in Accounts, picks \in Purchases, code \in Refers, funds \in Payments :
       ExecuteBuyTickets(buyer, picks, code, funds)
  \/ \E sender, owner \in Accounts, picks \in Purchases, funds \in Payments :
       \/ ExecuteGrantBonusTicket(sender, owner, picks, funds)
       \/ ExecuteGrantBonusTicketFromTreasury(sender, owner, picks, funds)
  \/ ExecuteCloseRound
  \/ \E sender \in Accounts, r \in DOMAIN rounds :
       \/ \E randomness \in Values, signature \in Signatures :
            ExecuteSubmitRandomness(sender, r, randomness, signature)
       \/ \E value \in Nonces : ExecuteCommitRandomness(sender, r, Sha256(value))
       \/ \E value \in Nonces : ExecuteRevealRandomness(sender, r, value)
       \/ ExecuteCancelRound(sender, r)
  \/ \E r \in DOMAIN rounds : ExecuteDraw(r)
  \/ \E r \in DOMAIN rounds : \E i \in DOMAIN tickets[r] :
       ExecuteClaimReward(tickets[r][i].owner, r, i)
  \/ \E referee, target \in Accounts : ExecuteBindReferrer(referee, target)
  \/ \E referee \in Accounts, code \in Codes : ExecuteBindReferrer(referee, CodeOwner(code))
  \/ \E sender \in Accounts, code \in Codes : ExecuteRegisterCode(sender, code)
  \/ \E claimant \in Accounts : ExecuteClaimReferral(claimant)
  \/ \E sender \in Accounts, amount \in Withdrawals : ExecuteWithdrawTreasury(sender, amount)
  \/ \E sender \in Accounts, r \in RoundIds, funds \in Payments :
       \/ ExecuteTopUpPool(sender, r, funds)
       \/ ExecuteCancelPendingTopUp(sender, r, funds)
  \/ \E sender \in Accounts, new \in Settings : ExecuteSetConfig(sender, new)
  \/ \E sender \in Accounts, paused \in BOOLEAN : ExecuteSetPaused(sender, paused)
  \/ \E new \in Migrations, reset \in BOOLEAN,
        backfill \in {{}} \cup {{amount} : amount \in Backfills} :
       ExecuteMigrate(new, backfill, reset)
  \/ \E funds \in Payments : Gift(funds)
  \/ NextBlock

WinsafSpec == WinsafInit /\ [][WinsafNext]_vars
-----------------------------------------------------------------------------
(* Properties *)

TotalPools == SumFunction([r \in DOMAIN rounds |-> rounds[r].pool])
TotalEscrow == SumFunction(pending_topups)
TotalEarnings == SumFunction(earnings)

\* The contract keeps the promise of module Ledger: over sales, draws,
\* cancellations, sweeps and claims its bank balance is what the pools, the escrow,
\* the referrers' earnings and the treasury add up to, and what it was given for
\* nothing, which no step ever pays out.
Books == INSTANCE Ledger WITH
  held <- bank, prizes <- TotalPools, referrals <- TotalEarnings,
  purse <- treasury, escrow <- TotalEscrow
KeepsBooks == Books!Spec

\* Nothing the contract owes meets an empty balance: whoever is paid first, it covers
\* every pool, every referrer's earnings, the treasury and every escrow, so the bank
\* refuses no claim, no withdrawal and no cancelled top-up.
PaymentsCovered ==
  /\ \A r \in DOMAIN rounds : rounds[r].pool <= bank
  /\ \A a \in Accounts : earnings[a] <= bank
  /\ treasury <= bank
  /\ \A r \in RoundIds : pending_topups[r] <= bank

\* The contract's rounds, tickets and streak behave as module Lottery says, of
\* which the theorems speak.
IsLottery == Spec

\* Escrow is only ever held for rounds that are still to open: a round that opens
\* takes it along, so no promotional money is stranded behind the current round.
EscrowAhead == \A r \in RoundIds : pending_topups[r] # 0 => r > current_round

\* A slot is never emptied, a commitment never replaced or given more time, and a
\* delivered outcome never changed, whoever else commits, submits or closes.
SlotsFinal ==
  [][\A r \in DOMAIN requests :
       /\ r \in DOMAIN requests'
       /\ requests'[r].beacon_round = requests[r].beacon_round
       /\ requests[r].commitment # NoValue =>
            /\ requests'[r].commitment = requests[r].commitment
            /\ requests'[r].committer = requests[r].committer
            /\ requests'[r].reveal_deadline = requests[r].reveal_deadline
       /\ requests[r].status = "Fulfilled" => requests'[r] = requests[r]
    ]_vars

\* Once the outcome of a round is delivered the round can only be drawn: neither
\* the operator nor a passed deadline cancels it any more.
OutcomeStands ==
  [][\A r \in DOMAIN rounds :
       Fulfilled(r) /\ rounds[r].status = "Drawing" =>
         rounds'[r].status \in {"Drawing", "Settled"}
    ]_vars

\* A round is drawn or cancelled under the mechanism it was closed under: while
\* it waits for its outcome neither SetConfig nor a migration exchanges it.
MechanismFixed ==
  [][rounds[current_round].status = "Drawing" /\ current_round' = current_round =>
       Mechanism(config') = Mechanism(config)]_vars

\* No round is stuck: one whose grace period ends within the bounds of the model
\* is drawn or cancelled, however the operator and the submitters behave, unless
\* the operator insists on an interval under which no round can be opened.
RoundsResolve ==
  <>[]Schedulable(LotteryPart(config), now) =>
    \A r \in 1..(MaxRounds - 1) :
      (r \in DOMAIN rounds /\ rounds[r].closes_at + CancelGrace <= Horizon)
        ~> (r \in DOMAIN rounds /\ ~InFlight(rounds[r]))

\* What the comments of execute_close_round say: the beacon a round is bound to is
\* not yet published when the round is closed.
BeaconAhead ==
  [][\A r \in DOMAIN requests' \ DOMAIN requests :
       SelfVerifying(config) =>
         PublishTime(requests'[r].beacon_round, BeaconGenesis, BeaconPeriod) > now
    ]_vars
-----------------------------------------------------------------------------
(* Fairness: closing, drawing and, once the grace period is over, cancelling *)
(* take no permission, so someone who is not the operator does them in the   *)
(* end; and blocks are made.  Nobody has to submit, commit or reveal.        *)

PermissionlessCancel ==
  \E r \in DOMAIN rounds :
    /\ GracePassed(rounds[r].closes_at, now)
    /\ \E sender \in Accounts \ {config.admin} : ExecuteCancelRound(sender, r)

TimePasses == NextBlock /\ now' > now

LiveSpec ==
  /\ WinsafSpec
  /\ WF_vars(ExecuteCloseRound)
  /\ WF_vars(\E r \in DOMAIN rounds : ExecuteDraw(r))
  /\ WF_vars(PermissionlessCancel)
  /\ WF_vars(TimePasses)
=============================================================================
