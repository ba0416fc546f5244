---------------------------- MODULE WinsafProofs ----------------------------
(***************************************************************************)
(* The composition: the whole contract behaves toward its lottery as       *)
(* module Lottery says, so that the theorems about Lottery hold of it, and *)
(* slots, escrow and configuration stay consistent with the rounds.  Last, *)
(* what an observer of the contract can say of every outcome.              *)
(***************************************************************************)
EXTENDS Audit, LotteryProofs

\* A hypothesis on the constants that TLC cannot evaluate: the hash of a reveal is
\* a value, whatever the entropy.
SeedsAreValues ==
  \A value, entropy, time, block : RevealSeed(value, entropy, time, block) \in Values

\* What the steps of the composition rest on besides the lottery's own invariant.
ConfigInv == config \in Config /\ [config EXCEPT !.paused = FALSE] \in Settings

EscrowInv == pending_topups \in [RoundIds -> 0..MaxEscrow]

SlotsInv ==
  /\ DOMAIN requests \subseteq DOMAIN rounds
  /\ requests \in [DOMAIN requests -> RandomnessRequest]
  /\ height \in 0..MaxHeight
  /\ \A r \in DOMAIN requests : requests[r].status = "Fulfilled" => requests[r].randomness \in Values

\* A round has a randomness slot exactly from its close on.  Whether tickets are sold
\* when its beacon is public already is another matter (BeaconAhead).
SlotsMatchRounds ==
  \A r \in DOMAIN rounds : Requested(r) <=> rounds[r].status # "Open"

-----------------------------------------------------------------------------
(* The configuration *)

LEMMA ConfigFacts ==
  ASSUME ConfigInv
  PROVE  /\ LotteryPart(config) \in Configs /\ ValidRandomnessConfig(config)
         /\ \A value \in Values :
              /\ WinningNumbersFor(value, Domain(config)) \in Draws
              /\ InDomain(WinningNumbersFor(value, Domain(config)), Domain(config))
<1> DEFINE c == [config EXCEPT !.paused = FALSE]
<1>1. c \in Settings
  BY DEF ConfigInv
<1>2. /\ LotteryPart(c) \in Configs /\ ValidRandomnessConfig(c)
      /\ \A value \in Values :
           /\ WinningNumbersFor(value, Domain(c)) \in Draws
           /\ InDomain(WinningNumbersFor(value, Domain(c)), Domain(c))
  BY <1>1, WinsafAssumption
<1>3. LotteryPart(c) = LotteryPart(config) /\ Domain(c) = Domain(config)
  BY DEF LotteryPart, Domain, ConfigInv, Config
<1>4. ValidRandomnessConfig(c) <=> ValidRandomnessConfig(config)
  BY DEF ValidRandomnessConfig, ConfigInv, Config
<1> QED  BY <1>2, <1>3, <1>4

LEMMA SetConfigKeeps ==
  ASSUME ConfigInv, NEW new \in Settings, config' = [new EXCEPT !.paused = config.paused]
  PROVE  ConfigInv'
<1>1. new \in Config /\ new.paused = FALSE
  BY WinsafAssumption DEF Config
<1>2. config' \in Config
  BY <1>1 DEF ConfigInv, Config
<1>3. [config' EXCEPT !.paused = FALSE] = new
  BY <1>1 DEF Config
<1> QED  BY <1>2, <1>3 DEF ConfigInv

LEMMA SetPausedKeeps ==
  ASSUME ConfigInv, NEW paused \in BOOLEAN, config' = [config EXCEPT !.paused = paused]
  PROVE  ConfigInv'
<1>1. config' \in Config
  BY DEF ConfigInv, Config
<1>2. [config' EXCEPT !.paused = FALSE] = [config EXCEPT !.paused = FALSE]
  BY DEF ConfigInv, Config
<1> QED  BY <1>1, <1>2 DEF ConfigInv

LEMMA MigratedType ==
  ASSUME NEW c \in Config, NEW new \in Config
  PROVE  Migrated(c, new) \in Config
<1>1. /\ OrQuicknet(new.randomness_mode, new.drand_genesis_time, BeaconGenesis) \in Nat
      /\ OrQuicknet(new.randomness_mode, new.drand_period, BeaconPeriod) \in Nat
  BY RandomnessAssumption DEF Config, OrQuicknet
<1>2. (IF new.schedule_anchor = NoAnchor THEN c.schedule_anchor ELSE new.schedule_anchor)
        \in Nat \cup {NoAnchor}
  BY DEF Config
<1> QED  BY <1>1, <1>2, ZenonT(60) DEF Migrated, Config

LEMMA SameFields ==
  ASSUME NEW c \in Config, NEW d \in Config, \A f \in DOMAIN c : c[f] = d[f]
  PROVE  c = d
  BY DEF Config

LEMMA MigrateKeeps ==
  ASSUME ConfigInv, NEW new \in Migrations, config' = Migrated(config, new)
  PROVE  ConfigInv'
<1> DEFINE unpaused(x) == [x EXCEPT !.paused = FALSE]
<1>1. /\ unpaused(config) \in Settings /\ unpaused(config) \in Config
      /\ new \in Config /\ config \in Config
  BY WinsafAssumption DEF ConfigInv
<1>2. config' \in Config /\ Migrated(unpaused(config), new) \in Config
  BY <1>1, MigratedType
<1>3. unpaused(config') \in Config
  BY <1>2 DEF Config
<1>4. \A f \in DOMAIN unpaused(config') : unpaused(config')[f] = Migrated(unpaused(config), new)[f]
  BY <1>1, ZenonT(60) DEF Migrated, Config
<1>5. unpaused(config') = Migrated(unpaused(config), new)
  BY <1>2, <1>3, <1>4, SameFields
<1>6. Migrated(unpaused(config), new) \in Settings
  BY <1>1, WinsafAssumption
<1> QED  BY <1>2, <1>5, <1>6 DEF ConfigInv

-----------------------------------------------------------------------------
(* The lottery: each message does to it what an action of Lottery does. *)

LEMMA LotteryStep ==
  ASSUME ConfigInv, EscrowInv, SlotsInv, [WinsafNext]_vars
  PROVE  [Next]_lotteryVars
<1>1. ASSUME NEW buyer \in Accounts, NEW picks \in Purchases, NEW code \in Refers,
             NEW funds \in Payments, ExecuteBuyTickets(buyer, picks, code, funds)
      PROVE  Next
  <2>1. \E referred \in BOOLEAN : BuyTickets(buyer, picks, referred)
    BY <1>1 DEF ExecuteBuyTickets
  <2> QED  BY <2>1 DEF Next
<1>2. ASSUME NEW owner \in Accounts, NEW picks \in Purchases, GrantBonusTicket(owner, picks)
      PROVE  Next
  BY <1>2 DEF Next
<1>3. ASSUME NEW sender \in Accounts, NEW r \in DOMAIN rounds, ExecuteCancelRound(sender, r)
      PROVE  Next
  <2>1. LotteryPart(config) \in Configs /\ pending_topups[r + 1] \in Escrows
    BY <1>3, ConfigFacts, WinsafAssumption DEF ExecuteCancelRound, EscrowInv
  <2>2. CancelRound(r, LotteryPart(config), pending_topups[r + 1])
    BY <1>3 DEF ExecuteCancelRound
  <2> QED  BY <2>1, <2>2 DEF Next
<1>4. ASSUME NEW r \in DOMAIN rounds, ExecuteDraw(r)
      PROVE  Next
  <2>1. LotteryPart(config) \in Configs /\ pending_topups[r + 1] \in Escrows
    BY <1>4, ConfigFacts, WinsafAssumption DEF ExecuteDraw, EscrowInv
  <2>2. requests[r].randomness \in Values
    BY <1>4 DEF ExecuteDraw, Fulfilled, Requested, SlotsInv
  <2>3. PICK winning \in Draws : Draw(r, winning, LotteryPart(config), pending_topups[r + 1])
    BY <1>4, <2>2, ConfigFacts DEF ExecuteDraw, WinningNumbers
  <2> QED  BY <2>1, <2>3 DEF Next
<1>5. ASSUME NEW r \in DOMAIN rounds, NEW i \in DOMAIN tickets[r],
             ExecuteClaimReward(tickets[r][i].owner, r, i)
      PROVE  Next
  BY <1>5 DEF ExecuteClaimReward, Next
<1>6. ASSUME NEW sender \in Accounts, NEW r \in RoundIds, NEW funds \in Payments,
             ExecuteTopUpPool(sender, r, funds)
      PROVE  Next \/ UNCHANGED lotteryVars
  <2>1. Paid(funds) \in TopUps
    BY <1>6, WinsafAssumption DEF ExecuteTopUpPool
  <2>2. CASE r \in DOMAIN rounds
    BY <1>6, <2>1, <2>2 DEF ExecuteTopUpPool, Next
  <2>3. CASE r \notin DOMAIN rounds
    BY <1>6, <2>3 DEF ExecuteTopUpPool
  <2> QED  BY <2>2, <2>3
<1>7. ASSUME NEW new \in Migrations, NEW reset \in BOOLEAN,
             NEW backfill \in {{}} \cup {{amount} : amount \in Backfills},
             ExecuteMigrate(new, backfill, reset)
      PROVE  Next
  BY <1>7 DEF ExecuteMigrate, Next
<1>8. CASE ExecuteCloseRound
  BY <1>8 DEF ExecuteCloseRound, Next
<1>9. CASE NextBlock
  BY <1>9 DEF NextBlock, Next
<1>10. CASE UNCHANGED vars
  BY <1>10 DEF vars
<1>11. CASE \E sender, owner \in Accounts, picks \in Purchases, funds \in Payments :
              \/ ExecuteGrantBonusTicket(sender, owner, picks, funds)
              \/ ExecuteGrantBonusTicketFromTreasury(sender, owner, picks, funds)
  BY <1>2, <1>11 DEF ExecuteGrantBonusTicket, ExecuteGrantBonusTicketFromTreasury
<1>12. CASE \E sender \in Accounts, r \in DOMAIN rounds :
              \/ \E randomness \in Values, signature \in Signatures :
                   ExecuteSubmitRandomness(sender, r, randomness, signature)
              \/ \E value \in Nonces : ExecuteCommitRandomness(sender, r, Sha256(value))
              \/ \E value \in Nonces : ExecuteRevealRandomness(sender, r, value)
              \/ ExecuteCancelRound(sender, r)
  BY <1>3, <1>12 DEF ExecuteSubmitRandomness, ExecuteCommitRandomness, ExecuteRevealRandomness
<1>13. CASE \/ \E referee, target \in Accounts : ExecuteBindReferrer(referee, target)
            \/ \E referee \in Accounts, code \in Codes :
                 ExecuteBindReferrer(referee, CodeOwner(code))
            \/ \E sender \in Accounts, code \in Codes : ExecuteRegisterCode(sender, code)
            \/ \E claimant \in Accounts : ExecuteClaimReferral(claimant)
            \/ \E sender \in Accounts, amount \in Withdrawals :
                 ExecuteWithdrawTreasury(sender, amount)
  BY <1>13 DEF ExecuteBindReferrer, ExecuteRegisterCode, ExecuteClaimReferral,
               ExecuteWithdrawTreasury
<1>14. CASE \E sender \in Accounts, r \in RoundIds, funds \in Payments :
              \/ ExecuteTopUpPool(sender, r, funds)
              \/ ExecuteCancelPendingTopUp(sender, r, funds)
  BY <1>6, <1>14 DEF ExecuteCancelPendingTopUp
<1>15. CASE \/ \E sender \in Accounts, new \in Settings : ExecuteSetConfig(sender, new)
            \/ \E sender \in Accounts, paused \in BOOLEAN : ExecuteSetPaused(sender, paused)
            \/ \E funds \in Payments : Gift(funds)
  BY <1>15 DEF ExecuteSetConfig, ExecuteSetPaused, Gift
<1> QED  BY <1>1, <1>4, <1>5, <1>7, <1>8, <1>9, <1>10, <1>11, <1>12, <1>13, <1>14, <1>15
         DEF WinsafNext

-----------------------------------------------------------------------------
(* What a step does to the rounds' outcomes, to the slots and to the escrow:  *)
(* only a close, a draw and a cancellation touch a status.                    *)

SameOutcomes ==
  /\ DOMAIN rounds' = DOMAIN rounds /\ current_round' = current_round
  /\ \A r \in DOMAIN rounds :
       /\ rounds'[r].status = rounds[r].status
       /\ rounds'[r].winning_numbers = rounds[r].winning_numbers

SlotStep ==
  \E sender \in Accounts, r \in DOMAIN rounds :
    \/ \E randomness \in Values, signature \in Signatures :
         SubmitRandomness(sender, r, randomness, signature, config)
    \/ \E value \in Nonces : CommitRandomness(sender, r, Sha256(value), config, now)
    \/ \E value \in Nonces : RevealRandomness(sender, r, value, Entropy(r), config, now)

EscrowStep ==
  \E r \in RoundIds \ DOMAIN rounds, amount \in 0..MaxEscrow :
    pending_topups' = [pending_topups EXCEPT ![r] = amount]

QuietStep ==
  /\ SameOutcomes
  /\ UNCHANGED requests \/ SlotStep
  /\ UNCHANGED pending_topups \/ EscrowStep

LEMMA MintQuiet ==
  ASSUME LotteryInv, NEW owner, NEW picks, NEW amount, Mint(owner, picks, amount)
  PROVE  SameOutcomes
<1>1. current_round \in DOMAIN rounds /\ rounds[current_round] \in Round
  BY DEF LotteryInv, TypeOK
<1> QED  BY <1>1 DEF Mint, SameOutcomes, LotteryInv, TypeOK, Round

LEMMA TopUpQuiet ==
  ASSUME LotteryInv, NEW r \in DOMAIN rounds, NEW amount, TopUpPool(r, amount)
  PROVE  SameOutcomes
<1>1. rounds[r] \in Round
  BY DEF LotteryInv, TypeOK
<1> QED  BY <1>1 DEF TopUpPool, SameOutcomes, LotteryInv, TypeOK, Round

LEMMA ClaimQuiet ==
  ASSUME LotteryInv, NEW sender, NEW r \in DOMAIN rounds, NEW i, ClaimReward(sender, r, i)
  PROVE  SameOutcomes
<1>1. rounds[r] \in Round
  BY DEF LotteryInv, TypeOK
<1> QED  BY <1>1 DEF ClaimReward, SameOutcomes, LotteryInv, TypeOK, Round

LEMMA MigrateQuiet ==
  ASSUME LotteryInv, NEW backfill, NEW reset, Migrate(backfill, reset)
  PROVE  SameOutcomes
<1>1. current_round \in DOMAIN rounds /\ rounds[current_round] \in Round
  BY DEF LotteryInv, TypeOK
<1> QED  BY <1>1 DEF Migrate, SameOutcomes, LotteryInv, TypeOK, Round

LEMMA SameRoundsQuiet ==
  ASSUME UNCHANGED <<rounds, current_round>>
  PROVE  SameOutcomes
  BY DEF SameOutcomes

CancelledBy(r) == \E sender \in Accounts : ExecuteCancelRound(sender, r)

LEMMA StepKinds ==
  ASSUME LotteryInv, SlotsInv, EscrowInv, [WinsafNext]_vars
  PROVE  /\ height' \in 0..MaxHeight
         /\ \/ ExecuteCloseRound
            \/ \E r \in DOMAIN rounds : ExecuteDraw(r) \/ CancelledBy(r)
            \/ QuietStep
<1> DEFINE Kind == /\ height' \in 0..MaxHeight
                   /\ \/ ExecuteCloseRound
                      \/ \E r \in DOMAIN rounds : ExecuteDraw(r) \/ CancelledBy(r)
                      \/ QuietStep
<1> SUFFICES Kind
  OBVIOUS
<1>a. height \in 0..MaxHeight /\ MaxHeight \in Nat
  BY WinsafAssumption DEF SlotsInv
<1>1. ASSUME NEW buyer \in Accounts, NEW picks \in Purchases, NEW code \in Refers,
             NEW funds \in Payments, ExecuteBuyTickets(buyer, picks, code, funds)
      PROVE  Kind
  <2>1. SameOutcomes
    BY <1>1, MintQuiet DEF ExecuteBuyTickets, BuyTickets
  <2> QED  BY <1>1, <1>a, <2>1 DEF ExecuteBuyTickets, Receive, QuietStep, randomnessVars
<1>2. ASSUME NEW sender \in Accounts, NEW owner \in Accounts, NEW picks \in Purchases,
             NEW funds \in Payments, ExecuteGrantBonusTicket(sender, owner, picks, funds)
      PROVE  Kind
  <2>1. SameOutcomes
    BY <1>2, MintQuiet DEF ExecuteGrantBonusTicket, GrantBonusTicket
  <2> QED  BY <1>2, <1>a, <2>1 DEF ExecuteGrantBonusTicket, Receive, QuietStep, randomnessVars
<1>3. ASSUME NEW sender \in Accounts, NEW owner \in Accounts, NEW picks \in Purchases,
             NEW funds \in Payments,
             ExecuteGrantBonusTicketFromTreasury(sender, owner, picks, funds)
      PROVE  Kind
  <2>1. SameOutcomes
    BY <1>3, MintQuiet DEF ExecuteGrantBonusTicketFromTreasury, GrantBonusTicket
  <2> QED  BY <1>3, <1>a, <2>1
           DEF ExecuteGrantBonusTicketFromTreasury, Spend, QuietStep, randomnessVars
<1>4. CASE ExecuteCloseRound
  BY <1>4, <1>a DEF ExecuteCloseRound
<1>5. ASSUME NEW sender \in Accounts, NEW r \in DOMAIN rounds,
             \/ \E randomness \in Values, signature \in Signatures :
                  ExecuteSubmitRandomness(sender, r, randomness, signature)
             \/ \E value \in Nonces : ExecuteCommitRandomness(sender, r, Sha256(value))
             \/ \E value \in Nonces : ExecuteRevealRandomness(sender, r, value)
      PROVE  Kind
  <2>1. SlotStep
    BY <1>5 DEF SlotStep, ExecuteSubmitRandomness, ExecuteCommitRandomness,
                ExecuteRevealRandomness
  <2>2. UNCHANGED <<height, lotteryVars, treasuryVars>>
    BY <1>5 DEF ExecuteSubmitRandomness, ExecuteCommitRandomness, ExecuteRevealRandomness
  <2>3. SameOutcomes
    BY <2>2, SameRoundsQuiet DEF lotteryVars
  <2> QED  BY <1>a, <2>1, <2>2, <2>3 DEF QuietStep, treasuryVars
<1>6. ASSUME NEW sender \in Accounts, NEW r \in DOMAIN rounds, ExecuteCancelRound(sender, r)
      PROVE  Kind
  BY <1>6, <1>a DEF ExecuteCancelRound, CancelledBy, randomnessVars
<1>7. ASSUME NEW r \in DOMAIN rounds, ExecuteDraw(r)
      PROVE  Kind
  BY <1>7, <1>a DEF ExecuteDraw, randomnessVars
<1>8. ASSUME NEW r \in DOMAIN rounds, NEW i \in DOMAIN tickets[r],
             ExecuteClaimReward(tickets[r][i].owner, r, i)
      PROVE  Kind
  <2>1. SameOutcomes
    BY <1>8, ClaimQuiet DEF ExecuteClaimReward
  <2> QED  BY <1>8, <1>a, <2>1 DEF ExecuteClaimReward, Send, QuietStep, randomnessVars
<1>9. ASSUME NEW sender \in Accounts, NEW r \in RoundIds, NEW funds \in Payments,
             ExecuteTopUpPool(sender, r, funds)
      PROVE  Kind
  <2>1. CASE r \in DOMAIN rounds
    <3>1. SameOutcomes
      BY <1>9, <2>1, TopUpQuiet DEF ExecuteTopUpPool
    <3> QED  BY <1>9, <1>a, <2>1, <3>1 DEF ExecuteTopUpPool, Receive, QuietStep, randomnessVars
  <2>2. CASE r \notin DOMAIN rounds
    <3>1. EscrowTopUp(r, Paid(funds)) /\ UNCHANGED <<lotteryVars, randomnessVars>>
      BY <1>9, <2>2 DEF ExecuteTopUpPool
    <3>2. Paid(funds) \in Nat
      BY <1>9, WinsafAssumption, LotteryAssumption DEF ExecuteTopUpPool
    <3>3. pending_topups[r] \in Nat /\ MaxEscrow \in Nat
      BY TreasuryAssumption DEF EscrowInv
    <3>4. pending_topups[r] + Paid(funds) \in 0..MaxEscrow
      BY <3>1, <3>2, <3>3 DEF EscrowTopUp
    <3>5. EscrowStep
      BY <2>2, <3>1, <3>4 DEF EscrowStep, EscrowTopUp
    <3>6. SameOutcomes
      BY <3>1, SameRoundsQuiet DEF lotteryVars
    <3> QED  BY <1>a, <3>1, <3>5, <3>6 DEF QuietStep, randomnessVars
  <2> QED  BY <2>1, <2>2
<1>10. ASSUME NEW sender \in Accounts, NEW r \in RoundIds, NEW funds \in Payments,
              ExecuteCancelPendingTopUp(sender, r, funds)
       PROVE  Kind
  <2>1. 0 \in 0..MaxEscrow
    BY TreasuryAssumption
  <2>2. EscrowStep
    BY <1>10, <2>1 DEF EscrowStep, ExecuteCancelPendingTopUp, CancelPendingTopUp
  <2>3. UNCHANGED <<lotteryVars, randomnessVars>>
    BY <1>10 DEF ExecuteCancelPendingTopUp
  <2>4. SameOutcomes
    BY <2>3, SameRoundsQuiet DEF lotteryVars
  <2> QED  BY <1>a, <2>2, <2>3, <2>4 DEF QuietStep, randomnessVars
<1>11. ASSUME NEW new \in Migrations, NEW reset \in BOOLEAN,
              NEW backfill \in {{}} \cup {{amount} : amount \in Backfills},
              ExecuteMigrate(new, backfill, reset)
       PROVE  Kind
  <2>1. SameOutcomes
    BY <1>11, MigrateQuiet DEF ExecuteMigrate
  <2> QED  BY <1>11, <1>a, <2>1 DEF ExecuteMigrate, QuietStep, randomnessVars, treasuryVars
<1>12. CASE NextBlock
  <2>1. height' \in 0..MaxHeight
    BY <1>12, <1>a DEF NextBlock
  <2>2. SameOutcomes
    BY <1>12, SameRoundsQuiet DEF NextBlock, Tick, lotteryVars
  <2> QED  BY <1>12, <2>1, <2>2 DEF NextBlock, QuietStep, treasuryVars
<1>13. ASSUME UNCHANGED <<lotteryVars, randomnessVars, pending_topups>>
       PROVE  Kind
  <2>1. SameOutcomes
    BY <1>13, SameRoundsQuiet DEF lotteryVars
  <2> QED  BY <1>13, <1>a, <2>1 DEF QuietStep, randomnessVars
<1>14. CASE \/ \E referee, target \in Accounts : ExecuteBindReferrer(referee, target)
            \/ \E referee \in Accounts, code \in Codes :
                 ExecuteBindReferrer(referee, CodeOwner(code))
            \/ \E sender \in Accounts, code \in Codes : ExecuteRegisterCode(sender, code)
            \/ \E claimant \in Accounts : ExecuteClaimReferral(claimant)
            \/ \E sender \in Accounts, amount \in Withdrawals :
                 ExecuteWithdrawTreasury(sender, amount)
            \/ \E sender \in Accounts, new \in Settings : ExecuteSetConfig(sender, new)
            \/ \E sender \in Accounts, paused \in BOOLEAN : ExecuteSetPaused(sender, paused)
            \/ \E funds \in Payments : Gift(funds)
            \/ UNCHANGED vars
  <2>1. UNCHANGED <<lotteryVars, randomnessVars, pending_topups>>
    BY <1>14 DEF ExecuteBindReferrer, ExecuteRegisterCode, ExecuteClaimReferral, Send,
                 ExecuteWithdrawTreasury, WithdrawTreasury, ExecuteSetConfig,
                 ExecuteSetPaused, Gift, Donate, vars, treasuryVars
  <2> QED  BY <1>13, <2>1
<1> HIDE DEF Kind
<1>15. CASE \E sender, owner \in Accounts, picks \in Purchases, funds \in Payments :
              \/ ExecuteGrantBonusTicket(sender, owner, picks, funds)
              \/ ExecuteGrantBonusTicketFromTreasury(sender, owner, picks, funds)
  BY <1>2, <1>3, <1>15
<1>16. CASE \E sender \in Accounts, r \in DOMAIN rounds :
              \/ \E randomness \in Values, signature \in Signatures :
                   ExecuteSubmitRandomness(sender, r, randomness, signature)
              \/ \E value \in Nonces : ExecuteCommitRandomness(sender, r, Sha256(value))
              \/ \E value \in Nonces : ExecuteRevealRandomness(sender, r, value)
              \/ ExecuteCancelRound(sender, r)
  <2>1. PICK sender \in Accounts, r \in DOMAIN rounds :
          \/ \E randomness \in Values, signature \in Signatures :
               ExecuteSubmitRandomness(sender, r, randomness, signature)
          \/ \E value \in Nonces : ExecuteCommitRandomness(sender, r, Sha256(value))
          \/ \E value \in Nonces : ExecuteRevealRandomness(sender, r, value)
          \/ ExecuteCancelRound(sender, r)
    BY <1>16
  <2>2. CASE ExecuteCancelRound(sender, r)
    BY <1>6, <2>2
  <2>3. CASE ~ExecuteCancelRound(sender, r)
    BY <1>5, <2>1, <2>3
  <2> QED  BY <2>2, <2>3
<1>17. CASE \E sender \in Accounts, r \in RoundIds, funds \in Payments :
              \/ ExecuteTopUpPool(sender, r, funds)
              \/ ExecuteCancelPendingTopUp(sender, r, funds)
  BY <1>9, <1>10, <1>17
<1> QED
  BY <1>1, <1>4, <1>7, <1>8, <1>11, <1>12, <1>14, <1>15, <1>16, <1>17 DEF WinsafNext

-----------------------------------------------------------------------------
(* The slots *)

WinsafInv ==
  /\ LotteryInv /\ ConfigInv /\ EscrowInv /\ SlotsInv
  /\ EscrowAhead /\ SlotsMatchRounds

LEMMA BoundBeaconType ==
  ASSUME ConfigInv, NEW r \in Nat, NEW closes_at \in Nat
  PROVE  BoundBeacon(r, closes_at, config) \in Nat
<1> DEFINE genesis == config.drand_genesis_time
           period == config.drand_period
<1>1. genesis \in Nat /\ period \in Nat
  BY DEF ConfigInv, Config
<1>2. DrandRoundAfter(closes_at, genesis, period) \in Nat
  <2>1. CASE period = 0 \/ closes_at < genesis
    BY <2>1 DEF DrandRoundAfter
  <2>2. CASE ~(period = 0 \/ closes_at < genesis)
    <3>1. closes_at - genesis \in Nat /\ period # 0
      BY <1>1, <2>2
    <3>2. (closes_at - genesis) \div period \in Nat
      BY <1>1, <3>1, DivisionFloors
    <3> QED  BY <2>2, <3>2 DEF DrandRoundAfter
  <2> QED  BY <2>1, <2>2
<1> QED  BY <1>2 DEF BoundBeacon

\* A close gives the current round an empty slot, and touches no other.
LEMMA CloseSlots ==
  ASSUME LotteryInv, ConfigInv, SlotsInv, SlotsMatchRounds, ExecuteCloseRound,
         height' \in 0..MaxHeight
  PROVE  /\ SlotsInv' /\ SlotsMatchRounds'
         /\ DOMAIN rounds' = DOMAIN rounds /\ UNCHANGED current_round
         /\ rounds[current_round].status = "Open"
         /\ \A x \in DOMAIN rounds :
              /\ x # current_round => rounds'[x].status = rounds[x].status
              /\ rounds'[x].winning_numbers = rounds[x].winning_numbers
         /\ rounds'[current_round].status = "Drawing"
         /\ \A r \in DOMAIN requests : r \in DOMAIN requests' /\ requests'[r] = requests[r]
<1> DEFINE r == current_round
           beacon == BoundBeacon(r, rounds[r].closes_at, config)
<1>1. r \in DOMAIN rounds /\ rounds[r] \in Round /\ r \in Nat
  BY DEF LotteryInv, TypeOK
<1>2. /\ rounds[r].status = "Open"
      /\ DOMAIN rounds' = DOMAIN rounds
      /\ \A x \in DOMAIN rounds :
           /\ rounds'[x].status = IF x = r THEN "Drawing" ELSE rounds[x].status
           /\ rounds'[x].winning_numbers = rounds[x].winning_numbers
  BY <1>1 DEF ExecuteCloseRound, CloseRound, LotteryInv, TypeOK, Round
<1>3. r \notin DOMAIN requests
  BY <1>1, <1>2 DEF SlotsMatchRounds, Requested
<1>4. beacon \in Nat
  BY <1>1, BoundBeaconType DEF Round
<1> HIDE DEF beacon
<1>5. NewRequest(beacon) \in RandomnessRequest /\ NewRequest(beacon).status = "Pending"
  BY <1>4 DEF NewRequest, RandomnessRequest, Maybe
<1>6. /\ DOMAIN requests' = DOMAIN requests \cup {r}
      /\ requests'[r] = NewRequest(beacon)
      /\ \A x \in DOMAIN requests : requests'[x] = requests[x]
      /\ requests' = [x \in DOMAIN requests' |-> requests'[x]]
  BY <1>3 DEF ExecuteCloseRound, RequestRandomness, beacon
<1>7. requests' \in [DOMAIN requests' -> RandomnessRequest]
  BY <1>5, <1>6 DEF SlotsInv
<1>8. SlotsInv'
  BY <1>1, <1>2, <1>5, <1>6, <1>7 DEF SlotsInv
<1>9. SlotsMatchRounds'
  BY <1>1, <1>2, <1>6 DEF SlotsMatchRounds, Requested
<1>10. UNCHANGED current_round
  BY DEF ExecuteCloseRound, CloseRound
<1> QED  BY <1>1, <1>2, <1>6, <1>8, <1>9, <1>10

\* What a submission, a commitment or a reveal leaves of the slots.
SlotsKept ==
  /\ DOMAIN requests' = DOMAIN requests
  /\ \A r \in DOMAIN requests :
       /\ requests'[r].beacon_round = requests[r].beacon_round
       /\ requests[r].commitment # NoValue =>
            /\ requests'[r].commitment = requests[r].commitment
            /\ requests'[r].committer = requests[r].committer
            /\ requests'[r].reveal_deadline = requests[r].reveal_deadline
       /\ requests[r].status = "Fulfilled" => requests'[r] = requests[r]

LEMMA SlotStepKeeps ==
  ASSUME SeedsAreValues, LotteryInv, ConfigInv, SlotsInv, SlotStep, height' \in 0..MaxHeight,
         DOMAIN rounds' = DOMAIN rounds
  PROVE  SlotsInv' /\ SlotsKept
<1>1. PICK sender \in Accounts, r \in DOMAIN rounds :
        \/ \E randomness \in Values, signature \in Signatures :
             SubmitRandomness(sender, r, randomness, signature, config)
        \/ \E value \in Nonces : CommitRandomness(sender, r, Sha256(value), config, now)
        \/ \E value \in Nonces : RevealRandomness(sender, r, value, Entropy(r), config, now)
  BY DEF SlotStep
<1>2. /\ r \in DOMAIN requests /\ requests[r] \in RandomnessRequest
      /\ requests[r].status # "Fulfilled"
  BY <1>1 DEF SubmitRandomness, CommitRandomness, RevealRandomness, PendingRandomness,
              Requested, SlotsInv
<1> SUFFICES ASSUME NEW slot \in RandomnessRequest,
                    requests' = [requests EXCEPT ![r] = slot],
                    slot.status = "Fulfilled" => slot.randomness \in Values,
                    slot.beacon_round = requests[r].beacon_round,
                    requests[r].commitment # NoValue =>
                      /\ slot.commitment = requests[r].commitment
                      /\ slot.committer = requests[r].committer
                      /\ slot.reveal_deadline = requests[r].reveal_deadline
             PROVE  SlotsInv' /\ SlotsKept
  <2>1. CASE \E randomness \in Values, signature \in Signatures :
               SubmitRandomness(sender, r, randomness, signature, config)
    <3>1. PICK randomness \in Values, signature \in Signatures :
            SubmitRandomness(sender, r, randomness, signature, config)
      BY <2>1
    <3> DEFINE slot == [requests[r] EXCEPT !.status = "Fulfilled", !.randomness = randomness,
                                           !.signature = signature]
    <3>2. requests' = [requests EXCEPT ![r] = slot]
      BY <1>2, <3>1 DEF SubmitRandomness
    <3>3. /\ slot \in RandomnessRequest /\ slot.randomness \in Values
          /\ slot.beacon_round = requests[r].beacon_round
          /\ slot.commitment = requests[r].commitment /\ slot.committer = requests[r].committer
          /\ slot.reveal_deadline = requests[r].reveal_deadline
      BY <1>2 DEF RandomnessRequest
    <3> QED  BY <3>2, <3>3
  <2>2. CASE \E value \in Nonces : CommitRandomness(sender, r, Sha256(value), config, now)
    <3>1. PICK value \in Nonces : CommitRandomness(sender, r, Sha256(value), config, now)
      BY <2>2
    <3> DEFINE deadline == SaturatingAdd(now, RevealTimeout(config))
               slot == CommittedRequest(r, sender, Sha256(value), config, now)
    <3>2. requests' = [requests EXCEPT ![r] = slot] /\ requests[r].commitment = NoValue
      BY <3>1 DEF CommitRandomness
    <3>3. deadline \in Nat
      <4>1. now \in Nat
        BY LotteryAssumption DEF LotteryInv, TypeOK
      <4>2. RevealTimeout(config) \in Nat
        BY RandomnessAssumption DEF RevealTimeout, ConfigInv, Config
      <4> QED  BY <4>1, <4>2, MaxTimeAssumption DEF SaturatingAdd
    <3>4. Sha256(value) \in Values
      BY VerifyAssumption
    <3>5. height \in Nat
      BY WinsafAssumption DEF SlotsInv
    <3>6. slot = [requests[r] EXCEPT !.status = "Committed", !.commitment = Sha256(value),
                    !.committer = sender, !.commit_height = height, !.reveal_deadline = deadline]
      BY DEF CommittedRequest
    <3> HIDE DEF deadline
    <3>7. /\ slot \in RandomnessRequest /\ slot.status = "Committed"
          /\ slot.beacon_round = requests[r].beacon_round
      BY <1>2, <3>3, <3>4, <3>5, <3>6 DEF RandomnessRequest, Maybe
    <3> QED  BY <3>2, <3>7
  <2>3. CASE \E value \in Nonces :
               RevealRandomness(sender, r, value, Entropy(r), config, now)
    <3>1. PICK value \in Nonces : RevealRandomness(sender, r, value, Entropy(r), config, now)
      BY <2>3
    <3> DEFINE seed == RevealSeed(value, Entropy(r), now, height)
               slot == [requests[r] EXCEPT !.status = "Fulfilled", !.randomness = seed]
    <3>2. requests' = [requests EXCEPT ![r] = slot]
      BY <1>2, <3>1 DEF RevealRandomness
    <3>3. seed \in Values
      BY DEF SeedsAreValues
    <3> HIDE DEF seed
    <3>4. /\ slot \in RandomnessRequest /\ slot.randomness \in Values
          /\ slot.beacon_round = requests[r].beacon_round
          /\ slot.commitment = requests[r].commitment /\ slot.committer = requests[r].committer
          /\ slot.reveal_deadline = requests[r].reveal_deadline
      BY <1>2, <3>3 DEF RandomnessRequest
    <3> QED  BY <3>2, <3>4
  <2> QED  BY <1>1, <2>1, <2>2, <2>3
<1>3. SlotsInv'
  BY <1>2 DEF SlotsInv
<1>4. SlotsKept
  BY <1>2 DEF SlotsKept, SlotsInv
<1> QED  BY <1>3, <1>4

-----------------------------------------------------------------------------
(* The invariant *)

\* The three messages that change the configuration.
LEMMA ConfigStepKinds ==
  ASSUME [WinsafNext]_vars
  PROVE  \/ UNCHANGED config
         \/ \E sender \in Accounts, new \in Settings : ExecuteSetConfig(sender, new)
         \/ \E sender \in Accounts, paused \in BOOLEAN : ExecuteSetPaused(sender, paused)
         \/ \E new \in Migrations, reset \in BOOLEAN,
               backfill \in {{}} \cup {{amount} : amount \in Backfills} :
              ExecuteMigrate(new, backfill, reset)
<1>1. CASE \E sender \in Accounts, r \in RoundIds, funds \in Payments :
             ExecuteTopUpPool(sender, r, funds) \/ ExecuteCancelPendingTopUp(sender, r, funds)
  BY <1>1 DEF ExecuteTopUpPool, ExecuteCancelPendingTopUp
<1>2. CASE \/ \E buyer \in Accounts, picks \in Purchases, code \in Refers, funds \in Payments :
                ExecuteBuyTickets(buyer, picks, code, funds)
           \/ \E sender, owner \in Accounts, picks \in Purchases, funds \in Payments :
                \/ ExecuteGrantBonusTicket(sender, owner, picks, funds)
                \/ ExecuteGrantBonusTicketFromTreasury(sender, owner, picks, funds)
  BY <1>2 DEF ExecuteBuyTickets, ExecuteGrantBonusTicket,
                    ExecuteGrantBonusTicketFromTreasury
<1>3. CASE \/ ExecuteCloseRound
           \/ \E sender \in Accounts, r \in DOMAIN rounds :
                \/ \E randomness \in Values, signature \in Signatures :
                     ExecuteSubmitRandomness(sender, r, randomness, signature)
                \/ \E value \in Nonces : ExecuteCommitRandomness(sender, r, Sha256(value))
                \/ \E value \in Nonces : ExecuteRevealRandomness(sender, r, value)
                \/ ExecuteCancelRound(sender, r)
           \/ \E r \in DOMAIN rounds : ExecuteDraw(r)
           \/ \E r \in DOMAIN rounds : \E i \in DOMAIN tickets[r] :
                ExecuteClaimReward(tickets[r][i].owner, r, i)
  BY <1>3 DEF ExecuteCloseRound, ExecuteSubmitRandomness, ExecuteCommitRandomness,
                    ExecuteRevealRandomness, ExecuteCancelRound, ExecuteDraw, ExecuteClaimReward
<1>4. CASE \/ \E referee, target \in Accounts : ExecuteBindReferrer(referee, target)
           \/ \E referee \in Accounts, code \in Codes :
                ExecuteBindReferrer(referee, CodeOwner(code))
           \/ \E sender \in Accounts, code \in Codes : ExecuteRegisterCode(sender, code)
           \/ \E claimant \in Accounts : ExecuteClaimReferral(claimant)
           \/ \E sender \in Accounts, amount \in Withdrawals :
                ExecuteWithdrawTreasury(sender, amount)
           \/ \E funds \in Payments : Gift(funds)
           \/ NextBlock
           \/ UNCHANGED vars
  BY <1>4 DEF ExecuteBindReferrer, ExecuteRegisterCode, ExecuteClaimReferral,
                    ExecuteWithdrawTreasury, Gift, NextBlock, vars
<1> QED  BY <1>1, <1>2, <1>3, <1>4 DEF WinsafNext

LEMMA ConfigStepInv ==
  ASSUME ConfigInv, [WinsafNext]_vars
  PROVE  ConfigInv'
<1>1. ASSUME NEW sender \in Accounts, NEW new \in Settings, ExecuteSetConfig(sender, new)
      PROVE  ConfigInv'
  BY <1>1, SetConfigKeeps DEF ExecuteSetConfig
<1>2. ASSUME NEW sender \in Accounts, NEW paused \in BOOLEAN, ExecuteSetPaused(sender, paused)
      PROVE  ConfigInv'
  BY <1>2, SetPausedKeeps DEF ExecuteSetPaused
<1>3. ASSUME NEW new \in Migrations, NEW reset \in BOOLEAN,
             NEW backfill \in {{}} \cup {{amount} : amount \in Backfills},
             ExecuteMigrate(new, backfill, reset)
      PROVE  ConfigInv'
  BY <1>3, MigrateKeeps DEF ExecuteMigrate
<1>4. ASSUME UNCHANGED config
      PROVE  ConfigInv'
  BY <1>4 DEF ConfigInv
<1> QED  BY <1>1, <1>2, <1>3, <1>4, ConfigStepKinds

LEMMA WinsafInitInv ==
  ASSUME WinsafInit
  PROVE  Init /\ WinsafInv
<1>1. config \in Settings /\ LotteryPart(config) \in Configs /\ config \in Config /\ ~config.paused
  BY WinsafAssumption DEF WinsafInit
<1>2. Init
  <2>1. /\ LotteryPart(config).draw_interval = config.draw_interval
        /\ LotteryPart(config).schedule_anchor = config.schedule_anchor
    BY DEF LotteryPart
  <2>2. /\ NextCloseAt(LotteryPart(config), now) = NextCloseAt(config, now)
        /\ Schedulable(LotteryPart(config), now) <=> Schedulable(config, now)
    BY <2>1 DEF Schedulable, NextCloseAt, GridClose, NextGridPoint
  <2>3. /\ now = StartTime /\ Schedulable(LotteryPart(config), now) /\ current_round = 1
        /\ rounds = [r \in {1} |-> NewOpen(NextCloseAt(LotteryPart(config), now), 0, 0)]
        /\ tickets = [r \in {1} |-> <<>>] /\ dry_streak = 0
    BY <2>2 DEF WinsafInit
  <2> QED  BY <1>1, <2>3 DEF Init
<1>3. LotteryInv
  BY <1>2, InitInv
<1>4. ConfigInv
  <2>1. [config EXCEPT !.paused = FALSE] = config
    BY <1>1 DEF Config
  <2> QED  BY <1>1, <2>1 DEF ConfigInv
<1>5. EscrowInv /\ EscrowAhead
  BY TreasuryAssumption DEF WinsafInit, TreasuryInit, EscrowInv, EscrowAhead
<1>6. SlotsInv /\ SlotsMatchRounds
  <2>1. DOMAIN requests = {} /\ requests = [x \in {} |-> requests[x]] /\ height = 0
    BY DEF WinsafInit
  <2>2. \A r \in DOMAIN rounds : rounds[r].status = "Open"
    BY DEF WinsafInit, NewOpen
  <2> QED  BY <2>1, <2>2, WinsafAssumption DEF SlotsInv, SlotsMatchRounds, Requested
<1> QED  BY <1>2, <1>3, <1>4, <1>5, <1>6 DEF WinsafInv

\* A draw or a cancellation of r: what it does to the statuses and the escrow.
LEMMA FinishStep ==
  ASSUME LotteryInv, EscrowInv, NEW r \in DOMAIN rounds, ExecuteDraw(r) \/ CancelledBy(r)
  PROVE  /\ r = current_round /\ rounds[r].status = "Drawing"
         /\ current_round' = r + 1 /\ r + 1 \in RoundIds /\ r + 1 \notin DOMAIN rounds
         /\ DOMAIN rounds' = DOMAIN rounds \cup {r + 1}
         /\ IF ExecuteDraw(r)
              THEN /\ rounds'[r].status = "Settled" /\ Fulfilled(r)
                   /\ rounds'[r].winning_numbers = WinningNumbers(r)
              ELSE /\ rounds'[r].status = "Cancelled" /\ ~Fulfilled(r)
                   /\ rounds'[r].winning_numbers = rounds[r].winning_numbers
         /\ rounds'[r + 1].status = "Open" /\ rounds'[r + 1].winning_numbers = {}
         /\ tickets'[r + 1] = <<>>
         /\ \A x \in DOMAIN rounds \ {r} : rounds'[x] = rounds[x] /\ tickets'[x] = tickets[x]
         /\ pending_topups' = [pending_topups EXCEPT ![r + 1] = 0]
         /\ UNCHANGED randomnessVars
<1>1. rounds[r] \in Round
  BY DEF LotteryInv, TypeOK
<1>a. /\ r + 1 \in RoundIds /\ UNCHANGED randomnessVars
      /\ pending_topups' = [pending_topups EXCEPT ![r + 1] = 0]
  BY DEF ExecuteDraw, CancelledBy, ExecuteCancelRound, AbsorbEscrow
<1>2. CASE ExecuteDraw(r)
  <2>1. PICK closed, ts, c, rollover, pending :
          /\ closed.status = "Settled" /\ rounds[r].status = "Drawing" /\ Fulfilled(r)
          /\ closed.winning_numbers = WinningNumbers(r)
          /\ OpenNextRound(r, closed, ts, c, rollover, pending)
    BY <1>1, <1>2 DEF ExecuteDraw, Draw, Round
  <2>2. /\ r = current_round /\ current_round' = r + 1 /\ r + 1 \notin DOMAIN rounds
        /\ DOMAIN rounds' = DOMAIN rounds \cup {r + 1}
        /\ rounds'[r] = closed /\ tickets'[r + 1] = <<>>
        /\ rounds'[r + 1].status = "Open" /\ rounds'[r + 1].winning_numbers = {}
        /\ \A x \in DOMAIN rounds \ {r} : rounds'[x] = rounds[x] /\ tickets'[x] = tickets[x]
    BY <2>1, NextOpened
  <2> QED  BY <1>a, <1>2, <2>1, <2>2
<1>3. CASE CancelledBy(r) /\ ~ExecuteDraw(r)
  <2>1. PICK closed, ts, c, rollover, pending :
          /\ closed.status = "Cancelled" /\ rounds[r].status = "Drawing" /\ ~Fulfilled(r)
          /\ closed.winning_numbers = rounds[r].winning_numbers
          /\ OpenNextRound(r, closed, ts, c, rollover, pending)
    BY <1>1, <1>3 DEF CancelledBy, ExecuteCancelRound, CancelRound, MayCancel, Round
  <2>2. /\ r = current_round /\ current_round' = r + 1 /\ r + 1 \notin DOMAIN rounds
        /\ DOMAIN rounds' = DOMAIN rounds \cup {r + 1}
        /\ rounds'[r] = closed /\ tickets'[r + 1] = <<>>
        /\ rounds'[r + 1].status = "Open" /\ rounds'[r + 1].winning_numbers = {}
        /\ \A x \in DOMAIN rounds \ {r} : rounds'[x] = rounds[x] /\ tickets'[x] = tickets[x]
    BY <2>1, NextOpened
  <2> QED  BY <1>a, <1>3, <2>1, <2>2
<1> QED  BY <1>2, <1>3

LEMMA FinishInv ==
  ASSUME WinsafInv, NEW r \in DOMAIN rounds, ExecuteDraw(r) \/ CancelledBy(r)
  PROVE  EscrowInv' /\ SlotsInv' /\ EscrowAhead' /\ SlotsMatchRounds'
<1> USE DEF WinsafInv
<1>1. /\ r = current_round /\ rounds[r].status = "Drawing" /\ r \in Nat
      /\ current_round' = r + 1 /\ r + 1 \in RoundIds /\ r + 1 \notin DOMAIN rounds
      /\ DOMAIN rounds' = DOMAIN rounds \cup {r + 1}
      /\ rounds'[r].status \in {"Settled", "Cancelled"}
      /\ rounds'[r + 1].status = "Open" /\ rounds'[r + 1].winning_numbers = {}
      /\ \A x \in DOMAIN rounds \ {r} : rounds'[x] = rounds[x]
      /\ pending_topups' = [pending_topups EXCEPT ![r + 1] = 0]
      /\ requests' = requests /\ height' = height
  <2>1. r \in Nat
    BY DEF LotteryInv, TypeOK
  <2>2. rounds'[r].status \in {"Settled", "Cancelled"}
    BY FinishStep
  <2> QED  BY <2>1, <2>2, FinishStep DEF randomnessVars
<1>2. EscrowInv' /\ EscrowAhead'
  BY <1>1, TreasuryAssumption, BasicsAssumption DEF EscrowInv, EscrowAhead, RoundIds
<1>3. SlotsInv'
  BY <1>1 DEF SlotsInv
<1>4. SlotsMatchRounds'
  BY <1>1 DEF SlotsMatchRounds, Requested, SlotsInv
<1> QED  BY <1>2, <1>3, <1>4

LEMMA QuietInv ==
  ASSUME SeedsAreValues, WinsafInv, QuietStep, height' \in 0..MaxHeight
  PROVE  EscrowInv' /\ SlotsInv' /\ EscrowAhead' /\ SlotsMatchRounds' /\ SlotsKept
<1> USE DEF WinsafInv
<1>1. /\ DOMAIN rounds' = DOMAIN rounds /\ current_round' = current_round
      /\ \A r \in DOMAIN rounds :
           /\ rounds'[r].status = rounds[r].status
           /\ rounds'[r].winning_numbers = rounds[r].winning_numbers
  BY DEF QuietStep, SameOutcomes
<1>2. SlotsInv' /\ SlotsKept
  <2>1. CASE SlotStep
    BY <1>1, <2>1, SlotStepKeeps
  <2>2. CASE UNCHANGED requests
    BY <1>1, <2>2 DEF SlotsInv, SlotsKept
  <2> QED  BY <2>1, <2>2 DEF QuietStep
<1>3. EscrowInv' /\ EscrowAhead'
  <2>1. CASE EscrowStep
    <3>1. PICK r \in RoundIds \ DOMAIN rounds, amount \in 0..MaxEscrow :
            pending_topups' = [pending_topups EXCEPT ![r] = amount]
      BY <2>1 DEF EscrowStep
    <3>2. r > current_round
      BY <3>1 DEF LotteryInv, TypeOK, RoundIds
    <3> QED  BY <1>1, <3>1, <3>2 DEF EscrowInv, EscrowAhead
  <2>2. CASE UNCHANGED pending_topups
    BY <1>1, <2>2 DEF EscrowInv, EscrowAhead
  <2> QED  BY <2>1, <2>2 DEF QuietStep
<1>4. SlotsMatchRounds'
  BY <1>1, <1>2 DEF SlotsMatchRounds, Requested, SlotsKept
<1> QED  BY <1>2, <1>3, <1>4

LEMMA CloseInv ==
  ASSUME WinsafInv, ExecuteCloseRound, height' \in 0..MaxHeight
  PROVE  EscrowInv' /\ SlotsInv' /\ EscrowAhead' /\ SlotsMatchRounds'
<1> USE DEF WinsafInv
<1>1. /\ SlotsInv' /\ SlotsMatchRounds'
      /\ DOMAIN rounds' = DOMAIN rounds /\ UNCHANGED current_round
      /\ rounds[current_round].status = "Open" /\ rounds'[current_round].status = "Drawing"
      /\ \A x \in DOMAIN rounds :
           /\ x # current_round => rounds'[x].status = rounds[x].status
           /\ rounds'[x].winning_numbers = rounds[x].winning_numbers
      /\ \A r \in DOMAIN requests : r \in DOMAIN requests' /\ requests'[r] = requests[r]
  BY CloseSlots
<1>2. EscrowInv' /\ EscrowAhead'
  BY <1>1 DEF ExecuteCloseRound, treasuryVars, EscrowInv, EscrowAhead
<1> QED  BY <1>1, <1>2

LEMMA WinsafNextInv ==
  ASSUME SeedsAreValues, WinsafInv, [WinsafNext]_vars
  PROVE  WinsafInv' /\ [Next]_lotteryVars
<1>1. /\ height' \in 0..MaxHeight
      /\ \/ ExecuteCloseRound
         \/ \E r \in DOMAIN rounds : ExecuteDraw(r) \/ CancelledBy(r)
         \/ QuietStep
  BY StepKinds DEF WinsafInv
<1>2. EscrowInv' /\ SlotsInv' /\ EscrowAhead' /\ SlotsMatchRounds'
  BY <1>1, CloseInv, FinishInv, QuietInv
<1>3. [Next]_lotteryVars
  BY LotteryStep DEF WinsafInv
<1>4. LotteryInv'
  BY <1>3, NextInv DEF WinsafInv
<1>5. ConfigInv'
  BY ConfigStepInv DEF WinsafInv
<1> QED  BY <1>2, <1>3, <1>4, <1>5 DEF WinsafInv

-----------------------------------------------------------------------------
(* Theorems *)

LEMMA InvariantAlways == SeedsAreValues /\ WinsafSpec => []WinsafInv
<1> SUFFICES ASSUME SeedsAreValues PROVE WinsafSpec => []WinsafInv
  OBVIOUS
<1>1. WinsafInit => WinsafInv
  BY WinsafInitInv
<1>2. WinsafInv /\ [WinsafNext]_vars => WinsafInv'
  BY WinsafNextInv
<1> QED  BY <1>1, <1>2, PTL DEF WinsafSpec

\* The composition implements the lottery: every message does to the rounds, the
\* tickets and the streak what an action of Lottery does, or nothing, so what is
\* proved of Lottery holds of the contract.
THEOREM LotteryImplemented == SeedsAreValues /\ WinsafSpec => IsLottery
<1> SUFFICES ASSUME SeedsAreValues PROVE WinsafSpec => IsLottery
  OBVIOUS
<1>1. WinsafInit => Init
  BY WinsafInitInv
<1>2. WinsafInv /\ [WinsafNext]_vars => [Next]_lotteryVars
  BY WinsafNextInv
<1>3. WinsafSpec => []WinsafInv
  BY InvariantAlways
<1> QED  BY <1>1, <1>2, <1>3, PTL DEF WinsafSpec, IsLottery, Spec

\* So the lottery's promises hold of the whole contract, over every order of messages:
\* pools back prizes, claims and resolutions never underflow, finished rounds stand, a
\* cancellation refunds no inherited money and a jackpot that must be won is.
THEOREM LotteryPromisesInContract ==
  SeedsAreValues /\ WinsafSpec
    => /\ [](PoolBacksPrizes /\ ClaimsCovered /\ ResolutionCovered)
       /\ PrizesFinal /\ JackpotCarriedForward /\ MustBeWon
<1>1. SeedsAreValues /\ WinsafSpec => Spec
  BY LotteryImplemented DEF IsLottery
<1> QED
  BY <1>1, PoolBacksPrizesAlways, ClaimsCoveredAlways, ResolutionCoveredAlways, PrizesAreFinal,
     JackpotIsCarriedForward, JackpotMustBeWon, PTL

\* Escrow is never stranded behind the current round.
THEOREM EscrowAheadAlways == SeedsAreValues /\ WinsafSpec => []EscrowAhead
<1>1. WinsafInv => EscrowAhead
  BY DEF WinsafInv
<1> QED  BY <1>1, InvariantAlways, PTL

\* A round has a randomness slot exactly from its close on, so that no second close
\* binds it to another beacon and none is filled for a round that is still open.
THEOREM SlotsMatchRoundsAlways == SeedsAreValues /\ WinsafSpec => []SlotsMatchRounds
<1>1. WinsafInv => SlotsMatchRounds
  BY DEF WinsafInv
<1> QED  BY <1>1, InvariantAlways, PTL

\* A slot is never emptied, a commitment never replaced or given more time, and a
\* delivered outcome never changed.
THEOREM SlotsAreFinal == SeedsAreValues /\ WinsafSpec => SlotsFinal
<1> DEFINE Kept ==
      \A r \in DOMAIN requests :
        /\ r \in DOMAIN requests'
        /\ requests'[r].beacon_round = requests[r].beacon_round
        /\ requests[r].commitment # NoValue =>
             /\ requests'[r].commitment = requests[r].commitment
             /\ requests'[r].committer = requests[r].committer
             /\ requests'[r].reveal_deadline = requests[r].reveal_deadline
        /\ requests[r].status = "Fulfilled" => requests'[r] = requests[r]
<1> SUFFICES ASSUME SeedsAreValues PROVE WinsafSpec => SlotsFinal
  OBVIOUS
<1>1. WinsafInv /\ [WinsafNext]_vars => [Kept]_vars
  <2> SUFFICES ASSUME WinsafInv, [WinsafNext]_vars PROVE Kept
    OBVIOUS
  <2>1. height' \in 0..MaxHeight
    BY StepKinds DEF WinsafInv
  <2>2. CASE ExecuteCloseRound
    BY <2>1, <2>2, CloseSlots DEF WinsafInv
  <2>3. CASE \E r \in DOMAIN rounds : ExecuteDraw(r) \/ CancelledBy(r)
    <3>1. UNCHANGED requests
      BY <2>3, FinishStep DEF WinsafInv, randomnessVars
    <3> QED  BY <3>1
  <2>4. CASE QuietStep
    <3>1. SlotsKept
      BY <2>1, <2>4, QuietInv
    <3> QED  BY <3>1 DEF SlotsKept
  <2> QED  BY <2>2, <2>3, <2>4, StepKinds DEF WinsafInv
<1>2. WinsafSpec => []WinsafInv
  BY InvariantAlways
<1> QED  BY <1>1, <1>2, PTL DEF WinsafSpec, SlotsFinal

\* Once the outcome of a round is delivered nobody cancels the round any more.
THEOREM OutcomesStand == SeedsAreValues /\ WinsafSpec => OutcomeStands
<1> DEFINE Stands ==
      \A r \in DOMAIN rounds :
        Fulfilled(r) /\ rounds[r].status = "Drawing" =>
          rounds'[r].status \in {"Drawing", "Settled"}
<1> SUFFICES ASSUME SeedsAreValues PROVE WinsafSpec => OutcomeStands
  OBVIOUS
<1>1. WinsafInv /\ [WinsafNext]_vars => [Stands]_vars
  <2> SUFFICES ASSUME WinsafInv, [WinsafNext]_vars, NEW r \in DOMAIN rounds,
                      Fulfilled(r), rounds[r].status = "Drawing"
               PROVE  rounds'[r].status \in {"Drawing", "Settled"}
    OBVIOUS
  <2>1. CASE ExecuteCloseRound
    <3>1. height' \in 0..MaxHeight
      BY StepKinds DEF WinsafInv
    <3>2. /\ rounds'[current_round].status = "Drawing"
          /\ r # current_round => rounds'[r].status = rounds[r].status
      BY <2>1, <3>1, CloseSlots DEF WinsafInv
    <3> QED  BY <3>2
  <2>2. CASE \E x \in DOMAIN rounds : ExecuteDraw(x) \/ CancelledBy(x)
    <3>1. PICK x \in DOMAIN rounds : ExecuteDraw(x) \/ CancelledBy(x)
      BY <2>2
    <3>2. /\ x = current_round
          /\ rounds'[x].status = "Settled" \/ ~Fulfilled(x)
          /\ \A y \in DOMAIN rounds \ {x} : rounds'[y] = rounds[y]
      BY <3>1, FinishStep DEF WinsafInv
    <3> QED  BY <3>2
  <2>3. CASE QuietStep
    BY <2>3 DEF QuietStep, SameOutcomes
  <2> QED  BY <2>1, <2>2, <2>3, StepKinds DEF WinsafInv
<1>2. WinsafSpec => []WinsafInv
  BY InvariantAlways
<1> QED  BY <1>1, <1>2, PTL DEF WinsafSpec, OutcomeStands

\* Neither a new configuration nor a migration exchanges the mechanism of a round that
\* waits for its outcome.
LEMMA MechanismKept ==
  ASSUME WinsafInv, [WinsafNext]_vars, rounds[current_round].status = "Drawing"
  PROVE  Mechanism(config') = Mechanism(config)
<1>1. config \in Config
  BY DEF WinsafInv, ConfigInv
<1>2. CASE UNCHANGED config
  BY <1>2
<1>3. CASE \E sender \in Accounts, new \in Settings : ExecuteSetConfig(sender, new)
  <2>1. PICK sender \in Accounts, new \in Settings : ExecuteSetConfig(sender, new)
    BY <1>3
  <2>2. new \in Config /\ Mechanism(new) = Mechanism(config)
    BY <2>1, WinsafAssumption DEF ExecuteSetConfig, InFlight
  <2>3. Mechanism(config') = Mechanism(new)
    BY <2>1, <2>2 DEF ExecuteSetConfig, Mechanism, Config
  <2> QED  BY <2>2, <2>3
<1>4. CASE \E sender \in Accounts, paused \in BOOLEAN : ExecuteSetPaused(sender, paused)
  BY <1>1, <1>4 DEF ExecuteSetPaused, Mechanism, Config
<1>5. CASE \E new \in Migrations, reset \in BOOLEAN,
              backfill \in {{}} \cup {{amount} : amount \in Backfills} :
             ExecuteMigrate(new, backfill, reset)
  <2>1. PICK new \in Migrations : /\ RandomnessPart(new) = RandomnessPart(config)
                                  /\ config' = Migrated(config, new)
    BY <1>5 DEF ExecuteMigrate
  <2>2. /\ config'.randomness_mode = new.randomness_mode
        /\ config'.verify_mode = new.verify_mode /\ config'.drand_pubkey = new.drand_pubkey
    BY <1>1, <2>1 DEF Migrated, Config
  <2> QED  BY <2>1, <2>2 DEF Mechanism, RandomnessPart
<1> QED  BY <1>2, <1>3, <1>4, <1>5, ConfigStepKinds

\* While a round waits for its outcome the mechanism it was closed under stays.
THEOREM MechanismIsFixed == SeedsAreValues /\ WinsafSpec => MechanismFixed
<1> SUFFICES ASSUME SeedsAreValues PROVE WinsafSpec => MechanismFixed
  OBVIOUS
<1>1. WinsafInv /\ [WinsafNext]_vars =>
        [rounds[current_round].status = "Drawing" /\ current_round' = current_round =>
           Mechanism(config') = Mechanism(config)]_vars
  BY MechanismKept
<1>2. WinsafSpec => []WinsafInv
  BY InvariantAlways
<1> QED  BY <1>1, <1>2, PTL DEF WinsafSpec, MechanismFixed

-----------------------------------------------------------------------------
(* What an observer knows of an outcome *)

\* What a step does to the outcomes: at most the current round gets one, and then it is
\* not the current round any more.
LEMMA OutcomeStep ==
  ASSUME SeedsAreValues, WinsafInv, [WinsafNext]_vars
  PROVE  /\ DOMAIN rounds \subseteq DOMAIN rounds'
         /\ \A r \in DOMAIN rounds' \ DOMAIN rounds :
              /\ r = current_round' /\ tickets'[r] = <<>>
              /\ rounds'[r].status = "Open" /\ rounds'[r].winning_numbers = {}
         /\ \A r \in DOMAIN rounds :
              \/ /\ rounds'[r].winning_numbers = rounds[r].winning_numbers
                 /\ rounds'[r].status = "Settled" <=> rounds[r].status = "Settled"
              \/ /\ r = current_round /\ current_round' # r
                 /\ rounds'[r].status = "Settled"
                 /\ Fulfilled(r) /\ rounds'[r].winning_numbers = WinningNumbers(r)
         /\ \A r \in DOMAIN requests :
              /\ r \in DOMAIN requests'
              /\ requests[r].status = "Fulfilled" => requests'[r] = requests[r]
<1>1. height' \in 0..MaxHeight
  BY StepKinds DEF WinsafInv
<1>2. CASE ExecuteCloseRound
  BY <1>1, <1>2, CloseSlots DEF WinsafInv
<1>3. CASE \E r \in DOMAIN rounds : ExecuteDraw(r) \/ CancelledBy(r)
  <2>1. PICK r \in DOMAIN rounds : ExecuteDraw(r) \/ CancelledBy(r)
    BY <1>3
  <2>2. /\ r = current_round /\ current_round' = r + 1 /\ r \in Nat
        /\ rounds[r].status = "Drawing"
        /\ DOMAIN rounds' = DOMAIN rounds \cup {r + 1}
        /\ \/ /\ rounds'[r].status = "Settled"
              /\ Fulfilled(r) /\ rounds'[r].winning_numbers = WinningNumbers(r)
           \/ /\ rounds'[r].status = "Cancelled"
              /\ rounds'[r].winning_numbers = rounds[r].winning_numbers
        /\ rounds'[r + 1].status = "Open" /\ rounds'[r + 1].winning_numbers = {}
        /\ tickets'[r + 1] = <<>>
        /\ \A x \in DOMAIN rounds \ {r} : rounds'[x] = rounds[x]
        /\ requests' = requests
    <3>1. r \in Nat
      BY DEF WinsafInv, LotteryInv, TypeOK
    <3> QED  BY <2>1, <3>1, FinishStep DEF WinsafInv, randomnessVars
  <2> QED  BY <2>2
<1>4. CASE QuietStep
  <2>1. SlotsKept
    BY <1>1, <1>4, QuietInv
  <2> QED  BY <1>4, <2>1 DEF QuietStep, SameOutcomes, SlotsKept
<1> QED  BY <1>2, <1>3, <1>4, StepKinds DEF WinsafInv

\* Only a sale, a claim and the end of a round touch the tickets.
LEMMA TicketStepKinds ==
  ASSUME [WinsafNext]_vars
  PROVE  \/ UNCHANGED tickets
         \/ \E owner \in Accounts, picks \in Purchases : \E amount :
              Mint(owner, picks, amount) /\ Playable(picks) /\ UNCHANGED config
         \/ \E r \in DOMAIN rounds : \E i \in DOMAIN tickets[r] :
              ClaimReward(tickets[r][i].owner, r, i)
         \/ \E r \in DOMAIN rounds : ExecuteDraw(r) \/ CancelledBy(r)
<1>1. CASE \/ \E buyer \in Accounts, picks \in Purchases, code \in Refers, funds \in Payments :
                ExecuteBuyTickets(buyer, picks, code, funds)
           \/ \E sender, owner \in Accounts, picks \in Purchases, funds \in Payments :
                \/ ExecuteGrantBonusTicket(sender, owner, picks, funds)
                \/ ExecuteGrantBonusTicketFromTreasury(sender, owner, picks, funds)
  BY <1>1 DEF ExecuteBuyTickets, BuyTickets, ExecuteGrantBonusTicket,
              ExecuteGrantBonusTicketFromTreasury, GrantBonusTicket
<1>2. CASE \/ ExecuteCloseRound
           \/ \E sender \in Accounts, r \in DOMAIN rounds :
                \/ \E randomness \in Values, signature \in Signatures :
                     ExecuteSubmitRandomness(sender, r, randomness, signature)
                \/ \E value \in Nonces : ExecuteCommitRandomness(sender, r, Sha256(value))
                \/ \E value \in Nonces : ExecuteRevealRandomness(sender, r, value)
  BY <1>2 DEF ExecuteCloseRound, CloseRound, ExecuteSubmitRandomness, ExecuteCommitRandomness,
              ExecuteRevealRandomness, lotteryVars
<1>3. CASE \/ \E sender \in Accounts, r \in DOMAIN rounds : ExecuteCancelRound(sender, r)
           \/ \E r \in DOMAIN rounds : ExecuteDraw(r)
           \/ \E r \in DOMAIN rounds : \E i \in DOMAIN tickets[r] :
                ExecuteClaimReward(tickets[r][i].owner, r, i)
  BY <1>3 DEF CancelledBy, ExecuteClaimReward
<1>4. CASE \/ \E referee, target \in Accounts : ExecuteBindReferrer(referee, target)
           \/ \E referee \in Accounts, code \in Codes :
                ExecuteBindReferrer(referee, CodeOwner(code))
           \/ \E sender \in Accounts, code \in Codes : ExecuteRegisterCode(sender, code)
           \/ \E claimant \in Accounts : ExecuteClaimReferral(claimant)
           \/ \E sender \in Accounts, amount \in Withdrawals :
                ExecuteWithdrawTreasury(sender, amount)
           \/ \E funds \in Payments : Gift(funds)
           \/ UNCHANGED vars
  BY <1>4 DEF ExecuteBindReferrer, ExecuteRegisterCode, ExecuteClaimReferral,
              ExecuteWithdrawTreasury, Gift, vars, lotteryVars
<1>5. CASE \E sender \in Accounts, r \in RoundIds, funds \in Payments :
             ExecuteTopUpPool(sender, r, funds) \/ ExecuteCancelPendingTopUp(sender, r, funds)
  BY <1>5 DEF ExecuteTopUpPool, TopUpPool, ExecuteCancelPendingTopUp, lotteryVars
<1>6. CASE \/ \E sender \in Accounts, new \in Settings : ExecuteSetConfig(sender, new)
           \/ \E sender \in Accounts, paused \in BOOLEAN : ExecuteSetPaused(sender, paused)
           \/ \E new \in Migrations, reset \in BOOLEAN,
                 backfill \in {{}} \cup {{amount} : amount \in Backfills} :
                ExecuteMigrate(new, backfill, reset)
           \/ NextBlock
  BY <1>6 DEF ExecuteSetConfig, ExecuteSetPaused, ExecuteMigrate, Migrate, NextBlock, Tick,
              lotteryVars
<1> QED  BY <1>1, <1>2, <1>3, <1>4, <1>5, <1>6 DEF WinsafNext

\* A ticket beyond the old ones is one of those appended.
LEMMA AppendedTicket ==
  ASSUME NEW ts \in Seq(Ticket), NEW minted \in Seq(Ticket)
  PROVE  \A x \in DOMAIN (ts \o minted) \ DOMAIN ts :
           \E j \in DOMAIN minted : (ts \o minted)[x] = minted[j]
<1> DEFINE sold == ts \o minted
<1> SUFFICES ASSUME NEW x \in DOMAIN sold \ DOMAIN ts
             PROVE  \E j \in DOMAIN minted : sold[x] = minted[j]
  OBVIOUS
<1>1. /\ Len(ts) \in Nat /\ DOMAIN ts = 1..Len(ts)
      /\ Len(minted) \in Nat /\ DOMAIN minted = 1..Len(minted)
  OBVIOUS
<1>2. /\ DOMAIN sold = 1..Len(ts) + Len(minted)
      /\ \A i \in 1..Len(ts) + Len(minted) :
           sold[i] = IF i <= Len(ts) THEN ts[i] ELSE minted[i - Len(ts)]
  BY ConcatProperties
<1> HIDE DEF sold
<1>3. /\ x - Len(ts) \in 1..Len(minted) /\ ~(x <= Len(ts))
      /\ x \in 1..Len(ts) + Len(minted)
  BY <1>1, <1>2
<1> QED  BY <1>1, <1>2, <1>3

\* A ticket that a step adds is of the current round and of the domain in force.
LEMMA TicketStep ==
  ASSUME WinsafInv, WinsafInv', [WinsafNext]_vars, [Next]_lotteryVars,
         NEW r \in DOMAIN rounds, NEW i \in DOMAIN tickets'[r]
  PROVE  \/ i \in DOMAIN tickets[r] /\ tickets'[r][i].numbers = tickets[r][i].numbers
         \/ r = current_round /\ InDomain(tickets'[r][i].numbers, Domain(config))
<1>1. /\ \A x \in DOMAIN tickets[r] :
           x \in DOMAIN tickets'[r] /\ tickets'[r][x].numbers = tickets[r][x].numbers
      /\ rounds[r].status # "Open" => Len(tickets'[r]) = Len(tickets[r])
  BY StepKept DEF WinsafInv, RoundsKept, RoundKept
<1>2. r \in DOMAIN rounds' /\ tickets[r] \in Seq(Ticket) /\ tickets'[r] \in Seq(Ticket)
  BY StepKept DEF WinsafInv, LotteryInv, TypeOK, RoundsKept
<1> SUFFICES ASSUME i \notin DOMAIN tickets[r]
             PROVE  r = current_round /\ InDomain(tickets'[r][i].numbers, Domain(config))
  BY <1>1
<1>3. tickets'[r] # tickets[r] /\ rounds[r].status = "Open"
  BY <1>1, <1>2
<1>4. ASSUME NEW owner \in Accounts, NEW picks \in Purchases, NEW amount,
             Mint(owner, picks, amount), Playable(picks)
      PROVE  r = current_round /\ InDomain(tickets'[r][i].numbers, Domain(config))
  <2>1. current_round \in DOMAIN tickets /\ r \in DOMAIN tickets
    BY DEF WinsafInv, LotteryInv, TypeOK
  <2> DEFINE minted == [x \in 1..Len(picks) |-> NewTicket(owner, picks[x])]
             sold == tickets'[r]
  <2>2. r = current_round /\ sold = tickets[r] \o minted
    BY <1>3, <1>4, <2>1 DEF Mint
  <2>3. picks \in Seq(Picks) /\ DOMAIN picks = 1..Len(picks)
    BY PurchaseType
  <2>4. /\ minted \in Seq(Ticket) /\ DOMAIN minted = 1..Len(picks)
        /\ \A j \in 1..Len(picks) : minted[j].numbers = picks[j]
    <3>1. \A j \in 1..Len(picks) : NewTicket(owner, picks[j]) \in Ticket
      BY <2>3 DEF NewTicket, Ticket
    <3>2. minted \in Seq(Ticket)
      BY <2>3, <3>1, PurchaseType
    <3> QED  BY <3>2 DEF NewTicket
  <2>5. tickets[r] \in Seq(Ticket) /\ i \in DOMAIN sold \ DOMAIN tickets[r]
    BY <1>2
  <2> HIDE DEF minted
  <2>6. \E j \in DOMAIN minted : sold[i] = minted[j]
    <3>1. \A x \in DOMAIN (tickets[r] \o minted) \ DOMAIN tickets[r] :
            \E j \in DOMAIN minted : (tickets[r] \o minted)[x] = minted[j]
      BY <2>4, <2>5, AppendedTicket
    <3> QED  BY <2>2, <2>5, <3>1
  <2>7. PICK j \in DOMAIN picks : tickets'[r][i].numbers = picks[j]
    BY <2>3, <2>4, <2>6 DEF sold
  <2> QED  BY <1>4, <2>2, <2>7 DEF Playable
<1>5. CASE \E x \in DOMAIN rounds : \E j \in DOMAIN tickets[x] :
             ClaimReward(tickets[x][j].owner, x, j)
  <2>1. PICK x \in DOMAIN rounds : \E j \in DOMAIN tickets[x] :
          tickets' = [tickets EXCEPT ![x][j].claimed = TRUE]
    BY <1>5 DEF ClaimReward
  <2>2. DOMAIN tickets'[r] = DOMAIN tickets[r]
    BY <1>2, <2>1 DEF WinsafInv, LotteryInv, TypeOK
  <2> QED  BY <2>2
<1>6. CASE \E x \in DOMAIN rounds : ExecuteDraw(x) \/ CancelledBy(x)
  <2>1. PICK x \in DOMAIN rounds : ExecuteDraw(x) \/ CancelledBy(x)
    BY <1>6
  <2>2. /\ rounds[x].status = "Drawing"
        /\ \A y \in DOMAIN rounds \ {x} : tickets'[y] = tickets[y]
    BY <2>1, FinishStep DEF WinsafInv
  <2> QED  BY <1>3, <2>2
<1>7. CASE UNCHANGED tickets
  BY <1>3, <1>7
<1> QED  BY <1>4, <1>5, <1>6, <1>7, TicketStepKinds

\* What the observer's notes say of the contract: they are of the rounds and slots there
\* are, the last domain noted of the current round is the one in force, and the key noted
\* of a round that waits for its outcome is still the configured one.
NotesInv ==
  /\ DOMAIN domains = DOMAIN rounds /\ DOMAIN last_domain = DOMAIN rounds
  /\ DOMAIN closing_key = DOMAIN requests
  /\ \A r \in DOMAIN rounds : last_domain[r] \in domains[r]
  /\ last_domain[current_round] = Domain(config)
  /\ rounds[current_round].status = "Drawing" =>
       closing_key[current_round] = config.drand_pubkey

\* Every ticket is of a domain that was in force while its round was in flight, and the
\* numbers of a drawn round of the last of them.
SoldInDomains ==
  \A r \in DOMAIN rounds :
    /\ \A i \in DOMAIN tickets[r] : \E d \in domains[r] : InDomain(tickets[r][i].numbers, d)
    /\ Settled(r) => InDomain(rounds[r].winning_numbers, last_domain[r])

HistoryInv == NotesInv /\ DrawnFromSlot /\ SoldInDomains

LEMMA HistoryInit ==
  ASSUME AuditInit
  PROVE  HistoryInv
<1>1. /\ DOMAIN rounds = {1} /\ current_round = 1 /\ requests = << >>
      /\ rounds[1].status = "Open" /\ rounds[1].winning_numbers = {} /\ tickets[1] = <<>>
  BY DEF AuditInit, WinsafInit, NewOpen
<1>2. NotesInv
  BY <1>1 DEF AuditInit, NotesInv
<1>3. DrawnFromSlot /\ SoldInDomains
  BY <1>1 DEF DrawnFromSlot, SoldInDomains, Settled
<1> QED  BY <1>2, <1>3 DEF HistoryInv

LEMMA NotesNext ==
  ASSUME SeedsAreValues, WinsafInv, WinsafInv', HistoryInv, WinsafNext, Observe
  PROVE  /\ NotesInv'
         /\ \A r \in DOMAIN rounds :
              /\ domains[r] \subseteq domains'[r]
              /\ r # current_round' => last_domain'[r] = last_domain[r]
         /\ \A r \in DOMAIN requests : closing_key'[r] = closing_key[r]
<1> USE DEF HistoryInv
<1>1. /\ DOMAIN rounds \subseteq DOMAIN rounds'
      /\ \A r \in DOMAIN rounds' \ DOMAIN rounds : r = current_round'
      /\ \A r \in DOMAIN requests : r \in DOMAIN requests'
      /\ current_round' \in DOMAIN rounds'
  <2>1. current_round' \in DOMAIN rounds'
    BY DEF WinsafInv, LotteryInv, TypeOK
  <2> QED  BY <2>1, OutcomeStep
<1>2. /\ DOMAIN domains' = DOMAIN rounds' /\ DOMAIN last_domain' = DOMAIN rounds'
      /\ DOMAIN closing_key' = DOMAIN requests'
      /\ last_domain'[current_round'] = Domain(config')
      /\ Domain(config') \in domains'[current_round']
  BY <1>1 DEF Observe
<1>3. /\ \A r \in DOMAIN rounds :
           /\ domains[r] \subseteq domains'[r]
           /\ r # current_round' => last_domain'[r] = last_domain[r]
      /\ \A r \in DOMAIN requests : closing_key'[r] = closing_key[r]
  BY <1>1 DEF Observe, NotesInv
<1>4. ASSUME NEW r \in DOMAIN rounds' PROVE last_domain'[r] \in domains'[r]
  <2>1. CASE r = current_round'
    BY <1>2, <2>1
  <2>2. CASE r # current_round'
    BY <1>1, <1>3, <2>2 DEF NotesInv
  <2> QED  BY <2>1, <2>2
<1>5. ASSUME rounds'[current_round'].status = "Drawing"
      PROVE  closing_key'[current_round'] = config'.drand_pubkey
  <2>1. CASE ExecuteCloseRound
    <3>1. height' \in 0..MaxHeight
      BY StepKinds DEF WinsafInv
    <3>2. /\ rounds[current_round].status = "Open" /\ UNCHANGED <<current_round, config>>
          /\ current_round \in DOMAIN requests'
      BY <2>1, <3>1, CloseSlots DEF WinsafInv, ExecuteCloseRound, RequestRandomness
    <3>3. current_round \notin DOMAIN requests
      BY <3>2 DEF WinsafInv, SlotsMatchRounds, SlotsInv, Requested
    <3> QED  BY <3>2, <3>3 DEF Observe
  <2>2. CASE \E r \in DOMAIN rounds : ExecuteDraw(r) \/ CancelledBy(r)
    BY <1>5, <2>2, FinishStep DEF WinsafInv
  <2>3. CASE QuietStep
    <3>1. /\ UNCHANGED current_round /\ current_round \in DOMAIN rounds
          /\ rounds[current_round].status = "Drawing"
      BY <1>5, <2>3 DEF QuietStep, SameOutcomes, WinsafInv, LotteryInv, TypeOK
    <3>2. current_round \in DOMAIN requests
      BY <3>1 DEF WinsafInv, SlotsMatchRounds, Requested
    <3>3. config'.drand_pubkey = config.drand_pubkey
      BY <3>1, MechanismKept DEF Mechanism
    <3> QED  BY <1>3, <3>1, <3>2, <3>3 DEF NotesInv
  <2> QED  BY <2>1, <2>2, <2>3, StepKinds DEF WinsafInv
<1>6. NotesInv'
  BY <1>2, <1>4, <1>5 DEF NotesInv
<1> QED  BY <1>3, <1>6

LEMMA HistoryNext ==
  ASSUME SeedsAreValues, WinsafInv, HistoryInv, AuditNext
  PROVE  HistoryInv'
<1> USE DEF HistoryInv, AuditNext
<1>1. WinsafInv' /\ [Next]_lotteryVars
  BY WinsafNextInv
<1>2. /\ NotesInv'
      /\ \A r \in DOMAIN rounds :
           /\ domains[r] \subseteq domains'[r]
           /\ r # current_round' => last_domain'[r] = last_domain[r]
  BY <1>1, NotesNext
<1>3. current_round' \in DOMAIN rounds' /\ rounds'[current_round'].status # "Settled"
  <2>1. current_round' \in DOMAIN rounds'
    BY <1>1 DEF WinsafInv, LotteryInv, TypeOK
  <2>2. InFlight(rounds'[current_round'])
    BY <1>1, <2>1 DEF WinsafInv, LotteryInv, OneRoundInFlight
  <2> QED  BY <2>1, <2>2 DEF InFlight
<1>4. ASSUME NEW r \in DOMAIN rounds'
      PROVE  /\ IF Settled(r)'
                  THEN /\ Fulfilled(r)'
                       /\ rounds'[r].winning_numbers
                            = WinningNumbersFor(requests'[r].randomness, last_domain'[r])
                  ELSE rounds'[r].winning_numbers = {}
             /\ Settled(r)' => InDomain(rounds'[r].winning_numbers, last_domain'[r])
  <2>1. CASE r \notin DOMAIN rounds
    BY <2>1, OutcomeStep DEF Settled
  <2>2. CASE /\ r \in DOMAIN rounds
             /\ rounds'[r].winning_numbers = rounds[r].winning_numbers
             /\ Settled(r)' <=> Settled(r)
    <3>1. CASE ~Settled(r)
      BY <2>2, <3>1 DEF DrawnFromSlot
    <3>2. CASE Settled(r)
      <4>1. last_domain'[r] = last_domain[r]
        BY <1>2, <1>3, <2>2, <3>2 DEF Settled
      <4>2. Fulfilled(r) /\ r \in DOMAIN requests /\ requests[r].status = "Fulfilled"
        BY <2>2, <3>2 DEF DrawnFromSlot, Fulfilled, Requested
      <4>3. r \in DOMAIN requests' /\ requests'[r] = requests[r]
        BY <4>2, OutcomeStep
      <4> QED
        BY <2>2, <3>2, <4>1, <4>2, <4>3 DEF DrawnFromSlot, SoldInDomains, Fulfilled, Requested
    <3> QED  BY <3>1, <3>2
  <2>3. CASE /\ r = current_round /\ current_round' # r /\ Settled(r)'
             /\ Fulfilled(r) /\ rounds'[r].winning_numbers = WinningNumbers(r)
    <3>1. last_domain'[r] = Domain(config)
      <4>1. current_round \in DOMAIN rounds
        BY DEF WinsafInv, LotteryInv, TypeOK
      <4> QED  BY <1>2, <2>3, <4>1 DEF NotesInv
    <3>2. r \in DOMAIN requests /\ requests[r].status = "Fulfilled"
      BY <2>3 DEF Fulfilled, Requested
    <3>3. r \in DOMAIN requests' /\ requests'[r] = requests[r]
      BY <3>2, OutcomeStep
    <3>4. InDomain(WinningNumbers(r), Domain(config))
      BY <3>2, ConfigFacts DEF WinsafInv, SlotsInv, WinningNumbers
    <3> QED
      BY <2>3, <3>1, <3>2, <3>3, <3>4 DEF WinningNumbers, Fulfilled, Requested
  <2> QED  BY <2>1, <2>2, <2>3, OutcomeStep DEF Settled
<1>5. ASSUME NEW r \in DOMAIN rounds', NEW i \in DOMAIN tickets'[r]
      PROVE  \E d \in domains'[r] : InDomain(tickets'[r][i].numbers, d)
  <2>1. r \in DOMAIN rounds
    BY OutcomeStep
  <2>2. CASE i \in DOMAIN tickets[r] /\ tickets'[r][i].numbers = tickets[r][i].numbers
    BY <1>2, <2>1, <2>2 DEF SoldInDomains
  <2>3. CASE r = current_round /\ InDomain(tickets'[r][i].numbers, Domain(config))
    <3>1. Domain(config) \in domains[r]
      BY <2>1, <2>3 DEF NotesInv
    <3> QED  BY <1>2, <2>1, <2>3, <3>1
  <2> QED  BY <1>1, <2>1, <2>2, <2>3, TicketStep
<1>6. DrawnFromSlot'
  BY <1>4 DEF DrawnFromSlot
<1>7. SoldInDomains'
  BY <1>4, <1>5 DEF SoldInDomains
<1> QED  BY <1>2, <1>6, <1>7

LEMMA HistoryAlways == SeedsAreValues /\ AuditSpec => [](WinsafInv /\ HistoryInv)
<1> SUFFICES ASSUME SeedsAreValues PROVE AuditSpec => [](WinsafInv /\ HistoryInv)
  OBVIOUS
<1>1. AuditInit => WinsafInv /\ HistoryInv
  BY HistoryInit, WinsafInitInv DEF AuditInit
<1>2. WinsafInv /\ HistoryInv /\ [AuditNext]_auditVars => (WinsafInv /\ HistoryInv)'
  <2> SUFFICES ASSUME WinsafInv, HistoryInv, [AuditNext]_auditVars
               PROVE  (WinsafInv /\ HistoryInv)'
    OBVIOUS
  <2>1. WinsafInv'
    BY WinsafNextInv DEF AuditNext, auditVars
  <2>2. HistoryInv'
    <3>1. CASE AuditNext
      BY <3>1, HistoryNext
    <3>2. CASE UNCHANGED auditVars
      BY <3>2 DEF auditVars, vars, lotteryVars, randomnessVars, HistoryInv, NotesInv, DrawnFromSlot,
                  SoldInDomains, Settled, Fulfilled, Requested
    <3> QED  BY <3>1, <3>2
  <2> QED  BY <2>1, <2>2
<1> QED  BY <1>1, <1>2, PTL DEF AuditSpec

\* A settled round has the numbers of the value its slot still holds, under the domain
\* in force when it was drawn, whatever is migrated afterwards.
THEOREM DrawnFromSlotAlways == SeedsAreValues /\ AuditSpec => []DrawnFromSlot
<1>1. HistoryInv => DrawnFromSlot
  BY DEF HistoryInv
<1> QED  BY <1>1, HistoryAlways, PTL

\* A round in flight under one number domain only has all its tickets and its numbers
\* in that domain: it takes a migration to draw a round otherwise than it was sold.
THEOREM DrawnAsSoldAlways == SeedsAreValues /\ AuditSpec => []DrawnAsSold
<1>1. HistoryInv => DrawnAsSold
  BY DEF HistoryInv, NotesInv, SoldInDomains, DrawnAsSold
<1> QED  BY <1>1, HistoryAlways, PTL

-----------------------------------------------------------------------------
(* What the chain keeps of an outcome *)

\* Only a close and the three messages for a slot touch the slots, and none of these
\* takes a block.
LEMMA SlotStepKinds ==
  ASSUME [WinsafNext]_vars
  PROVE  \/ UNCHANGED requests /\ (UNCHANGED height \/ NextBlock)
         \/ ExecuteCloseRound
         \/ \E sender \in Accounts, r \in DOMAIN rounds :
              \/ \E randomness \in Values, signature \in Signatures :
                   ExecuteSubmitRandomness(sender, r, randomness, signature)
              \/ \E value \in Nonces : ExecuteCommitRandomness(sender, r, Sha256(value))
              \/ \E value \in Nonces : ExecuteRevealRandomness(sender, r, value)
<1>1. CASE \/ \E buyer \in Accounts, picks \in Purchases, code \in Refers, funds \in Payments :
                ExecuteBuyTickets(buyer, picks, code, funds)
           \/ \E sender, owner \in Accounts, picks \in Purchases, funds \in Payments :
                \/ ExecuteGrantBonusTicket(sender, owner, picks, funds)
                \/ ExecuteGrantBonusTicketFromTreasury(sender, owner, picks, funds)
  BY <1>1 DEF ExecuteBuyTickets, ExecuteGrantBonusTicket,
              ExecuteGrantBonusTicketFromTreasury, randomnessVars
<1>2. CASE \/ \E sender \in Accounts, r \in DOMAIN rounds : ExecuteCancelRound(sender, r)
           \/ \E r \in DOMAIN rounds : ExecuteDraw(r)
           \/ \E r \in DOMAIN rounds : \E i \in DOMAIN tickets[r] :
                ExecuteClaimReward(tickets[r][i].owner, r, i)
  BY <1>2 DEF ExecuteCancelRound, ExecuteDraw, ExecuteClaimReward, randomnessVars
<1>3. CASE \E sender \in Accounts, r \in RoundIds, funds \in Payments :
             ExecuteTopUpPool(sender, r, funds) \/ ExecuteCancelPendingTopUp(sender, r, funds)
  BY <1>3 DEF ExecuteTopUpPool, ExecuteCancelPendingTopUp, randomnessVars
<1>4. CASE \/ \E referee, target \in Accounts : ExecuteBindReferrer(referee, target)
           \/ \E referee \in Accounts, code \in Codes :
                ExecuteBindReferrer(referee, CodeOwner(code))
           \/ \E sender \in Accounts, code \in Codes : ExecuteRegisterCode(sender, code)
           \/ \E claimant \in Accounts : ExecuteClaimReferral(claimant)
           \/ \E sender \in Accounts, amount \in Withdrawals :
                ExecuteWithdrawTreasury(sender, amount)
           \/ \E funds \in Payments : Gift(funds)
           \/ UNCHANGED vars
  BY <1>4 DEF ExecuteBindReferrer, ExecuteRegisterCode, ExecuteClaimReferral,
              ExecuteWithdrawTreasury, Gift, vars, randomnessVars
<1>5. CASE \/ \E sender \in Accounts, new \in Settings : ExecuteSetConfig(sender, new)
           \/ \E sender \in Accounts, paused \in BOOLEAN : ExecuteSetPaused(sender, paused)
           \/ \E new \in Migrations, reset \in BOOLEAN,
                 backfill \in {{}} \cup {{amount} : amount \in Backfills} :
                ExecuteMigrate(new, backfill, reset)
  BY <1>5 DEF ExecuteSetConfig, ExecuteSetPaused, ExecuteMigrate, randomnessVars
<1>6. CASE NextBlock
  BY <1>6 DEF NextBlock
<1> QED  BY <1>1, <1>2, <1>3, <1>4, <1>5, <1>6 DEF WinsafNext

\* The time and the height never go back.
LEMMA BlocksAdvance ==
  ASSUME LotteryInv, SlotsInv, [WinsafNext]_vars, [Next]_lotteryVars
  PROVE  /\ now \in Int /\ now' \in Int /\ now <= now'
         /\ height \in Nat /\ height' \in Nat /\ height <= height'
<1>1. now \in Int /\ now' \in Int /\ now <= now'
  <2>1. now \in Int
    BY LotteryAssumption DEF LotteryInv, TypeOK
  <2>2. CASE \/ \E buyer \in Accounts, picks \in Purchases, referred \in BOOLEAN :
                  BuyTickets(buyer, picks, referred)
             \/ \E owner \in Accounts, picks \in Purchases : GrantBonusTicket(owner, picks)
             \/ \E r \in DOMAIN rounds, amount \in TopUps : TopUpPool(r, amount)
             \/ CloseRound
             \/ \E r \in DOMAIN rounds : \E i \in DOMAIN tickets[r] :
                  ClaimReward(tickets[r][i].owner, r, i)
             \/ \E backfill \in {{}} \cup {{amount} : amount \in Backfills}, reset \in BOOLEAN :
                  Migrate(backfill, reset)
             \/ Tick \/ UNCHANGED lotteryVars
    <3>1. now' = now \/ now' = now + 1
      BY <2>2 DEF BuyTickets, GrantBonusTicket, Mint, TopUpPool, CloseRound, ClaimReward, Migrate,
                  Tick, lotteryVars
    <3> QED  BY <2>1, <3>1
  <2>3. CASE \E r \in DOMAIN rounds, winning \in Draws, cfg \in Configs, pending \in Escrows :
               Draw(r, winning, cfg, pending)
    BY <2>1, <2>3 DEF Draw
  <2>4. CASE \E r \in DOMAIN rounds, cfg \in Configs, pending \in Escrows :
               CancelRound(r, cfg, pending)
    BY <2>1, <2>4 DEF CancelRound
  <2> QED  BY <2>2, <2>3, <2>4 DEF Next
<1>2. height \in 0..MaxHeight /\ MaxHeight \in Nat
  BY WinsafAssumption DEF SlotsInv
<1>3. height' = height \/ NextBlock
  <2>1. ExecuteCloseRound => height' = height
    BY DEF ExecuteCloseRound
  <2>2. ASSUME NEW sender, NEW r,
               \/ \E randomness \in Values, signature \in Signatures :
                    ExecuteSubmitRandomness(sender, r, randomness, signature)
               \/ \E value \in Nonces : ExecuteCommitRandomness(sender, r, Sha256(value))
               \/ \E value \in Nonces : ExecuteRevealRandomness(sender, r, value)
        PROVE  height' = height
    BY <2>2 DEF ExecuteSubmitRandomness, ExecuteCommitRandomness, ExecuteRevealRandomness
  <2> QED  BY <2>1, <2>2, SlotStepKinds
<1>4. height \in Nat /\ height' \in Nat /\ height <= height'
  BY <1>2, <1>3 DEF NextBlock
<1> QED  BY <1>1, <1>4

\* A closed round takes no further ticket, so what its reveal hashes stays.
LEMMA EntropyKept ==
  ASSUME LotteryInv, RoundsKept, NEW r \in DOMAIN rounds, rounds[r].status # "Open", LotteryInv'
  PROVE  Entropy(r)' = Entropy(r)
<1>1. /\ tickets[r] \in Seq(Ticket) /\ tickets'[r] \in Seq(Ticket)
      /\ Len(tickets'[r]) = Len(tickets[r])
      /\ \A i \in DOMAIN tickets[r] :
           /\ tickets'[r][i].owner = tickets[r][i].owner
           /\ tickets'[r][i].numbers = tickets[r][i].numbers
  BY DEF RoundsKept, RoundKept, LotteryInv, TypeOK
<1>2. DOMAIN tickets'[r] = DOMAIN tickets[r]
  BY <1>1
<1> QED  BY <1>1, <1>2 DEF Entropy

\* What OutcomeAuditable says of one slot: of a filled one how its outcome came about,
\* and an empty one has no signature, so that a reveal leaves none beside its outcome.
Auditable(r) ==
  IF requests[r].status # "Fulfilled" THEN requests[r].signature = NoValue
  ELSE IF requests[r].signature # NoValue
    THEN /\ requests[r].randomness = Sha256(requests[r].signature)
         /\ requests[r].signature.round = requests[r].beacon_round
         /\ rounds[r].status # "Cancelled" => requests[r].signature.key = closing_key[r]
    ELSE \E value \in Nonces, time \in StartTime..now,
            block \in requests[r].commit_height + 1..height :
           /\ requests[r].commitment = Sha256(value)
           /\ requests[r].randomness = RevealSeed(value, Entropy(r), time, block)

SlotsAuditable == \A r \in DOMAIN requests : Auditable(r)

\* A slot that a step does not touch stays auditable: its tickets are closed, time goes
\* on, the key of its close is noted, and a cancelled round stays cancelled.
LEMMA SlotStaysAuditable ==
  ASSUME WinsafInv, WinsafInv', [WinsafNext]_vars, [Next]_lotteryVars,
         NEW r \in DOMAIN requests, r \in DOMAIN requests', requests'[r] = requests[r],
         Auditable(r), closing_key'[r] = closing_key[r]
  PROVE  Auditable(r)'
<1>1. r \in DOMAIN rounds /\ rounds[r].status # "Open"
  BY DEF WinsafInv, SlotsInv, SlotsMatchRounds, Requested
<1>2. Entropy(r)' = Entropy(r)
  BY <1>1, StepKept, EntropyKept DEF WinsafInv
<1>3. /\ now \in Int /\ now' \in Int /\ now <= now'
      /\ height \in Nat /\ height' \in Nat /\ height <= height'
  BY BlocksAdvance DEF WinsafInv
<1>4. rounds[r].status = "Cancelled" => rounds'[r].status = "Cancelled"
  BY <1>1, StepKept DEF WinsafInv, RoundsKept, RoundKept, InFlight
<1>5. requests[r].commit_height \in Nat /\ StartTime \in Nat
  BY LotteryAssumption DEF WinsafInv, SlotsInv, RandomnessRequest
<1>6. CASE requests[r].status # "Fulfilled" \/ requests[r].signature # NoValue
  BY <1>4, <1>6 DEF Auditable
<1>7. CASE requests[r].status = "Fulfilled" /\ requests[r].signature = NoValue
  <2>1. PICK value \in Nonces, time \in StartTime..now,
             block \in requests[r].commit_height + 1..height :
               /\ requests[r].commitment = Sha256(value)
               /\ requests[r].randomness = RevealSeed(value, Entropy(r), time, block)
    BY <1>7 DEF Auditable
  <2>2. time \in StartTime..now' /\ block \in requests[r].commit_height + 1..height'
    BY <1>3, <1>5, <2>1
  <2> QED  BY <1>2, <1>7, <2>1, <2>2 DEF Auditable
<1> QED  BY <1>6, <1>7

\* The slot a message for it fills or commits is auditable, and every other slot stays so.
LEMMA SlotMessageAuditable ==
  ASSUME WinsafInv, WinsafInv', [WinsafNext]_vars, [Next]_lotteryVars, SlotsAuditable,
         HistoryInv, \A x \in DOMAIN requests : closing_key'[x] = closing_key[x],
         NEW sender \in Accounts, NEW r \in DOMAIN rounds,
         \/ \E randomness \in Values, signature \in Signatures :
              ExecuteSubmitRandomness(sender, r, randomness, signature)
         \/ \E value \in Nonces : ExecuteCommitRandomness(sender, r, Sha256(value))
         \/ \E value \in Nonces : ExecuteRevealRandomness(sender, r, value)
  PROVE  SlotsAuditable'
<1>1. /\ r \in DOMAIN requests /\ requests[r] \in RandomnessRequest
      /\ requests[r].status # "Fulfilled"
      /\ UNCHANGED <<height, lotteryVars, config>>
  <2>1. UNCHANGED <<height, lotteryVars, config>>
    BY DEF ExecuteSubmitRandomness, ExecuteCommitRandomness, ExecuteRevealRandomness
  <2>2. PendingRandomness(r)
    BY DEF ExecuteSubmitRandomness, ExecuteCommitRandomness, ExecuteRevealRandomness,
           SubmitRandomness, CommitRandomness, RevealRandomness
  <2> QED  BY <2>1, <2>2 DEF PendingRandomness, Requested, WinsafInv, SlotsInv
<1>2. requests[r].signature = NoValue
  BY <1>1 DEF SlotsAuditable, Auditable
<1>3. UNCHANGED <<now, rounds, tickets>>
  BY <1>1 DEF lotteryVars
<1>a. rounds[r].status # "Cancelled" => closing_key'[r] = config.drand_pubkey
  <2>1. rounds[r] \in Round /\ rounds[r].status # "Open" /\ rounds[r].status # "Settled"
    BY <1>1 DEF WinsafInv, LotteryInv, TypeOK, SlotsMatchRounds, Requested, HistoryInv, DrawnFromSlot,
                Settled, Fulfilled
  <2>2. rounds[r].status # "Cancelled" => rounds[r].status = "Drawing" /\ r = current_round
    BY <2>1 DEF Round, Statuses, WinsafInv, LotteryInv, OneRoundInFlight, InFlight
  <2> QED  BY <1>1, <2>2 DEF HistoryInv, NotesInv
<1> SUFFICES ASSUME NEW slot, requests' = [requests EXCEPT ![r] = slot], Auditable(r)'
             PROVE  SlotsAuditable'
  <2>1. CASE \E randomness \in Values, signature \in Signatures :
               ExecuteSubmitRandomness(sender, r, randomness, signature)
    <3>1. PICK randomness \in Values, signature \in Signatures :
            SubmitRandomness(sender, r, randomness, signature, config)
      BY <2>1 DEF ExecuteSubmitRandomness
    <3> DEFINE slot == [requests[r] EXCEPT !.status = "Fulfilled", !.randomness = randomness,
                                           !.signature = signature]
    <3>2. requests' = [requests EXCEPT ![r] = slot]
      BY <1>1, <3>1 DEF SubmitRandomness
    <3>3. config.verify_mode = "Bls"
      BY ConfigFacts DEF WinsafInv, ConfigInv, Config, ValidRandomnessConfig
    <3>4. /\ randomness = Sha256(signature)
          /\ signature = [key |-> config.drand_pubkey, round |-> requests[r].beacon_round]
      BY <3>1, <3>3 DEF SubmitRandomness, VerifyDrand
    <3>5. signature # NoValue
      BY VerifyAssumption
    <3>6. /\ slot.status = "Fulfilled" /\ slot.signature = signature
          /\ slot.randomness = randomness /\ slot.beacon_round = requests[r].beacon_round
      BY <1>1 DEF RandomnessRequest
    <3>7. requests'[r] = slot
      BY <1>1, <3>2
    <3> HIDE DEF slot
    <3>8. Auditable(r)'
      BY <1>1, <1>3, <1>a, <3>4, <3>5, <3>6, <3>7 DEF Auditable
    <3> QED  BY <3>2, <3>8
  <2>2. CASE \E value \in Nonces : ExecuteCommitRandomness(sender, r, Sha256(value))
    <3>1. PICK value \in Nonces : CommitRandomness(sender, r, Sha256(value), config, now)
      BY <2>2 DEF ExecuteCommitRandomness
    <3> DEFINE slot == CommittedRequest(r, sender, Sha256(value), config, now)
    <3>2. requests' = [requests EXCEPT ![r] = slot]
      BY <3>1 DEF CommitRandomness
    <3>3. slot.status = "Committed" /\ slot.signature = NoValue
      BY <1>1, <1>2 DEF CommittedRequest, RandomnessRequest
    <3>4. requests'[r] = slot
      BY <1>1, <3>2
    <3> HIDE DEF slot
    <3>5. Auditable(r)'
      BY <3>3, <3>4 DEF Auditable
    <3> QED  BY <3>2, <3>5
  <2>3. CASE \E value \in Nonces : ExecuteRevealRandomness(sender, r, value)
    <3>1. PICK value \in Nonces : RevealRandomness(sender, r, value, Entropy(r), config, now)
      BY <2>3 DEF ExecuteRevealRandomness
    <3> DEFINE seed == RevealSeed(value, Entropy(r), now, height)
               slot == [requests[r] EXCEPT !.status = "Fulfilled", !.randomness = seed]
    <3>2. requests' = [requests EXCEPT ![r] = slot]
      BY <1>1, <3>1 DEF RevealRandomness
    <3>3. requests[r].commitment = Sha256(value) /\ height >= requests[r].commit_height + 1
      BY <3>1 DEF RevealRandomness, VerifyReveal, MIN_REVEAL_DELAY_BLOCKS
    <3>4. now \in StartTime..now /\ height \in requests[r].commit_height + 1..height
      <4>1. /\ now \in Int /\ StartTime \in Nat /\ StartTime <= now
            /\ height \in Nat /\ requests[r].commit_height \in Nat
        BY <1>1, LotteryAssumption, WinsafAssumption
           DEF WinsafInv, LotteryInv, TypeOK, SlotsInv, RandomnessRequest
      <4> QED  BY <3>3, <4>1
    <3>5. /\ slot.status = "Fulfilled" /\ slot.signature = NoValue /\ slot.randomness = seed
          /\ slot.commitment = requests[r].commitment
          /\ slot.commit_height = requests[r].commit_height
      BY <1>1, <1>2 DEF RandomnessRequest
    <3>6. requests'[r] = slot
      BY <1>1, <3>2
    <3>7. Entropy(r)' = Entropy(r)
      BY <1>3 DEF Entropy
    <3> HIDE DEF slot
    <3>8. \E v \in Nonces, time \in StartTime..now', block \in slot.commit_height + 1..height' :
            /\ slot.commitment = Sha256(v)
            /\ slot.randomness = RevealSeed(v, Entropy(r)', time, block)
      <4>1. /\ value \in Nonces /\ now \in StartTime..now'
            /\ height \in slot.commit_height + 1..height'
        BY <1>1, <1>3, <3>4, <3>5
      <4>2. slot.commitment = Sha256(value)
        BY <3>3, <3>5
      <4>3. slot.randomness = RevealSeed(value, Entropy(r)', now, height)
        BY <3>5, <3>7
      <4> QED  BY <4>1, <4>2, <4>3
    <3>9. Auditable(r)'
      BY <3>5, <3>6, <3>8 DEF Auditable
    <3> QED  BY <3>2, <3>9
  <2> QED  BY <2>1, <2>2, <2>3
<1>4. ASSUME NEW x \in DOMAIN requests' PROVE Auditable(x)'
  <2>1. CASE x = r
    BY <2>1
  <2>2. CASE x # r
    <3>1. x \in DOMAIN requests /\ requests'[x] = requests[x] /\ Auditable(x)
      BY <1>4, <2>2 DEF SlotsAuditable
    <3> QED  BY <1>3, <1>4, <3>1, SlotStaysAuditable
  <2> QED  BY <2>1, <2>2
<1> QED  BY <1>4 DEF SlotsAuditable

LEMMA SlotsStayAuditable ==
  ASSUME SeedsAreValues, WinsafInv, HistoryInv, SlotsAuditable, AuditNext
  PROVE  SlotsAuditable'
<1>1. WinsafInv' /\ [WinsafNext]_vars /\ [Next]_lotteryVars
  BY WinsafNextInv DEF AuditNext
<1>2. \A r \in DOMAIN requests : closing_key'[r] = closing_key[r]
  BY <1>1, NotesNext DEF AuditNext
<1>3. CASE UNCHANGED requests
  <2>1. ASSUME NEW r \in DOMAIN requests PROVE Auditable(r)'
    BY <1>1, <1>2, <1>3, SlotStaysAuditable DEF SlotsAuditable
  <2> QED  BY <1>3, <2>1 DEF SlotsAuditable
<1>4. CASE ExecuteCloseRound
  <2>1. \A x \in DOMAIN requests : x \in DOMAIN requests' /\ requests'[x] = requests[x]
    BY <1>1, <1>4, CloseSlots, SMTT(30) DEF WinsafInv, SlotsInv
  <2>2. /\ DOMAIN requests' = DOMAIN requests \cup {current_round}
        /\ requests'[current_round].status = "Pending"
        /\ requests'[current_round].signature = NoValue
    BY <1>4 DEF ExecuteCloseRound, RequestRandomness, NewRequest
  <2>3. ASSUME NEW x \in DOMAIN requests' PROVE Auditable(x)'
    <3>1. CASE x = current_round
      BY <2>2, <3>1 DEF Auditable
    <3>2. CASE x # current_round
      <4>1. x \in DOMAIN requests
        BY <2>2, <2>3, <3>2
      <4> QED  BY <1>1, <1>2, <2>1, <4>1, SlotStaysAuditable DEF SlotsAuditable
    <3> QED  BY <3>1, <3>2
  <2> QED  BY <2>3 DEF SlotsAuditable
<1>5. CASE \E sender \in Accounts, r \in DOMAIN rounds :
             \/ \E randomness \in Values, signature \in Signatures :
                  ExecuteSubmitRandomness(sender, r, randomness, signature)
             \/ \E value \in Nonces : ExecuteCommitRandomness(sender, r, Sha256(value))
             \/ \E value \in Nonces : ExecuteRevealRandomness(sender, r, value)
  BY <1>1, <1>2, <1>5, SlotMessageAuditable
<1> QED  BY <1>1, <1>3, <1>4, <1>5, SlotStepKinds

\* The numbers of every round can be recomputed from what the chain keeps and what the
\* observer noted at its close and its draw, across migrations and changes of the
\* configuration, by whichever mechanism its value came.
THEOREM OutcomeAuditableAlways == SeedsAreValues /\ AuditSpec => []OutcomeAuditable
<1> SUFFICES ASSUME SeedsAreValues PROVE AuditSpec => []OutcomeAuditable
  OBVIOUS
<1>1. AuditInit => SlotsAuditable
  BY DEF AuditInit, WinsafInit, SlotsAuditable
<1>2. WinsafInv /\ HistoryInv /\ SlotsAuditable /\ [AuditNext]_auditVars => SlotsAuditable'
  <2> SUFFICES ASSUME WinsafInv, HistoryInv, SlotsAuditable, UNCHANGED auditVars
               PROVE  SlotsAuditable'
    BY SlotsStayAuditable
  <2> QED  BY DEF auditVars, vars, lotteryVars, randomnessVars, SlotsAuditable, Auditable, Entropy
<1>3. WinsafInv /\ HistoryInv /\ SlotsAuditable => OutcomeAuditable
  <2> SUFFICES ASSUME WinsafInv, HistoryInv, SlotsAuditable, NEW r \in DOMAIN requests,
                      Fulfilled(r)
               PROVE  IF requests[r].signature # NoValue
                        THEN /\ requests[r].signature.round = requests[r].beacon_round
                             /\ rounds[r].status # "Cancelled" =>
                                  requests[r].signature.key = closing_key[r]
                             /\ Yields(r, Sha256(requests[r].signature))
                        ELSE \E value \in Nonces, time \in StartTime..now,
                                block \in requests[r].commit_height + 1..height :
                               /\ requests[r].commitment = Sha256(value)
                               /\ Yields(r, RevealSeed(value, Entropy(r), time, block))
    BY DEF OutcomeAuditable
  <2>1. r \in DOMAIN rounds /\ requests[r].status = "Fulfilled" /\ Auditable(r)
    BY DEF WinsafInv, SlotsInv, SlotsAuditable, Fulfilled, Requested
  <2>2. Settled(r) =>
          rounds[r].winning_numbers = WinningNumbersFor(requests[r].randomness, last_domain[r])
    BY <2>1 DEF HistoryInv, DrawnFromSlot
  <2>3. \A value : requests[r].randomness = value => Yields(r, value)
    BY <2>2 DEF Yields
  <2> QED  BY <2>1, <2>3 DEF Auditable
<1> QED  BY <1>1, <1>2, <1>3, HistoryAlways, PTL DEF AuditSpec
=============================================================================
