------------------------------ MODULE MCWinsaf ------------------------------
(***************************************************************************)
(* Instances of Winsaf for TLC.                                            *)
(***************************************************************************)
EXTENDS Winsaf, TLC

CONSTANTS
  admin, alice,    \* the members of Accounts
  MaxTicketsSold,  \* bound: tickets of all rounds together
  MaxExtras,       \* bound: bindings, code registrations, gifts and leftovers
                   \* for the treasury together
  MaxGift,         \* bound: coins the contract was given for nothing
  MayPause,        \* bound: whether the contract is ever paused
  usaf, other      \* the members of Denoms

\* Tickets that hit the first set six times and the second never.
Lucky == 1..6
Unlucky == 11..16
Later == 12..17
MCPicks == {Lucky}
MCOneDraw == {Lucky}
MCThreeDraws == {Lucky, Unlucky, Later}

\* Hashes: of a signature or a committed value, and of all that a reveal hashes.
MCSha256(x) == [digest_of |-> x]
MCRevealSeed(value, entropy, time, block) ==
  [value |-> value, entropy |-> entropy, time |-> time, block |-> block]
Digests == {MCSha256(x) : x \in Signatures \cup Nonces}
MCValues ==
  Digests \cup {MCRevealSeed(value, <<>>, time, block) :
                  value \in Nonces, time \in StartTime..Horizon, block \in 0..MaxHeight}

\* What comes up: only the lucky numbers, or by the parity of the beacon's number
\* or the block's height; another domain makes other numbers of the same value.
AlwaysLucky(value, d) == Lucky
Parity(value) ==
  IF value \in {MCSha256(s) : s \in Signatures} THEN value.digest_of.round % 2
  ELSE IF value \in Digests THEN 0 ELSE value.block % 2
ByParity(value, d) ==
  IF Parity(value) = 1 THEN Lucky ELSE IF d.number_max = 16 THEN Unlucky ELSE Later

\* Coin lists: nothing, the price of a ticket in two coins, and with a coin of
\* another denom; a top-up; no more than a zero amount.
Money(amount) == [denom |-> usaf, amount |-> amount]
MCPayments ==
  {<<>>, <<Money(TicketPrice - 1), Money(1)>>,
   <<Money(TicketPrice), [denom |-> other, amount |-> 1]>>, <<Money(7)>>, <<Money(0)>>}
NoPayments == {<<>>}

\* One sale and a sweep fund a ticket sponsored by the treasury.
MCSplit == [prize_bps |-> 2000, referral_bps |-> 1000, treasury_bps |-> 7000]

Setting(mode, operator, submitters, rollover) ==
  [admin |-> operator, authorized_submitters |-> submitters, paused |-> FALSE,
   randomness_mode |-> mode, verify_mode |-> "Bls",
   drand_pubkey |-> BeaconKey, drand_genesis_time |-> BeaconGenesis,
   drand_period |-> BeaconPeriod, reveal_timeout |-> 1,
   numbers_per_ticket |-> 6, number_max |-> 16,
   min_claim_usaf |-> 0, open_code_registration |-> FALSE,
   draw_interval |-> 1, schedule_anchor |-> NoAnchor,
   max_dry_rounds |-> 1, rollover_on_no_winner |-> rollover]

\* For the money: both dispositions of a leftover, that for the treasury an extra.
MoneySettings == {Setting("Drand", admin, {}, rollover) : rollover \in BOOLEAN}

\* For the randomness: both mechanisms, the first with its genesis or its key
\* configured right or wrong and under two number domains, the second of the time
\* before drand; alice submits for admin, or is in charge and admin nobody.
\* A migration leaves the staff alone, so one staff's settings do.
RandomnessSettings ==
  UNION {
    LET drand == Setting("Drand", staff[1], staff[2], TRUE)
    IN  {drand, [drand EXCEPT !.number_max = 17], [drand EXCEPT !.drand_genesis_time = 2],
         [drand EXCEPT !.drand_pubkey = CHOOSE key \in DrandKeys : key # BeaconKey],
         [drand EXCEPT !.randomness_mode = "CommitReveal",
                       !.drand_genesis_time = 0, !.drand_period = 0]} :
    staff \in {<<admin, {alice}>>, <<alice, {}>>}}
RandomnessMigrations ==
  {new \in RandomnessSettings : new.admin = admin}
    \cup {[Setting("Drand", admin, {}, TRUE) EXCEPT !.drand_genesis_time = 0, !.drand_period = 0]}

\* For liveness: both mechanisms, and an interval under which nothing opens.
LiveSettings ==
  {[Setting(mode, admin, {alice}, TRUE) EXCEPT !.draw_interval = interval] :
     mode \in {"Drand", "CommitReveal"}, interval \in {1, MaxTime + 1}}

DrandOnly == {Setting("Drand", admin, {}, TRUE)}
CommitRevealOnly == {Setting("CommitReveal", admin, {alice}, TRUE)}

Bounded ==
  /\ MapThenSumSet(LAMBDA r : Len(tickets[r]), DOMAIN tickets) <= MaxTicketsSold
  /\ Books!Surplus <= MaxGift
  /\ Cardinality({c \in Codes : codes[c] # Nobody})
       + Cardinality({a \in Accounts : referrer[a] # Nobody})
       + (IF Books!Surplus = 0 THEN 0 ELSE 1)
       + (IF config.rollover_on_no_winner THEN 0 ELSE 1) <= MaxExtras
  /\ config.paused => MayPause

MCConfigs == {LotteryPart(c) : c \in Settings}
=============================================================================
