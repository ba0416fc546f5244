----------------------------- MODULE Randomness -----------------------------
(***************************************************************************)
(* The randomness subsystem of contracts/winsaf/src/contract.rs: one slot  *)
(* per closed round, filled by a drand beacon anybody relays or by the     *)
(* commit and reveal of one submitter, and the rules for recovering a      *)
(* round whose slot is never filled.  The handlers belong to module        *)
(* Winsaf; here are their parts that read or write RANDOMNESS.             *)
(*                                                                         *)
(* A message that fails verification is rejected: no step.                 *)
(***************************************************************************)
EXTENDS Basics, Schedule, Verify

CONSTANTS
  CancelGrace,           \* CANCEL_GRACE_SECONDS
  DefaultRevealTimeout,  \* DEFAULT_REVEAL_TIMEOUT_SECONDS
  BeaconGenesis,         \* the drand chain: genesis and
  BeaconPeriod,          \* period of its beacons
  RevealSeed(_, _, _, _) \* the hash of a revealed value, the entropy of the
                         \* round's tickets, a block time and a block height

ASSUME RandomnessAssumption ==
  /\ CancelGrace \in Nat /\ DefaultRevealTimeout \in Nat
  /\ BeaconGenesis \in Nat \ {0} /\ BeaconPeriod \in Nat \ {0}

MIN_REVEAL_DELAY_BLOCKS == 1

VARIABLES
  requests,  \* RANDOMNESS: round id -> slot
  height     \* block height

randomnessVars == <<requests, height>>

\* committer = Nobody stands for no commitment, with its height and deadline.
RandomnessRequest ==
  [beacon_round : Nat, status : {"Pending", "Committed", "Fulfilled"},
   randomness : Values \cup {NoValue}, signature : Signatures \cup {NoValue},
   commitment : Values \cup {NoValue}, committer : Maybe,
   commit_height : Nat, reveal_deadline : Nat]

\* The part of Config the subsystem reads.
RandomnessConfig ==
  [admin : Accounts, authorized_submitters : SUBSET Accounts,
   randomness_mode : {"Mock", "Drand", "CommitReveal"}, verify_mode : {"Bls", "Dev"},
   drand_pubkey : DrandKeys, drand_genesis_time : Nat, drand_period : Nat,
   reveal_timeout : Nat]

\* validate_randomness_config in a production build; keys are well formed.
ValidRandomnessConfig(config) ==
  /\ config.randomness_mode # "Mock" /\ config.verify_mode # "Dev"
  /\ config.randomness_mode = "Drand" =>
       config.drand_period # 0 /\ config.drand_genesis_time # 0

IsAdmin(config, sender) == sender = config.admin
IsSubmitter(config, sender) == IsAdmin(config, sender) \/ sender \in config.authorized_submitters

SelfVerifying(config) == config.randomness_mode = "Drand" /\ config.verify_mode = "Bls"

SaturatingAdd(a, b) == IF a + b <= MaxTime THEN a + b ELSE MaxTime

Requested(r) == r \in DOMAIN requests
Fulfilled(r) == Requested(r) /\ requests[r].status = "Fulfilled"

\* With a slip, for the checks: a slot that is filled can be filled again.
AnyRandomness(r) == Requested(r)

\* load_pending_randomness
PendingRandomness(r) == Requested(r) /\ requests[r].status # "Fulfilled"

\* The beacon that a round closed under config is bound to.
BoundBeacon(r, closes_at, config) ==
  IF config.randomness_mode = "Drand"
    THEN DrandRoundAfter(closes_at, config.drand_genesis_time, config.drand_period)
    ELSE r

NewRequest(beacon_round) ==
  [beacon_round |-> beacon_round, status |-> "Pending", randomness |-> NoValue,
   signature |-> NoValue, commitment |-> NoValue, committer |-> Nobody,
   commit_height |-> 0, reveal_deadline |-> 0]

\* CloseRound creates the slot of the round it closes.
RequestRandomness(r, beacon_round) ==
  requests' = [x \in DOMAIN requests \cup {r} |->
                IF x = r THEN NewRequest(beacon_round) ELSE requests[x]]

\* The drand chain (external) signs a beacon when it publishes it; of any other
\* key nothing is known.
Published(signature, time) ==
  signature.key = BeaconKey =>
    PublishTime(signature.round, BeaconGenesis, BeaconPeriod) <= time

\* In a production build the mode is Drand: Mock needs no case.
SubmitRandomness(sender, r, randomness, signature, config) ==
  /\ SelfVerifying(config) \/ IsSubmitter(config, sender)
  /\ config.randomness_mode # "CommitReveal"
  /\ PendingRandomness(r)
  /\ VerifyDrand(config.verify_mode, config.drand_pubkey, requests[r].beacon_round,
                 randomness, signature)
  /\ requests' = [requests EXCEPT ![r].status = "Fulfilled",
                    ![r].randomness = randomness, ![r].signature = signature]

RevealTimeout(config) ==
  IF config.reveal_timeout = 0 THEN DefaultRevealTimeout ELSE config.reveal_timeout

\* The slot of r as a commitment leaves it.
CommittedRequest(r, sender, commitment, config, time) ==
  [requests[r] EXCEPT
    !.status = "Committed", !.commitment = commitment, !.committer = sender,
    !.commit_height = height, !.reveal_deadline = SaturatingAdd(time, RevealTimeout(config))]

\* With a slip: over an earlier commitment.
CommitRandomnessAgain(sender, r, commitment, config, time) ==
  /\ config.randomness_mode = "CommitReveal"
  /\ IsSubmitter(config, sender)
  /\ PendingRandomness(r)
  /\ requests' = [requests EXCEPT ![r] = CommittedRequest(r, sender, commitment, config, time)]

CommitRandomness(sender, r, commitment, config, time) ==
  /\ config.randomness_mode = "CommitReveal"
  /\ IsSubmitter(config, sender)
  /\ PendingRandomness(r)
  /\ requests[r].status # "Committed" /\ requests[r].commitment = NoValue
  /\ requests' = [requests EXCEPT ![r] = CommittedRequest(r, sender, commitment, config, time)]

\* entropy stands for ticket_entropy of round r.
RevealRandomness(sender, r, value, entropy, config, time) ==
  /\ config.randomness_mode = "CommitReveal"
  /\ IsSubmitter(config, sender)
  /\ PendingRandomness(r)
  /\ requests[r].commitment # NoValue
  /\ requests[r].committer = sender
  /\ height >= requests[r].commit_height + MIN_REVEAL_DELAY_BLOCKS
  /\ VerifyReveal(requests[r].commitment, value)
  /\ requests' = [requests EXCEPT ![r].status = "Fulfilled",
                    ![r].randomness = RevealSeed(value, entropy, time, height)]

GracePassed(closes_at, time) == time >= SaturatingAdd(closes_at, CancelGrace)

DeadlinePassed(r, time) ==
  Requested(r) /\ requests[r].committer # Nobody /\ time > requests[r].reveal_deadline

\* With a slip: also a round whose outcome is there.
MayCancelFulfilled(sender, r, closes_at, config, time) ==
  GracePassed(closes_at, time) \/ (IsAdmin(config, sender) /\ ~SelfVerifying(config))

\* With a slip: without a grace period after which anyone may.
MayCancelByAdmin(sender, r, closes_at, config, time) ==
  /\ ~Fulfilled(r) /\ ~SelfVerifying(config)
  /\ IsAdmin(config, sender) \/ DeadlinePassed(r, time)

\* Who may cancel a closed round, and when.
MayCancel(sender, r, closes_at, config, time) ==
  /\ ~Fulfilled(r)
  /\ IF SelfVerifying(config)
       THEN GracePassed(closes_at, time)
       ELSE \/ IsAdmin(config, sender)
            \/ DeadlinePassed(r, time)
            \/ GracePassed(closes_at, time)
=============================================================================
