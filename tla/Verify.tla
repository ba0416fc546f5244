------------------------------- MODULE Verify -------------------------------
(***************************************************************************)
(* contracts/winsaf/src/verify.rs: when delivered randomness is believed.  *)
(* The hashes are operators: nothing is assumed of them but the values     *)
(* they range over.  A drand signature stands for the only one that the    *)
(* pairing check accepts for its group key and beacon round.               *)
(***************************************************************************)
EXTENDS Integers

CONSTANTS
  DrandKeys,     \* drand group public keys
  BeaconKey,     \* the key of the chain that publishes every BeaconPeriod seconds
  LastBeacon,    \* bound of the model on the beacons that are published
  Nonces,        \* the values a submitter may commit to
  Values,        \* 32 byte strings: digests, commitments, seeds
  NoValue,       \* the absent value of an optional one
  Sha256(_)      \* of a signature or of a committed value

Signatures == [key : DrandKeys, round : 1..LastBeacon]

ASSUME VerifyAssumption ==
  /\ BeaconKey \in DrandKeys /\ LastBeacon \in Nat
  /\ NoValue \notin Values \cup Signatures
  /\ \A x \in Signatures \cup Nonces : Sha256(x) \in Values

\* With a slip, for the checks: the Dev verifier in place of the pairing check.
VerifyDigestOnly(verify_mode, pubkey, round, randomness, signature) ==
  randomness = Sha256(signature)

\* verify_drand: the randomness is the digest of the signature and, unless the
\* Dev verifier is configured, the pairing check holds.
VerifyDrand(verify_mode, pubkey, round, randomness, signature) ==
  /\ randomness = Sha256(signature)
  /\ verify_mode = "Bls" => signature = [key |-> pubkey, round |-> round]

\* verify_reveal
VerifyReveal(commitment, value) == Sha256(value) = commitment
=============================================================================
