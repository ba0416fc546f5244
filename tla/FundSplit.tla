----------------------------- MODULE FundSplit -----------------------------
(***************************************************************************)
(* The revenue split of a ticket sale: packages/winsaf-shared/src/split.rs *)
(* A split gives each of three buckets its share in basis points; Apply    *)
(* floors the prize and the referral share and leaves the treasury what    *)
(* remains.  Amounts are whole micro-units (usaf).                         *)
(***************************************************************************)
EXTENDS Integers

BPS_DENOM == 10000

\* Its fields are u16, wider than any value Validate accepts.
FundSplitBps == [prize_bps : Nat, referral_bps : Nat, treasury_bps : Nat]

Validate(split) ==
  /\ split.prize_bps <= BPS_DENOM
  /\ split.referral_bps <= BPS_DENOM
  /\ split.treasury_bps <= BPS_DENOM
  /\ split.prize_bps + split.referral_bps + split.treasury_bps = BPS_DENOM

\* amount * bps / 10000, rounded down.
Share(amount, bps) == (amount * bps) \div BPS_DENOM

Apply(split, amount) ==
  LET prize    == Share(amount, split.prize_bps)
      referral == Share(amount, split.referral_bps)
  IN  [prize |-> prize, referral |-> referral, treasury |-> (amount - prize) - referral]
=============================================================================
