------------------------------- MODULE Funds --------------------------------
(***************************************************************************)
(* packages/winsaf-shared/src/money.rs: what a handler makes of the coins  *)
(* a message arrives with.  A coin list is a sequence, as the chain hands  *)
(* it over: it may be empty, name a denom twice, or hold a zero amount.    *)
(* A checked addition that overflows u128 rejects the message; amounts of  *)
(* that size are not modelled.                                             *)
(***************************************************************************)
EXTENDS Integers, Sequences, FiniteSetsExt

CONSTANTS
  Denoms,    \* denominations a coin may have
  Denom,     \* Config.denom, the one the contract settles in
  Payments   \* the coin lists a message may arrive with

Coin == [denom : Denoms, amount : Nat]

ASSUME FundsAssumption == Denom \in Denoms /\ Payments \subseteq Seq(Coin)

\* The amount of Denom among the coins: what the contract's balance grows by.
Paid(funds) ==
  SumFunction([i \in {j \in DOMAIN funds : funds[j].denom = Denom} |-> funds[i].amount])

\* must_pay_denom_only accepts the coins.
MustPayDenomOnly(funds) ==
  /\ funds # <<>>
  /\ \A i \in DOMAIN funds : funds[i].denom = Denom
  /\ Paid(funds) # 0

\* assert_exact_denom
AssertExactDenom(funds, expected) == MustPayDenomOnly(funds) /\ Paid(funds) = expected

\* nonpayable of cw_utils (external).
Nonpayable(funds) == funds = <<>>
=============================================================================
