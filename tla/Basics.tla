------------------------------- MODULE Basics -------------------------------
(***************************************************************************)
(* What the subsystems of the contract share: addresses, number sets and   *)
(* round ids.                                                              *)
(***************************************************************************)
EXTENDS Integers, FiniteSets

CONSTANTS
  Accounts,   \* addresses
  Nobody,     \* no address: the absent value of an optional one
  Picks,      \* the number sets a ticket may carry
  Draws,      \* the winning number sets a draw may produce
  MaxRounds   \* round ids are u64: the last one

NumbersAssumption ==
  \A numbers \in Picks \cup Draws : numbers \subseteq Nat /\ IsFiniteSet(numbers)

ASSUME BasicsAssumption ==
  /\ NumbersAssumption
  /\ IsFiniteSet(Accounts) /\ Nobody \notin Accounts
  /\ {} \notin Draws
  /\ MaxRounds \in Nat \ {0}

\* An optional address.
Maybe == Accounts \cup {Nobody}
=============================================================================
