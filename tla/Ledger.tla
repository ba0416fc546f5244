------------------------------- MODULE Ledger -------------------------------
(***************************************************************************)
(* What the contract promises about money, without rounds or tickets: what *)
(* it holds belongs to exactly one of four purses, apart from gifts, and   *)
(* money moves only as below.  Module Winsaf implements this specification. *)
(***************************************************************************)
EXTENDS Integers

VARIABLES
  held,       \* what the contract holds
  prizes,     \* the pools of all rounds
  referrals,  \* what referrers have earned and not yet claimed
  purse,      \* the treasury
  escrow      \* promotional money for rounds to come

purses == <<prizes, referrals, purse, escrow>>

\* What belongs to nobody: coins the contract was given.
Surplus == held - (prizes + referrals + purse + escrow)

Init == held = 0 /\ prizes = 0 /\ referrals = 0 /\ purse = 0 /\ escrow = 0

\* A sale feeds the pool, the treasury and a referrer; so does, in part, a
\* sponsored ticket or a top-up.
Deposit ==
  /\ held' > held
  /\ prizes' >= prizes /\ referrals' >= referrals /\ purse' >= purse
  /\ UNCHANGED escrow

DepositEscrow == held' > held /\ escrow' > escrow /\ UNCHANGED <<prizes, referrals, purse>>

\* The treasury sponsors a ticket.
Sponsor == prizes' > prizes /\ purse' < purse /\ UNCHANGED <<held, referrals, escrow>>

\* A round ends: a leftover may go to the treasury, the escrow of the round that
\* opens goes to its pool.
Turnover ==
  /\ purse' >= purse /\ escrow' <= escrow
  /\ UNCHANGED <<held, referrals>>

\* A payment comes out of one purse.
Pay ==
  /\ held' < held
  /\ \/ UNCHANGED <<referrals, purse, escrow>>
     \/ UNCHANGED <<prizes, purse, escrow>>
     \/ UNCHANGED <<prizes, referrals, escrow>>
     \/ UNCHANGED <<prizes, referrals, purse>>

\* Coins arrive for which the sender gets nothing.
Given == held' > held /\ UNCHANGED purses

Next ==
  /\ held' >= 0 /\ prizes' >= 0 /\ referrals' >= 0 /\ purse' >= 0 /\ escrow' >= 0
  /\ \/ Given
     \/ /\ Surplus' = Surplus
        /\ Deposit \/ DepositEscrow \/ Sponsor \/ Turnover \/ Pay

Spec == Init /\ [][Next]_<<held, purses>>
=============================================================================
