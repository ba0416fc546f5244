------------------------------ MODULE Treasury ------------------------------
(***************************************************************************)
(* The money of contracts/winsaf/src/contract.rs that is neither in a      *)
(* round's pool nor owed to a referrer: the treasury and the escrow of     *)
(* top-ups for rounds that do not exist yet.  bank is the contract's       *)
(* balance at the chain's bank module (external): it grows by what a       *)
(* message is sent with and shrinks by what a handler sends, and a send    *)
(* beyond it fails and takes the whole message with it.                    *)
(***************************************************************************)
EXTENDS Basics, Funds

CONSTANT MaxEscrow  \* bound of the model on the escrow of one round

ASSUME TreasuryAssumption == MaxEscrow \in Nat

VARIABLES
  treasury,        \* TREASURY
  pending_topups,  \* PENDING_TOPUPS: round id -> escrow, 0 for an absent key
  bank             \* the contract's bank balance

treasuryVars == <<treasury, pending_topups, bank>>

RoundIds == 1..MaxRounds

TreasuryTypeOK ==
  /\ treasury \in Nat
  /\ pending_topups \in [RoundIds -> Nat]
  /\ bank \in Nat

TreasuryInit ==
  /\ treasury = 0
  /\ pending_topups = [r \in RoundIds |-> 0]
  /\ bank = 0

\* A message brings paid, of which the treasury keeps cut.
Receive(paid, cut) ==
  /\ bank' = bank + paid
  /\ treasury' = treasury + cut
  /\ UNCHANGED pending_topups

\* Coins nobody accounts for.
Donate(amount) == bank' = bank + amount /\ UNCHANGED <<treasury, pending_topups>>

\* BankMsg::Send of money another subsystem has just written off.
Send(amount) ==
  /\ amount <= bank
  /\ bank' = bank - amount
  /\ UNCHANGED <<treasury, pending_topups>>

\* execute_withdraw_treasury
WithdrawTreasury(amount) ==
  /\ amount # 0 /\ amount <= treasury /\ amount <= bank
  /\ treasury' = treasury - amount
  /\ bank' = bank - amount
  /\ UNCHANGED pending_topups

\* With a slip, for the checks: a treasury that is too small is not noticed.
SpendUnchecked(amount) ==
  treasury' = treasury - amount /\ UNCHANGED <<pending_topups, bank>>

\* The treasury's side of GrantBonusTicketFromTreasury.
Spend(amount) ==
  /\ amount <= treasury
  /\ treasury' = treasury - amount
  /\ UNCHANGED <<pending_topups, bank>>

\* The branch of execute_top_up_pool for a round that does not exist yet.
EscrowTopUp(r, amount) ==
  /\ pending_topups[r] + amount <= MaxEscrow
  /\ pending_topups' = [pending_topups EXCEPT ![r] = @ + amount]
  /\ bank' = bank + amount
  /\ UNCHANGED treasury

\* execute_cancel_pending_top_up
CancelPendingTopUp(r) ==
  /\ pending_topups[r] # 0 /\ pending_topups[r] <= bank
  /\ bank' = bank - pending_topups[r]
  /\ pending_topups' = [pending_topups EXCEPT ![r] = 0]
  /\ UNCHANGED treasury

\* With a slip: the escrow is not removed.
AbsorbEscrowKept(r, swept) ==
  treasury' = treasury + swept /\ UNCHANGED <<pending_topups, bank>>

\* open_next_round absorbs the escrow of the round it opens; swept is what a
\* draw that does not roll its leftover over adds to the treasury.
AbsorbEscrow(r, swept) ==
  /\ pending_topups' = [pending_topups EXCEPT ![r] = 0]
  /\ treasury' = treasury + swept
  /\ UNCHANGED bank
=============================================================================
