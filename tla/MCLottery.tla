----------------------------- MODULE MCLottery -----------------------------
(***************************************************************************)
(* Instances of Lottery for TLC.  A ticket carries one of a few number     *)
(* sets, chosen so that every tier of the winning set {1..6} has a ticket  *)
(* that lands in it.                                                       *)
(***************************************************************************)
EXTENDS Lottery, FiniteSetsExt, TLC

Winning == 1..6

\* k of the winning numbers, and losing ones to make six.
Matching(k) == (1..k) \cup (11..(16 - k))

MCPicks == {Matching(2), Matching(5), Matching(6)}
MCLowPicks == {Matching(2), Matching(4)}
MCDraws == {Winning}

DefaultSplit == [prize_bps |-> 7500, referral_bps |-> 1000, treasury_bps |-> 1500]
NoReferralSplit == [prize_bps |-> 8500, referral_bps |-> 0, treasury_bps |-> 1500]

Config(max_dry, rollover) ==
  [draw_interval |-> 1, schedule_anchor |-> NoAnchor,
   max_dry_rounds |-> max_dry, rollover_on_no_winner |-> rollover]

\* The two dispositions of a draw's leftover, with and without a cap.
MCConfigs == {Config(0, TRUE), Config(2, FALSE)}
MCCapConfigs == {Config(2, TRUE), Config(2, FALSE)}

Symmetry == Permutations(Accounts)

\* Bound: tickets sold over all rounds together.
CONSTANT MaxTicketsSold
TicketsSold == MapThenSumSet(LAMBDA r : Len(tickets[r]), DOMAIN tickets)
FewTickets == TicketsSold <= MaxTicketsSold
=============================================================================
