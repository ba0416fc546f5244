----------------------------- MODULE MCQueries ------------------------------
(***************************************************************************)
(* An instance of Queries for TLC: ids of two ternary digits, so that the  *)
(* fourth ticket of a round carries over into the first.                   *)
(***************************************************************************)
EXTENDS Queries, TLC

Winners == 1..6
MCPicks == {(1..5) \cup {11}}
MCDraws == {Winners}

\* Bought and granted tickets feed the pool alike.
MCSplit == [prize_bps |-> 10000, referral_bps |-> 0, treasury_bps |-> 0]
MCConfigs ==
  {[draw_interval |-> 1, schedule_anchor |-> NoAnchor,
    max_dry_rounds |-> 0, rollover_on_no_winner |-> TRUE]}

Symmetry == Permutations(Accounts)

\* Bound: tickets sold over all rounds together.
CONSTANT MaxTicketsSold
FewTickets == MapThenSumSet(LAMBDA r : Len(tickets[r]), DOMAIN tickets) <= MaxTicketsSold
=============================================================================
