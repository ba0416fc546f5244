------------------------------ MODULE MCPicks ------------------------------
(***************************************************************************)
(* The pick generator for TLC, and the validation of chosen numbers        *)
(* checked against what its comment says it accepts.                       *)
(***************************************************************************)
EXTENDS Picks, SequencesExt

CONSTANT MaxNumbers  \* bound: the longest list of numbers a buyer sends

\* A buyer's numbers are accepted exactly when they are numbers_per_ticket
\* distinct ones in 1..number_max, in any order.
AcceptsExactlyTickets ==
  phase = "stream" /\ iterations = 0 =>
    \A numbers \in SeqOf(Bytes, MaxNumbers) :
      ValidTicketNumbers(numbers, count, number_max) <=>
        /\ Cardinality(Range(numbers)) = Len(numbers) /\ Len(numbers) = count
        /\ \A i \in DOMAIN numbers : 1 <= numbers[i] /\ numbers[i] <= number_max
=============================================================================
