------------------------------- MODULE Picks -------------------------------
(***************************************************************************)
(* The number domain of a ticket and the generator of number sets,         *)
(* pick_distinct of contracts/winsaf/src/contract.rs: the quick-picks of   *)
(* mint_tickets and the winning numbers of a draw both come from it.       *)
(*                                                                         *)
(* The generator rejects values it has already chosen, gives up after a    *)
(* number of iterations and fills up in ascending order.  One action is    *)
(* one turn of one of its two loops.  The xorshift stream that drives it   *)
(* may yield any value at any turn, also the same one for ever: nothing    *)
(* here depends on its quality.  Numbers are u8, and the build checks      *)
(* overflow: an addition beyond u8::MAX aborts the message.                *)
(***************************************************************************)
EXTENDS Integers, Sequences, FiniteSets, Functions

CONSTANTS
  MaxByte,       \* u8::MAX
  MaxIterations  \* max_iterations

ASSUME PicksAssumption == MaxByte \in Nat \ {0} /\ MaxIterations \in Nat

Bytes == 0..MaxByte

\* validate_number_domain
ValidNumberDomain(numbers_per_ticket, number_max) ==
  /\ numbers_per_ticket # 0
  /\ number_max # 0 /\ number_max >= numbers_per_ticket

\* With a slip, for the checks: neighbours are compared in the order they came.
ValidUnsorted(numbers, numbers_per_ticket, number_max) ==
  /\ ValidNumberDomain(numbers_per_ticket, number_max)
  /\ Len(numbers) = numbers_per_ticket
  /\ \A i \in 1..(Len(numbers) - 1) : numbers[i] # numbers[i + 1]
  /\ \A i \in DOMAIN numbers : numbers[i] \in 1..number_max

\* sort_unstable: an entry goes behind the smaller ones and, of equal ones, behind
\* those before it.
Precedes(s, j, i) == s[j] < s[i] \/ (s[j] = s[i] /\ j < i)
Rank(s, i) == Cardinality({j \in DOMAIN s : Precedes(s, j, i)}) + 1
Sorted(s) == [k \in 1..Len(s) |-> s[CHOOSE i \in DOMAIN s : Rank(s, i) = k]]

\* What validate_ticket_numbers, which sorts first, accepts.
ValidTicketNumbers(numbers, numbers_per_ticket, number_max) ==
  LET sorted == Sorted(numbers)
  IN  /\ ValidNumberDomain(numbers_per_ticket, number_max)
      /\ Len(sorted) = numbers_per_ticket
      /\ \A i \in 1..(Len(sorted) - 1) : sorted[i] # sorted[i + 1]
      /\ sorted # <<>> => sorted[1] >= 1 /\ sorted[Len(sorted)] <= number_max

VARIABLES
  count,       \* the parameters: how many numbers,
  number_max,  \* and up to which
  phase,       \* the loop it is in, or how it ended
  chosen,      \* what it has chosen so far, a Vec
  iterations,  \* turns of the first loop
  n            \* the next value the second loop tries

pickVars == <<count, number_max, phase, chosen, iterations, n>>

PickInit ==
  /\ count \in Bytes /\ number_max \in Bytes
  /\ ValidNumberDomain(count, number_max)
  /\ phase = "stream"
  /\ chosen = <<>>
  /\ iterations = 0
  /\ n = 1

\* With a slip: a collision is not noticed.
PushAlways(v) == Append(chosen, v)

\* chosen with v, unless v is there; what the generator returns in the end is
\* chosen, sorted.
Push(v) == IF v \in Range(chosen) THEN chosen ELSE Append(chosen, v)

\* A turn of the loop over the stream: next() % number_max + 1 is any number.
Stream ==
  /\ phase = "stream"
  /\ Len(chosen) < count /\ iterations < MaxIterations
  /\ iterations' = iterations + 1
  /\ \E v \in 1..number_max : chosen' = Push(v)
  /\ UNCHANGED <<count, number_max, phase, n>>

StreamEnds ==
  /\ phase = "stream"
  /\ ~(Len(chosen) < count /\ iterations < MaxIterations)
  /\ phase' = "fill"
  /\ UNCHANGED <<count, number_max, chosen, iterations, n>>

\* With a slip: the fill does not look whether it is needed.
FillingThrough == n <= number_max

\* The condition of the second loop.
Filling == Len(chosen) < count /\ n <= number_max

\* With a slip: only a number that was missing moves the counter on.
FillStalling ==
  /\ phase = "fill"
  /\ Filling
  /\ chosen' = Push(n)
  /\ n' = IF n \in Range(chosen) THEN n ELSE n + 1
  /\ UNCHANGED <<count, number_max, phase, iterations>>

\* A turn of the second loop; n + 1 overflows at u8::MAX.
Fill ==
  /\ phase = "fill"
  /\ Filling
  /\ chosen' = Push(n)
  /\ IF n < MaxByte
       THEN n' = n + 1 /\ UNCHANGED phase
       ELSE phase' = "aborted" /\ UNCHANGED n
  /\ UNCHANGED <<count, number_max, iterations>>

FillEnds ==
  /\ phase = "fill"
  /\ ~Filling
  /\ phase' = "done"
  /\ UNCHANGED <<count, number_max, chosen, iterations, n>>

PickNext == Stream \/ StreamEnds \/ Fill \/ FillEnds

\* One call, which nothing interrupts.
PickSpec == PickInit /\ [][PickNext]_pickVars /\ WF_pickVars(PickNext)
-----------------------------------------------------------------------------
(* Properties *)

Distinct(s) == \A i, j \in DOMAIN s : s[i] = s[j] => i = j

\* Whatever the stream yields, the generator returns as many distinct numbers of
\* the domain as a ticket needs: a draw never has too few winning numbers.
PickedWell ==
  phase = "done" =>
    /\ Len(chosen) = count
    /\ Distinct(chosen)
    /\ Range(chosen) \subseteq 1..number_max

\* The counter of the fill overflows only when a ticket takes every number of the
\* largest possible domain: no other configuration lets a draw abort.
AbortsOnlyOnFullDomain == phase = "aborted" => count = MaxByte /\ number_max = MaxByte

\* The generator ends, even on a stream that yields one value for ever.
PickEnds == <>(phase \in {"done", "aborted"})
=============================================================================
