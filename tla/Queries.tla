------------------------------ MODULE Queries -------------------------------
(***************************************************************************)
(* The queries of contracts/winsaf/src/contract.rs over the state of       *)
(* module Lottery, and a client that pages through the tickets of a round  *)
(* while the contract goes on selling, drawing and paying.  A query reads  *)
(* one committed state and changes nothing; it is the sequence of queries  *)
(* that several messages interleave with.                                  *)
(***************************************************************************)
EXTENDS Lottery, SequencesExt

CONSTANTS
  Base,             \* digits of a ticket id: ten
  TicketIdWidth,    \* TICKET_ID_WIDTH
  MaxQueryLimit,    \* MAX_QUERY_LIMIT
  Limits            \* the limits a client may ask for

ASSUME QueriesAssumption ==
  /\ Base \in Nat \ {0, 1} /\ TicketIdWidth \in Nat \ {0}
  /\ MaxTicketsPerRound <= Base ^ TicketIdWidth
  /\ MaxQueryLimit \in Nat \ {0} /\ Limits \subseteq Nat \ {0} /\ Limits # {}

\* What the proofs need to be told of exponentiation.
ASSUME PowersAssumption ==
  /\ Base ^ 0 = 1
  /\ \A n \in 1..TicketIdWidth :
       Base ^ (n - 1) \in Nat \ {0} /\ Base ^ n = Base * Base ^ (n - 1)

VARIABLE reader  \* the client: what it asked for and what it has been told

NotStarted == <<>>  \* the absent start_after: no id is before it or equal to it

Reader ==
  [round : 1..MaxRounds, owner : Maybe, limit : Limits, start_after : Seq(0..Base - 1),
   told : SUBSET Nat, answers : Nat, done : BOOLEAN]

-----------------------------------------------------------------------------
(* Ids *)

\* With a slip, for the checks: without leading zeros.
TicketIdUnpadded(seq) ==
  LET width == CHOOSE w \in 1..TicketIdWidth : seq < Base ^ w /\ (w = 1 \/ seq >= Base ^ (w - 1))
  IN  [i \in 1..width |-> (seq \div Base ^ (width - i)) % Base]

\* ticket_id: the digits of a ticket's sequence number, which starts at 0.
TicketId(seq) == [i \in 1..TicketIdWidth |-> (seq \div Base ^ (TicketIdWidth - i)) % Base]

\* The order of storage keys.
Before(s, t) ==
  \/ IsStrictPrefix(s, t)
  \/ \E i \in DOMAIN s \cap DOMAIN t : s[i] < t[i] /\ \A j \in 1..(i - 1) : s[j] = t[j]

IdOf(i) == TicketId(i - 1)

-----------------------------------------------------------------------------
(* The queries *)

\* With a slip: the ticket the client names is told again.
AfterInclusive(r, start) == {i \in DOMAIN tickets[r] : ~Before(IdOf(i), start)}

\* The tickets behind Bound::exclusive.
After(r, start) == {i \in DOMAIN tickets[r] : Before(start, IdOf(i))}

OwnedBy(r, owner) == {i \in DOMAIN tickets[r] : owner = Nobody \/ tickets[r][i].owner = owner}

\* The first n tickets of a set, in the order of their ids.
FirstOf(n, set) == {i \in set : Cardinality({j \in set : Before(IdOf(j), IdOf(i))}) < n}

AtMost(limit) == IF limit < MaxQueryLimit THEN limit ELSE MaxQueryLimit

\* With a slip: tickets of other owners use up the limit.
QueryTicketsCountingAll(r, owner, start, limit) ==
  FirstOf(AtMost(limit), After(r, start)) \cap OwnedBy(r, owner)

\* query_tickets; owner = Nobody for no filter.
QueryTickets(r, owner, start, limit) ==
  FirstOf(AtMost(limit), After(r, start) \cap OwnedBy(r, owner))

\* With a slip: a round reports the streak of today whatever has become of it.
QueryRoundLive(r) ==
  [status |-> rounds[r].status, winning_numbers |-> rounds[r].winning_numbers,
   prize_tiers |-> rounds[r].prize_tiers, ticket_count |-> rounds[r].ticket_count,
   player_count |-> rounds[r].player_count, closes_at |-> rounds[r].closes_at,
   top_up_total |-> rounds[r].top_up_total, rollover_in |-> rounds[r].rollover_in,
   pool |-> rounds[r].pool,
   dry_streak |-> dry_streak]

\* query_round, but for randomness, which it copies from the slot of the round
QueryRound(r) ==
  [status |-> rounds[r].status, winning_numbers |-> rounds[r].winning_numbers,
   prize_tiers |-> rounds[r].prize_tiers, ticket_count |-> rounds[r].ticket_count,
   player_count |-> rounds[r].player_count, closes_at |-> rounds[r].closes_at,
   top_up_total |-> rounds[r].top_up_total, rollover_in |-> rounds[r].rollover_in,
   pool |-> rounds[r].pool,
   dry_streak |-> IF rounds[r].status = "Settled" THEN rounds[r].dry_streak_after
                  ELSE dry_streak]

Winning(r, owner) == {i \in DOMAIN tickets[r] : tickets[r][i].owner = owner /\ tickets[r][i].prize # 0}

PrizeSum(r, set) == SumFunctionOnSet([i \in DOMAIN tickets[r] |-> tickets[r][i].prize], set)

\* With a slip: prizes already paid are still offered.
QueryPrizeGross(r, owner) ==
  [claimable |-> PrizeSum(r, Winning(r, owner)),
   claimed |-> PrizeSum(r, {i \in Winning(r, owner) : tickets[r][i].claimed}),
   winning_ticket_ids |-> {IdOf(i) : i \in Winning(r, owner)}]

\* query_prize
QueryPrize(r, owner) ==
  [claimable |-> PrizeSum(r, {i \in Winning(r, owner) : ~tickets[r][i].claimed}),
   claimed |-> PrizeSum(r, {i \in Winning(r, owner) : tickets[r][i].claimed}),
   winning_ticket_ids |-> {IdOf(i) : i \in Winning(r, owner)}]

-----------------------------------------------------------------------------
(* The client *)

\* It asks for a page, and goes on with the last id it was told until a page is
\* not full.
Ask(q) ==
  LET page == QueryTickets(q.round, q.owner, q.start_after, q.limit)
      last == CHOOSE i \in page : \A j \in page : ~Before(IdOf(i), IdOf(j))
  IN  reader' = [q EXCEPT
        !.told = @ \cup page, !.answers = @ + Cardinality(page),
        !.start_after = IF page = {} THEN @ ELSE IdOf(last),
        !.done = Cardinality(page) < AtMost(q.limit)]

Start(r, owner, limit) ==
  Ask([round |-> r, owner |-> owner, limit |-> limit, start_after |-> NotStarted,
       told |-> {}, answers |-> 0, done |-> FALSE])

Continue == ~reader.done /\ Ask(reader)

QueriesInit ==
  /\ Init
  /\ reader = [round |-> 1, owner |-> Nobody, limit |-> CHOOSE l \in Limits : TRUE,
               start_after |-> NotStarted, told |-> {}, answers |-> 0, done |-> TRUE]

QueriesNext ==
  \/ Next /\ UNCHANGED reader
  \/ /\ reader.done
     /\ \E r \in DOMAIN rounds, owner \in Maybe, limit \in Limits : Start(r, owner, limit)
     /\ UNCHANGED lotteryVars
  \/ Continue /\ UNCHANGED lotteryVars

QueriesSpec == QueriesInit /\ [][QueriesNext]_<<lotteryVars, reader>>
-----------------------------------------------------------------------------
(* Properties *)

\* However many sales fall between its pages, a client is told no ticket twice and
\* skips none: at any time it knows exactly the tickets it asked for up to its
\* cursor, and those are the oldest ones.
PagesExact ==
  /\ reader.answers = Cardinality(reader.told)
  /\ reader.told \subseteq OwnedBy(reader.round, reader.owner)
  /\ \A i \in reader.told, j \in OwnedBy(reader.round, reader.owner) \ reader.told : i < j

\* A page that is not full is the last one: the client that stops there knows
\* every ticket there was.
LastPageComplete ==
  [][reader'.done /\ reader' # reader =>
       reader'.told = OwnedBy(reader'.round, reader'.owner)]_<<lotteryVars, reader>>

\* What the players of a finished round are told they can claim adds up to what the
\* round retains, and what they can claim and have claimed never changes any more.
PrizeViewBacked ==
  \A r \in DOMAIN rounds :
    ~InFlight(rounds[r]) =>
      rounds[r].pool = SumFunction([a \in Accounts |-> QueryPrize(r, a).claimable])

PrizeViewStable ==
  [][\A r \in DOMAIN rounds, a \in Accounts :
       ~InFlight(rounds[r]) =>
         QueryPrize(r, a)'.claimable + QueryPrize(r, a)'.claimed
           = QueryPrize(r, a).claimable + QueryPrize(r, a).claimed
    ]_<<lotteryVars, reader>>

\* A settled round is reported the same for ever, its streak included, whatever
\* later rounds do to the streak; only claims lower its pool.
SettledViewFinal ==
  [][\A r \in DOMAIN rounds :
       rounds[r].status = "Settled" =>
         QueryRound(r)' = [QueryRound(r) EXCEPT !.pool = rounds'[r].pool]
    ]_<<lotteryVars, reader>>
=============================================================================
