--------------------------- MODULE LotteryProofs ----------------------------
(***************************************************************************)
(* The lottery's invariants and action properties, for any set of          *)
(* accounts and numbers, any ticket price and valid split, any             *)
(* configuration changed between any two messages, and any number of       *)
(* rounds and tickets: first the inductive invariant, action by action,    *)
(* then what it is for.                                                    *)
(***************************************************************************)
EXTENDS Lottery, ArithmeticProofs, SequenceTheorems

-----------------------------------------------------------------------------
(* Close times *)

LEMMA GridPointType ==
  ASSUME NEW config \in LotteryConfig, NEW opens_at \in Nat,
         config.schedule_anchor # NoAnchor, config.schedule_anchor <= opens_at
  PROVE  NextGridPoint(config, opens_at) \in Nat
<1> DEFINE interval == config.draw_interval
           anchor == config.schedule_anchor
           steps == (opens_at - anchor) \div interval
<1>1. interval \in Nat /\ interval # 0 /\ anchor \in Nat /\ opens_at - anchor \in Nat
  BY DEF LotteryConfig, NoAnchor
<1>2. steps \in Nat
  BY <1>1, DivisionFloors
<1>3. NextGridPoint(config, opens_at) = anchor + (steps + 1) * interval
  BY DEF NextGridPoint
<1> HIDE DEF steps, interval, anchor
<1> QED  BY <1>1, <1>2, <1>3

LEMMA NextCloseAtType ==
  ASSUME NEW config \in LotteryConfig, NEW opens_at \in Nat
  PROVE  NextCloseAt(config, opens_at) \in Nat
<1>1. config.draw_interval \in Nat /\ config.schedule_anchor \in Nat \cup {NoAnchor}
  BY DEF LotteryConfig
<1>2. CASE config.schedule_anchor = NoAnchor
  BY <1>1, <1>2 DEF NextCloseAt, NoAnchor
<1>3. CASE config.schedule_anchor # NoAnchor /\ config.schedule_anchor > opens_at
  BY <1>1, <1>3 DEF NextCloseAt
<1>4. CASE config.schedule_anchor # NoAnchor /\ ~(config.schedule_anchor > opens_at)
  <2>1. NextGridPoint(config, opens_at) \in Nat
    BY <1>1, <1>4, GridPointType DEF NoAnchor
  <2>2. GridClose(config, opens_at) \in Nat
    BY <1>1, <2>1 DEF GridClose
  <2> QED  BY <1>4, <2>2 DEF NextCloseAt
<1> QED  BY <1>2, <1>3, <1>4

-----------------------------------------------------------------------------
(* Tickets *)

LEMMA TicketsFinite ==
  ASSUME NEW ts \in Seq(Ticket)
  PROVE  /\ IsFiniteSet(DOMAIN ts) /\ Cardinality(DOMAIN ts) = Len(ts)
         /\ IsFiniteSet(Unclaimed(ts)) /\ Cardinality(Unclaimed(ts)) \in Nat
         /\ \A t : IsFiniteSet(UnclaimedIn(ts, t)) /\ Cardinality(UnclaimedIn(ts, t)) \in Nat
         /\ UnclaimedCounts(ts) \in [Tiers -> Nat]
<1>1. IsFiniteSet(DOMAIN ts) /\ Cardinality(DOMAIN ts) = Len(ts)
  <2>1. DOMAIN ts = 1..Len(ts) /\ Len(ts) \in Nat
    OBVIOUS
  <2> DEFINE len == Len(ts)
  <2>2. len \in Int /\ 1 \in Int /\ len >= 0
    BY <2>1
  <2> HIDE DEF len
  <2>3. IsFiniteSet(1..len) /\ Cardinality(1..len) = IF 1 > len THEN 0 ELSE len - 1 + 1
    BY <2>2, FS_Interval
  <2>4. IsFiniteSet(1..len) /\ Cardinality(1..len) = len
    BY <2>2, <2>3
  <2> QED  BY <2>1, <2>4 DEF len
<1>2. /\ Unclaimed(ts) \subseteq DOMAIN ts
      /\ \A t : UnclaimedIn(ts, t) \subseteq DOMAIN ts
  BY DEF Unclaimed, UnclaimedIn
<1>3. /\ IsFiniteSet(Unclaimed(ts)) /\ Cardinality(Unclaimed(ts)) \in Nat
      /\ \A t : IsFiniteSet(UnclaimedIn(ts, t)) /\ Cardinality(UnclaimedIn(ts, t)) \in Nat
  BY <1>1, <1>2, FS_Subset, FS_CardinalityType
<1> QED  BY <1>1, <1>3 DEF UnclaimedCounts

LEMMA OwnersFinite ==
  ASSUME NEW ts \in Seq(Ticket)
  PROVE  IsFiniteSet(Owners(ts)) /\ Cardinality(Owners(ts)) \in Nat
<1> DEFINE owner == [i \in DOMAIN ts |-> ts[i].owner]
<1>1. IsFiniteSet(DOMAIN ts)
  BY TicketsFinite
<1>2. owner \in Surjection(DOMAIN ts, Owners(ts))
  BY DEF Owners, Surjection
<1> QED  BY <1>1, <1>2, FS_Surjection, FS_CardinalityType

-----------------------------------------------------------------------------
(* What a step does to the rounds: it changes one round in place, or closes *)
(* the current one and opens its successor.                                 *)

LEMMA RoundChanged ==
  ASSUME LotteryInv, NEW r \in DOMAIN rounds,
         NEW round \in Round, NEW ts \in Seq(Ticket),
         rounds' = [rounds EXCEPT ![r] = round],
         tickets' = [tickets EXCEPT ![r] = ts],
         UNCHANGED <<now, current_round>>, dry_streak' \in Nat,
         InFlight(round) <=> InFlight(rounds[r]),
         RoundInv(round, ts)
  PROVE  LotteryInv'
<1>1. TypeOK'
  BY DEF LotteryInv, TypeOK
<1>2. /\ DOMAIN rounds' = DOMAIN rounds
      /\ \A x \in DOMAIN rounds :
           /\ rounds'[x] = IF x = r THEN round ELSE rounds[x]
           /\ tickets'[x] = IF x = r THEN ts ELSE tickets[x]
  BY DEF LotteryInv, TypeOK
<1>3. OneRoundInFlight'
  BY <1>2 DEF LotteryInv, OneRoundInFlight, InFlight
<1>4. \A x \in DOMAIN rounds' : RoundInv(rounds'[x], tickets'[x])
  BY <1>2 DEF LotteryInv
<1> QED  BY <1>1, <1>3, <1>4 DEF LotteryInv

LEMMA RoundOpened ==
  ASSUME NEW config \in LotteryConfig, NEW rollover \in Nat, NEW pending \in Nat, now \in Nat
  PROVE  LET opened == NewOpen(NextCloseAt(config, now), rollover, pending)
         IN  opened \in Round /\ opened.status = "Open" /\ RoundInv(opened, <<>>)
<1> DEFINE opened == NewOpen(NextCloseAt(config, now), rollover, pending)
<1>1. NextCloseAt(config, now) \in Nat
  BY NextCloseAtType
<1>2. NoPrizes \in [Tiers -> Nat]
  BY DEF NoPrizes
<1>3. opened \in Round /\ opened.status = "Open"
  BY <1>1, <1>2 DEF NewOpen, Round, Statuses
<1>4. /\ opened.ticket_count = 0 /\ opened.player_count = 0
      /\ opened.pool = rollover + pending
      /\ opened.rollover_in = rollover /\ opened.top_up_total = pending
  BY DEF NewOpen
<1>5. Owners(<<>>) = {} /\ Len(<<>>) = 0
  BY DEF Owners
<1>6. RoundCounts(opened, <<>>)
  <2>1. 0 <= MaxTicketsPerRound
    BY LotteryAssumption
  <2>2. Cardinality(Owners(<<>>)) = 0
    BY <1>5, FS_EmptySet
  <2> QED  BY <1>4, <1>5, <2>1, <2>2 DEF RoundCounts
<1>7. RoundCarries(opened)
  BY <1>4 DEF RoundCarries
<1>8. RoundFresh(opened, <<>>)
  BY DEF RoundFresh
<1>9. RoundBacked(opened, <<>>)
  BY <1>3 DEF RoundBacked
<1> QED  BY <1>3, <1>6, <1>7, <1>8, <1>9 DEF RoundInv

LEMMA RoundFinished ==
  ASSUME LotteryInv, NEW r \in DOMAIN rounds, InFlight(rounds[r]),
         NEW closed \in Round, NEW ts \in Seq(Ticket),
         NEW config \in LotteryConfig, NEW rollover \in Nat, NEW pending \in Nat,
         OpenNextRound(r, closed, ts, config, rollover, pending),
         now' = now, dry_streak' \in Nat,
         closed.status \in {"Settled", "Cancelled"},
         RoundInv(closed, ts)
  PROVE  LotteryInv'
<1> DEFINE next == r + 1
           opened == NewOpen(NextCloseAt(config, now), rollover, pending)
<1>1. /\ r = current_round /\ r \in Nat /\ next \in 1..MaxRounds
      /\ now \in Nat /\ DOMAIN rounds = 1..r /\ DOMAIN tickets = 1..r
      /\ DOMAIN rounds \cup {next} = 1..next
  BY LotteryAssumption DEF LotteryInv, TypeOK, OneRoundInFlight, OpenNextRound
<1>2. opened \in Round /\ opened.status = "Open" /\ RoundInv(opened, <<>>)
  BY <1>1, RoundOpened
<1>3. /\ current_round' = next
      /\ rounds' = [x \in 1..next |->
                     IF x = next THEN opened ELSE IF x = r THEN closed ELSE rounds[x]]
      /\ tickets' = [x \in 1..next |->
                     IF x = next THEN <<>> ELSE IF x = r THEN ts ELSE tickets[x]]
  BY <1>1 DEF OpenNextRound
<1> HIDE DEF opened
<1>4. \A x \in 1..next :
        \/ x = next /\ rounds'[x] = opened /\ tickets'[x] = <<>>
        \/ x = r /\ x # next /\ rounds'[x] = closed /\ tickets'[x] = ts
        \/ x \in 1..r /\ x # r /\ x # next /\ rounds'[x] = rounds[x] /\ tickets'[x] = tickets[x]
  BY <1>1, <1>3
<1>5. TypeOK'
  <2>1. \A x \in 1..next : rounds'[x] \in Round /\ tickets'[x] \in Seq(Ticket)
    <3>1. <<>> \in Seq(Ticket)
      OBVIOUS
    <3>2. \A x \in 1..r : rounds[x] \in Round /\ tickets[x] \in Seq(Ticket)
      BY <1>1 DEF LotteryInv, TypeOK
    <3> QED  BY <1>2, <1>4, <3>1, <3>2
  <2>2. rounds' \in [1..current_round' -> Round] /\ tickets' \in [1..current_round' -> Seq(Ticket)]
    BY <1>3, <2>1
  <2> QED  BY <1>1, <1>3, <2>2 DEF LotteryInv, TypeOK
<1>6. OneRoundInFlight'
  <2>1. \A x \in 1..next : InFlight(rounds'[x]) <=> x = next
    BY <1>1, <1>2, <1>4 DEF LotteryInv, OneRoundInFlight, InFlight
  <2> QED  BY <1>3, <2>1 DEF OneRoundInFlight
<1>7. \A x \in 1..next : RoundInv(rounds'[x], tickets'[x])
  BY <1>1, <1>2, <1>4 DEF LotteryInv
<1> QED  BY <1>3, <1>5, <1>6, <1>7 DEF LotteryInv

\* A draw and a cancellation finish the current round and open the next.
LEMMA NextOpened ==
  ASSUME LotteryInv, NEW r \in DOMAIN rounds, rounds[r].status = "Drawing",
         NEW closed, NEW ts, NEW c, NEW rollover, NEW pending,
         OpenNextRound(r, closed, ts, c, rollover, pending)
  PROVE  /\ r = current_round /\ current_round' = r + 1 /\ r + 1 \notin DOMAIN rounds
         /\ DOMAIN rounds' = DOMAIN rounds \cup {r + 1}
         /\ rounds'[r] = closed /\ tickets'[r] = ts
         /\ rounds'[r + 1].status = "Open" /\ rounds'[r + 1].winning_numbers = {}
         /\ rounds'[r + 1].rollover_in = rollover /\ tickets'[r + 1] = <<>>
         /\ \A x \in DOMAIN rounds \ {r} : rounds'[x] = rounds[x] /\ tickets'[x] = tickets[x]
<1>1. r = current_round /\ DOMAIN rounds = 1..r /\ r \in Nat
  BY DEF LotteryInv, TypeOK, OneRoundInFlight, InFlight
<1>2. r + 1 \notin DOMAIN rounds /\ r # r + 1
  BY <1>1
<1> QED  BY <1>1, <1>2 DEF OpenNextRound, NewOpen

-----------------------------------------------------------------------------
(* One lemma per action *)

LEMMA InitInv == Init => LotteryInv
<1> SUFFICES ASSUME Init PROVE LotteryInv
  OBVIOUS
<1>1. PICK config \in Configs :
        /\ now = StartTime /\ current_round = 1 /\ dry_streak = 0
        /\ rounds = [r \in {1} |-> NewOpen(NextCloseAt(config, now), 0, 0)]
        /\ tickets = [r \in {1} |-> <<>>]
  BY DEF Init
<1>2. config \in LotteryConfig
  BY LotteryAssumption
<1> DEFINE opened == NewOpen(NextCloseAt(config, now), 0, 0)
<1>3. opened \in Round /\ opened.status = "Open" /\ RoundInv(opened, <<>>)
  BY <1>1, <1>2, LotteryAssumption, RoundOpened
<1> HIDE DEF opened
<1>4. rounds = [r \in 1..1 |-> opened] /\ tickets = [r \in 1..1 |-> <<>>]
  BY <1>1 DEF opened
<1>5. TypeOK
  BY <1>1, <1>3, <1>4, LotteryAssumption, BasicsAssumption DEF TypeOK
<1>6. OneRoundInFlight
  BY <1>1, <1>3, <1>4 DEF OneRoundInFlight, InFlight
<1> QED  BY <1>3, <1>4, <1>5, <1>6 DEF LotteryInv

\* A purchase is a non-empty sequence of number sets.
LEMMA PurchaseType ==
  ASSUME NEW picks \in Purchases
  PROVE  picks \in Seq(Picks) /\ Len(picks) \in Nat \ {0}
<1>1. PICK n \in 1..MaxTicketsPerTx : picks \in [1..n -> Picks]
  BY DEF Purchases
<1>2. n \in Nat \ {0}
  BY <1>1, LotteryAssumption
<1> QED  BY <1>1, <1>2

\* Minting appends: the tickets sold before keep their place, the new ones are
\* fresh tickets of the owner, and there is at least one.
LEMMA SoldTickets ==
  ASSUME NEW ts \in Seq(Ticket), NEW owner \in Accounts, NEW picks \in Purchases
  PROVE  LET sold == ts \o [i \in 1..Len(picks) |-> NewTicket(owner, picks[i])]
         IN  /\ sold \in Seq(Ticket) /\ Len(sold) = Len(ts) + Len(picks)
             /\ \A i \in DOMAIN ts : i \in DOMAIN sold /\ sold[i] = ts[i]
             /\ \A i \in DOMAIN sold \ DOMAIN ts :
                  sold[i].owner = owner /\ sold[i].prize = 0 /\ ~sold[i].claimed
             /\ Len(ts) + 1 \in DOMAIN sold \ DOMAIN ts
<1> DEFINE n == Len(picks)
           minted == [i \in 1..n |-> NewTicket(owner, picks[i])]
           sold == ts \o minted
<1>1. picks \in Seq(Picks) /\ n \in Nat \ {0} /\ Len(ts) \in Nat
  BY PurchaseType
<1>2. /\ minted \in Seq(Ticket) /\ Len(minted) = n
      /\ \A i \in 1..n : minted[i] = NewTicket(owner, picks[i])
  <2>1. \A i \in 1..n : NewTicket(owner, picks[i]) \in Ticket
    BY <1>1 DEF NewTicket, Ticket
  <2> QED  BY <1>1, <2>1
<1>3. \A i \in 1..n :
        minted[i].owner = owner /\ minted[i].prize = 0 /\ ~minted[i].claimed
  BY <1>2 DEF NewTicket
<1> HIDE DEF n, minted
<1>4. /\ sold \in Seq(Ticket) /\ Len(sold) = Len(ts) + n
      /\ \A i \in 1..Len(ts) + n :
           sold[i] = IF i <= Len(ts) THEN ts[i] ELSE minted[i - Len(ts)]
  BY <1>2, ConcatProperties
<1> HIDE DEF sold
<1>5. DOMAIN sold = 1..Len(ts) + n /\ DOMAIN ts = 1..Len(ts)
  BY <1>4
<1>6. \A i \in DOMAIN ts : i \in DOMAIN sold /\ sold[i] = ts[i]
  BY <1>1, <1>4, <1>5
<1>7. \A i \in DOMAIN sold \ DOMAIN ts :
        sold[i].owner = owner /\ sold[i].prize = 0 /\ ~sold[i].claimed
  <2> TAKE i \in DOMAIN sold \ DOMAIN ts
  <2>1. i - Len(ts) \in 1..n /\ ~(i <= Len(ts)) /\ i \in 1..Len(ts) + n
    BY <1>1, <1>5
  <2>2. sold[i] = minted[i - Len(ts)]
    BY <1>4, <2>1
  <2> QED  BY <1>3, <2>1, <2>2
<1>8. Len(ts) + 1 \in DOMAIN sold \ DOMAIN ts
  BY <1>1, <1>5
<1> QED  BY <1>4, <1>6, <1>7, <1>8 DEF sold, minted, n

LEMMA MintInv ==
  ASSUME LotteryInv, NEW owner \in Accounts, NEW picks \in Purchases, NEW amount \in Nat,
         Mint(owner, picks, amount)
  PROVE  LotteryInv'
<1> DEFINE r == current_round
           n == Len(picks)
           ts == tickets[r]
           sold == ts \o [i \in 1..n |-> NewTicket(owner, picks[i])]
           round == [rounds[r] EXCEPT
                      !.pool = @ + amount,
                      !.ticket_count = @ + n,
                      !.player_count = IF owner \in Owners(ts) THEN @ ELSE @ + 1]
<1>1. r \in DOMAIN rounds /\ rounds[r] \in Round /\ ts \in Seq(Ticket) /\ dry_streak \in Nat
  BY DEF LotteryInv, TypeOK
<1>2. /\ rounds[r].status = "Open" /\ rounds[r].ticket_count + n <= MaxTicketsPerRound
      /\ rounds' = [rounds EXCEPT ![r] = round]
      /\ tickets' = [tickets EXCEPT ![r] = sold]
      /\ UNCHANGED <<now, current_round, dry_streak>>
  BY DEF Mint
<1>3. n \in Nat \ {0}
  BY PurchaseType
<1>4. /\ sold \in Seq(Ticket) /\ Len(sold) = Len(ts) + n
      /\ \A i \in DOMAIN ts : i \in DOMAIN sold /\ sold[i] = ts[i]
      /\ \A i \in DOMAIN sold \ DOMAIN ts :
           sold[i].owner = owner /\ sold[i].prize = 0 /\ ~sold[i].claimed
      /\ Len(ts) + 1 \in DOMAIN sold \ DOMAIN ts
  BY <1>1, SoldTickets
<1>5. RoundInv(rounds[r], ts)
  BY <1>1 DEF LotteryInv
<1> HIDE DEF sold
<1>6. Owners(sold) = Owners(ts) \cup {owner}
  BY <1>4 DEF Owners
<1>7. round \in Round
  <2>1. /\ rounds[r].pool + amount \in Nat
        /\ rounds[r].ticket_count + n \in Nat
        /\ rounds[r].player_count \in Nat
    BY <1>1, <1>3 DEF Round
  <2>2. (IF owner \in Owners(ts) THEN rounds[r].player_count ELSE rounds[r].player_count + 1) \in Nat
    BY <2>1
  <2> QED  BY <1>1, <2>1, <2>2 DEF Round
<1>8. RoundCounts(round, sold)
  <2>1. IsFiniteSet(Owners(ts)) /\ Cardinality(Owners(ts)) \in Nat
    BY <1>1, OwnersFinite
  <2>2. Cardinality(Owners(sold))
          = IF owner \in Owners(ts) THEN Cardinality(Owners(ts)) ELSE Cardinality(Owners(ts)) + 1
    BY <1>6, <2>1, FS_AddElement
  <2> QED  BY <1>1, <1>2, <1>4, <1>5, <2>2 DEF RoundInv, RoundCounts, Round
<1>9. RoundCarries(round)
  BY <1>1, <1>2, <1>5 DEF RoundInv, RoundCarries, InFlight, Round
<1>10. RoundFresh(round, sold)
  <2>1. \A i \in DOMAIN ts : ts[i].prize = 0 /\ ~ts[i].claimed
    BY <1>2, <1>5 DEF RoundInv, RoundFresh, InFlight
  <2> QED  BY <1>4, <2>1 DEF RoundFresh
<1>11. RoundBacked(round, sold)
  BY <1>1, <1>2 DEF RoundBacked, Round
<1>12. InFlight(round) <=> InFlight(rounds[r])
  BY <1>1 DEF InFlight, Round
<1>13. RoundInv(round, sold)
  BY <1>8, <1>9, <1>10, <1>11 DEF RoundInv
<1> HIDE DEF round
<1> QED  BY <1>1, <1>2, <1>4, <1>7, <1>12, <1>13, RoundChanged

LEMMA TopUpPoolInv ==
  ASSUME LotteryInv, NEW r \in DOMAIN rounds, NEW amount \in Nat, TopUpPool(r, amount)
  PROVE  LotteryInv'
<1> DEFINE ts == tickets[r]
           round == [rounds[r] EXCEPT !.pool = @ + amount, !.top_up_total = @ + amount]
<1>1. rounds[r] \in Round /\ ts \in Seq(Ticket) /\ dry_streak \in Nat
  BY DEF LotteryInv, TypeOK
<1>2. /\ rounds[r].status = "Open"
      /\ rounds' = [rounds EXCEPT ![r] = round]
      /\ UNCHANGED <<now, current_round, tickets, dry_streak>>
  BY DEF TopUpPool
<1>3. tickets' = [tickets EXCEPT ![r] = ts]
  BY <1>2 DEF LotteryInv, TypeOK
<1>4. RoundInv(rounds[r], ts)
  BY DEF LotteryInv
<1>5. round \in Round
  <2>1. rounds[r].pool + amount \in Nat /\ rounds[r].top_up_total + amount \in Nat
    BY <1>1 DEF Round
  <2> QED  BY <1>1, <2>1 DEF Round
<1>6. RoundCounts(round, ts)
  BY <1>1, <1>4 DEF RoundInv, RoundCounts, Round
<1>7. RoundCarries(round)
  BY <1>1, <1>2, <1>4 DEF RoundInv, RoundCarries, InFlight, Round
<1>8. RoundFresh(round, ts)
  BY <1>1, <1>2, <1>4 DEF RoundInv, RoundFresh, InFlight, Round
<1>9. RoundBacked(round, ts)
  BY <1>1, <1>2 DEF RoundBacked, Round
<1>10. InFlight(round) <=> InFlight(rounds[r])
  BY <1>1 DEF InFlight, Round
<1>11. RoundInv(round, ts)
  BY <1>6, <1>7, <1>8, <1>9 DEF RoundInv
<1> HIDE DEF round
<1> QED  BY <1>1, <1>2, <1>3, <1>5, <1>10, <1>11, RoundChanged

LEMMA CloseRoundInv ==
  ASSUME LotteryInv, CloseRound
  PROVE  LotteryInv'
<1> DEFINE r == current_round
           ts == tickets[r]
           round == [rounds[r] EXCEPT !.status = "Drawing"]
<1>1. r \in DOMAIN rounds /\ rounds[r] \in Round /\ ts \in Seq(Ticket) /\ dry_streak \in Nat
  BY DEF LotteryInv, TypeOK
<1>2. /\ rounds[r].status = "Open"
      /\ rounds' = [rounds EXCEPT ![r] = round]
      /\ UNCHANGED <<now, current_round, tickets, dry_streak>>
  BY DEF CloseRound
<1>3. tickets' = [tickets EXCEPT ![r] = ts]
  BY <1>2 DEF LotteryInv, TypeOK
<1>4. RoundInv(rounds[r], ts)
  BY <1>1 DEF LotteryInv
<1>5. round \in Round /\ round.status = "Drawing"
  BY <1>1 DEF Round, Statuses
<1>6. RoundCounts(round, ts)
  BY <1>1, <1>4 DEF RoundInv, RoundCounts, Round
<1>7. RoundCarries(round)
  BY <1>1, <1>2, <1>4 DEF RoundInv, RoundCarries, InFlight, Round
<1>8. RoundFresh(round, ts)
  BY <1>1, <1>2, <1>4 DEF RoundInv, RoundFresh, InFlight, Round
<1>9. RoundBacked(round, ts)
  BY <1>5 DEF RoundBacked
<1>10. InFlight(round) <=> InFlight(rounds[r])
  BY <1>2, <1>5 DEF InFlight
<1>11. RoundInv(round, ts)
  BY <1>6, <1>7, <1>8, <1>9 DEF RoundInv
<1> HIDE DEF round
<1> QED  BY <1>1, <1>2, <1>3, <1>5, <1>10, <1>11, RoundChanged

LEMMA MigrateInv ==
  ASSUME LotteryInv, NEW backfill \in {{}} \cup {{amount} : amount \in Backfills},
         NEW reset \in BOOLEAN, Migrate(backfill, reset)
  PROVE  LotteryInv'
<1> DEFINE r == current_round
           ts == tickets[r]
           declared == IF backfill = {} THEN rounds[r].rollover_in
                       ELSE CHOOSE amount \in backfill : TRUE
           round == [rounds[r] EXCEPT !.rollover_in = declared]
<1>1. r \in DOMAIN rounds /\ rounds[r] \in Round /\ ts \in Seq(Ticket) /\ dry_streak \in Nat
  BY DEF LotteryInv, TypeOK
<1>2. /\ \A amount \in backfill : amount <= SatSub(rounds[r].pool, rounds[r].top_up_total)
      /\ rounds' = [rounds EXCEPT ![r] = round]
      /\ dry_streak' \in Nat
      /\ UNCHANGED <<now, current_round, tickets>>
  BY <1>1 DEF Migrate
<1>3. tickets' = [tickets EXCEPT ![r] = ts]
  BY <1>2 DEF LotteryInv, TypeOK
<1>4. RoundInv(rounds[r], ts)
  BY <1>1 DEF LotteryInv
<1>5. InFlight(rounds[r])
  BY <1>1 DEF LotteryInv, OneRoundInFlight
<1>6. declared \in Nat /\ declared + rounds[r].top_up_total <= rounds[r].pool
  <2>1. CASE backfill = {}
    BY <1>1, <1>4, <1>5, <2>1 DEF RoundInv, RoundCarries, Round
  <2>2. CASE backfill # {}
    <3>1. PICK amount \in Backfills : backfill = {amount}
      BY <2>2
    <3>2. declared = amount /\ amount \in Nat
      BY <2>2, <3>1, LotteryAssumption
    <3>3. amount <= SatSub(rounds[r].pool, rounds[r].top_up_total)
      BY <1>2, <3>1
    <3>4. rounds[r].top_up_total <= rounds[r].pool
      BY <1>1, <1>4, <1>5 DEF RoundInv, RoundCarries, Round
    <3>5. rounds[r].top_up_total \in Nat /\ rounds[r].pool \in Nat
      BY <1>1 DEF Round
    <3> QED  BY <3>2, <3>3, <3>4, <3>5 DEF SatSub
  <2> QED  BY <2>1, <2>2
<1> HIDE DEF declared
<1>7. /\ round \in Round /\ round.status = rounds[r].status
      /\ round.pool = rounds[r].pool /\ round.rollover_in = declared
      /\ round.top_up_total = rounds[r].top_up_total
      /\ round.ticket_count = rounds[r].ticket_count
      /\ round.player_count = rounds[r].player_count
  BY <1>1, <1>6 DEF Round
<1> HIDE DEF round
<1>8. RoundCounts(round, ts)
  BY <1>4, <1>7 DEF RoundInv, RoundCounts
<1>9. RoundCarries(round)
  BY <1>6, <1>7 DEF RoundCarries
<1>10. RoundFresh(round, ts)
  BY <1>4, <1>5 DEF RoundInv, RoundFresh
<1>11. RoundBacked(round, ts)
  BY <1>5, <1>7 DEF RoundBacked, InFlight
<1>12. InFlight(round) <=> InFlight(rounds[r])
  BY <1>7 DEF InFlight
<1>13. RoundInv(round, ts)
  BY <1>8, <1>9, <1>10, <1>11 DEF RoundInv
<1> QED  BY <1>1, <1>2, <1>3, <1>7, <1>12, <1>13, RoundChanged

LEMMA TickInv ==
  ASSUME LotteryInv, Tick
  PROVE  LotteryInv'
<1>1. TypeOK'
  BY LotteryAssumption DEF LotteryInv, TypeOK, Tick
<1>2. UNCHANGED <<current_round, rounds, tickets, dry_streak>>
  BY DEF Tick
<1>3. OneRoundInFlight' /\ \A r \in DOMAIN rounds' : RoundInv(rounds'[r], tickets'[r])
  BY <1>2 DEF LotteryInv, OneRoundInFlight
<1> QED  BY <1>1, <1>3 DEF LotteryInv

\* A draw of round r is well defined: tiers, payouts and streak have their types
\* and the pool covers what is distributed.
LEMMA DrawOutcomeType ==
  ASSUME LotteryInv, NEW r \in DOMAIN rounds, NEW winning \in Draws, NEW config \in Configs
  PROVE  LET counts == TierCounts(tickets[r], winning)
             outcome == DrawOutcome(r, winning, config)
         IN  /\ counts \in [Tiers -> Nat]
             /\ outcome.tiers \in [Tiers -> Nat]
             /\ outcome.distributed = Distributed(outcome.tiers, counts)
             /\ outcome.distributed \in Nat
             /\ outcome.distributed <= rounds[r].pool
             /\ outcome.streak \in Nat
<1> DEFINE counts == TierCounts(tickets[r], winning)
           outcome == DrawOutcome(r, winning, config)
           force == ForceRolldown(rounds[r], counts, config)
           tiers == PayoutTiers(rounds[r].pool, counts, force)
<1>1. rounds[r].pool \in Nat /\ tickets[r] \in Seq(Ticket) /\ dry_streak \in Nat
  BY DEF LotteryInv, TypeOK, Round
<1>2. counts \in [Tiers -> Nat]
  BY <1>1, TierCountsType
<1>3. force \in BOOLEAN /\ (force => counts[6] = 0)
  BY DEF ForceRolldown
<1>4. outcome.tiers = tiers /\ outcome.distributed = Distributed(tiers, counts)
  BY DEF DrawOutcome
<1>5. outcome.streak \in Nat
  BY <1>1 DEF DrawOutcome, ForcedPaid
<1> HIDE DEF force, counts
<1>6. tiers \in [Tiers -> Nat]
  BY <1>1, <1>2, <1>3, PayoutTiersType
<1>7. Distributed(tiers, counts) <= rounds[r].pool
  BY <1>1, <1>2, <1>3, DistributedWithinPool
<1>8. Distributed(tiers, counts) \in Nat
  BY <1>2, <1>6, DistributedType
<1> HIDE DEF outcome
<1> QED  BY <1>2, <1>4, <1>5, <1>6, <1>7, <1>8 DEF counts, outcome

LEMMA CountMatchesType ==
  ASSUME NEW numbers \in Picks, NEW winning \in Draws
  PROVE  CountMatches(numbers, winning) \in Nat
<1>1. IsFiniteSet(numbers)
  BY BasicsAssumption DEF NumbersAssumption
<1>2. IsFiniteSet(numbers \cap winning)
  BY <1>1, FS_Subset
<1> QED  BY <1>2, FS_CardinalityType DEF CountMatches

\* The second pass of a draw keeps every ticket and its owner and gives it the
\* payout of its tier; no ticket of the round is claimed at that point.
LEMMA DrawnTickets ==
  ASSUME LotteryInv, NEW r \in DOMAIN rounds, InFlight(rounds[r]),
         NEW winning \in Draws, NEW tiers \in [Tiers -> Nat]
  PROVE  LET ts == Drawn(r, winning, tiers)
         IN  /\ ts \in Seq(Ticket) /\ Len(ts) = Len(tickets[r])
             /\ DOMAIN ts = DOMAIN tickets[r]
             /\ Owners(ts) = Owners(tickets[r])
             /\ \A i \in DOMAIN ts :
                  /\ ts[i].prize = PayoutForMatches(tiers, ts[i].matches)
                  /\ ts[i].matches = CountMatches(tickets[r][i].numbers, winning)
                  /\ ts[i].owner = tickets[r][i].owner
                  /\ ts[i].numbers = tickets[r][i].numbers
                  /\ ~ts[i].claimed
             /\ UnclaimedCounts(ts) = TierCounts(tickets[r], winning)
<1> DEFINE old == tickets[r]
           ts == Drawn(r, winning, tiers)
           matches(i) == CountMatches(old[i].numbers, winning)
<1>1. old \in Seq(Ticket) /\ \A i \in DOMAIN old : old[i] \in Ticket
  BY DEF LotteryInv, TypeOK
<1>2. \A i \in DOMAIN old : ~old[i].claimed
  BY DEF LotteryInv, RoundInv, RoundFresh
<1>3. \A i \in DOMAIN old : matches(i) \in Nat
  BY <1>1, CountMatchesType DEF Ticket
<1>4. \A i \in DOMAIN old : PayoutForMatches(tiers, matches(i)) \in Nat
  BY <1>3, PayoutType
<1>5. ts = [i \in DOMAIN old |->
             [old[i] EXCEPT !.matches = matches(i), !.prize = PayoutForMatches(tiers, matches(i))]]
  BY DEF Drawn
<1>6. \A i \in DOMAIN old :
        /\ ts[i] \in Ticket
        /\ ts[i].prize = PayoutForMatches(tiers, matches(i)) /\ ts[i].matches = matches(i)
        /\ ts[i].owner = old[i].owner /\ ts[i].numbers = old[i].numbers
        /\ ts[i].claimed = old[i].claimed
  <2> TAKE i \in DOMAIN old
  <2> HIDE DEF matches, ts, old
  <2>1. old[i] \in Ticket /\ matches(i) \in Nat /\ PayoutForMatches(tiers, matches(i)) \in Nat
    BY <1>1, <1>3, <1>4
  <2>2. ts[i] = [old[i] EXCEPT !.matches = matches(i), !.prize = PayoutForMatches(tiers, matches(i))]
    BY <1>5
  <2> QED  BY <2>1, <2>2 DEF Ticket
<1> HIDE DEF ts, old, matches
<1>7. DOMAIN ts = DOMAIN old /\ DOMAIN old = 1..Len(old) /\ Len(old) \in Nat
  <2>1. DOMAIN ts = DOMAIN old
    BY <1>5
  <2> QED  BY <1>1, <2>1
<1>8. ts \in Seq(Ticket) /\ Len(ts) = Len(old)
  <2>1. ts \in [1..Len(old) -> Ticket]
    BY <1>5, <1>6, <1>7
  <2> QED  BY <2>1, <1>7
<1>9. Owners(ts) = Owners(old)
  BY <1>6, <1>7 DEF Owners
<1>10. UnclaimedCounts(ts) = TierCounts(old, winning)
  <2>1. \A t \in Tiers : UnclaimedIn(ts, t) = InTier(old, winning, t)
    BY <1>2, <1>6, <1>7 DEF UnclaimedIn, Unclaimed, InTier, matches
  <2> QED  BY <2>1 DEF UnclaimedCounts, TierCounts
<1> QED  BY <1>2, <1>6, <1>7, <1>8, <1>9, <1>10 DEF old, matches, ts

LEMMA DrawInv ==
  ASSUME LotteryInv, NEW r \in DOMAIN rounds, NEW winning \in Draws,
         NEW config \in Configs, NEW pending \in Nat,
         Draw(r, winning, config, pending)
  PROVE  LotteryInv'
<1> DEFINE outcome == DrawOutcome(r, winning, config)
           settled == [rounds[r] EXCEPT
                        !.status = "Settled", !.pool = outcome.distributed,
                        !.winning_numbers = winning, !.prize_tiers = outcome.tiers,
                        !.dry_streak_after = outcome.streak]
           ts == Drawn(r, winning, outcome.tiers)
           rollover == IF config.rollover_on_no_winner THEN Leftover(r, winning, config) ELSE 0
<1>1. rounds[r] \in Round /\ tickets[r] \in Seq(Ticket) /\ config \in LotteryConfig
  BY LotteryAssumption DEF LotteryInv, TypeOK
<1>2. /\ rounds[r].status = "Drawing"
      /\ dry_streak' = outcome.streak
      /\ OpenNextRound(r, settled, ts, config, rollover, pending)
      /\ now' = now
  BY DEF Draw
<1>3. InFlight(rounds[r])
  BY <1>2 DEF InFlight
<1>4. /\ outcome.tiers \in [Tiers -> Nat]
      /\ outcome.distributed = Distributed(outcome.tiers, TierCounts(tickets[r], winning))
      /\ outcome.distributed \in Nat /\ outcome.distributed <= rounds[r].pool
      /\ outcome.streak \in Nat
  BY DrawOutcomeType
<1>5. rollover \in Nat
  BY <1>1, <1>4 DEF Leftover, Round
<1> HIDE DEF outcome
<1>6. /\ ts \in Seq(Ticket) /\ Len(ts) = Len(tickets[r])
      /\ DOMAIN ts = DOMAIN tickets[r]
      /\ Owners(ts) = Owners(tickets[r])
      /\ \A i \in DOMAIN ts : ts[i].prize = PayoutForMatches(outcome.tiers, ts[i].matches)
      /\ UnclaimedCounts(ts) = TierCounts(tickets[r], winning)
  BY <1>3, <1>4, DrawnTickets
<1> HIDE DEF ts, rollover
<1>7. /\ settled \in Round /\ settled.status = "Settled"
      /\ settled.pool = outcome.distributed /\ settled.prize_tiers = outcome.tiers
      /\ settled.ticket_count = rounds[r].ticket_count
      /\ settled.player_count = rounds[r].player_count
  BY <1>1, <1>4 DEF Round, Statuses
<1> HIDE DEF settled
<1>8. RoundCounts(settled, ts)
  BY <1>6, <1>7 DEF LotteryInv, RoundInv, RoundCounts
<1>9. RoundCarries(settled) /\ RoundFresh(settled, ts)
  BY <1>7 DEF RoundCarries, RoundFresh, InFlight
<1>10. RoundBacked(settled, ts)
  BY <1>4, <1>6, <1>7 DEF RoundBacked, SettledBacked
<1>11. RoundInv(settled, ts)
  BY <1>8, <1>9, <1>10 DEF RoundInv
<1> QED  BY <1>1, <1>2, <1>3, <1>4, <1>5, <1>6, <1>7, <1>11, RoundFinished

\* The refunds of a cancelled round never exceed what its tickets paid in, so
\* money carried into the round stays in the pool.
LEMMA RefundsWithinContributions ==
  ASSUME LotteryInv, NEW r \in DOMAIN rounds, InFlight(rounds[r])
  PROVE  /\ RefundPerTicket(rounds[r]) \in Nat
         /\ RefundPerTicket(rounds[r]) * Len(tickets[r]) \in Nat
         /\ RefundPerTicket(rounds[r]) * Len(tickets[r])
              + rounds[r].rollover_in + rounds[r].top_up_total <= rounds[r].pool
<1> DEFINE round == rounds[r]
           paid == TicketContributions(round)
           each == RefundPerTicket(round)
           n == round.ticket_count
<1>1. /\ round.pool \in Nat /\ round.rollover_in \in Nat /\ round.top_up_total \in Nat /\ n \in Nat
      /\ tickets[r] \in Seq(Ticket)
  BY DEF LotteryInv, TypeOK, Round
<1>2. /\ n = Len(tickets[r])
      /\ round.rollover_in + round.top_up_total <= round.pool
  BY DEF LotteryInv, RoundInv, RoundCounts, RoundCarries
<1>3. paid \in Nat /\ paid + round.rollover_in + round.top_up_total = round.pool
  BY <1>1, <1>2 DEF TicketContributions, SatSub
<1>4. each = IF n = 0 THEN 0 ELSE paid \div n
  BY DEF RefundPerTicket
<1> HIDE DEF paid, each, n
<1>5. each \in Nat /\ each * n \in Nat /\ each * n <= paid
  <2>1. CASE n = 0
    BY <1>1, <1>3, <1>4, <2>1
  <2>2. CASE n # 0
    <3>1. paid \div n \in Nat /\ (paid \div n) * n <= paid
      BY <1>1, <1>3, <2>2, DivisionFloors
    <3>2. each = paid \div n
      BY <1>4, <2>2
    <3> QED  BY <1>1, <3>1, <3>2
  <2> QED  BY <2>1, <2>2
<1> DEFINE total == each * n
<1>6. total \in Nat /\ total <= paid
  BY <1>5
<1>7. total = RefundPerTicket(rounds[r]) * Len(tickets[r])
  BY <1>2 DEF each
<1> HIDE DEF total
<1>8. total + rounds[r].rollover_in + rounds[r].top_up_total <= rounds[r].pool
  BY <1>1, <1>3, <1>6
<1>9. RefundPerTicket(rounds[r]) \in Nat
  BY <1>5 DEF each
<1> QED  BY <1>6, <1>7, <1>8, <1>9

\* A cancelled round keeps its tickets, each owed the same unclaimed refund.
LEMMA RefundedTickets ==
  ASSUME LotteryInv, NEW r \in DOMAIN rounds, InFlight(rounds[r]), NEW refund \in Nat
  PROVE  LET ts == Refunded(r, refund)
         IN  /\ ts \in Seq(Ticket) /\ Len(ts) = Len(tickets[r])
             /\ DOMAIN ts = DOMAIN tickets[r]
             /\ Owners(ts) = Owners(tickets[r])
             /\ \A i \in DOMAIN ts :
                  /\ ts[i].prize = refund /\ ~ts[i].claimed
                  /\ ts[i].owner = tickets[r][i].owner
                  /\ ts[i].numbers = tickets[r][i].numbers
<1> DEFINE old == tickets[r]
           ts == Refunded(r, refund)
<1>1. old \in Seq(Ticket) /\ \A i \in DOMAIN old : old[i] \in Ticket
  BY DEF LotteryInv, TypeOK
<1>2. \A i \in DOMAIN old : old[i].prize = 0 /\ ~old[i].claimed
  BY DEF LotteryInv, RoundInv, RoundFresh
<1>3. CASE refund = 0
  <2>1. ts = old
    BY <1>3 DEF Refunded
  <2> QED  BY <1>1, <1>2, <1>3, <2>1
<1>4. CASE refund # 0
  <2>1. ts = [i \in DOMAIN old |->
               [old[i] EXCEPT !.prize = refund, !.matches = 0, !.claimed = FALSE]]
    BY <1>4 DEF Refunded
  <2> HIDE DEF ts, old
  <2>2. \A i \in DOMAIN old :
          /\ ts[i] \in Ticket
          /\ ts[i].prize = refund /\ ~ts[i].claimed
          /\ ts[i].owner = old[i].owner /\ ts[i].numbers = old[i].numbers
    <3> TAKE i \in DOMAIN old
    <3>1. ts[i] = [old[i] EXCEPT !.prize = refund, !.matches = 0, !.claimed = FALSE]
      BY <2>1
    <3>2. old[i] \in Ticket
      BY <1>1
    <3>3. /\ ts[i].prize = refund /\ ts[i].claimed = FALSE
          /\ ts[i].owner = old[i].owner /\ ts[i].numbers = old[i].numbers
      BY <3>1, <3>2 DEF Ticket
    <3>4. ts[i] \in Ticket
      <4>1. ts[i] = [owner |-> old[i].owner, numbers |-> old[i].numbers, matches |-> 0,
                     prize |-> refund, claimed |-> FALSE]
        BY <3>1, <3>2 DEF Ticket
      <4>2. old[i].owner \in Accounts /\ old[i].numbers \in Picks
        BY <3>2 DEF Ticket
      <4> QED  BY <4>1, <4>2 DEF Ticket
    <3> QED  BY <3>3, <3>4
  <2>3. DOMAIN ts = DOMAIN old
    BY <2>1
  <2>4. DOMAIN old = 1..Len(old) /\ Len(old) \in Nat
    BY <1>1
  <2>5. ts \in Seq(Ticket) /\ Len(ts) = Len(old)
    <3>1. ts \in [1..Len(old) -> Ticket]
      BY <2>1, <2>2, <2>4
    <3> QED  BY <3>1, <2>4
  <2>6. Owners(ts) = Owners(old)
    BY <2>2, <2>3 DEF Owners
  <2> QED  BY <2>2, <2>3, <2>5, <2>6 DEF old, ts
<1> QED  BY <1>3, <1>4

LEMMA CancelRoundInv ==
  ASSUME LotteryInv, NEW r \in DOMAIN rounds, NEW config \in Configs, NEW pending \in Nat,
         CancelRound(r, config, pending)
  PROVE  LotteryInv'
<1> DEFINE each == RefundPerTicket(rounds[r])
           assigned == each * Len(tickets[r])
           cancelled == [rounds[r] EXCEPT !.status = "Cancelled", !.pool = assigned]
           ts == Refunded(r, each)
           rollover == rounds[r].pool - assigned
<1>1. /\ rounds[r] \in Round /\ rounds[r].pool \in Nat
      /\ tickets[r] \in Seq(Ticket) /\ config \in LotteryConfig /\ dry_streak \in Nat
  BY LotteryAssumption DEF LotteryInv, TypeOK, Round
<1>2. /\ rounds[r].status = "Drawing"
      /\ OpenNextRound(r, cancelled, ts, config, rollover, pending)
      /\ now' = now /\ dry_streak' = dry_streak
  BY DEF CancelRound
<1>3. InFlight(rounds[r])
  BY <1>2 DEF InFlight
<1>4. each \in Nat /\ assigned \in Nat /\ assigned <= rounds[r].pool
  <2>1. rounds[r].rollover_in \in Nat /\ rounds[r].top_up_total \in Nat
    BY <1>1 DEF Round
  <2> QED  BY <1>1, <1>3, <2>1, RefundsWithinContributions, SMTT(30)
<1>5. rollover \in Nat
  BY <1>1, <1>4
<1> HIDE DEF each
<1>6. /\ ts \in Seq(Ticket) /\ Len(ts) = Len(tickets[r])
      /\ Owners(ts) = Owners(tickets[r])
      /\ \A i \in DOMAIN ts : ts[i].prize = each /\ ~ts[i].claimed
  BY <1>3, <1>4, RefundedTickets
<1> HIDE DEF ts
<1>7. /\ cancelled \in Round /\ cancelled.status = "Cancelled" /\ cancelled.pool = assigned
      /\ cancelled.ticket_count = rounds[r].ticket_count
      /\ cancelled.player_count = rounds[r].player_count
  <2> HIDE DEF assigned
  <2> QED  BY <1>1, <1>4 DEF Round, Statuses
<1> HIDE DEF cancelled
<1>8. RoundCounts(cancelled, ts)
  BY <1>6, <1>7 DEF LotteryInv, RoundInv, RoundCounts
<1>9. RoundCarries(cancelled) /\ RoundFresh(cancelled, ts)
  BY <1>7 DEF RoundCarries, RoundFresh, InFlight
<1>10. RoundBacked(cancelled, ts)
  <2>1. Unclaimed(ts) = DOMAIN ts /\ Cardinality(DOMAIN ts) = Len(ts)
    BY <1>6, TicketsFinite DEF Unclaimed
  <2>2. cancelled.pool = each * Cardinality(Unclaimed(ts))
    BY <1>6, <1>7, <2>1
  <2>3. CASE DOMAIN ts = {}
    <3>1. cancelled.pool = 0 * Cardinality(Unclaimed(ts))
      BY <1>4, <2>1, <2>2, <2>3, FS_EmptySet
    <3> QED  BY <1>7, <2>3, <3>1 DEF RoundBacked, CancelledBacked
  <2>4. CASE DOMAIN ts # {}
    <3>1. each \in {ts[i].prize : i \in DOMAIN ts}
      BY <1>6, <2>4
    <3> QED  BY <1>6, <1>7, <2>2, <3>1 DEF RoundBacked, CancelledBacked
  <2> QED  BY <2>3, <2>4
<1>11. RoundInv(cancelled, ts)
  BY <1>8, <1>9, <1>10 DEF RoundInv
<1> HIDE DEF rollover
<1> QED  BY <1>1, <1>2, <1>3, <1>5, <1>6, <1>7, <1>11, RoundFinished

\* The tickets after the claim of the i-th of them.
Claimed(old, i) == [old EXCEPT ![i].claimed = TRUE]

\* Claiming takes one ticket out of the unclaimed ones and leaves the rest alone.
LEMMA ClaimedTicket ==
  ASSUME NEW old \in Seq(Ticket), NEW i \in DOMAIN old, ~old[i].claimed,
         NEW ts, ts = Claimed(old, i)
  PROVE  /\ ts \in Seq(Ticket) /\ Len(ts) = Len(old) /\ DOMAIN ts = DOMAIN old
         /\ Owners(ts) = Owners(old)
         /\ \A j \in DOMAIN old :
              /\ ts[j].prize = old[j].prize /\ ts[j].matches = old[j].matches
              /\ ts[j].owner = old[j].owner /\ ts[j].numbers = old[j].numbers
         /\ i \in Unclaimed(old) /\ Unclaimed(ts) = Unclaimed(old) \ {i}
         /\ \A t \in Tiers : UnclaimedIn(ts, t) = UnclaimedIn(old, t) \ {i}
<1>1. /\ \A j \in DOMAIN old : old[j] \in Ticket
      /\ DOMAIN old = 1..Len(old) /\ Len(old) \in Nat
  OBVIOUS
<1>2. /\ DOMAIN ts = DOMAIN old
      /\ ts[i] = [old[i] EXCEPT !.claimed = TRUE]
      /\ \A j \in DOMAIN old \ {i} : ts[j] = old[j]
  BY DEF Claimed
<1>3. \A j \in DOMAIN old :
        /\ ts[j] \in Ticket
        /\ ts[j].prize = old[j].prize /\ ts[j].matches = old[j].matches
        /\ ts[j].owner = old[j].owner /\ ts[j].numbers = old[j].numbers
        /\ ts[j].claimed = (j = i \/ old[j].claimed)
  <2> TAKE j \in DOMAIN old
  <2>1. old[j] \in Ticket
    BY <1>1
  <2>2. CASE j = i
    BY <1>2, <2>1, <2>2 DEF Ticket
  <2>3. CASE j # i
    BY <1>2, <2>1, <2>3 DEF Ticket
  <2> QED  BY <2>2, <2>3
<1>4. ts \in Seq(Ticket) /\ Len(ts) = Len(old)
  <2>1. ts \in [1..Len(old) -> Ticket]
    <3>1. ts = [j \in DOMAIN old |-> ts[j]]
      BY DEF Claimed
    <3> QED  BY <1>1, <1>2, <1>3, <3>1
  <2> QED  BY <1>1, <2>1
<1>5. Owners(ts) = Owners(old)
  BY <1>2, <1>3 DEF Owners
<1>6. i \in Unclaimed(old) /\ Unclaimed(ts) = Unclaimed(old) \ {i}
  BY <1>2, <1>3 DEF Unclaimed
<1>7. \A t \in Tiers : UnclaimedIn(ts, t) = UnclaimedIn(old, t) \ {i}
  <2> TAKE t \in Tiers
  <2>1. \A j \in Unclaimed(old) : ts[j].matches = old[j].matches
    BY <1>3 DEF Unclaimed
  <2> QED  BY <1>6, <2>1 DEF UnclaimedIn
<1> QED  BY <1>2, <1>3, <1>4, <1>5, <1>6, <1>7

LEMMA ClaimRewardInv ==
  ASSUME LotteryInv, NEW r \in DOMAIN rounds, NEW i \in DOMAIN tickets[r], NEW sender,
         ClaimReward(sender, r, i)
  PROVE  LotteryInv'
<1> DEFINE old == tickets[r]
           prize == old[i].prize
           ts == Claimed(old, i)
           round == [rounds[r] EXCEPT !.pool = @ - prize]
<1>1. /\ rounds[r] \in Round /\ rounds[r].pool \in Nat /\ dry_streak \in Nat
      /\ rounds[r].prize_tiers \in [Tiers -> Nat]
      /\ old \in Seq(Ticket) /\ old[i] \in Ticket /\ prize \in Nat /\ old[i].matches \in Nat
  <2>1. rounds[r] \in Round /\ old \in Seq(Ticket) /\ dry_streak \in Nat
    BY DEF LotteryInv, TypeOK
  <2>2. old[i] \in Ticket
    BY <2>1
  <2> QED  BY <2>1, <2>2 DEF Round, Ticket
<1>2. /\ prize # 0 /\ ~old[i].claimed /\ prize <= rounds[r].pool
      /\ rounds' = [rounds EXCEPT ![r] = round]
      /\ tickets' = [tickets EXCEPT ![r] = ts]
      /\ UNCHANGED <<now, current_round, dry_streak>>
  BY DEF ClaimReward, Claimed
<1>3. RoundInv(rounds[r], old)
  BY DEF LotteryInv
<1>4. ~InFlight(rounds[r])
  BY <1>2, <1>3 DEF RoundInv, RoundFresh
<1>5. rounds[r].status \in {"Settled", "Cancelled"}
  BY <1>1, <1>4 DEF InFlight, Round, Statuses
<1>6. /\ ts \in Seq(Ticket) /\ Len(ts) = Len(old) /\ DOMAIN ts = DOMAIN old
      /\ Owners(ts) = Owners(old)
      /\ \A j \in DOMAIN old : ts[j].prize = old[j].prize /\ ts[j].matches = old[j].matches
      /\ i \in Unclaimed(old) /\ Unclaimed(ts) = Unclaimed(old) \ {i}
      /\ \A t \in Tiers : UnclaimedIn(ts, t) = UnclaimedIn(old, t) \ {i}
  <2>1. /\ old \in Seq(Ticket) /\ i \in DOMAIN old /\ ~old[i].claimed
        /\ ts = Claimed(old, i)
    BY <1>1, <1>2
  <2> HIDE DEF old, prize, round, ts
  <2> QED  BY <2>1, ClaimedTicket
<1> HIDE DEF ts
<1>7. /\ round \in Round /\ round.status = rounds[r].status
      /\ round.pool = rounds[r].pool - prize
      /\ round.prize_tiers = rounds[r].prize_tiers
      /\ round.ticket_count = rounds[r].ticket_count
      /\ round.player_count = rounds[r].player_count
  <2>1. rounds[r].pool - prize \in Nat
    BY <1>1, <1>2
  <2> HIDE DEF prize
  <2> QED  BY <1>1, <2>1 DEF Round
<1> HIDE DEF round
<1>8. RoundCounts(round, ts)
  BY <1>3, <1>6, <1>7 DEF RoundInv, RoundCounts
<1>9. RoundCarries(round) /\ RoundFresh(round, ts)
  BY <1>4, <1>7 DEF RoundCarries, RoundFresh, InFlight
<1>10. ASSUME rounds[r].status = "Settled"
       PROVE  RoundBacked(round, ts)
  <2> DEFINE t == TierOf(old[i].matches)
             tiers == rounds[r].prize_tiers
  <2>1. SettledBacked(rounds[r], old)
    BY <1>3, <1>10 DEF RoundInv, RoundBacked
  <2>2. t \in Tiers /\ prize = tiers[t]
    <3>1. prize = PayoutForMatches(tiers, old[i].matches)
      BY <2>1 DEF SettledBacked
    <3> QED  BY <1>1, <1>2, <3>1, PayoutType DEF PayoutForMatches
  <2>3. /\ UnclaimedCounts(old) \in [Tiers -> Nat] /\ UnclaimedCounts(ts) \in [Tiers -> Nat]
        /\ \A u \in Tiers : IsFiniteSet(UnclaimedIn(old, u))
    BY <1>1, <1>6, TicketsFinite
  <2>4. i \in UnclaimedIn(old, t)
    BY <1>6 DEF UnclaimedIn
  <2>5. UnclaimedCounts(old)[t] = UnclaimedCounts(ts)[t] + 1
    <3> HIDE DEF t, old
    <3>1. Cardinality(UnclaimedIn(ts, t)) = Cardinality(UnclaimedIn(old, t)) - 1
      <4>1. UnclaimedIn(ts, t) = UnclaimedIn(old, t) \ {i}
        BY <1>6, <2>2
      <4>2. IsFiniteSet(UnclaimedIn(old, t))
        BY <2>2, <2>3
      <4> QED  BY <2>4, <4>1, <4>2, FS_RemoveElement
    <3>2. /\ UnclaimedCounts(old)[t] = Cardinality(UnclaimedIn(old, t))
          /\ UnclaimedCounts(ts)[t] = Cardinality(UnclaimedIn(ts, t))
      BY <2>2 DEF UnclaimedCounts
    <3> QED  BY <2>2, <2>3, <3>1, <3>2
  <2>6. \A u \in Tiers \ {t} : UnclaimedCounts(old)[u] = UnclaimedCounts(ts)[u]
    <3> TAKE u \in Tiers \ {t}
    <3>1. i \notin UnclaimedIn(old, u)
      BY DEF UnclaimedIn
    <3>2. UnclaimedIn(ts, u) = UnclaimedIn(old, u)
      BY <1>6, <3>1
    <3> QED  BY <3>2 DEF UnclaimedCounts
  <2>7. Distributed(tiers, UnclaimedCounts(old)) = Distributed(tiers, UnclaimedCounts(ts)) + prize
    <3>1. tiers \in [Tiers -> Nat]
      BY <1>1
    <3> HIDE DEF t, old, tiers, prize
    <3>2. Distributed(tiers, UnclaimedCounts(old))
            = Distributed(tiers, UnclaimedCounts(ts)) + tiers[t]
      BY <2>2, <2>3, <2>5, <2>6, <3>1, OneWinnerFewer
    <3> QED  BY <2>2, <3>2
  <2>8. Distributed(tiers, UnclaimedCounts(ts)) \in Nat
    BY <1>1, <2>3, DistributedType
  <2>9. rounds[r].pool = Distributed(tiers, UnclaimedCounts(old))
    BY <2>1 DEF SettledBacked
  <2>10. round.pool = Distributed(round.prize_tiers, UnclaimedCounts(ts))
    BY <1>1, <1>7, <2>7, <2>8, <2>9
  <2>11. \A j \in DOMAIN ts : ts[j].prize = PayoutForMatches(round.prize_tiers, ts[j].matches)
    BY <1>6, <1>7, <2>1 DEF SettledBacked
  <2> QED  BY <1>7, <1>10, <2>10, <2>11 DEF RoundBacked, SettledBacked
<1>11. ASSUME rounds[r].status = "Cancelled"
       PROVE  RoundBacked(round, ts)
  <2>1. CancelledBacked(rounds[r], old)
    BY <1>3, <1>11 DEF RoundInv, RoundBacked
  <2>2. PICK refund \in {0} \cup {old[j].prize : j \in DOMAIN old} :
          /\ \A j \in DOMAIN old : old[j].prize = refund
          /\ rounds[r].pool = refund * Cardinality(Unclaimed(old))
    BY <2>1 DEF CancelledBacked
  <2>3. refund = prize /\ refund \in {ts[j].prize : j \in DOMAIN ts}
    BY <1>6, <2>2
  <2>4. Cardinality(Unclaimed(old)) = Cardinality(Unclaimed(ts)) + 1 /\ Cardinality(Unclaimed(ts)) \in Nat
    <3>1. IsFiniteSet(Unclaimed(old)) /\ Cardinality(Unclaimed(old)) \in Nat
          /\ Cardinality(Unclaimed(ts)) \in Nat
      BY <1>1, <1>6, TicketsFinite
    <3> DEFINE U == Unclaimed(old)
    <3>2. IsFiniteSet(U) /\ i \in U /\ Unclaimed(ts) = U \ {i}
      BY <1>6, <3>1
    <3> HIDE DEF U
    <3>3. Cardinality(U \ {i}) = Cardinality(U) - 1
      BY <3>2, FS_RemoveElement
    <3> QED  BY <3>1, <3>2, <3>3 DEF U
  <2>5. prize * (Cardinality(Unclaimed(ts)) + 1) = prize * Cardinality(Unclaimed(ts)) + prize
    <3>1. \A a, b \in Nat : a * (b + 1) = a * b + a
      OBVIOUS
    <3> QED  BY <1>1, <2>4, <3>1
  <2>6. round.pool = refund * Cardinality(Unclaimed(ts))
    <3>1. rounds[r].pool = prize * Cardinality(Unclaimed(ts)) + prize
      BY <2>2, <2>3, <2>4, <2>5
    <3>2. prize * Cardinality(Unclaimed(ts)) \in Nat
      BY <1>1, <2>4
    <3> QED  BY <1>1, <1>7, <2>3, <3>1, <3>2
  <2>7. \A j \in DOMAIN ts : ts[j].prize = refund
    BY <1>6, <2>2
  <2> QED  BY <1>7, <1>11, <2>3, <2>6, <2>7 DEF RoundBacked, CancelledBacked
<1>12. RoundInv(round, ts)
  BY <1>5, <1>8, <1>9, <1>10, <1>11 DEF RoundInv
<1>13. InFlight(round) <=> InFlight(rounds[r])
  BY <1>7 DEF InFlight
<1> QED  BY <1>1, <1>2, <1>6, <1>7, <1>12, <1>13, RoundChanged

-----------------------------------------------------------------------------
(* The theorems *)

LEMMA PrizeCutType ==
  ASSUME NEW n \in Nat, NEW referred \in BOOLEAN
  PROVE  PrizeCut(n, referred) \in Nat /\ Cost(n) \in Nat
<1>1. Cost(n) \in Nat
  BY LotteryAssumption DEF Cost
<1>2. Apply(Split, Cost(n)) \in [prize : Nat, referral : Nat, treasury : Nat]
  BY <1>1, LotteryAssumption, SplitConserves
<1> QED  BY <1>1, <1>2 DEF PrizeCut

LEMMA NextInv == LotteryInv /\ [Next]_lotteryVars => LotteryInv'
<1> SUFFICES ASSUME LotteryInv, [Next]_lotteryVars PROVE LotteryInv'
  OBVIOUS
<1>1. ASSUME NEW buyer \in Accounts, NEW picks \in Purchases, NEW referred \in BOOLEAN,
             BuyTickets(buyer, picks, referred)
      PROVE  LotteryInv'
  <2>1. PrizeCut(Len(picks), referred) \in Nat
    BY PurchaseType, PrizeCutType
  <2> QED  BY <1>1, <2>1, MintInv DEF BuyTickets
<1>2. ASSUME NEW owner \in Accounts, NEW picks \in Purchases, GrantBonusTicket(owner, picks)
      PROVE  LotteryInv'
  <2>1. Cost(Len(picks)) \in Nat
    BY PurchaseType, PrizeCutType
  <2> QED  BY <1>2, <2>1, MintInv DEF GrantBonusTicket
<1>3. ASSUME NEW r \in DOMAIN rounds, NEW amount \in TopUps, TopUpPool(r, amount)
      PROVE  LotteryInv'
  BY <1>3, LotteryAssumption, TopUpPoolInv
<1>4. CASE CloseRound
  BY <1>4, CloseRoundInv
<1>5. ASSUME NEW r \in DOMAIN rounds, NEW winning \in Draws, NEW config \in Configs,
             NEW pending \in Escrows, Draw(r, winning, config, pending)
      PROVE  LotteryInv'
  BY <1>5, LotteryAssumption, DrawInv
<1>6. ASSUME NEW r \in DOMAIN rounds, NEW config \in Configs, NEW pending \in Escrows,
             CancelRound(r, config, pending)
      PROVE  LotteryInv'
  BY <1>6, LotteryAssumption, CancelRoundInv
<1>7. ASSUME NEW r \in DOMAIN rounds, NEW i \in DOMAIN tickets[r],
             ClaimReward(tickets[r][i].owner, r, i)
      PROVE  LotteryInv'
  BY <1>7, ClaimRewardInv
<1>8. ASSUME NEW backfill \in {{}} \cup {{amount} : amount \in Backfills}, NEW reset \in BOOLEAN,
             Migrate(backfill, reset)
      PROVE  LotteryInv'
  BY <1>8, MigrateInv
<1>9. CASE Tick
  BY <1>9, TickInv
<1>10. CASE UNCHANGED lotteryVars
  BY <1>10 DEF lotteryVars, LotteryInv, TypeOK, OneRoundInFlight
<1> QED  BY <1>1, <1>2, <1>3, <1>4, <1>5, <1>6, <1>7, <1>8, <1>9, <1>10 DEF Next

\* The inductive invariant holds in every reachable state of the lottery.
THEOREM LotteryInvariant == Spec => []LotteryInv
  BY InitInv, NextInv, PTL DEF Spec

-----------------------------------------------------------------------------
(* The properties of Lottery *)

\* Every state is well typed: no pool, prize, counter or close time is ever
\* negative, and every round has its sequence of tickets.
THEOREM TypeCorrect == Spec => []TypeOK
<1>1. LotteryInv => TypeOK
  BY DEF LotteryInv
<1> QED  BY <1>1, LotteryInvariant, PTL

\* Whatever the interleaving of sales, closes, draws and cancellations, the
\* current round and only it is in flight.
THEOREM OneRoundInFlightAlways == Spec => []OneRoundInFlight
<1>1. LotteryInv => OneRoundInFlight
  BY DEF LotteryInv
<1> QED  BY <1>1, LotteryInvariant, PTL

\* ticket_count and player_count of every round agree with its stored tickets.
THEOREM CountsAgreeAlways == Spec => []CountsAgree
<1>1. LotteryInv => CountsAgree
  BY DEF LotteryInv, RoundInv, CountsAgree
<1> QED  BY <1>1, LotteryInvariant, PTL

\* The subtractions of ticket_contributions never saturate, whatever a
\* migration declares as rolled over.
THEOREM CarriedWithinPoolAlways == Spec => []CarriedWithinPool
<1>1. LotteryInv => CarriedWithinPool
  BY DEF LotteryInv, RoundInv, CarriedWithinPool
<1> QED  BY <1>1, LotteryInvariant, PTL

\* Nothing is owed, or has been paid, on a round that is still in flight.
THEOREM NothingOwedInFlightAlways == Spec => []NothingOwedInFlight
<1>1. LotteryInv => NothingOwedInFlight
  BY DEF LotteryInv, RoundInv, NothingOwedInFlight
<1> QED  BY <1>1, LotteryInvariant, PTL

\* A finished round retains exactly what its unclaimed prizes sum to.
THEOREM PoolBacksPrizesAlways == Spec => []PoolBacksPrizes
<1>1. LotteryInv => PoolBacksPrizes
  BY DEF LotteryInv, RoundInv, PoolBacksPrizes
<1> QED  BY <1>1, LotteryInvariant, PTL

-----------------------------------------------------------------------------
(* No claim underflows *)

\* A tier with a winner costs at least one payout.
LEMMA WinnerCovered ==
  ASSUME NEW tiers \in [Tiers -> Nat], NEW c \in [Tiers -> Nat],
         NEW t \in Tiers, c[t] # 0
  PROVE  tiers[t] <= Distributed(tiers, c)
<1> DEFINE d == [c EXCEPT ![t] = c[t] - 1]
<1>1. /\ d \in [Tiers -> Nat] /\ c[t] = d[t] + 1
      /\ \A u \in Tiers \ {t} : c[u] = d[u]
  <2>1. c[t] - 1 \in Nat
    OBVIOUS
  <2> QED  BY <2>1
<1> HIDE DEF d
<1>2. Distributed(tiers, d) \in Nat
  BY <1>1, DistributedType
<1>3. Distributed(tiers, c) = Distributed(tiers, d) + tiers[t]
  BY <1>1, OneWinnerFewer
<1>4. tiers[t] \in Nat
  OBVIOUS
<1> QED  BY <1>2, <1>3, <1>4

LEMMA SettledClaimCovered ==
  ASSUME NEW round \in Round, NEW ts \in Seq(Ticket), SettledBacked(round, ts),
         NEW i \in DOMAIN ts, ~ts[i].claimed
  PROVE  ts[i].prize <= round.pool
<1> DEFINE tiers == round.prize_tiers
           t == TierOf(ts[i].matches)
           c == UnclaimedCounts(ts)
<1>1. /\ tiers \in [Tiers -> Nat] /\ round.pool \in Nat
      /\ ts[i].matches \in Nat /\ ts[i].prize \in Nat
  <2>1. ts[i] \in Ticket
    OBVIOUS
  <2> QED  BY <2>1 DEF Round, Ticket
<1>2. /\ ts[i].prize = PayoutForMatches(tiers, ts[i].matches)
      /\ round.pool = Distributed(tiers, c)
  BY DEF SettledBacked
<1>3. CASE t = 0
  BY <1>1, <1>2, <1>3 DEF PayoutForMatches
<1>4. CASE t # 0
  <2>1. t \in Tiers /\ ts[i].prize = tiers[t]
    BY <1>1, <1>2, <1>4, PayoutType DEF PayoutForMatches
  <2>2. i \in UnclaimedIn(ts, t) /\ IsFiniteSet(UnclaimedIn(ts, t))
    BY TicketsFinite DEF UnclaimedIn, Unclaimed
  <2>3. c \in [Tiers -> Nat] /\ c[t] = Cardinality(UnclaimedIn(ts, t))
    BY <2>1, TicketsFinite DEF UnclaimedCounts
  <2> HIDE DEF t, c, tiers
  <2>4. c[t] # 0
    BY <2>2, <2>3, FS_EmptySet
  <2> QED  BY <1>1, <1>2, <2>1, <2>3, <2>4, WinnerCovered
<1> QED  BY <1>3, <1>4

LEMMA CancelledClaimCovered ==
  ASSUME NEW round \in Round, NEW ts \in Seq(Ticket), CancelledBacked(round, ts),
         NEW i \in DOMAIN ts, ~ts[i].claimed
  PROVE  ts[i].prize <= round.pool
<1>1. PICK refund \in {0} \cup {ts[j].prize : j \in DOMAIN ts} :
        /\ \A j \in DOMAIN ts : ts[j].prize = refund
        /\ round.pool = refund * Cardinality(Unclaimed(ts))
  BY DEF CancelledBacked
<1>2. refund = ts[i].prize /\ refund \in Nat
  <2>1. ts[i] \in Ticket
    OBVIOUS
  <2> QED  BY <1>1, <2>1 DEF Ticket
<1>3. Cardinality(Unclaimed(ts)) \in Nat /\ Cardinality(Unclaimed(ts)) # 0
  <2>1. i \in Unclaimed(ts)
    BY DEF Unclaimed
  <2> QED  BY <2>1, TicketsFinite, FS_EmptySet
<1>4. \A a, b \in Nat : b # 0 => a <= a * b
  <2> SUFFICES ASSUME NEW a \in Nat, NEW b \in Nat, b # 0
               PROVE  a <= a * b
    OBVIOUS
  <2>1. a * b = a * (b - 1) + a /\ a * (b - 1) \in Nat
    <3>1. b - 1 \in Nat
      OBVIOUS
    <3> DEFINE p == b - 1
    <3>2. b = p + 1
      OBVIOUS
    <3> HIDE DEF p
    <3>3. a * (p + 1) = a * p + a /\ a * p \in Nat
      BY <3>1 DEF p
    <3> QED  BY <3>2, <3>3 DEF p
  <2> QED  BY <2>1
<1> QED  BY <1>1, <1>2, <1>3, <1>4

\* No claim on a finished round ever meets PoolUnderflow: the retained pool of a
\* settled or a cancelled round covers each prize not yet claimed, in any order
\* of the claims.
THEOREM ClaimsCoveredAlways == Spec => []ClaimsCovered
<1>1. LotteryInv => ClaimsCovered
  <2> SUFFICES ASSUME LotteryInv, NEW r \in DOMAIN rounds, NEW i \in DOMAIN tickets[r],
                      ~InFlight(rounds[r]), ~tickets[r][i].claimed
               PROVE  tickets[r][i].prize <= rounds[r].pool
    BY DEF ClaimsCovered
  <2>1. rounds[r] \in Round /\ tickets[r] \in Seq(Ticket) /\ RoundBacked(rounds[r], tickets[r])
    BY DEF LotteryInv, TypeOK, RoundInv
  <2>2. CASE rounds[r].status = "Settled"
    BY <2>1, <2>2, SettledClaimCovered DEF RoundBacked
  <2>3. CASE rounds[r].status = "Cancelled"
    BY <2>1, <2>3, CancelledClaimCovered DEF RoundBacked
  <2> QED  BY <2>1, <2>2, <2>3 DEF Round, Statuses, InFlight
<1> QED  BY <1>1, LotteryInvariant, PTL

\* Neither execute_draw's PoolUnderflow nor execute_cancel_round's can trap a
\* closed round: what either would assign is within the round's pool.
THEOREM ResolutionCoveredAlways == Spec => []ResolutionCovered
<1>1. LotteryInv => ResolutionCovered
  <2> SUFFICES ASSUME LotteryInv, NEW r \in DOMAIN rounds, rounds[r].status = "Drawing"
               PROVE  /\ \A winning \in Draws, config \in Configs :
                           DrawOutcome(r, winning, config).distributed <= rounds[r].pool
                      /\ RefundPerTicket(rounds[r]) * Len(tickets[r]) <= rounds[r].pool
    BY DEF ResolutionCovered
  <2>1. \A winning \in Draws, config \in Configs :
           DrawOutcome(r, winning, config).distributed <= rounds[r].pool
    BY DrawOutcomeType
  <2>2. RefundPerTicket(rounds[r]) * Len(tickets[r]) <= rounds[r].pool
    <3>1. /\ rounds[r].pool \in Nat /\ rounds[r].rollover_in \in Nat
          /\ rounds[r].top_up_total \in Nat
      BY DEF LotteryInv, TypeOK, Round
    <3>2. InFlight(rounds[r])
      BY DEF InFlight
    <3> HIDE DEF RefundPerTicket
    <3> QED  BY <3>1, <3>2, RefundsWithinContributions, SMTT(30)
  <2> QED  BY <2>1, <2>2
<1> QED  BY <1>1, LotteryInvariant, PTL

-----------------------------------------------------------------------------
(* What a step leaves of a round: the action properties. *)

\* round with tickets ts becomes later with tickets sold.
RoundKept(round, ts, later, sold) ==
  /\ \A i \in DOMAIN ts :
       /\ i \in DOMAIN sold
       /\ sold[i].owner = ts[i].owner /\ sold[i].numbers = ts[i].numbers
       /\ ts[i].claimed => sold[i].claimed
  /\ round.status # "Open" => Len(sold) = Len(ts)
  /\ ~InFlight(round) =>
       later.status = round.status /\ \A i \in DOMAIN ts : sold[i].prize = ts[i].prize

RoundsKept ==
  \A x \in DOMAIN rounds :
    x \in DOMAIN rounds' /\ RoundKept(rounds[x], tickets[x], rounds'[x], tickets'[x])

LEMMA SameRoundKept ==
  ASSUME NEW round, NEW ts, NEW later, later.status = round.status \/ InFlight(round)
  PROVE  RoundKept(round, ts, later, ts)
  BY DEF RoundKept

LEMMA MintKept ==
  ASSUME LotteryInv, NEW owner \in Accounts, NEW picks \in Purchases, NEW amount,
         Mint(owner, picks, amount)
  PROVE  RoundsKept
<1> DEFINE r == current_round
           sold == tickets[r] \o [i \in 1..Len(picks) |-> NewTicket(owner, picks[i])]
<1>1. r \in DOMAIN rounds /\ tickets[r] \in Seq(Ticket) /\ r \in DOMAIN tickets
  BY DEF LotteryInv, TypeOK
<1>2. \A i \in DOMAIN tickets[r] : i \in DOMAIN sold /\ sold[i] = tickets[r][i]
  BY <1>1, SoldTickets
<1>3. /\ rounds[r].status = "Open" /\ DOMAIN rounds' = DOMAIN rounds
      /\ tickets' = [tickets EXCEPT ![r] = sold]
      /\ \A x \in DOMAIN rounds \ {r} : rounds'[x] = rounds[x]
  BY DEF Mint
<1> HIDE DEF sold
<1>4. tickets'[r] = sold /\ \A x \in DOMAIN rounds \ {r} : tickets'[x] = tickets[x]
  BY <1>1, <1>3 DEF LotteryInv, TypeOK
<1>5. RoundKept(rounds[r], tickets[r], rounds'[r], sold)
  BY <1>2, <1>3 DEF RoundKept, InFlight
<1> QED  BY <1>3, <1>4, <1>5, SameRoundKept DEF RoundsKept

\* A draw and a cancellation finish the current round and open the next.
LEMMA FinishKept ==
  ASSUME LotteryInv, NEW r \in DOMAIN rounds, rounds[r].status = "Drawing",
         NEW closed, NEW ts, NEW c, NEW rollover, NEW pending,
         OpenNextRound(r, closed, ts, c, rollover, pending),
         Len(ts) = Len(tickets[r]), DOMAIN ts = DOMAIN tickets[r],
         \A i \in DOMAIN ts :
           ts[i].owner = tickets[r][i].owner /\ ts[i].numbers = tickets[r][i].numbers
  PROVE  RoundsKept
<1>1. \A i \in DOMAIN tickets[r] : ~tickets[r][i].claimed
  BY DEF LotteryInv, RoundInv, RoundFresh, InFlight
<1>2. RoundKept(rounds[r], tickets[r], closed, ts)
  BY <1>1 DEF RoundKept, InFlight
<1>3. /\ DOMAIN rounds \subseteq DOMAIN rounds'
      /\ rounds'[r] = closed /\ tickets'[r] = ts
      /\ \A x \in DOMAIN rounds \ {r} : rounds'[x] = rounds[x] /\ tickets'[x] = tickets[x]
  BY NextOpened
<1> QED  BY <1>2, <1>3, SameRoundKept DEF RoundsKept

LEMMA ClaimKept ==
  ASSUME LotteryInv, NEW sender, NEW r \in DOMAIN rounds, NEW i \in DOMAIN tickets[r],
         ClaimReward(sender, r, i)
  PROVE  RoundsKept
<1> DEFINE ts == Claimed(tickets[r], i)
<1>1. tickets[r] \in Seq(Ticket) /\ rounds[r] \in Round /\ r \in DOMAIN tickets
  BY DEF LotteryInv, TypeOK
<1>2. /\ tickets' = [tickets EXCEPT ![r] = ts] /\ ~tickets[r][i].claimed
      /\ DOMAIN rounds' = DOMAIN rounds
      /\ rounds'[r].status = rounds[r].status
      /\ \A x \in DOMAIN rounds \ {r} : rounds'[x] = rounds[x]
  BY <1>1 DEF ClaimReward, Claimed, Round
<1>3. /\ Len(ts) = Len(tickets[r]) /\ DOMAIN ts = DOMAIN tickets[r]
      /\ \A j \in DOMAIN tickets[r] :
           /\ ts[j].prize = tickets[r][j].prize
           /\ ts[j].owner = tickets[r][j].owner /\ ts[j].numbers = tickets[r][j].numbers
      /\ Unclaimed(ts) = Unclaimed(tickets[r]) \ {i}
  BY <1>1, <1>2, ClaimedTicket
<1> HIDE DEF ts
<1>4. RoundKept(rounds[r], tickets[r], rounds'[r], ts)
  BY <1>2, <1>3 DEF RoundKept, Unclaimed
<1>5. tickets'[r] = ts /\ \A x \in DOMAIN rounds \ {r} : tickets'[x] = tickets[x]
  BY <1>1, <1>2 DEF LotteryInv, TypeOK
<1> QED  BY <1>2, <1>4, <1>5, SameRoundKept DEF RoundsKept

LEMMA PlainKept ==
  ASSUME LotteryInv, UNCHANGED tickets, DOMAIN rounds' = DOMAIN rounds,
         \A x \in DOMAIN rounds : rounds'[x].status = rounds[x].status \/ InFlight(rounds[x])
  PROVE  RoundsKept
  BY SameRoundKept DEF RoundsKept

LEMMA DrawKept ==
  ASSUME LotteryInv, NEW r \in DOMAIN rounds, NEW winning \in Draws, NEW config \in Configs,
         NEW pending \in Escrows, Draw(r, winning, config, pending)
  PROVE  RoundsKept
<1> DEFINE tiers == DrawOutcome(r, winning, config).tiers
           ts == Drawn(r, winning, tiers)
<1>1. /\ rounds[r].status = "Drawing" /\ InFlight(rounds[r])
      /\ \E closed, rollover : OpenNextRound(r, closed, ts, config, rollover, pending)
  BY DEF Draw, InFlight
<1>2. tiers \in [Tiers -> Nat]
  BY DrawOutcomeType
<1>3. /\ Len(ts) = Len(tickets[r]) /\ DOMAIN ts = DOMAIN tickets[r]
      /\ \A i \in DOMAIN ts :
           ts[i].owner = tickets[r][i].owner /\ ts[i].numbers = tickets[r][i].numbers
  <2> HIDE DEF tiers
  <2> QED  BY <1>1, <1>2, DrawnTickets
<1> HIDE DEF ts
<1> QED  BY <1>1, <1>3, FinishKept

LEMMA CancelKept ==
  ASSUME LotteryInv, NEW r \in DOMAIN rounds, NEW config \in Configs, NEW pending \in Escrows,
         CancelRound(r, config, pending)
  PROVE  RoundsKept
<1> DEFINE ts == Refunded(r, RefundPerTicket(rounds[r]))
<1>1. /\ rounds[r].status = "Drawing" /\ InFlight(rounds[r])
      /\ \E closed, rollover : OpenNextRound(r, closed, ts, config, rollover, pending)
  BY DEF CancelRound, InFlight
<1>2. RefundPerTicket(rounds[r]) \in Nat
  BY <1>1, RefundsWithinContributions
<1>3. /\ Len(ts) = Len(tickets[r]) /\ DOMAIN ts = DOMAIN tickets[r]
      /\ \A i \in DOMAIN ts :
           ts[i].owner = tickets[r][i].owner /\ ts[i].numbers = tickets[r][i].numbers
  <2> HIDE DEF RefundPerTicket
  <2> QED  BY <1>1, <1>2, RefundedTickets
<1> HIDE DEF ts
<1> QED  BY <1>1, <1>3, FinishKept

LEMMA StepKept ==
  ASSUME LotteryInv, [Next]_lotteryVars
  PROVE  RoundsKept
<1>a. \A x \in DOMAIN rounds : rounds[x] \in Round
  BY DEF LotteryInv, TypeOK
<1>1. CASE \E buyer \in Accounts, picks \in Purchases, referred \in BOOLEAN :
             BuyTickets(buyer, picks, referred)
  BY <1>1, MintKept DEF BuyTickets
<1>2. CASE \E owner \in Accounts, picks \in Purchases : GrantBonusTicket(owner, picks)
  BY <1>2, MintKept DEF GrantBonusTicket
<1>3. CASE \E r \in DOMAIN rounds, amount \in TopUps : TopUpPool(r, amount)
  <2>1. /\ UNCHANGED tickets /\ DOMAIN rounds' = DOMAIN rounds
        /\ \A x \in DOMAIN rounds : rounds'[x].status = rounds[x].status
    BY <1>a, <1>3 DEF TopUpPool, Round
  <2> QED  BY <2>1, PlainKept
<1>4. CASE CloseRound
  <2>1. /\ UNCHANGED tickets /\ DOMAIN rounds' = DOMAIN rounds
        /\ \A x \in DOMAIN rounds : rounds'[x].status = rounds[x].status \/ InFlight(rounds[x])
    BY <1>a, <1>4 DEF CloseRound, Round, InFlight
  <2> QED  BY <2>1, PlainKept
<1>5. CASE \E r \in DOMAIN rounds, winning \in Draws, config \in Configs, pending \in Escrows :
             Draw(r, winning, config, pending)
  BY <1>5, DrawKept
<1>6. CASE \E r \in DOMAIN rounds, config \in Configs, pending \in Escrows :
             CancelRound(r, config, pending)
  BY <1>6, CancelKept
<1>7. CASE \E r \in DOMAIN rounds : \E i \in DOMAIN tickets[r] :
             ClaimReward(tickets[r][i].owner, r, i)
  BY <1>7, ClaimKept
<1>8. CASE \E backfill \in {{}} \cup {{amount} : amount \in Backfills}, reset \in BOOLEAN :
             Migrate(backfill, reset)
  <2>1. /\ UNCHANGED tickets /\ DOMAIN rounds' = DOMAIN rounds
        /\ \A x \in DOMAIN rounds : rounds'[x].status = rounds[x].status
    BY <1>a, <1>8 DEF Migrate, Round
  <2> QED  BY <2>1, PlainKept
<1>9. CASE Tick \/ UNCHANGED lotteryVars
  BY <1>9, PlainKept DEF Tick, lotteryVars
<1> QED  BY <1>1, <1>2, <1>3, <1>4, <1>5, <1>6, <1>7, <1>8, <1>9 DEF Next

\* A sold ticket is never lost or changed hands, a claim is never undone, a closed
\* round takes no further ticket, and a finished one keeps its status and what it owes.
THEOREM PrizesAreFinal == Spec => PrizesFinal
<1>1. LotteryInv /\ [Next]_lotteryVars => RoundsKept
  BY StepKept
<1>2. RoundsKept =>
        [\A r \in DOMAIN rounds :
           /\ r \in DOMAIN rounds'
           /\ \A i \in DOMAIN tickets[r] :
                /\ i \in DOMAIN tickets'[r]
                /\ tickets'[r][i].owner = tickets[r][i].owner
                /\ tickets'[r][i].numbers = tickets[r][i].numbers
                /\ tickets[r][i].claimed => tickets'[r][i].claimed
           /\ rounds[r].status # "Open" => Len(tickets'[r]) = Len(tickets[r])
           /\ ~InFlight(rounds[r]) =>
                /\ rounds'[r].status = rounds[r].status
                /\ \A i \in DOMAIN tickets[r] : tickets'[r][i].prize = tickets[r][i].prize
        ]_lotteryVars
  BY DEF RoundsKept, RoundKept
<1> QED  BY <1>1, <1>2, LotteryInvariant, PTL DEF Spec, PrizesFinal

-----------------------------------------------------------------------------
(* What a cancellation hands on *)

\* The round that is cancelled pays out at most what its tickets paid in.
Handed(r) ==
  /\ rounds'[r].pool + rounds'[r + 1].rollover_in = rounds[r].pool
  /\ rounds'[r + 1].rollover_in >= rounds[r].rollover_in + rounds[r].top_up_total

LEMMA CancelHands ==
  ASSUME LotteryInv, NEW r \in DOMAIN rounds, NEW config \in Configs, NEW pending \in Escrows,
         CancelRound(r, config, pending)
  PROVE  /\ Handed(r)
         /\ \A x \in DOMAIN rounds \ {r} : rounds'[x].status = rounds[x].status
<1> DEFINE assigned == RefundPerTicket(rounds[r]) * Len(tickets[r])
           closed == [rounds[r] EXCEPT !.status = "Cancelled", !.pool = assigned]
           ts == Refunded(r, RefundPerTicket(rounds[r]))
           rollover == rounds[r].pool - assigned
<1>1. /\ rounds[r] \in Round /\ rounds[r].pool \in Nat
      /\ rounds[r].rollover_in \in Nat /\ rounds[r].top_up_total \in Nat
  BY DEF LotteryInv, TypeOK, Round
<1>2. /\ rounds[r].status = "Drawing"
      /\ OpenNextRound(r, closed, ts, config, rollover, pending)
  BY DEF CancelRound
<1>3. /\ assigned \in Nat
      /\ assigned + rounds[r].rollover_in + rounds[r].top_up_total <= rounds[r].pool
  BY <1>2, RefundsWithinContributions DEF InFlight
<1> HIDE DEF assigned
<1>4. closed.pool = assigned
  BY <1>1 DEF Round
<1> HIDE DEF ts, closed, rollover
<1>5. /\ rounds'[r] = closed /\ rounds'[r + 1].rollover_in = rollover
      /\ \A x \in DOMAIN rounds \ {r} : rounds'[x] = rounds[x]
  BY <1>2, NextOpened
<1>6. rollover = rounds[r].pool - assigned
  BY DEF rollover
<1> QED  BY <1>1, <1>3, <1>4, <1>5, <1>6 DEF Handed

LEMMA StepHands ==
  ASSUME LotteryInv, [Next]_lotteryVars, NEW r \in DOMAIN rounds,
         rounds[r].status = "Drawing", rounds'[r].status = "Cancelled"
  PROVE  Handed(r)
<1>a. /\ \A x \in DOMAIN rounds : rounds[x] \in Round
      /\ current_round \in DOMAIN rounds
  BY DEF LotteryInv, TypeOK
<1>1. \A owner, picks, amount : Mint(owner, picks, amount) => rounds'[r].status = rounds[r].status
  BY <1>a DEF Mint, Round
<1>2. CASE \E buyer \in Accounts, picks \in Purchases, referred \in BOOLEAN :
             BuyTickets(buyer, picks, referred)
  BY <1>1, <1>2 DEF BuyTickets
<1>3. CASE \E owner \in Accounts, picks \in Purchases : GrantBonusTicket(owner, picks)
  BY <1>1, <1>3 DEF GrantBonusTicket
<1>4. CASE \E x \in DOMAIN rounds, amount \in TopUps : TopUpPool(x, amount)
  BY <1>a, <1>4 DEF TopUpPool, Round
<1>5. CASE CloseRound
  BY <1>a, <1>5 DEF CloseRound, Round
<1>6. CASE \E x \in DOMAIN rounds, winning \in Draws, config \in Configs, pending \in Escrows :
             Draw(x, winning, config, pending)
  <2>1. PICK x \in DOMAIN rounds, winning \in Draws, config \in Configs, pending \in Escrows :
          Draw(x, winning, config, pending)
    BY <1>6
  <2> DEFINE outcome == DrawOutcome(x, winning, config)
             closed == [rounds[x] EXCEPT
                          !.status = "Settled", !.pool = outcome.distributed,
                          !.winning_numbers = winning, !.prize_tiers = outcome.tiers,
                          !.dry_streak_after = outcome.streak]
  <2>2. /\ rounds[x].status = "Drawing"
        /\ \E ts, rollover : OpenNextRound(x, closed, ts, config, rollover, pending)
    BY <2>1 DEF Draw
  <2> HIDE DEF outcome
  <2>3. closed.status = "Settled"
    BY <1>a DEF Round
  <2> HIDE DEF closed
  <2>4. PICK ts, rollover : OpenNextRound(x, closed, ts, config, rollover, pending)
    BY <2>2
  <2>5. rounds'[x].status = "Settled" /\ \A y \in DOMAIN rounds \ {x} : rounds'[y] = rounds[y]
    BY <2>4, <2>2, <2>3, NextOpened
  <2> QED  BY <2>5
<1>7. CASE \E x \in DOMAIN rounds, config \in Configs, pending \in Escrows :
             CancelRound(x, config, pending)
  <2>1. PICK x \in DOMAIN rounds, config \in Configs, pending \in Escrows :
          CancelRound(x, config, pending)
    BY <1>7
  <2> QED  BY <2>1, CancelHands
<1>8. CASE \E x \in DOMAIN rounds : \E i \in DOMAIN tickets[x] :
             ClaimReward(tickets[x][i].owner, x, i)
  BY <1>a, <1>8 DEF ClaimReward, Round
<1>9. CASE \E backfill \in {{}} \cup {{amount} : amount \in Backfills}, reset \in BOOLEAN :
             Migrate(backfill, reset)
  BY <1>a, <1>9 DEF Migrate, Round
<1>10. CASE Tick \/ UNCHANGED lotteryVars
  BY <1>10 DEF Tick, lotteryVars
<1> QED  BY <1>2, <1>3, <1>4, <1>5, <1>6, <1>7, <1>8, <1>9, <1>10 DEF Next

\* Cancelling a round hands its buyers at most what its tickets paid in; the
\* jackpot it had inherited and its promotional money reach the next round.
THEOREM JackpotIsCarriedForward == Spec => JackpotCarriedForward
<1>1. LotteryInv /\ [Next]_lotteryVars =>
        [\A r \in DOMAIN rounds :
           rounds[r].status = "Drawing" /\ rounds'[r].status = "Cancelled" =>
             /\ rounds'[r].pool + rounds'[r + 1].rollover_in = rounds[r].pool
             /\ rounds'[r + 1].rollover_in >= rounds[r].rollover_in + rounds[r].top_up_total
        ]_lotteryVars
  BY StepHands DEF Handed
<1> QED  BY <1>1, LotteryInvariant, PTL DEF Spec, JackpotCarriedForward

-----------------------------------------------------------------------------
(* "Must Be Won" *)

\* What the winners of one tier get is part of what is distributed.
LEMMA TierPaid ==
  ASSUME NEW tiers \in [Tiers -> Nat], NEW counts \in [Tiers -> Nat], NEW t \in Tiers,
         NEW each \in Nat, each <= tiers[t]
  PROVE  each * counts[t] <= Distributed(tiers, counts)
<1>1. \A u \in Tiers : tiers[u] * counts[u] \in Nat
  OBVIOUS
<1>2. each * counts[t] <= tiers[t] * counts[t]
  <2> DEFINE more == tiers[t] - each
  <2>1. more \in Nat /\ tiers[t] = each + more /\ counts[t] \in Nat
    OBVIOUS
  <2> HIDE DEF more
  <2>2. (each + more) * counts[t] = each * counts[t] + more * counts[t]
    BY <2>1
  <2>3. more * counts[t] \in Nat /\ each * counts[t] \in Nat
    BY <2>1
  <2> QED  BY <2>1, <2>2, <2>3
<1>3. tiers[t] * counts[t] <= Distributed(tiers, counts)
  BY <1>1, TierBpsValues DEF Distributed
<1> QED  BY <1>1, <1>2, <1>3, DistributedType

\* The tier of a draw's best tickets, 0 when no ticket is in a tier.
BestTier(counts) == IF counts[6] > 0 THEN 6 ELSE RolldownTier(counts)

\* The best tier has winners, and no tier above it has any.
LEMMA BestTierFacts ==
  ASSUME NEW counts \in [Tiers -> Nat]
  PROVE  LET b == BestTier(counts)
         IN  /\ b = 0 => \A t \in Tiers : counts[t] = 0
             /\ b # 0 => /\ b \in Tiers /\ counts[b] > 0
                         /\ \A t \in Tiers : t > b => counts[t] = 0
             /\ b = 6 <=> counts[6] > 0
<1>1. counts[3] \in Nat /\ counts[4] \in Nat /\ counts[5] \in Nat /\ counts[6] \in Nat
  BY TierBpsValues
<1> QED  BY <1>1, TierBpsValues DEF BestTier, RolldownTier

\* The tickets in the best tier any ticket reached are those the counts of the draw say.
LEMMA BestAreOfBestTier ==
  ASSUME NEW ts \in Seq(Ticket), NEW winning \in Draws,
         \A i \in DOMAIN ts : ts[i].numbers \in Picks
  PROVE  LET counts  == TierCounts(ts, winning)
             b       == BestTier(counts)
             tier(i) == TierOf(CountMatches(ts[i].numbers, winning))
             best    == {i \in DOMAIN ts : tier(i) # 0 /\ \A j \in DOMAIN ts : tier(j) <= tier(i)}
         IN  /\ b = 0 => best = {}
             /\ b # 0 => /\ best # {} /\ Cardinality(best) = counts[b]
                         /\ \A i \in best : tier(i) = b
<1> DEFINE counts == TierCounts(ts, winning)
           b == BestTier(counts)
           tier(i) == TierOf(CountMatches(ts[i].numbers, winning))
           best == {i \in DOMAIN ts : tier(i) # 0 /\ \A j \in DOMAIN ts : tier(j) <= tier(i)}
<1>1. \A i \in DOMAIN ts : tier(i) \in Tiers \cup {0}
  <2> SUFFICES ASSUME NEW i \in DOMAIN ts PROVE tier(i) \in Tiers \cup {0}
    OBVIOUS
  <2> DEFINE m == CountMatches(ts[i].numbers, winning)
  <2>1. m \in Nat
    BY CountMatchesType
  <2> HIDE DEF m
  <2>2. TierOf(m) \in Tiers \cup {0}
    BY <2>1 DEF TierOf, Tiers
  <2> QED  BY <2>2 DEF m
<1>2. \A t \in Tiers : /\ counts[t] = Cardinality(InTier(ts, winning, t))
                       /\ IsFiniteSet(InTier(ts, winning, t)) /\ counts[t] \in Nat
  BY InTierFinite DEF TierCounts
<1>3. \A t \in Tiers : InTier(ts, winning, t) = {i \in DOMAIN ts : tier(i) = t}
  BY DEF InTier
<1>4. \A t \in Tiers : counts[t] = 0 <=> \A i \in DOMAIN ts : tier(i) # t
  <2> SUFFICES ASSUME NEW t \in Tiers
               PROVE  counts[t] = 0 <=> \A i \in DOMAIN ts : tier(i) # t
    OBVIOUS
  <2>1. counts[t] = 0 <=> InTier(ts, winning, t) = {}
    BY <1>2, FS_EmptySet
  <2> QED  BY <1>3, <2>1
<1>5. counts \in [Tiers -> Nat]
  BY TierCountsType
<1> HIDE DEF counts, tier
<1>6. /\ b = 0 => \A t \in Tiers : counts[t] = 0
      /\ b # 0 => /\ b \in Tiers /\ counts[b] > 0
                  /\ \A t \in Tiers : t > b => counts[t] = 0
  BY <1>5, BestTierFacts
<1> HIDE DEF b
<1>7. CASE b = 0
  <2>1. \A i \in DOMAIN ts : tier(i) = 0
    BY <1>1, <1>4, <1>6, <1>7
  <2> QED  BY <1>7, <2>1 DEF b, counts, tier
<1>8. CASE b # 0
  <2>1. b \in Tiers /\ counts[b] \in Nat /\ counts[b] # 0
    BY <1>2, <1>6, <1>8
  <2>2. \A i \in DOMAIN ts : tier(i) <= b
    BY <1>1, <1>4, <1>6, <1>8, <2>1 DEF Tiers
  <2>3. PICK w \in DOMAIN ts : tier(w) = b
    BY <1>4, <2>1
  <2>4. \A i \in DOMAIN ts : i \in best <=> tier(i) = b
    <3>1. \A i \in DOMAIN ts : i \in best => tier(w) <= tier(i)
      OBVIOUS
    <3>2. \A i \in DOMAIN ts : tier(i) \in Int
      BY <1>1 DEF Tiers
    <3>3. \A i \in DOMAIN ts : i \in best => tier(i) = b
      BY <2>1, <2>2, <2>3, <3>1, <3>2 DEF Tiers
    <3>4. \A i \in DOMAIN ts : tier(i) = b => i \in best
      BY <1>8, <2>2
    <3> QED  BY <3>3, <3>4
  <2>5. best = InTier(ts, winning, b)
    BY <1>3, <2>1, <2>4
  <2>6. Cardinality(best) = counts[b] /\ w \in best /\ \A i \in best : tier(i) = b
    BY <1>2, <2>1, <2>3, <2>4, <2>5
  <2> QED  BY <1>8, <2>6 DEF b, counts, tier
<1> QED  BY <1>7, <1>8

\* The winner counts of a draw whose rolldown is forced, if there is no jackpot:
\* what pays the jackpot allocation out, and what leaves all of it in the pool.
LEMMA AllocationPaid ==
  ASSUME NEW pool \in Nat, NEW counts \in [Tiers -> Nat]
  PROVE  LET force == counts[6] = 0
             tiers == PayoutTiers(pool, counts, force)
             share == RolldownShare(pool, counts)
             all   == Allocation(pool, 6)
             b     == BestTier(counts)
         IN  /\ b = 6 => Distributed(tiers, counts) + counts[b] > all
             /\ b \notin {0, 6} /\ counts[b] <= all =>
                  Distributed(tiers, counts) + counts[b] > all /\ share > 0
             /\ b = 0 \/ (b # 6 /\ counts[b] > all) =>
                  Distributed(tiers, counts) + all <= pool /\ share = 0
<1> DEFINE force == counts[6] = 0
           tiers == PayoutTiers(pool, counts, force)
           base == ComputePrizeTiers(pool, counts)
           share == RolldownShare(pool, counts)
           b == BestTier(counts)
           r == RolldownTier(counts)
           all == Allocation(pool, 6)
           paid == Distributed(tiers, counts)
<1>1. /\ all \in Nat /\ tiers \in [Tiers -> Nat] /\ base \in [Tiers -> Nat] /\ share \in Nat
      /\ paid \in Nat
  <2>1. all \in Nat /\ base \in [Tiers -> Nat] /\ share \in Nat
    <3>1. 6 \in Tiers
      BY DEF Tiers
    <3>2. all \in Nat
      BY <3>1, AllocationsWithinPool
    <3>3. base \in [Tiers -> Nat]
      BY ComputePrizeTiersType
    <3>4. share \in Nat
      BY RolldownFacts
    <3> QED  BY <3>2, <3>3, <3>4
  <2>2. force \in BOOLEAN
    OBVIOUS
  <2> HIDE DEF force
  <2>3. tiers \in [Tiers -> Nat]
    BY <2>2, PayoutTiersType
  <2> HIDE DEF tiers
  <2>4. paid \in Nat
    BY <2>3, DistributedType
  <2> QED  BY <2>1, <2>3, <2>4
<1>2. tiers = [t \in Tiers |-> IF force /\ t = r THEN base[t] + share ELSE base[t]]
  BY DEF PayoutTiers
<1>3. /\ b = 6 <=> ~force
      /\ force => b = r
      /\ b # 0 => b \in Tiers /\ counts[b] \in Nat \ {0}
  <2>1. 6 \in Tiers
    BY TierBpsValues
  <2>2. b \in Int /\ (b # 0 => b \in Tiers /\ counts[b] > 0) /\ (b = 6 <=> counts[6] > 0)
    BY BestTierFacts DEF Tiers
  <2>3. counts[6] \in Nat
    BY <2>1
  <2>4. force => b = r
    BY DEF BestTier
  <2> HIDE DEF b
  <2> QED  BY <2>2, <2>3, <2>4
<1>4. share = IF r = 0 THEN 0 ELSE PerWinner(all, counts[r])
  BY DEF RolldownShare
<1>5. \A t \in Tiers : base[t] = PerWinner(Allocation(pool, t), counts[t])
  BY DEF ComputePrizeTiers
<1>6. ASSUME b = 6 PROVE paid + counts[b] > all
  <2>1. counts[6] \in Nat \ {0} /\ 6 \in Tiers
    BY <1>3, <1>6
  <2>2. base[6] = all \div counts[6]
    BY <1>5, <2>1 DEF PerWinner
  <2>3. tiers[6] = base[6]
    BY <1>2, <1>3, <1>6, <2>1
  <2> HIDE DEF tiers, base, all, b, paid
  <2>4. base[6] \in Nat /\ base[6] * counts[6] + counts[6] > all
    BY <1>1, <2>1, <2>2, DivisionTight
  <2>5. base[6] * counts[6] <= paid /\ base[6] * counts[6] \in Nat
    BY <1>1, <2>1, <2>3, <2>4, TierPaid DEF paid
  <2>6. paid + counts[6] > all
    BY <1>1, <2>1, <2>4, <2>5
  <2> QED  BY <1>6, <2>6
<1>7. ASSUME b \notin {0, 6}, counts[b] <= all PROVE paid + counts[b] > all /\ share > 0
  <2>1. force /\ b = r /\ b \in Tiers /\ counts[b] \in Nat \ {0}
    BY <1>3, <1>7
  <2>2. share = all \div counts[b]
    BY <1>4, <1>7, <2>1 DEF PerWinner
  <2>3. tiers[b] = base[b] + share
    BY <1>2, <2>1
  <2> HIDE DEF tiers, base, share, all, b, paid
  <2>4. share * counts[b] + counts[b] > all /\ share > 0
    BY <1>1, <1>7, <2>1, <2>2, DivisionTight
  <2>5. base[b] \in Nat /\ share <= tiers[b]
    BY <1>1, <2>1, <2>3
  <2>6. share * counts[b] <= paid /\ share * counts[b] \in Nat
    BY <1>1, <2>1, <2>5, TierPaid DEF paid
  <2>7. paid + counts[b] > all
    BY <1>1, <2>1, <2>4, <2>6
  <2> QED  BY <2>4, <2>7
<1>8. ASSUME b = 0 \/ (b # 6 /\ counts[b] > all) PROVE paid + all <= pool /\ share = 0
  <2>1. force /\ b = r
    BY <1>3, <1>8
  <2>2. share = 0
    <3>1. CASE b = 0
      BY <1>4, <2>1, <3>1
    <3>2. CASE b # 0
      <4>1. counts[r] \in Nat \ {0} /\ counts[r] > all
        BY <1>3, <1>8, <2>1, <3>2
      <4>2. share = all \div counts[r]
        BY <1>4, <2>1, <3>2, <4>1 DEF PerWinner
      <4> HIDE DEF share, all, r
      <4>3. all \div counts[r] = 0
        BY <1>1, <4>1, SMT
      <4> QED  BY <4>2, <4>3
    <3> QED  BY <3>1, <3>2
  <2>3. tiers = base
    <3> HIDE DEF base, share, force, r
    <3>1. tiers = [t \in Tiers |-> base[t]]
      BY <1>1, <1>2, <2>2
    <3> QED  BY <1>1, <3>1
  <2>4. \A t \in Tiers : base[t] * counts[t] <= Allocation(pool, t)
    BY ComputePrizeTiersType
  <2>5. base[6] * counts[6] = 0
    <3>1. 6 \in Tiers /\ base[6] \in Nat
      BY <1>1, TierBpsValues
    <3> HIDE DEF base
    <3> QED  BY <2>1, <3>1
  <2>6. \A t \in Tiers : base[t] * counts[t] \in Nat /\ Allocation(pool, t) \in Nat
    <3> HIDE DEF base
    <3> QED  BY <1>1, AllocationsWithinPool
  <2>7. paid = base[3] * counts[3] + base[4] * counts[4] + base[5] * counts[5] + base[6] * counts[6]
    BY <2>3 DEF Distributed
  <2>8. Allocation(pool, 3) + Allocation(pool, 4) + Allocation(pool, 5) + all <= pool
    BY AllocationsWithinPool
  <2> HIDE DEF base, paid
  <2>9. paid + all <= pool
    BY <2>4, <2>5, <2>6, <2>7, <2>8, TierBpsValues
  <2> QED  BY <2>2, <2>9
<1> QED  BY <1>6, <1>7, <1>8

\* What a draw that must be won pays of the jackpot allocation.
WonOrKept(r) ==
  LET jackpot == Allocation(rounds[r].pool, 6)
      best    == BestTickets(r)'
      hit     == \E i \in best : tickets'[r][i].matches >= 6
  IN  IF hit \/ (best # {} /\ Cardinality(best) <= jackpot)
        THEN dry_streak' = 0 /\ rounds'[r].pool + Cardinality(best) > jackpot
        ELSE dry_streak' = dry_streak + 1 /\ rounds'[r].pool + jackpot <= rounds[r].pool

\* The draw of a round that must be won.
LEMMA DrawMustBeWon ==
  ASSUME LotteryInv, NEW r \in DOMAIN rounds, NEW winning \in Draws, NEW config \in Configs,
         NEW pending \in Escrows, Draw(r, winning, config, pending),
         CountsTowardStreak(rounds[r]),
         config.max_dry_rounds > 0, dry_streak + 1 >= config.max_dry_rounds
  PROVE  WonOrKept(r)
<1> DEFINE ts == tickets[r]
           pool == rounds[r].pool
           counts == TierCounts(ts, winning)
           outcome == DrawOutcome(r, winning, config)
           drawn == Drawn(r, winning, outcome.tiers)
           force == counts[6] = 0
           tiers == PayoutTiers(pool, counts, force)
           share == RolldownShare(pool, counts)
           b == BestTier(counts)
           all == Allocation(pool, 6)
           tier(i) == TierOf(CountMatches(ts[i].numbers, winning))
           best == {i \in DOMAIN ts : tier(i) # 0 /\ \A j \in DOMAIN ts : tier(j) <= tier(i)}
           settled == [rounds[r] EXCEPT
                        !.status = "Settled", !.pool = outcome.distributed,
                        !.winning_numbers = winning, !.prize_tiers = outcome.tiers,
                        !.dry_streak_after = outcome.streak]
<1>1. /\ rounds[r] \in Round /\ pool \in Nat /\ ts \in Seq(Ticket)
      /\ \A i \in DOMAIN ts : ts[i].numbers \in Picks
  <2>1. rounds[r] \in Round /\ ts \in Seq(Ticket)
    BY DEF LotteryInv, TypeOK
  <2>2. pool \in Nat
    BY <2>1 DEF Round
  <2>3. \A i \in DOMAIN ts : ts[i] \in Ticket
    BY <2>1
  <2> QED  BY <2>1, <2>2, <2>3 DEF Ticket
<1>2. /\ rounds[r].status = "Drawing" /\ dry_streak' = outcome.streak
      /\ \E rollover : OpenNextRound(r, settled, drawn, config, rollover, pending)
  BY DEF Draw
<1>3. counts \in [Tiers -> Nat] /\ outcome.tiers \in [Tiers -> Nat]
  BY DrawOutcomeType
<1>4. ForceRolldown(rounds[r], counts, config) = force
  BY DEF ForceRolldown
<1> HIDE DEF force
<1>5. /\ outcome.distributed = Distributed(tiers, counts)
      /\ outcome.streak = IF counts[6] > 0 \/ (force /\ share > 0) THEN 0 ELSE dry_streak + 1
  <2>1. /\ outcome.distributed
             = Distributed(PayoutTiers(pool, counts, ForceRolldown(rounds[r], counts, config)), counts)
        /\ outcome.streak =
             IF counts[6] > 0 \/ (ForceRolldown(rounds[r], counts, config) /\ share > 0)
             THEN 0 ELSE IF CountsTowardStreak(rounds[r]) THEN dry_streak + 1 ELSE dry_streak
    BY DEF DrawOutcome, ForcedPaid
  <2> HIDE DEF outcome, counts, share
  <2> QED  BY <1>4, <2>1
<1> HIDE DEF outcome, tiers, share
<1>6. /\ DOMAIN drawn = DOMAIN ts
      /\ \A i \in DOMAIN drawn : drawn[i].matches = CountMatches(ts[i].numbers, winning)
  BY <1>2, <1>3, DrawnTickets DEF InFlight
<1> HIDE DEF drawn
<1>7. settled.pool = outcome.distributed
  BY <1>1 DEF Round
<1> HIDE DEF settled
<1>8. rounds'[r] = settled /\ tickets'[r] = drawn
  BY <1>2, NextOpened
<1>9. /\ BestTickets(r)' = best
      /\ \A i \in best : tickets'[r][i].matches = CountMatches(ts[i].numbers, winning)
  BY <1>6, <1>8 DEF BestTickets
<1>10. /\ b = 0 => best = {}
       /\ b # 0 => /\ best # {} /\ Cardinality(best) = counts[b]
                   /\ \A i \in best : tier(i) = b
  <2> HIDE DEF ts
  <2> QED  BY <1>1, BestAreOfBestTier
<1>11. /\ b = 0 => \A t \in Tiers : counts[t] = 0
       /\ b # 0 => b \in Tiers /\ counts[b] \in Nat \ {0}
       /\ b = 6 <=> counts[6] > 0
  <2> HIDE DEF counts
  <2> QED  BY <1>3, BestTierFacts
<1>12. /\ b = 6 => Distributed(tiers, counts) + counts[b] > all
       /\ b \notin {0, 6} /\ counts[b] <= all =>
            Distributed(tiers, counts) + counts[b] > all /\ share > 0
       /\ b = 0 \/ (b # 6 /\ counts[b] > all) =>
            Distributed(tiers, counts) + all <= pool /\ share = 0
  <2> HIDE DEF counts, pool
  <2> QED  BY <1>1, <1>3, AllocationPaid DEF b, tiers, force, share
<1>13. (\E i \in best : tickets'[r][i].matches >= 6) <=> b = 6
  <2>1. \A i \in best : CountMatches(ts[i].numbers, winning) \in Nat
    BY <1>1, CountMatchesType
  <2>2. \A i \in best : CountMatches(ts[i].numbers, winning) >= 6 <=> tier(i) = 6
    BY <2>1 DEF TierOf
  <2> HIDE DEF b, tier
  <2>3. \A i \in best : tickets'[r][i].matches >= 6 <=> tier(i) = 6
    BY <1>9, <2>2
  <2> HIDE DEF best
  <2> QED  BY <1>10, <2>3
<1>14. all \in Nat /\ counts[6] \in Nat
  <2>1. 6 \in Tiers
    BY DEF Tiers
  <2>2. all \in Nat
    <3> HIDE DEF pool
    <3> QED  BY <1>1, <2>1, AllocationsWithinPool
  <2> QED  BY <1>3, <2>1, <2>2
<1> HIDE DEF counts, b, all, best, ts, pool
<1>15. IF (\E i \in best : tickets'[r][i].matches >= 6) \/ (best # {} /\ Cardinality(best) <= all)
         THEN dry_streak' = 0 /\ rounds'[r].pool + Cardinality(best) > all
         ELSE dry_streak' = dry_streak + 1 /\ rounds'[r].pool + all <= pool
  <2>1. dry_streak' = IF b = 6 \/ (force /\ share > 0) THEN 0 ELSE dry_streak + 1
    BY <1>2, <1>5, <1>11
  <2>2. force <=> b # 6
    BY <1>11, <1>14 DEF force
  <2>3. rounds'[r].pool = Distributed(tiers, counts)
    BY <1>5, <1>7, <1>8
  <2>4. CASE b = 6
    BY <1>10, <1>12, <1>13, <2>1, <2>3, <2>4
  <2>5. CASE b \notin {0, 6} /\ counts[b] <= all
    BY <1>10, <1>12, <1>13, <2>1, <2>2, <2>3, <2>5
  <2>6. CASE b = 0 \/ (b # 6 /\ counts[b] > all)
    <3>1. ~(best # {} /\ Cardinality(best) <= all)
      BY <1>10, <1>11, <1>14, <2>6
    <3> QED  BY <1>12, <1>13, <2>1, <2>3, <2>6, <3>1
  <2>7. counts[b] <= all \/ counts[b] > all \/ b = 0
    BY <1>11, <1>14
  <2> QED  BY <2>4, <2>5, <2>6, <2>7
<1> QED  BY <1>9, <1>15 DEF WonOrKept, all, pool

\* Of all steps only a draw settles a round.
LEMMA OnlyDrawSettles ==
  ASSUME LotteryInv, [Next]_lotteryVars, NEW r \in DOMAIN rounds,
         rounds[r].status = "Drawing", rounds'[r].status = "Settled"
  PROVE  \E winning \in Draws, config \in Configs, pending \in Escrows :
           Draw(r, winning, config, pending)
<1>a. /\ \A x \in DOMAIN rounds : rounds[x] \in Round
      /\ current_round \in DOMAIN rounds
      /\ r = current_round
  BY DEF LotteryInv, TypeOK, OneRoundInFlight, InFlight
<1>1. \A owner, picks, amount : Mint(owner, picks, amount) => rounds'[r].status = rounds[r].status
  BY <1>a DEF Mint, Round
<1>2. CASE \E buyer \in Accounts, picks \in Purchases, referred \in BOOLEAN :
             BuyTickets(buyer, picks, referred)
  BY <1>1, <1>2 DEF BuyTickets
<1>3. CASE \E owner \in Accounts, picks \in Purchases : GrantBonusTicket(owner, picks)
  BY <1>1, <1>3 DEF GrantBonusTicket
<1>4. CASE \E x \in DOMAIN rounds, amount \in TopUps : TopUpPool(x, amount)
  BY <1>a, <1>4 DEF TopUpPool, Round
<1>5. CASE CloseRound
  BY <1>a, <1>5 DEF CloseRound, Round
<1>6. CASE \E x \in DOMAIN rounds, winning \in Draws, config \in Configs, pending \in Escrows :
             Draw(x, winning, config, pending)
  <2>1. PICK x \in DOMAIN rounds, winning \in Draws, config \in Configs, pending \in Escrows :
          Draw(x, winning, config, pending)
    BY <1>6
  <2>2. rounds[x].status = "Drawing"
    BY <2>1 DEF Draw
  <2>3. x = r
    BY <1>a, <2>2 DEF LotteryInv, OneRoundInFlight, InFlight
  <2> QED  BY <2>1, <2>3
<1>7. CASE \E x \in DOMAIN rounds, config \in Configs, pending \in Escrows :
             CancelRound(x, config, pending)
  <2>1. PICK x \in DOMAIN rounds, config \in Configs, pending \in Escrows :
          CancelRound(x, config, pending)
    BY <1>7
  <2>2. /\ \A y \in DOMAIN rounds \ {x} : rounds'[y].status = rounds[y].status
        /\ rounds[x].status = "Drawing"
    BY <2>1, CancelHands DEF CancelRound
  <2> DEFINE closed == [rounds[x] EXCEPT !.status = "Cancelled",
                          !.pool = RefundPerTicket(rounds[x]) * Len(tickets[x])]
  <2>3. closed.status = "Cancelled"
    BY <1>a DEF Round
  <2>4. \E ts, rollover : OpenNextRound(x, closed, ts, config, rollover, pending)
    BY <2>1 DEF CancelRound
  <2> HIDE DEF closed
  <2>5. rounds'[x] = closed
    BY <2>2, <2>4, NextOpened
  <2> QED  BY <2>2, <2>3, <2>5
<1>8. CASE \E x \in DOMAIN rounds : \E i \in DOMAIN tickets[x] :
             ClaimReward(tickets[x][i].owner, x, i)
  BY <1>a, <1>8 DEF ClaimReward, Round
<1>9. CASE \E backfill \in {{}} \cup {{amount} : amount \in Backfills}, reset \in BOOLEAN :
             Migrate(backfill, reset)
  BY <1>a, <1>9 DEF Migrate, Round
<1>10. CASE Tick \/ UNCHANGED lotteryVars
  BY <1>10 DEF Tick, lotteryVars
<1> QED  BY <1>2, <1>3, <1>4, <1>5, <1>6, <1>7, <1>8, <1>9, <1>10 DEF Next

\* "Must Be Won": a draw that would bring the streak to the cap pays the jackpot
\* allocation out, but for less than a unit per best ticket, and ends the streak; the
\* streak grows only if no ticket is in a tier or the allocation is not worth a unit to
\* each of the best, and then all of the allocation is left over.
THEOREM JackpotMustBeWon == Spec => MustBeWon
<1>1. LotteryInv /\ [Next]_lotteryVars =>
        [\A r \in DOMAIN rounds :
           /\ rounds[r].status = "Drawing" /\ rounds'[r].status = "Settled"
           /\ CountsTowardStreak(rounds[r])
           /\ \A config \in Configs :
                config.max_dry_rounds > 0 /\ dry_streak + 1 >= config.max_dry_rounds
           => WonOrKept(r)]_lotteryVars
  BY OnlyDrawSettles, DrawMustBeWon
<1> QED  BY <1>1, LotteryInvariant, PTL DEF Spec, MustBeWon, WonOrKept
=============================================================================
