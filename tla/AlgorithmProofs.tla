-------------------------- MODULE AlgorithmProofs ---------------------------
(***************************************************************************)
(* The pure algorithms.  The schedule, for every interval, anchor, drand   *)
(* chain and opening time: the close time is the first usable grid point,  *)
(* the bound beacon the first one published after it.  The pick            *)
(* generator, for any size of a byte, any number of iterations, any valid  *)
(* domain and any stream.                                                  *)
(***************************************************************************)
EXTENDS MCSchedule, MCPicks, FiniteSetTheorems, FunctionTheorems, TLAPS

\* Division splits a number into whole multiples and a smaller rest.
LEMMA DivisionRest ==
  ASSUME NEW a \in Nat, NEW w \in Nat \ {0}
  PROVE  a \div w \in Nat /\ (a \div w) * w <= a /\ a < (a \div w) * w + w
  BY SMT

LEMMA Monotonic ==
  ASSUME NEW a \in Nat, NEW b \in Nat, a <= b, NEW w \in Nat
  PROVE  a * w \in Nat /\ b * w \in Nat /\ a * w <= b * w
<1> DEFINE more == b - a
<1>1. more \in Nat /\ b = a + more
  OBVIOUS
<1> HIDE DEF more
<1>2. (a + more) * w = a * w + more * w /\ more * w \in Nat /\ a * w \in Nat
  BY <1>1
<1> QED  BY <1>1, <1>2

LEMMA OneMore ==
  ASSUME NEW a \in Nat, NEW w \in Nat
  PROVE  (a + 1) * w = a * w + w /\ a * w \in Nat
  BY SMT

\* A beacon is bound by its number: the first later than c has every earlier
\* number published by c.
LEMMA BeaconAfter ==
  ASSUME NEW c \in Nat, NEW genesis \in Nat, NEW period \in Nat \ {0}
  PROVE  LET bound == DrandRoundAfter(c, genesis, period)
         IN  /\ PublishTime(bound, genesis, period) > c
             /\ \A R \in 1..(bound - 1) : PublishTime(R, genesis, period) <= c
<1> DEFINE bound == DrandRoundAfter(c, genesis, period)
<1>1. CASE c < genesis
  <2>1. bound = 1
    BY <1>1 DEF DrandRoundAfter
  <2>2. PublishTime(1, genesis, period) = genesis
    BY DEF PublishTime
  <2> QED  BY <1>1, <2>1, <2>2
<1>2. CASE ~(c < genesis)
  <2> DEFINE q == (c - genesis) \div period
  <2>1. c - genesis \in Nat
    BY <1>2
  <2>2. q \in Nat /\ q * period <= c - genesis /\ c - genesis < q * period + period
    BY <2>1, DivisionRest
  <2>3. bound = q + 2
    BY <1>2 DEF DrandRoundAfter
  <2> HIDE DEF q, bound
  <2>4. (q + 1) * period = q * period + period /\ q * period \in Nat
    BY <2>2, OneMore
  <2>5. PublishTime(bound, genesis, period) = genesis + (q * period + period)
    <3>1. bound - 1 = q + 1
      BY <2>2, <2>3
    <3> QED  BY <2>4, <3>1 DEF PublishTime
  <2>6. ASSUME NEW R \in 1..(bound - 1)
        PROVE  PublishTime(R, genesis, period) <= c
    <3>1. R - 1 \in Nat /\ R - 1 <= q
      BY <2>2, <2>3
    <3>2. (R - 1) * period <= q * period /\ (R - 1) * period \in Nat
      BY <2>2, <3>1, Monotonic
    <3> QED  BY <2>1, <2>2, <2>4, <3>2 DEF PublishTime
  <2>7. PublishTime(bound, genesis, period) > c
    BY <2>1, <2>2, <2>4, <2>5
  <2> QED  BY <2>6, <2>7 DEF bound
<1> QED  BY <1>1, <1>2

\* The next grid point is on the grid, later than the opening, and no grid point
\* lies between.
LEMMA NextPoint ==
  ASSUME NEW c \in ScheduleConfig, NEW t \in Nat, c.schedule_anchor \in Nat,
         c.schedule_anchor <= t
  PROVE  \E k \in 1..t + 1 :
           /\ NextGridPoint(c, t) = c.schedule_anchor + k * c.draw_interval
           /\ NextGridPoint(c, t) > t
           /\ c.schedule_anchor + (k - 1) * c.draw_interval <= t
<1> DEFINE w == c.draw_interval
           a == c.schedule_anchor
           q == (t - a) \div w
<1>1. w \in Nat \ {0} /\ a \in Nat /\ t - a \in Nat
  BY DEF ScheduleConfig
<1>2. NextGridPoint(c, t) = a + (q + 1) * w
  BY DEF NextGridPoint
<1> HIDE DEF w, a
<1>3. q \in Nat /\ q * w <= t - a /\ t - a < q * w + w
  BY <1>1, DivisionRest
<1> HIDE DEF q
<1>4. (q + 1) * w = q * w + w /\ q * w \in Nat
  BY <1>1, <1>3, OneMore
<1>5. q <= t
  <2>1. q * 1 <= q * w
    BY <1>1, <1>3 DEF w
  <2> QED  BY <1>1, <1>3, <1>4, <2>1
<1>6. q + 1 \in 1..t + 1 /\ (q + 1) - 1 = q
  BY <1>3, <1>5
<1>7. a + (q + 1) * w > t /\ a + q * w <= t
  BY <1>1, <1>3, <1>4
<1> QED  BY <1>2, <1>6, <1>7 DEF a, w

\* Points of the grid are ordered by their number.
LEMMA PointsOrdered ==
  ASSUME NEW a \in Nat, NEW w \in Nat \ {0}, NEW j \in Nat, NEW k \in Nat,
         a + k * w < a + j * w
  PROVE  k + 1 <= j /\ a + (k + 1) * w <= a + j * w
<1>1. k + 1 <= j
  <2>1. CASE j <= k
    <3>1. j * w <= k * w /\ j * w \in Nat /\ k * w \in Nat
      BY <2>1, Monotonic
    <3> QED  BY <3>1
  <2> QED  BY <2>1
<1>2. (k + 1) * w <= j * w /\ (k + 1) * w \in Nat /\ j * w \in Nat
  BY <1>1, Monotonic
<1> QED  BY <1>1, <1>2

\* Opened at t on an anchored schedule, a round closes at the first usable point.
LEMMA FirstUsable ==
  ASSUME NEW c \in ScheduleConfig, NEW t \in Nat, c.schedule_anchor \in Nat,
         c.schedule_anchor <= t,
         NEW usable, \A g : g \in usable <=>
           /\ \E k \in 0..LastOpening + 2 : g = c.schedule_anchor + k * c.draw_interval
           /\ g > t /\ g - t >= c.draw_interval \div 4,
         t <= LastOpening
  PROVE  NextCloseAt(c, t) = Min(usable)
<1> DEFINE w == c.draw_interval
           a == c.schedule_anchor
           g == NextGridPoint(c, t)
           close == NextCloseAt(c, t)
<1>1. w \in Nat \ {0} /\ a \in Nat /\ LastOpening \in Nat
  BY InstanceAssumption DEF ScheduleConfig
<1>2. PICK k \in 1..t + 1 : g = a + k * w /\ g > t /\ a + (k - 1) * w <= t
  BY NextPoint
<1>3. close = IF g - t < w \div 4 THEN g + w ELSE g
  BY <1>1 DEF NextCloseAt, GridClose, NoAnchor
<1> HIDE DEF w, a, g, close
<1>4. /\ w \div 4 \in Nat /\ w \div 4 <= w
      /\ k \in Nat /\ k - 1 \in Nat /\ k * w \in Nat /\ (k + 1) * w = k * w + w
      /\ k \in 0..LastOpening + 2 /\ k + 1 \in 0..LastOpening + 2
  <2>1. w \div 4 \in Nat /\ (w \div 4) * 4 <= w
    BY <1>1, DivisionRest
  <2>2. k * w \in Nat /\ (k + 1) * w = k * w + w
    BY <1>1, OneMore
  <2> QED  BY <1>1, <2>1, <2>2
<1>5. close \in usable
  <2>1. CASE g - t < w \div 4
    <3>1. close = a + (k + 1) * w
      BY <1>1, <1>2, <1>3, <1>4, <2>1
    <3>2. close > t /\ close - t >= w \div 4
      BY <1>1, <1>2, <1>3, <1>4, <2>1
    <3> QED  BY <1>4, <3>1, <3>2 DEF a, w
  <2>2. CASE ~(g - t < w \div 4)
    <3>1. close = a + k * w /\ close > t /\ close - t >= w \div 4
      BY <1>1, <1>2, <1>3, <1>4, <2>2
    <3> QED  BY <1>4, <3>1 DEF a, w
  <2> QED  BY <2>1, <2>2
<1>6. ASSUME NEW u \in usable
      PROVE  close <= u
  <2>1. PICK j \in 0..LastOpening + 2 : u = a + j * w
    BY DEF a, w
  <2>2. u > t /\ u - t >= w \div 4
    BY DEF w
  <2>3. j \in Nat /\ j * w \in Nat
    BY <1>1, <2>1, OneMore
  <2>4. k <= j /\ g <= u
    <3>1. a + (k - 1) * w < a + j * w
      <4>1. (k - 1) * w \in Nat
        BY <1>1, <1>4, OneMore
      <4> QED  BY <1>1, <1>2, <2>1, <2>2, <2>3, <4>1
    <3>2. (k - 1) + 1 <= j /\ a + ((k - 1) + 1) * w <= a + j * w
      BY <1>1, <1>4, <2>3, <3>1, PointsOrdered
    <3>3. (k - 1) + 1 = k
      BY <1>4
    <3> QED  BY <1>2, <2>1, <3>2, <3>3
  <2>5. CASE g - t < w \div 4
    <3>1. a + k * w < a + j * w
      BY <1>1, <1>2, <1>4, <2>1, <2>2, <2>3, <2>4, <2>5
    <3>2. a + (k + 1) * w <= a + j * w
      BY <1>1, <1>4, <2>3, <3>1, PointsOrdered
    <3> QED  BY <1>1, <1>2, <1>3, <1>4, <2>1, <2>3, <2>5, <3>2
  <2>6. CASE ~(g - t < w \div 4)
    BY <1>3, <2>4, <2>6
  <2> QED  BY <2>5, <2>6
<1>7. \A u \in usable : u \in Int
  <2> TAKE u \in usable
  <2>1. PICK j \in 0..LastOpening + 2 : u = a + j * w
    BY DEF a, w
  <2>2. j \in Nat /\ j * w \in Nat
    BY <1>1, <2>1, OneMore
  <2> QED  BY <1>1, <2>1, <2>2
<1>8. \A u \in usable : (\A v \in usable : u <= v) => u = close
  BY <1>5, <1>6, <1>7
<1> QED  BY <1>5, <1>6, <1>8 DEF Min, close

-----------------------------------------------------------------------------
(* Of every instance of MCSchedule, whatever its constants. *)

InstanceInv ==
  /\ config \in [draw_interval : Intervals, schedule_anchor : Anchors \cup {NoAnchor}]
  /\ beacon \in [genesis : Genesis, period : Periods]
  /\ opens_at \in 0..LastOpening

LEMMA InstanceAlways == Spec => []InstanceInv
<1>1. Init => InstanceInv
  BY InstanceAssumption DEF Init, InstanceInv
<1>2. InstanceInv /\ [Next]_<<config, beacon, opens_at>> => InstanceInv'
  BY InstanceAssumption DEF InstanceInv, Next
<1> QED  BY <1>1, <1>2, PTL DEF Spec

LEMMA InstanceTypes ==
  ASSUME InstanceInv
  PROVE  /\ config \in ScheduleConfig /\ opens_at \in Nat /\ opens_at <= LastOpening
         /\ beacon.genesis \in Nat /\ beacon.period \in Nat \ {0}
<1>1. /\ config = [draw_interval |-> config.draw_interval, schedule_anchor |-> config.schedule_anchor]
      /\ config.draw_interval \in Intervals
      /\ config.schedule_anchor \in Anchors \cup {NoAnchor}
  BY DEF InstanceInv
<1>2. config.draw_interval \in Nat \ {0} /\ config.schedule_anchor \in Nat \cup {NoAnchor}
  BY <1>1, InstanceAssumption
<1>3. config \in ScheduleConfig
  BY <1>1, <1>2 DEF ScheduleConfig
<1>4. beacon.genesis \in Genesis /\ beacon.period \in Periods
  BY DEF InstanceInv
<1>5. beacon.genesis \in Nat /\ beacon.period \in Nat \ {0}
  BY <1>4, InstanceAssumption
<1>6. opens_at \in Nat /\ opens_at <= LastOpening
  BY InstanceAssumption DEF InstanceInv
<1> QED  BY <1>3, <1>5, <1>6

LEMMA CloseType ==
  ASSUME NEW c \in ScheduleConfig, NEW t \in Nat
  PROVE  NextCloseAt(c, t) \in Nat
<1>1. c.draw_interval \in Nat \ {0} /\ c.schedule_anchor \in Nat \cup {NoAnchor}
  BY DEF ScheduleConfig
<1>2. CASE c.schedule_anchor = NoAnchor
  <2>1. NextCloseAt(c, t) = t + c.draw_interval
    BY <1>2 DEF NextCloseAt, NoAnchor
  <2> QED  BY <1>1, <2>1
<1>3. CASE c.schedule_anchor \in Nat /\ c.schedule_anchor > t
  BY <1>1, <1>3 DEF NextCloseAt, NoAnchor
<1>4. CASE c.schedule_anchor \in Nat /\ ~(c.schedule_anchor > t)
  <2>1. PICK k \in 1..t + 1 : NextGridPoint(c, t) = c.schedule_anchor + k * c.draw_interval
    BY <1>4, NextPoint
  <2>2. k * c.draw_interval \in Nat
    BY <1>1, <2>1, OneMore
  <2>3. NextGridPoint(c, t) \in Nat
    BY <1>4, <2>1, <2>2
  <2> QED  BY <1>1, <1>4, <2>3 DEF NextCloseAt, GridClose, NoAnchor
<1> QED  BY <1>1, <1>2, <1>3, <1>4

\* An anchored round closes at the first point of the grid that leaves a usable
\* sales window, for any interval, anchor and opening time.
THEOREM ClosesAtFirstUsableAlways == Spec => []ClosesAtFirstUsable
<1>1. InstanceInv => ClosesAtFirstUsable
  <2> SUFFICES ASSUME InstanceInv, config.schedule_anchor # NoAnchor
               PROVE  closes_at = IF config.schedule_anchor > opens_at
                                    THEN config.schedule_anchor ELSE Min(UsableFrom(opens_at))
    BY DEF ClosesAtFirstUsable
  <2>1. /\ config \in ScheduleConfig /\ opens_at \in Nat /\ opens_at <= LastOpening
        /\ config.schedule_anchor \in Nat
    BY InstanceTypes DEF ScheduleConfig
  <2>2. CASE config.schedule_anchor > opens_at
    BY <2>1, <2>2 DEF closes_at, NextCloseAt, NoAnchor
  <2>3. CASE ~(config.schedule_anchor > opens_at)
    <3>1. config.schedule_anchor <= opens_at
      BY <2>1, <2>3
    <3>2. \A g : g \in UsableFrom(opens_at) <=>
            /\ \E k \in 0..LastOpening + 2 :
                 g = config.schedule_anchor + k * config.draw_interval
            /\ g > opens_at /\ g - opens_at >= config.draw_interval \div 4
      BY DEF UsableFrom, Grid
    <3>3. NextCloseAt(config, opens_at) = Min(UsableFrom(opens_at))
      BY <2>1, <3>1, <3>2, FirstUsable
    <3> QED  BY <2>3, <3>3 DEF closes_at
  <2> QED  BY <2>2, <2>3
<1> QED  BY <1>1, InstanceAlways, PTL

\* The beacon a round is bound to is the first one published after its close, for
\* any drand chain and any close time.
THEOREM FirstBeaconAfterCloseAlways == Spec => []FirstBeaconAfterClose
<1>1. InstanceInv => FirstBeaconAfterClose
  <2> SUFFICES ASSUME InstanceInv PROVE FirstBeaconAfterClose
    OBVIOUS
  <2>1. closes_at \in Nat /\ beacon.genesis \in Nat /\ beacon.period \in Nat \ {0}
    BY InstanceTypes, CloseType DEF closes_at
  <2> QED  BY <2>1, BeaconAfter DEF FirstBeaconAfterClose
<1> QED  BY <1>1, InstanceAlways, PTL

-----------------------------------------------------------------------------
(* The pick generator *)

\* A list that holds each of the first m numbers has at least m entries.
LEMMA CoveringLength ==
  ASSUME NEW s \in Seq(Nat), NEW m \in Nat, \A v \in 1..m : v \in Range(s)
  PROVE  m <= Len(s)
<1>1. SUFFICES ASSUME Len(s) < m PROVE FALSE
  OBVIOUS
<1> DEFINE place == [v \in 1..m |-> CHOOSE i \in 1..Len(s) : s[i] = v]
<1>2. \A v \in 1..m : place[v] \in 1..Len(s) /\ s[place[v]] = v
  <2> SUFFICES ASSUME NEW v \in 1..m
               PROVE  place[v] \in 1..Len(s) /\ s[place[v]] = v
    OBVIOUS
  <2>1. \E i \in 1..Len(s) : s[i] = v
    BY DEF Range
  <2> QED  BY <2>1
<1>3. place \in [1..m -> 1..Len(s)]
  BY <1>2
<1>4. IsFiniteSet(1..m) /\ Cardinality(1..m) = m
  BY FS_Interval
<1>5. IsFiniteSet(1..Len(s)) /\ Cardinality(1..Len(s)) = Len(s)
  <2>1. Len(s) \in Nat
    OBVIOUS
  <2> DEFINE k == Len(s)
  <2>2. k \in Nat
    BY <2>1
  <2> HIDE DEF k
  <2>3. IsFiniteSet(1..k) /\ Cardinality(1..k) = k
    BY <2>2, FS_Interval
  <2> QED  BY <2>3 DEF k
<1>6. \E v, w \in 1..m : v # w /\ place[v] = place[w]
  <2> HIDE DEF place
  <2> QED  BY <1>1, <1>3, <1>4, <1>5, FS_PigeonHole
<1> QED  BY <1>2, <1>6

-----------------------------------------------------------------------------
(* The invariant of the two loops *)

\* The numbers below the fill's counter are all there.
FilledBelow == \A v \in 1..(n - 1) : v \in Range(chosen)

PickTypeOK ==
  /\ count \in 1..MaxByte /\ number_max \in count..MaxByte
  /\ phase \in {"stream", "fill", "done", "aborted"}
  /\ chosen \in Seq(1..number_max) /\ Len(chosen) <= count
  /\ n \in 1..MaxByte

PickInv ==
  /\ PickTypeOK
  /\ Distinct(chosen)
  /\ FilledBelow
  /\ phase = "done" => Len(chosen) = count
  /\ AbortsOnlyOnFullDomain

LEMMA PickInitInv == PickInit => PickInv
<1> SUFFICES ASSUME PickInit PROVE PickInv
  OBVIOUS
<1>1. count \in 1..MaxByte /\ number_max \in count..MaxByte
  BY PicksAssumption DEF PickInit, Bytes, ValidNumberDomain
<1>2. chosen \in Seq(1..number_max) /\ Len(chosen) = 0
  BY DEF PickInit
<1> QED  BY <1>1, <1>2, PicksAssumption
         DEF PickInit, PickInv, PickTypeOK, Distinct, FilledBelow, AbortsOnlyOnFullDomain

\* Pushing a number of the domain while one is missing keeps the list well formed.
LEMMA PushKeeps ==
  ASSUME PickTypeOK, Distinct(chosen), Len(chosen) < count, NEW v \in 1..number_max
  PROVE  /\ Push(v) \in Seq(1..number_max) /\ Len(Push(v)) <= count
         /\ Distinct(Push(v))
         /\ v \in Range(Push(v)) /\ Range(chosen) \subseteq Range(Push(v))
<1>1. CASE v \in Range(chosen)
  BY <1>1 DEF Push, PickTypeOK
<1>2. CASE v \notin Range(chosen)
  <2>1. Push(v) = Append(chosen, v)
    BY <1>2 DEF Push
  <2>2. /\ Append(chosen, v) \in Seq(1..number_max)
        /\ Len(Append(chosen, v)) = Len(chosen) + 1
        /\ \A i \in 1..Len(chosen) : Append(chosen, v)[i] = chosen[i]
        /\ Append(chosen, v)[Len(chosen) + 1] = v
        /\ DOMAIN chosen = 1..Len(chosen) /\ Len(chosen) \in Nat
        /\ DOMAIN Append(chosen, v) = 1..(Len(chosen) + 1)
    BY DEF PickTypeOK
  <2>3. Distinct(Append(chosen, v))
    BY <1>2, <2>2 DEF Distinct, Range
  <2>4. v \in Range(Append(chosen, v)) /\ Range(chosen) \subseteq Range(Append(chosen, v))
    BY <2>2 DEF Range
  <2>5. Len(Append(chosen, v)) <= count
    BY <2>2 DEF PickTypeOK
  <2> QED  BY <2>1, <2>2, <2>3, <2>4, <2>5
<1> QED  BY <1>1, <1>2

LEMMA PickNextInv == PickInv /\ [PickNext]_pickVars => PickInv'
<1> SUFFICES ASSUME PickInv, [PickNext]_pickVars PROVE PickInv'
  OBVIOUS
<1> USE DEF PickInv
<1>1. CASE Stream
  <2>1. PICK v \in 1..number_max : chosen' = Push(v)
    BY <1>1 DEF Stream
  <2>2. /\ Push(v) \in Seq(1..number_max) /\ Len(Push(v)) <= count
        /\ Distinct(Push(v)) /\ Range(chosen) \subseteq Range(Push(v))
    BY <1>1, PushKeeps DEF Stream
  <2>3. PickTypeOK' /\ Distinct(chosen)'
    BY <1>1, <2>1, <2>2 DEF Stream, PickTypeOK, Distinct
  <2>4. FilledBelow'
    BY <1>1, <2>1, <2>2 DEF Stream, FilledBelow
  <2>5. (phase = "done" => Len(chosen) = count)' /\ AbortsOnlyOnFullDomain'
    BY <1>1 DEF Stream, AbortsOnlyOnFullDomain
  <2> QED  BY <2>3, <2>4, <2>5
<1>2. CASE StreamEnds
  BY <1>2 DEF StreamEnds, PickTypeOK, Distinct, FilledBelow, AbortsOnlyOnFullDomain
<1>3. CASE Fill
  <2>1. n \in 1..number_max /\ Len(chosen) < count /\ chosen' = Push(n)
    BY <1>3 DEF Fill, Filling, PickTypeOK
  <2>2. /\ Push(n) \in Seq(1..number_max) /\ Len(Push(n)) <= count
        /\ Distinct(Push(n))
        /\ n \in Range(Push(n)) /\ Range(chosen) \subseteq Range(Push(n))
    BY <2>1, PushKeeps
  <2>3. \A v \in 1..n : v \in Range(Push(n))
    BY <2>2 DEF FilledBelow, PickTypeOK
  <2>4. CASE n < MaxByte
    <3>1. n' = n + 1 /\ UNCHANGED <<phase, count, number_max>>
      BY <1>3, <2>4 DEF Fill
    <3>2. PickTypeOK'
      <4>1. n' \in 1..MaxByte
        BY <2>4, <3>1, PicksAssumption DEF PickTypeOK
      <4>2. chosen' \in Seq(1..number_max) /\ Len(chosen') <= count
        BY <2>1, <2>2
      <4> QED  BY <3>1, <4>1, <4>2 DEF PickTypeOK
    <3>3. Distinct(chosen)'
      BY <2>1, <2>2 DEF Distinct
    <3>4. FilledBelow'
      BY <2>1, <2>3, <3>1 DEF FilledBelow, PickTypeOK
    <3> QED  BY <1>3, <3>1, <3>2, <3>3, <3>4 DEF Fill, AbortsOnlyOnFullDomain
  <2>5. CASE ~(n < MaxByte)
    <3>1. n = MaxByte /\ number_max = MaxByte
      BY <2>1, <2>5, PicksAssumption DEF PickTypeOK
    <3>2. MaxByte - 1 <= Len(chosen)
      <4>1. chosen \in Seq(Nat)
        BY DEF PickTypeOK
      <4>2. \A v \in 1..(MaxByte - 1) : v \in Range(chosen)
        BY <3>1 DEF FilledBelow
      <4> QED  BY <4>1, <4>2, CoveringLength, PicksAssumption
    <3>3. count = MaxByte
      BY <2>1, <3>2, PicksAssumption DEF PickTypeOK
    <3> QED  BY <1>3, <2>1, <2>2, <2>5, <3>1, <3>3
             DEF Fill, PickTypeOK, Distinct, FilledBelow, AbortsOnlyOnFullDomain
  <2> QED  BY <2>4, <2>5
<1>4. CASE FillEnds
  <2>1. Len(chosen) = count
    <3>1. CASE ~(Len(chosen) < count)
      BY <3>1 DEF PickTypeOK
    <3>2. CASE ~(n <= number_max)
      <4>1. chosen \in Seq(Nat) /\ number_max \in Nat
        BY DEF PickTypeOK
      <4>2. \A v \in 1..number_max : v \in Range(chosen)
        BY <3>2 DEF FilledBelow, PickTypeOK
      <4>3. number_max <= Len(chosen)
        BY <4>1, <4>2, CoveringLength
      <4> QED  BY <4>3 DEF PickTypeOK
    <3> QED  BY <1>4, <3>1, <3>2 DEF FillEnds, Filling
  <2> QED  BY <1>4, <2>1
           DEF FillEnds, PickTypeOK, Distinct, FilledBelow, AbortsOnlyOnFullDomain
<1>5. CASE UNCHANGED pickVars
  BY <1>5 DEF pickVars, PickTypeOK, Distinct, FilledBelow, AbortsOnlyOnFullDomain
<1> QED  BY <1>1, <1>2, <1>3, <1>4, <1>5 DEF PickNext

\* The loops keep their invariant.
THEOREM PickInvariant == PickSpec => []PickInv
<1>1. PickInit => PickInv
  BY PickInitInv
<1>2. PickInv /\ [PickNext]_pickVars => PickInv'
  BY PickNextInv
<1> QED  BY <1>1, <1>2, PTL DEF PickSpec

-----------------------------------------------------------------------------
(* The results *)

\* pick_distinct returns exactly count distinct numbers of the domain, whatever
\* the seed: quick-picks are complete tickets and draws complete draws.
THEOREM PickedWellAlways == PickSpec => []PickedWell
<1>1. PickInv => PickedWell
  BY DEF PickInv, PickTypeOK, PickedWell, Range
<1> QED  BY <1>1, PickInvariant, PTL

\* The u8 counter of its fallback overflows for the one full domain only.
THEOREM AbortsOnlyOnFullDomainAlways == PickSpec => []AbortsOnlyOnFullDomain
<1>1. PickInv => AbortsOnlyOnFullDomain
  BY DEF PickInv
<1> QED  BY <1>1, PickInvariant, PTL
-----------------------------------------------------------------------------
(* The validation of chosen numbers *)

\* No two entries share a rank, so every place of the sorted list gets one entry.
LEMMA RankOrders ==
  ASSUME NEW s \in Seq(Nat)
  PROVE  /\ \A i \in DOMAIN s : Rank(s, i) \in 1..Len(s)
         /\ \A i, j \in DOMAIN s : Precedes(s, i, j) => Rank(s, i) < Rank(s, j)
<1> DEFINE D == DOMAIN s
           Earlier(i) == {j \in D : Precedes(s, j, i)}
<1>1. D = 1..Len(s) /\ Len(s) \in Nat /\ \A i \in D : s[i] \in Nat /\ i \in Nat
  OBVIOUS
<1>2. IsFiniteSet(D) /\ Cardinality(D) = Len(s)
  <2> DEFINE len == Len(s)
  <2>1. len \in Int /\ 1 \in Int /\ len >= 0
    BY <1>1
  <2> HIDE DEF len
  <2>2. IsFiniteSet(1..len) /\ Cardinality(1..len) = IF 1 > len THEN 0 ELSE len - 1 + 1
    BY <2>1, FS_Interval
  <2>3. IsFiniteSet(1..len) /\ Cardinality(1..len) = len
    BY <2>1, <2>2
  <2> QED  BY <1>1, <2>3 DEF len
<1>3. \A i \in D : Rank(s, i) = Cardinality(Earlier(i)) + 1
  BY DEF Rank
<1>4. \A i \in D : i \notin Earlier(i)
  BY <1>1 DEF Precedes
<1>5. \A i, j \in D : Precedes(s, i, j) => Earlier(i) \cup {i} \subseteq Earlier(j)
  <2> SUFFICES ASSUME NEW i \in D, NEW j \in D, Precedes(s, i, j), NEW k \in D, Precedes(s, k, i)
               PROVE  Precedes(s, k, j)
    OBVIOUS
  <2> HIDE DEF D
  <2> QED  BY <1>1, SMTT(30) DEF Precedes
<1> HIDE DEF Earlier, D
<1>6. \A i \in D : /\ Earlier(i) \in SUBSET D /\ IsFiniteSet(Earlier(i))
                   /\ Cardinality(Earlier(i)) \in Nat
                   /\ Cardinality(Earlier(i) \cup {i}) = Cardinality(Earlier(i)) + 1
  <2> SUFFICES ASSUME NEW i \in D
               PROVE  /\ Earlier(i) \in SUBSET D /\ IsFiniteSet(Earlier(i))
                      /\ Cardinality(Earlier(i)) \in Nat
                      /\ Cardinality(Earlier(i) \cup {i}) = Cardinality(Earlier(i)) + 1
    OBVIOUS
  <2>1. Earlier(i) \in SUBSET D
    BY DEF Earlier
  <2>2. IsFiniteSet(Earlier(i))
    BY <1>2, <2>1, FS_Subset
  <2> QED  BY <1>4, <2>1, <2>2, FS_CardinalityType, FS_AddElement
<1>7. ASSUME NEW i \in D PROVE Rank(s, i) \in 1..Len(s)
  <2>1. Earlier(i) \cup {i} \in SUBSET D
    BY <1>6
  <2>2. Cardinality(Earlier(i) \cup {i}) <= Cardinality(D)
    BY <1>2, <2>1, FS_Subset
  <2> QED  BY <1>1, <1>2, <1>3, <1>6, <2>2
<1>8. ASSUME NEW i \in D, NEW j \in D, Precedes(s, i, j) PROVE Rank(s, i) < Rank(s, j)
  <2>1. Earlier(i) \cup {i} \in SUBSET Earlier(j)
    BY <1>5, <1>8
  <2>2. Cardinality(Earlier(i) \cup {i}) <= Cardinality(Earlier(j))
    BY <1>6, <2>1, FS_Subset
  <2>3. Cardinality(Earlier(i)) \in Nat /\ Cardinality(Earlier(j)) \in Nat
    BY <1>6
  <2>4. Cardinality(Earlier(i)) + 1 <= Cardinality(Earlier(j))
    BY <1>6, <2>2
  <2>5. Rank(s, i) = Cardinality(Earlier(i)) + 1 /\ Rank(s, j) = Cardinality(Earlier(j)) + 1
    BY <1>3
  <2> QED  BY <2>3, <2>4, <2>5
<1> QED  BY <1>7, <1>8 DEF D

\* The sorted list: the entries of the given one, each once, in ascending order.
LEMMA SortedSorts ==
  ASSUME NEW s \in Seq(Nat)
  PROVE  \E place \in [1..Len(s) -> 1..Len(s)] :
           /\ \A i \in 1..Len(s) : \E k \in 1..Len(s) : place[k] = i
           /\ \A k, l \in 1..Len(s) : place[k] = place[l] => k = l
           /\ \A k \in 1..Len(s) : Sorted(s)[k] = s[place[k]]
           /\ \A k, l \in 1..Len(s) : k < l => s[place[k]] <= s[place[l]]
<1> DEFINE len == Len(s)
           I == 1..len
           rank == [i \in I |-> Rank(s, i)]
           place == [k \in I |-> CHOOSE i \in I : Rank(s, i) = k]
<1>1. len \in Nat /\ DOMAIN s = I /\ \A i \in I : s[i] \in Nat
  OBVIOUS
<1>2. /\ \A i \in I : Rank(s, i) \in I
      /\ \A i, j \in I : Precedes(s, i, j) => Rank(s, i) < Rank(s, j)
  BY <1>1, RankOrders
<1>3. \A i, j \in I : i # j => Precedes(s, i, j) \/ Precedes(s, j, i)
  <2>1. \A i \in I : i \in Nat
    BY <1>1
  <2> HIDE DEF I
  <2> QED  BY <1>1, <2>1 DEF Precedes
<1>4. \A i, j \in I : Rank(s, i) = Rank(s, j) => i = j
  <2>1. \A i \in I : Rank(s, i) \in Nat
    BY <1>1, <1>2
  <2> HIDE DEF I
  <2> QED  BY <1>2, <1>3, <2>1
<1>5. rank \in Injection(I, I)
  <2>1. rank \in [I -> I] /\ \A i, j \in I : rank[i] = rank[j] => i = j
    BY <1>2, <1>4
  <2> HIDE DEF I, rank
  <2> QED  BY <2>1, Fun_IsInj
<1>6. rank \in Surjection(I, I)
  <2>1. IsFiniteSet(I)
    BY <1>1, FS_Interval
  <2> HIDE DEF I, rank
  <2> QED  BY <1>5, <2>1, FS_Injection
<1>7. \A k \in I : \E i \in I : Rank(s, i) = k
  <2>1. \A k \in I : \E i \in I : rank[i] = k
    <3> HIDE DEF I, rank
    <3> QED  BY <1>6, Fun_SurjectionProperties
  <2> QED  BY <2>1
<1>8. \A k \in I : place[k] \in I /\ Rank(s, place[k]) = k
  <2> HIDE DEF I
  <2> QED  BY <1>7
<1>9. \A k \in I : Sorted(s)[k] = s[place[k]]
  BY <1>1 DEF Sorted
<1>10. place \in [I -> I]
  <2> HIDE DEF I
  <2> QED  BY <1>7
<1> HIDE DEF place
<1>11. \A i \in I : \E k \in I : place[k] = i
  <2> SUFFICES ASSUME NEW i \in I PROVE \E k \in I : place[k] = i
    OBVIOUS
  <2>1. Rank(s, i) \in I
    BY <1>2
  <2>2. place[Rank(s, i)] = i
    BY <1>4, <1>8, <2>1
  <2> QED  BY <2>1, <2>2
<1>12. \A k, l \in I : place[k] = place[l] => k = l
  BY <1>8
<1>13. ASSUME NEW k \in I, NEW l \in I, k < l PROVE s[place[k]] <= s[place[l]]
  <2>1. k \in Int /\ l \in Int /\ place[k] \in I /\ place[l] \in I
    BY <1>1, <1>8, <1>13
  <2>2. Rank(s, place[k]) = k /\ Rank(s, place[l]) = l
    BY <1>8
  <2>3. ~Precedes(s, place[l], place[k])
    <3>1. Precedes(s, place[l], place[k]) => Rank(s, place[l]) < Rank(s, place[k])
      BY <1>2, <2>1
    <3>2. ~(l < k)
      BY <1>13, <2>1
    <3> QED  BY <2>2, <3>1, <3>2
  <2>4. s[place[k]] \in Nat /\ s[place[l]] \in Nat
    BY <1>1, <2>1
  <2> QED  BY <2>3, <2>4 DEF Precedes
<1> QED  BY <1>9, <1>10, <1>11, <1>12, <1>13

\* A list has as many numbers as entries when and only when no number comes twice.
LEMMA DistinctCounts ==
  ASSUME NEW s \in Seq(Nat)
  PROVE  Cardinality(Range(s)) = Len(s) <=> Distinct(s)
<1> DEFINE len == Len(s)
           I == 1..len
           R == Range(s)
<1>1. len \in Nat /\ DOMAIN s = I /\ s \in [I -> Nat]
  OBVIOUS
<1>2. IsFiniteSet(I) /\ Cardinality(I) = len
  <2>1. len \in Int /\ 1 \in Int /\ len >= 0
    BY <1>1
  <2> HIDE DEF len
  <2>2. IsFiniteSet(1..len) /\ Cardinality(1..len) = IF 1 > len THEN 0 ELSE len - 1 + 1
    BY <2>1, FS_Interval
  <2> QED  BY <2>1, <2>2
<1> HIDE DEF I, len
<1>3. s \in Surjection(I, R)
  BY <1>1, Fun_RangeProperties
<1>4. Cardinality(R) = Cardinality(I) <=> s \in Injection(I, R)
  <2> HIDE DEF R
  <2> QED  BY <1>2, <1>3, FS_Surjection
<1>5. s \in Injection(I, R) <=> \A i, j \in I : s[i] = s[j] => i = j
  <2>1. s \in [I -> R]
    <3> HIDE DEF R
    <3> QED  BY <1>3, Fun_SurjectionProperties
  <2> HIDE DEF R
  <2>2. s \in Injection(I, R) => \A i, j \in I : s[i] = s[j] => i = j
    BY Fun_InjectionProperties
  <2>3. (\A i, j \in I : s[i] = s[j] => i = j) => s \in Injection(I, R)
    BY <2>1, Fun_IsInj
  <2> QED  BY <2>2, <2>3
<1> QED  BY <1>1, <1>2, <1>4, <1>5 DEF Distinct, R, len

LEMMA ValidIsTicket ==
  ASSUME NEW s \in Seq(Nat), NEW c \in Nat, NEW m \in Nat, ValidNumberDomain(c, m)
  PROVE  ValidTicketNumbers(s, c, m) <=>
           /\ Cardinality(Range(s)) = Len(s) /\ Len(s) = c
           /\ \A i \in DOMAIN s : 1 <= s[i] /\ s[i] <= m
<1> DEFINE len == Len(s)
           I == 1..len
           t == Sorted(s)
<1>1. len \in Nat /\ DOMAIN s = I /\ \A i \in I : s[i] \in Nat
  OBVIOUS
<1>2. PICK place \in [I -> I] :
        /\ \A i \in I : \E k \in I : place[k] = i
        /\ \A k, l \in I : place[k] = place[l] => k = l
        /\ \A k \in I : t[k] = s[place[k]]
        /\ \A k, l \in I : k < l => s[place[k]] <= s[place[l]]
  BY SortedSorts
<1>3. /\ t \in Seq(Nat) /\ Len(t) = len /\ DOMAIN t = I
  <2>1. t \in [I -> Nat]
    <3>1. t = [k \in I |-> s[CHOOSE i \in DOMAIN s : Rank(s, i) = k]]
      BY DEF Sorted
    <3>2. \A k \in I : t[k] \in Nat
      BY <1>1, <1>2
    <3> HIDE DEF I, t
    <3> QED  BY <3>1, <3>2
  <2> HIDE DEF t, len
  <2> QED  BY <1>1, <2>1
<1> HIDE DEF t
<1>4. ValidTicketNumbers(s, c, m) <=>
        /\ len = c /\ \A i \in 1..(len - 1) : t[i] # t[i + 1]
        /\ len # 0 => t[1] >= 1 /\ t[len] <= m
  <2>1. t # <<>> <=> len # 0
    <3> HIDE DEF len
    <3> QED  BY <1>1, <1>3
  <2> QED  BY <1>3, <2>1 DEF ValidTicketNumbers, t
<1>5. \A k, l \in I : k < l => t[k] <= t[l]
  BY <1>2
<1>6. \A k \in I : t[k] \in Nat
  BY <1>1, <1>2
<1> HIDE DEF len
<1>7. (\A i \in 1..(len - 1) : t[i] # t[i + 1]) <=> \A k, l \in I : t[k] = t[l] => k = l
  <2>1. ASSUME \A i \in 1..(len - 1) : t[i] # t[i + 1], NEW k \in I, NEW l \in I, k < l
        PROVE  t[k] < t[l]
    <3>1. k \in 1..(len - 1) /\ k + 1 \in I /\ k < k + 1 /\ (k + 1 = l \/ k + 1 < l)
      BY <1>1, <2>1
    <3>2. t[k] <= t[k + 1] /\ t[k + 1] <= t[l]
      <4>1. t[k + 1] <= t[k + 1]
        BY <1>6, <3>1
      <4> QED  BY <1>5, <3>1, <4>1
    <3> QED  BY <1>6, <2>1, <3>1, <3>2
  <2>2. ASSUME \A i \in 1..(len - 1) : t[i] # t[i + 1], NEW k \in I, NEW l \in I, t[k] = t[l]
        PROVE  k = l
    <3>1. k \in Int /\ l \in Int /\ t[k] \in Nat /\ t[l] \in Nat
      BY <1>1, <1>6
    <3>2. ~(t[k] < t[l]) /\ ~(t[l] < t[k])
      BY <2>2, <3>1
    <3> QED  BY <2>1, <2>2, <3>1, <3>2
  <2>3. ASSUME \A k, l \in I : t[k] = t[l] => k = l, NEW i \in 1..(len - 1)
        PROVE  t[i] # t[i + 1]
    <3>1. i \in I /\ i + 1 \in I /\ i # i + 1
      BY <1>1
    <3> QED  BY <2>3, <3>1
  <2> QED  BY <2>2, <2>3
<1>8. (\A k, l \in I : t[k] = t[l] => k = l) <=> \A i, j \in I : s[i] = s[j] => i = j
  <2> HIDE DEF I
  <2>1. ASSUME \A k, l \in I : t[k] = t[l] => k = l, NEW i \in I, NEW j \in I, s[i] = s[j]
        PROVE  i = j
    <3>1. PICK k \in I : place[k] = i
      BY <1>2
    <3>2. PICK l \in I : place[l] = j
      BY <1>2
    <3> QED  BY <1>2, <2>1, <3>1, <3>2
  <2>2. ASSUME \A i, j \in I : s[i] = s[j] => i = j, NEW k \in I, NEW l \in I, t[k] = t[l]
        PROVE  k = l
    <3>1. place[k] \in I /\ place[l] \in I
      OBVIOUS
    <3> QED  BY <1>2, <2>2, <3>1
  <2> QED  BY <2>1, <2>2
<1>9. len # 0 => ((t[1] >= 1 /\ t[len] <= m) <=> \A i \in I : 1 <= s[i] /\ s[i] <= m)
  <2> SUFFICES ASSUME len # 0
               PROVE  (t[1] >= 1 /\ t[len] <= m) <=> \A i \in I : 1 <= s[i] /\ s[i] <= m
    OBVIOUS
  <2>1. 1 \in I /\ len \in I /\ \A k \in I : k \in Int /\ 1 <= k /\ k <= len
    BY <1>1
  <2> HIDE DEF I
  <2>2. \A k \in I : t[1] <= t[k] /\ t[k] <= t[len]
    <3> SUFFICES ASSUME NEW k \in I PROVE t[1] <= t[k] /\ t[k] <= t[len]
      OBVIOUS
    <3>1. (k = 1 \/ 1 < k) /\ (k = len \/ k < len)
      <4>1. k \in Int /\ 1 <= k /\ k <= len /\ len \in Nat
        BY <1>1, <2>1
      <4> HIDE DEF t
      <4> QED  BY <4>1, SMTT(30)
    <3>2. t[1] \in Nat /\ t[k] \in Nat /\ t[len] \in Nat
      BY <1>6, <2>1
    <3> QED  BY <1>5, <2>1, <3>1, <3>2
  <2>3. ASSUME t[1] >= 1, t[len] <= m, NEW i \in I PROVE 1 <= s[i] /\ s[i] <= m
    <3>1. PICK k \in I : place[k] = i
      BY <1>2
    <3>2. t[k] = s[i]
      BY <1>2, <3>1
    <3>3. t[1] <= t[k] /\ t[k] <= t[len]
      BY <2>2
    <3>4. t[1] \in Nat /\ t[k] \in Nat /\ t[len] \in Nat
      BY <1>6, <2>1
    <3> QED  BY <2>3, <3>2, <3>3, <3>4
  <2>4. ASSUME \A i \in I : 1 <= s[i] /\ s[i] <= m PROVE t[1] >= 1 /\ t[len] <= m
    <3>1. t[1] = s[place[1]] /\ place[1] \in I /\ t[len] = s[place[len]] /\ place[len] \in I
      BY <1>2, <2>1
    <3> QED  BY <1>1, <2>4, <3>1
  <2> QED  BY <2>3, <2>4
<1>10. len = 0 => I = {}
  OBVIOUS
<1>11. Cardinality(Range(s)) = len <=> \A i, j \in I : s[i] = s[j] => i = j
  BY <1>1, DistinctCounts DEF Distinct, len
<1> HIDE DEF I
<1> QED  BY <1>1, <1>4, <1>7, <1>8, <1>9, <1>10, <1>11 DEF len

\* For every list of numbers a buyer may send and every valid domain, it is accepted
\* exactly when it holds the right number of distinct numbers of the domain
\* (validate_ticket_numbers).
THEOREM AcceptsExactlyTicketsAlways == PickSpec => []AcceptsExactlyTickets
<1>1. PickInv => AcceptsExactlyTickets
  <2> SUFFICES ASSUME PickInv, NEW numbers \in SeqOf(Bytes, MaxNumbers)
               PROVE  ValidTicketNumbers(numbers, count, number_max) <=>
                        /\ Cardinality(Range(numbers)) = Len(numbers) /\ Len(numbers) = count
                        /\ \A i \in DOMAIN numbers : 1 <= numbers[i] /\ numbers[i] <= number_max
    BY DEF AcceptsExactlyTickets
  <2>1. count \in Nat /\ number_max \in Nat /\ ValidNumberDomain(count, number_max)
    BY PicksAssumption DEF PickInv, PickTypeOK, Bytes, ValidNumberDomain
  <2>2. numbers \in Seq(Nat)
    <3>1. PICK k \in 0..MaxNumbers : numbers \in [1..k -> Bytes]
      BY DEF SeqOf
    <3>2. k \in Nat /\ Bytes \subseteq Nat
      BY DEF Bytes
    <3>3. numbers \in [1..k -> Nat]
      BY <3>1, <3>2
    <3> QED  BY <3>2, <3>3
  <2> QED  BY <2>1, <2>2, ValidIsTicket
<1> QED  BY <1>1, PickInvariant, PTL
=============================================================================
