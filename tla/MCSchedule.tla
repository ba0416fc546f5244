----------------------------- MODULE MCSchedule -----------------------------
(***************************************************************************)
(* The schedule checked against what its comments promise, for every       *)
(* opening time up to a bound: an instance is a configuration and a time   *)
(* at which a round opens under it.                                        *)
(***************************************************************************)
EXTENDS Schedule, FiniteSetsExt

CONSTANTS Intervals, Anchors, Genesis, Periods, LastOpening

ASSUME InstanceAssumption ==
  /\ Intervals \subseteq Nat \ {0} /\ Anchors \subseteq Nat
  /\ Genesis \subseteq Nat /\ Periods \subseteq Nat \ {0}
  /\ LastOpening \in Nat

VARIABLES config, beacon, opens_at

Init ==
  /\ config \in [draw_interval : Intervals, schedule_anchor : Anchors \cup {NoAnchor}]
  /\ beacon \in [genesis : Genesis, period : Periods]
  /\ opens_at = 0

Next ==
  /\ opens_at < LastOpening
  /\ opens_at' = opens_at + 1
  /\ UNCHANGED <<config, beacon>>

Spec == Init /\ [][Next]_<<config, beacon, opens_at>>

closes_at == NextCloseAt(config, opens_at)

\* The grid of an anchored schedule, as far as a round could need it.
Grid == {config.schedule_anchor + k * config.draw_interval : k \in 0..(LastOpening + 2)}

UsableFrom(t) == {g \in Grid : g > t /\ g - t >= config.draw_interval \div 4}

\* An anchored round closes at the first point of the grid that leaves a usable
\* sales window, the anchor itself being usable whenever it lies ahead; so
\* instances that share an anchor and open while that point is usable draw together.
ClosesAtFirstUsable ==
  config.schedule_anchor # NoAnchor =>
    closes_at = IF config.schedule_anchor > opens_at THEN config.schedule_anchor
                ELSE Min(UsableFrom(opens_at))

\* The beacon a round is bound to is the first one published after its close, not
\* the one published at that very second, also for a close before the genesis.
FirstBeaconAfterClose ==
  LET published(R) == PublishTime(R, beacon.genesis, beacon.period)
      bound == DrandRoundAfter(closes_at, beacon.genesis, beacon.period)
  IN  /\ published(bound) > closes_at
      /\ \A R \in 1..(bound - 1) : published(R) <= closes_at
=============================================================================
