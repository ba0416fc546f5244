------------------------------ MODULE Schedule ------------------------------
(***************************************************************************)
(* When a round closes and which drand beacon it is bound to:              *)
(* next_close_at and drand_round_after of contracts/winsaf/src/contract.rs *)
(* Times are seconds.  MaxTime stands for u64::MAX, where the checked      *)
(* arithmetic of next_close_at fails and with it the whole message.        *)
(***************************************************************************)
EXTENDS Integers

CONSTANT MaxTime
ASSUME MaxTimeAssumption == MaxTime \in Nat

\* schedule_anchor: None
NoAnchor == -1

\* The part of Config that next_close_at reads.
ScheduleConfig == [draw_interval : Nat \ {0}, schedule_anchor : Nat \cup {NoAnchor}]

\* With a slip, for the checks: the last grid point that is not later.
GridPointBefore(config, opens_at) ==
  opens_at - ((opens_at - config.schedule_anchor) % config.draw_interval)

\* The first grid point anchor + k * draw_interval strictly after opens_at.
NextGridPoint(config, opens_at) ==
  LET interval == config.draw_interval
      anchor   == config.schedule_anchor
  IN  anchor + (((opens_at - anchor) \div interval) + 1) * interval

\* A grid point too near to leave a sales window is passed over for the next.
GridClose(config, opens_at) ==
  LET candidate == NextGridPoint(config, opens_at)
  IN  IF candidate - opens_at < config.draw_interval \div 4
        THEN candidate + config.draw_interval
        ELSE candidate

NextCloseAt(config, opens_at) ==
  CASE config.schedule_anchor = NoAnchor -> opens_at + config.draw_interval
    [] config.schedule_anchor > opens_at -> config.schedule_anchor
    [] OTHER -> GridClose(config, opens_at)

\* No checked operation of next_close_at overflows; the floating close time is
\* computed, and can fail, whether or not it is used.
Schedulable(config, opens_at) ==
  /\ opens_at + config.draw_interval <= MaxTime
  /\ NextCloseAt(config, opens_at) <= MaxTime

\* drand round R is published at genesis + (R-1) * period.
PublishTime(R, genesis, period) == genesis + (R - 1) * period

\* With a slip: the beacon published at the close or last before it.
DrandRoundAt(close_time, genesis, period) ==
  IF period = 0 \/ close_time < genesis THEN 1 ELSE ((close_time - genesis) \div period) + 1

DrandRoundAfter(close_time, genesis, period) ==
  IF period = 0 \/ close_time < genesis
    THEN 1
    ELSE ((close_time - genesis) \div period) + 2
=============================================================================
