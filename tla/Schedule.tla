-------------------------------- MODULE Schedule --------------------------------
(***************************************************************************)
(* When is a workflow or a standalone task due?  The pure part of          *)
(* src/scheduler.go, over an abstract time: instants are natural numbers,  *)
(* PerMinute of them to a minute, and a cron expression is the set of      *)
(* instants it names.  It is in fact two sets: computeLastFiring reads the *)
(* expression in the zone of the daemon's clock, the test of the current   *)
(* minute reads it in UTC, and neither looks at the configured zone.       *)
(***************************************************************************)
EXTENDS Integers

CONSTANTS PerMinute,   \* instants in a minute
          Lookback     \* how far back computeLastFiring looks (32 days)

ASSUME PerMinuteAssumption == PerMinute \in Nat \ {0}
ASSUME LookbackAssumption == Lookback \in Nat \ {0}

(* A nil *time.Time: before every instant.                                 *)
NoTime == -1

Instants == Nat
Times == Instants \cup {NoTime}

(* A schedule: where its expression fires in the daemon's zone and in UTC. *)
(* "on-demand" and the empty schedule fire nowhere.                        *)
Schedules == [local : SUBSET Instants, utc : SUBSET Instants]
OnDemand == [local |-> {}, utc |-> {}]

(* The most recent firing at or before now, within the lookback.           *)
Fired(sched, now) == {t \in sched.local : now - Lookback < t /\ t <= now}

LastFiring(sched, now) ==
  IF Fired(sched, now) = {}
    THEN NoTime
    ELSE CHOOSE t \in Fired(sched, now) : \A u \in Fired(sched, now) : u <= t

(* now.Truncate(time.Minute)                                               *)
MinuteOf(now) == now - (now % PerMinute)

InWindow(sched, now) == MinuteOf(now) \in sched.utc

(* Slip: the catchup flag is ignored.                                      *)
IsDueWithoutCatchup(sched, catchup, state, now) ==
  LET last == LastFiring(sched, now)
  IN  /\ last # NoTime
      /\ InWindow(sched, now)
      /\ \/ state.lastSuccess = NoTime
         \/ state.lastSuccess < last /\ state.lastAttempted < last

(* isDue.  Without a success on record only the current minute counts; an  *)
(* attempt on record is looked at only when there is a success on record.  *)
IsDue(sched, catchup, state, now) ==
  LET last == LastFiring(sched, now)
  IN  /\ last # NoTime
      /\ \/ /\ state.lastSuccess = NoTime
            /\ InWindow(sched, now)
         \/ /\ state.lastSuccess # NoTime
            /\ state.lastSuccess < last
            /\ state.lastAttempted < last
            /\ catchup \/ InWindow(sched, now)
=================================================================================
