-------------------------- MODULE LockoutReference --------------------------
(***************************************************************************)
(* What the two schedule computations of LockoutSchedule should give for n *)
(* failures, whatever the threshold and the schedule.                      *)
(***************************************************************************)
EXTENDS LockoutSchedule, FiniteSets

\* The bounds: thresholds, and schedules of at most three periods of at most three
\* minutes.
Thresholds == 0..4
Schedules == UNION {[1..n -> 1..3] : n \in 0..3}

\* Reference: the level of an account is the number of times its failures
\* reached a multiple of the threshold; level k locks for the k-th period of
\* the schedule, and for the last one from there on.
Level(n, threshold) == Cardinality({k \in 1..n : k % threshold = 0})
Reference(n, threshold, schedule) ==
  IF threshold = 0 \/ Level(n, threshold) = 0 \/ schedule = <<>> THEN NoLockout
  ELSE schedule[Lesser(Level(n, threshold), Len(schedule))]

PasswordFollows(n) ==
  \A threshold \in Thresholds, schedule \in Schedules :
    PasswordMinutes(n, threshold, schedule) = Reference(n, threshold, schedule)

MfaFollows(n) ==
  \A threshold \in Thresholds, schedule \in Schedules :
    MfaMinutes(n, threshold, schedule) =
      IF threshold = 0 /\ schedule # <<>> THEN DivisionByZero
      ELSE Reference(n, threshold, schedule)

Escalates(n) ==
  \A threshold \in Thresholds, schedule \in Schedules :
    Nondecreasing(schedule) =>
      PasswordMinutes(n, threshold, schedule) <= PasswordMinutes(n + 1, threshold, schedule)
=============================================================================
