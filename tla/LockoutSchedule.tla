-------------------------- MODULE LockoutSchedule --------------------------
(***************************************************************************)
(* How many minutes a failure locks an account for.  The password check    *)
(* (login_lockout.py) and the second factor (mfa_services.py) each have a  *)
(* version; they differ in what they do with a threshold of zero.          *)
(***************************************************************************)
EXTENDS Integers, Sequences

NoLockout == -1        \* None
DivisionByZero == -2   \* the ZeroDivisionError of failed_attempts // 0

Lesser(a, b) == IF a <= b THEN a ELSE b

\* schedule[min((failed - threshold) // threshold, len(schedule) - 1)], from 0
\* Faulty variant: the periods start over.
CyclingPeriods(failed, threshold, schedule) ==
  schedule[(((failed - threshold) \div threshold) % Len(schedule)) + 1]
ScheduledMinutes(failed, threshold, schedule) ==
  schedule[Lesser((failed - threshold) \div threshold, Len(schedule) - 1) + 1]

\* Faulty variants, here and below: the threshold itself does not lock.
OnlyAboveThreshold(failed, threshold, schedule) ==
  IF threshold <= 0 \/ failed <= threshold \/ schedule = <<>>
  THEN NoLockout
  ELSE ScheduledMinutes(failed, threshold, schedule)
PasswordMinutes(failed, threshold, schedule) ==
  IF threshold <= 0 \/ failed < threshold \/ schedule = <<>>
  THEN NoLockout
  ELSE ScheduledMinutes(failed, threshold, schedule)

MfaOnlyAboveThreshold(failed, threshold, schedule) ==
  IF failed <= threshold \/ schedule = <<>> THEN NoLockout
  ELSE IF threshold = 0 THEN DivisionByZero
  ELSE ScheduledMinutes(failed, threshold, schedule)
MfaMinutes(failed, threshold, schedule) ==
  IF failed < threshold \/ schedule = <<>> THEN NoLockout
  ELSE IF threshold = 0 THEN DivisionByZero
  ELSE ScheduledMinutes(failed, threshold, schedule)

Nondecreasing(schedule) ==
  \A i, j \in 1..Len(schedule) : i <= j => schedule[i] <= schedule[j]
=============================================================================
