-------------------------- MODULE PasswordLockout --------------------------
(***************************************************************************)
(* The password check of a login and its temporary lockout                 *)
(* (serializers.py, login_lockout.py, authentication_backends.py), for one *)
(* account, with requests that run at the same time, and with the profile  *)
(* edits of the account, which save the whole row (use_cases.py).          *)
(***************************************************************************)
EXTENDS Integers, FiniteSets, LockoutReference

CONSTANTS
  Request,     \* threads handling a login
  Editor,      \* threads handling a profile edit
  MaxFailures, \* where counters stop: beyond it they are all treated alike
  Threshold,   \* AUTH_PASSWORD_LOCKOUT_FAILURE_THRESHOLD
  Schedule     \* AUTH_PASSWORD_LOCKOUT_MINUTES

ASSUME ThreadAssumption ==
  IsFiniteSet(Request) /\ Request # {} /\ Request \cap Editor = {}
ASSUME NumberAssumption ==
  /\ Threshold \in Nat
  /\ Schedule \in Seq(Nat \ {0})
  /\ MaxFailures \in Nat /\ MaxFailures >= Threshold * Len(Schedule)

VARIABLES
  row,     \* the account's row: failures, minutes left of the lock, is_active
  pc,      \* where a login or an edit is
  right,   \* the login brings the right password
  mine,    \* the row a login or an edit read
  \* history
  since,   \* failures recorded since a login last reset the counter
  total,   \* failures ever recorded
  late     \* failures recorded in a row while the account was locked

vars == <<row, pc, right, mine, since, total, late>>

Never == -1   \* password_locked_until IS NULL; 0 is a lock that ran out
Row == [failed : Nat, lock : Nat \cup {Never}, active : BOOLEAN]
NewRow == [failed |-> 0, lock |-> Never, active |-> TRUE]
Thread == Request \cup Editor
Steps == {"idle", "authenticate", "record", "reset", "save"}

Locked(account) == account.lock > 0

\* A counter that stops at MaxFailures, where the schedule has long come to its
\* last period.
Increment(n) == IF n < MaxFailures THEN n + 1 ELSE n

Goto(r, step) == pc' = [pc EXCEPT ![r] = step]
Finish(r) ==
  /\ Goto(r, "idle")
  /\ mine' = [mine EXCEPT ![r] = NewRow]
  /\ right' = [right EXCEPT ![r] = FALSE]

(***************************************************************************)
(* POST token: the candidate is read and refused while it is locked (no    *)
(* step); authenticate reads the row again.                                *)
(***************************************************************************)
\* Faulty variant: the lock is not looked at.
NeverRefused == FALSE
Refused == Locked(row)
BeginLogin(r, password) ==
  /\ pc[r] = "idle"
  /\ ~Refused
  /\ Goto(r, "authenticate")
  /\ mine' = [mine EXCEPT ![r] = row]
  /\ right' = [right EXCEPT ![r] = password]
  /\ UNCHANGED <<row, since, total, late>>

\* The candidate read before decides whether a failure counts, the row read now
\* what a success resets.
Authenticate(r) ==
  /\ pc[r] = "authenticate"
  /\ IF right[r] /\ row.active
     THEN Goto(r, "reset") /\ mine' = [mine EXCEPT ![r] = row] /\ UNCHANGED right
     ELSE IF mine[r].active THEN Goto(r, "record") /\ UNCHANGED <<mine, right>>
     ELSE Finish(r)
  /\ UNCHANGED <<row, since, total, late>>

\* record_password_failure increments the row it locked (stored), not the one
\* the login read before (read).
\* Faulty variants: every failure locks; the counter is taken from the row read
\* before; None is not told from a period.
LockedEarly(stored, read) ==
  [stored EXCEPT !.failed = Increment(@), !.lock = Schedule[1]]
FailureOfRead(stored, read) ==
  [stored EXCEPT !.failed = Increment(read.failed)]
OneMinuteShort(stored, read) ==
  [stored EXCEPT !.failed = Increment(@),
                 !.lock = PasswordMinutes(Increment(stored.failed), Threshold, Schedule) - 1]
Failure(stored, read) ==
  LET minutes == PasswordMinutes(Increment(stored.failed), Threshold, Schedule)
  IN  [stored EXCEPT !.failed = Increment(@),
                     !.lock = IF minutes = NoLockout THEN @ ELSE minutes]

RecordFailure(r) ==
  /\ pc[r] = "record"
  /\ row' = Failure(row, mine[r])
  /\ since' = Increment(since)
  /\ total' = Increment(total)
  /\ late' = IF Locked(row) THEN Increment(late) ELSE 0
  /\ Finish(r)

\* reset_password_failures writes a column only if the row it read had it set.
ResetFailures(r) ==
  /\ pc[r] = "reset"
  /\ row' = [row EXCEPT !.failed = IF mine[r].failed # 0 THEN 0 ELSE @,
                        !.lock = IF mine[r].lock # Never THEN Never ELSE @]
  /\ since' = IF mine[r].failed # 0 THEN 0 ELSE since
  /\ Finish(r)
  /\ UNCHANGED <<total, late>>

(***************************************************************************)
(* PATCH of the profile: get_object reads the row, user.save() writes all  *)
(* its columns back.                                                       *)
(***************************************************************************)
\* The authentication of the request found the account active.
BeginEdit(e) ==
  /\ pc[e] = "idle"
  /\ row.active
  /\ Goto(e, "save")
  /\ mine' = [mine EXCEPT ![e] = row]
  /\ UNCHANGED <<row, right, since, total, late>>

SaveEdit(e) ==
  /\ pc[e] = "save"
  /\ row' = mine[e]
  /\ Finish(e)
  /\ UNCHANGED <<since, total, late>>

(***************************************************************************)
(* The environment.                                                        *)
(***************************************************************************)
Tick ==
  /\ \E t \in {row} \cup {mine[x] : x \in Thread} : Locked(t)
  /\ LET aged(account) == [account EXCEPT !.lock = IF Locked(account) THEN @ - 1 ELSE @]
     IN  row' = aged(row) /\ mine' = [x \in Thread |-> aged(mine[x])]
  /\ UNCHANGED <<pc, right, since, total, late>>

SetActive ==
  /\ row' = [row EXCEPT !.active = ~@]
  /\ UNCHANGED <<pc, right, mine, since, total, late>>

Crash(x) ==
  /\ pc[x] # "idle"
  /\ Finish(x)
  /\ UNCHANGED <<row, since, total, late>>

Init ==
  /\ row = NewRow
  /\ pc = [x \in Thread |-> "idle"]
  /\ right = [x \in Thread |-> FALSE]
  /\ mine = [x \in Thread |-> NewRow]
  /\ since = 0 /\ total = 0 /\ late = 0

Next ==
  \/ \E r \in Request :
       \/ \E password \in BOOLEAN : BeginLogin(r, password)
       \/ Authenticate(r) \/ RecordFailure(r) \/ ResetFailures(r)
  \/ \E e \in Editor : BeginEdit(e) \/ SaveEdit(e)
  \/ \E x \in Thread : Crash(x)
  \/ Tick
  \/ SetActive

Spec == Init /\ [][Next]_vars

\* Time passes, whatever the handlers do.
FairSpec == Spec /\ WF_vars(Tick)

(***************************************************************************)
(* Properties                                                              *)
(***************************************************************************)
TypeOK ==
  /\ row \in Row
  /\ pc \in [Thread -> Steps]
  /\ right \in [Thread -> BOOLEAN]
  /\ mine \in [Thread -> Row]
  /\ {since, total, late} \subseteq Nat

\* Failures are counted one by one, however many requests fail at once.
FailuresCounted == row.failed = since

\* Logins that are past the lock check and whose failure may still be recorded.
InFlight == {r \in Request : pc[r] \in {"authenticate", "record"}}

\* The lock stops password guessing: once it is set, only requests that were
\* under way already can still fail, at most one per other thread; the
\* failures recorded and those that may follow stay within that bound.
LockBoundsGuesses ==
  /\ late <= Cardinality(Request) - 1
  /\ Locked(row) => late + Cardinality(InFlight) <= Cardinality(Request) - 1

\* No interleaving of logins and edits locks an account on which fewer failures
\* than the threshold were ever recorded.
NoLockWithoutCause == row.lock # Never => total >= Threshold

\* An account no login is looking at may fail up to MoreFailures times more.
MoreFailures == 14
NextFailures ==
  IF \A r \in Request : pc[r] = "idle" THEN row.failed..(row.failed + MoreFailures) ELSE {}

\* The password lockout (login_lockout.py) follows the reference for every
\* threshold, 0 included, which disables it.
PasswordScheduleRight == \A n \in NextFailures : PasswordFollows(n)

\* The second-factor lockout (mfa_services.py) does too, but a threshold of 0
\* makes it fail with a ZeroDivisionError instead of disabling it.
MfaScheduleRight == \A n \in NextFailures : MfaFollows(n)

\* With a schedule that does not decrease, a further failure locks for at least
\* as long as the one before.
LockoutsEscalate == \A n \in NextFailures : Escalates(n)

\* A lock ends: the failures that can extend it run out.
LockEnds == Locked(row) ~> ~Locked(row)

\* identity/tests.py:137-138: a login that succeeds leaves no failures and no
\* lock, the two go together.
NoLockWithoutFailures == row.failed = 0 => row.lock = Never
=============================================================================
