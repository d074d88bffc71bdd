----------------------- MODULE PasswordLockout_proofs -----------------------
(***************************************************************************)
(* Proofs about PasswordLockout, for any number of logins at once, any     *)
(* threshold and any schedule.                                             *)
(***************************************************************************)
EXTENDS PasswordLockout, LockoutSchedule_proofs, FiniteSetTheorems

\* A lockout is None or a number of minutes.
LEMMA MinutesType ==
  ASSUME NEW n \in Nat
  PROVE  PasswordMinutes(n, Threshold, Schedule) \in Nat \cup {NoLockout}
<1>1. Threshold \in Nat /\ Schedule \in Seq(Nat)
  BY NumberAssumption
<1>2. CASE Threshold = 0 \/ Schedule = <<>>
  BY <1>1, <1>2 DEF PasswordMinutes
<1>3. CASE Threshold # 0 /\ Schedule # <<>>
  <2>1. /\ n < Threshold => PasswordMinutes(n, Threshold, Schedule) = NoLockout
        /\ Threshold <= n => \E i \in 1..Len(Schedule) :
                               PasswordMinutes(n, Threshold, Schedule) = Schedule[i]
    BY <1>1, <1>3, LockoutInRange
  <2>2. \A i \in 1..Len(Schedule) : Schedule[i] \in Nat
    BY <1>1
  <2> QED BY <1>1, <2>1, <2>2
<1> QED BY <1>1, <1>2, <1>3

LEMMA IncrementType ==
  ASSUME NEW n \in Nat
  PROVE  Increment(n) \in Nat /\ Increment(n) <= n + 1
BY DEF Increment

\* A failure makes a row of a row.
LEMMA FailureType ==
  ASSUME NEW stored \in Row, NEW read \in Row
  PROVE  Failure(stored, read) \in Row
<1>1. Increment(stored.failed) \in Nat
  BY IncrementType DEF Row
<1> DEFINE minutes == PasswordMinutes(Increment(stored.failed), Threshold, Schedule)
           lock == IF minutes = NoLockout THEN stored.lock ELSE minutes
<1>2. minutes \in Nat \cup {NoLockout}
  BY <1>1, MinutesType
<1> HIDE DEF minutes
<1>3. lock \in Nat \cup {Never}
  BY <1>2 DEF Row
<1> HIDE DEF lock
<1> DEFINE counted == [stored EXCEPT !.failed = Increment(@)]
<1>4. counted \in Row
  BY <1>1 DEF Row
<1>5. [counted EXCEPT !.lock = lock] \in Row
  BY <1>3, <1>4 DEF Row
<1>6. Failure(stored, read) = [counted EXCEPT !.lock = lock]
  BY <1>4 DEF Failure, Row, minutes, lock
<1> QED BY <1>5, <1>6

\* Time makes a row of a row.
LEMMA AgedType ==
  ASSUME NEW account \in Row
  PROVE  [account EXCEPT !.lock = IF Locked(account) THEN @ - 1 ELSE @] \in Row
BY DEF Row, Locked, Never

LEMMA InitTypeOK == Init => TypeOK
BY DEF Init, TypeOK, Row, NewRow, Steps, Never

LEMMA NextTypeOK == TypeOK /\ [Next]_vars => TypeOK'
<1> SUFFICES ASSUME TypeOK, [Next]_vars PROVE TypeOK'
  OBVIOUS
<1> USE DEF TypeOK, Thread
<1>0. NewRow \in Row /\ \A x \in Thread : mine[x] \in Row
  BY DEF NewRow, Row, Never
<1>1. ASSUME NEW r \in Request, NEW password \in BOOLEAN, BeginLogin(r, password)
      PROVE  TypeOK'
  BY <1>1 DEF BeginLogin, Goto, Steps
<1>2. ASSUME NEW r \in Request, Authenticate(r) PROVE TypeOK'
  BY <1>0, <1>2 DEF Authenticate, Goto, Finish, Steps
<1>3. ASSUME NEW r \in Request, RecordFailure(r) PROVE TypeOK'
  <2>1. row' \in Row
    BY <1>0, <1>3, FailureType DEF RecordFailure
  <2>2. {since', total', late'} \subseteq Nat
    BY <1>3, IncrementType DEF RecordFailure
  <2> QED BY <1>0, <1>3, <2>1, <2>2 DEF RecordFailure, Goto, Finish, Steps
<1>4. ASSUME NEW r \in Request, ResetFailures(r) PROVE TypeOK'
  <2>1. row' \in Row
    BY <1>4 DEF ResetFailures, Row
  <2> QED BY <1>0, <1>4, <2>1 DEF ResetFailures, Goto, Finish, Steps
<1>5. ASSUME NEW e \in Editor, BeginEdit(e) PROVE TypeOK'
  BY <1>5 DEF BeginEdit, Goto, Steps
<1>6. ASSUME NEW e \in Editor, SaveEdit(e) PROVE TypeOK'
  BY <1>0, <1>6 DEF SaveEdit, Goto, Finish, Steps
<1>7. ASSUME NEW x \in Thread, Crash(x) PROVE TypeOK'
  BY <1>0, <1>7 DEF Crash, Goto, Finish, Steps
<1>8. CASE Tick
  <2> DEFINE aged(account) == [account EXCEPT !.lock = IF Locked(account) THEN @ - 1 ELSE @]
  <2>1. aged(row) \in Row /\ \A x \in Thread : aged(mine[x]) \in Row
    BY <1>0, AgedType
  <2>2. row' = aged(row) /\ mine' = [x \in Thread |-> aged(mine[x])]
    BY <1>8 DEF Tick
  <2> HIDE DEF aged
  <2> QED BY <1>8, <2>1, <2>2 DEF Tick
<1>9. CASE SetActive
  BY <1>9 DEF SetActive, Row
<1>10. CASE UNCHANGED vars
  BY <1>10 DEF vars
<1> QED BY <1>1, <1>2, <1>3, <1>4, <1>5, <1>6, <1>7, <1>8, <1>9, <1>10 DEF Next

\* The account's row and what the threads remember of it keep their types.
THEOREM TypeCorrect == Spec => []TypeOK
BY InitTypeOK, NextTypeOK, PTL DEF Spec

\* Failures are counted one by one as long as no profile edit saves the row:
\* neither concurrent failures nor a reset from a row read earlier lose one.
THEOREM CountedWithoutEdits ==
  ASSUME Editor = {}
  PROVE  Spec => []FailuresCounted
<1>1. Init => FailuresCounted
  BY DEF Init, FailuresCounted, NewRow
<1>2. TypeOK /\ FailuresCounted /\ [Next]_vars => FailuresCounted'
  <2> SUFFICES ASSUME TypeOK, FailuresCounted, [Next]_vars PROVE FailuresCounted'
    OBVIOUS
  <2> USE DEF FailuresCounted, TypeOK, Row
  <2>1. ASSUME NEW r \in Request, RecordFailure(r) PROVE FailuresCounted'
    BY <2>1 DEF RecordFailure, Failure
  <2>2. ASSUME NEW r \in Request, ResetFailures(r) PROVE FailuresCounted'
    BY <2>2 DEF ResetFailures
  <2>3. CASE Tick
    BY <2>3 DEF Tick
  <2>4. CASE SetActive
    BY <2>4 DEF SetActive
  <2>5. ASSUME NEW r \in Request, NEW password \in BOOLEAN,
               BeginLogin(r, password) \/ Authenticate(r)
        PROVE  FailuresCounted'
    BY <2>5 DEF BeginLogin, Authenticate
  <2>6. ASSUME NEW x \in Thread, Crash(x) PROVE FailuresCounted'
    BY <2>6 DEF Crash
  <2>7. CASE UNCHANGED vars
    BY <2>7 DEF vars
  <2> QED BY <2>1, <2>2, <2>3, <2>4, <2>5, <2>6, <2>7 DEF Next
<1> QED BY <1>1, <1>2, TypeCorrect, PTL DEF Spec

(***************************************************************************)
(* The bound on guesses.                                                   *)
(***************************************************************************)

\* A login that leaves the set of logins in flight makes it smaller by one.
LEMMA InFlightFinite == IsFiniteSet(InFlight) /\ Cardinality(InFlight) \in Nat
                        /\ Cardinality(Request) \in Nat
<1>1. InFlight \subseteq Request
  BY DEF InFlight
<1> QED BY <1>1, ThreadAssumption, FS_Subset, FS_CardinalityType

LEMMA SmallerSet ==
  ASSUME NEW S, NEW T, IsFiniteSet(S), T \subseteq S
  PROVE  /\ Cardinality(T) \in Nat /\ Cardinality(S) \in Nat
         /\ Cardinality(T) <= Cardinality(S)
         /\ \A x \in S \ T : Cardinality(T) <= Cardinality(S) - 1
<1>1. IsFiniteSet(T) /\ Cardinality(T) <= Cardinality(S)
  BY FS_Subset
<1>2. Cardinality(T) \in Nat /\ Cardinality(S) \in Nat
  BY <1>1, FS_CardinalityType
<1>3. ASSUME NEW x \in S \ T PROVE Cardinality(T) <= Cardinality(S) - 1
  <2>1. IsFiniteSet(S \ {x}) /\ Cardinality(S \ {x}) = Cardinality(S) - 1
    BY <1>3, FS_RemoveElement
  <2>2. T \subseteq S \ {x}
    BY <1>3
  <2> QED BY <2>1, <2>2, FS_Subset
<1> QED BY <1>1, <1>2, <1>3

\* While an account is locked a login can only leave the set in flight, and a
\* recorded failure takes one out; the failure that sets the lock is out itself.
THEOREM GuessesBounded ==
  ASSUME Editor = {}
  PROVE  Spec => []LockBoundsGuesses
<1> DEFINE N == Cardinality(Request)
<1>0. N \in Nat /\ 1 <= N
  BY ThreadAssumption, FS_CardinalityType, FS_EmptySet
<1>1. Init => LockBoundsGuesses
  BY <1>0 DEF Init, LockBoundsGuesses, NewRow, Locked, Never
<1>2. TypeOK /\ LockBoundsGuesses /\ [Next]_vars => LockBoundsGuesses'
  <2> SUFFICES ASSUME TypeOK, LockBoundsGuesses, [Next]_vars PROVE LockBoundsGuesses'
    OBVIOUS
  <2> USE DEF TypeOK, Thread
  <2>0. late \in Nat /\ Cardinality(InFlight) \in Nat
    BY InFlightFinite
  <2>1. ASSUME late' = late, InFlight' \subseteq InFlight, Locked(row') => Locked(row)
        PROVE  LockBoundsGuesses'
    <3>1. Cardinality(InFlight') \in Nat /\ Cardinality(InFlight') <= Cardinality(InFlight)
      BY <2>1, InFlightFinite, SmallerSet
    <3> QED BY <1>0, <2>0, <2>1, <3>1 DEF LockBoundsGuesses
  <2>2. ASSUME NEW r \in Request, NEW password \in BOOLEAN, BeginLogin(r, password)
        PROVE  LockBoundsGuesses'
    BY <2>2 DEF BeginLogin, Refused, LockBoundsGuesses
  <2>3. ASSUME NEW r \in Request, Authenticate(r) PROVE LockBoundsGuesses'
    BY <2>1, <2>3 DEF Authenticate, Goto, Finish, InFlight
  <2>4. ASSUME NEW r \in Request, RecordFailure(r) PROVE LockBoundsGuesses'
    <3>1. r \in InFlight /\ InFlight' \subseteq InFlight \ {r}
      BY <2>4 DEF RecordFailure, Goto, Finish, InFlight
    <3>2. Cardinality(InFlight') \in Nat /\ Cardinality(InFlight') <= Cardinality(InFlight) - 1
      BY <3>1, InFlightFinite, SmallerSet
    <3>3. Cardinality(InFlight') <= N - 1
      <4>1. InFlight' \subseteq Request /\ r \in Request \ InFlight'
        BY <3>1 DEF InFlight
      <4> QED BY <4>1, ThreadAssumption, SmallerSet
    <3>4. CASE Locked(row)
      <4>1. late' = Increment(late) /\ Increment(late) <= late + 1 /\ Increment(late) \in Nat
        BY <2>0, <2>4, <3>4, IncrementType DEF RecordFailure
      <4> QED BY <1>0, <2>0, <3>2, <3>4, <4>1 DEF LockBoundsGuesses
    <3>5. CASE ~Locked(row)
      <4>1. late' = 0
        BY <2>4, <3>5 DEF RecordFailure
      <4> QED BY <1>0, <3>2, <3>3, <4>1 DEF LockBoundsGuesses
    <3> QED BY <3>4, <3>5
  <2>5. ASSUME NEW r \in Request, ResetFailures(r) PROVE LockBoundsGuesses'
    <3>1. Locked(row') => Locked(row)
      BY <2>5 DEF ResetFailures, Locked, Row, Never
    <3> QED BY <2>1, <2>5, <3>1 DEF ResetFailures, Goto, Finish, InFlight
  <2>6. ASSUME NEW x \in Thread, Crash(x) PROVE LockBoundsGuesses'
    BY <2>1, <2>6 DEF Crash, Goto, Finish, InFlight
  <2>7. CASE Tick
    <3>1. Locked(row') => Locked(row)
      BY <2>7 DEF Tick, Locked, Row
    <3> QED BY <2>1, <2>7, <3>1 DEF Tick, InFlight
  <2>8. CASE SetActive
    <3>1. Locked(row') => Locked(row)
      BY <2>8 DEF SetActive, Locked, Row
    <3> QED BY <2>1, <2>8, <3>1 DEF SetActive, InFlight
  <2>9. CASE UNCHANGED vars
    BY <2>1, <2>9 DEF vars, InFlight
  <2> QED BY <2>2, <2>3, <2>4, <2>5, <2>6, <2>7, <2>8, <2>9 DEF Next
<1> QED BY <1>1, <1>2, TypeCorrect, PTL DEF Spec
-----------------------------------------------------------------------------
(* No lock without its failures, with profile edits: a row that an edit    *)
(* writes back was the account's once.                                     *)

\* A row that n failures account for.
Caused(account, n) ==
  /\ account.failed <= n
  /\ account.lock # Never => n >= Threshold

AllCaused == Caused(row, total) /\ \A x \in Thread : Caused(mine[x], total)

\* What n failures account for, one more does.
LEMMA CausedLater ==
  ASSUME NEW n \in Nat, NEW account \in Row, Caused(account, n)
  PROVE  Caused(account, Increment(n))
BY NumberAssumption DEF Caused, Increment, Row

\* A failure is counted in the row and in the total, and locks from the
\* threshold on.
LEMMA FailureCaused ==
  ASSUME NEW n \in Nat, NEW stored \in Row, NEW read \in Row, Caused(stored, n)
  PROVE  Caused(Failure(stored, read), Increment(n))
<1> DEFINE minutes == PasswordMinutes(Increment(stored.failed), Threshold, Schedule)
<1>1. stored.failed \in Nat /\ Increment(stored.failed) \in Nat /\ Increment(n) \in Nat
  BY IncrementType DEF Row
<1>2. Increment(stored.failed) <= Increment(n) /\ n <= Increment(n)
  BY <1>1, NumberAssumption DEF Caused, Increment
<1>3. minutes = NoLockout \/ Increment(stored.failed) >= Threshold
  BY <1>1, NumberAssumption DEF PasswordMinutes
<1>4. /\ Failure(stored, read).failed = Increment(stored.failed)
      /\ Failure(stored, read).lock = IF minutes = NoLockout THEN stored.lock ELSE minutes
  BY DEF Failure, Row
<1> HIDE DEF minutes
<1>5. CASE minutes = NoLockout
  BY <1>1, <1>2, <1>4, <1>5, NumberAssumption DEF Caused
<1>6. CASE minutes # NoLockout
  BY <1>1, <1>2, <1>3, <1>4, <1>6, NumberAssumption DEF Caused
<1> QED BY <1>5, <1>6

LEMMA NextAllCaused == TypeOK /\ AllCaused /\ [Next]_vars => AllCaused'
<1> SUFFICES ASSUME TypeOK, AllCaused, [Next]_vars PROVE AllCaused'
  OBVIOUS
<1> USE DEF Thread
<1>1. /\ row \in Row /\ total \in Nat /\ Caused(row, total) /\ Caused(NewRow, total)
      /\ \A x \in Thread : mine[x] \in Row /\ Caused(mine[x], total)
  BY DEF TypeOK, AllCaused, Caused, NewRow
\* Rows change places, and the total stays.
<1>2. ASSUME total' = total, row' \in {row} \cup {mine[x] : x \in Thread},
             \A x \in Thread : mine'[x] \in {mine[x], row, NewRow}
      PROVE  AllCaused'
  BY <1>1, <1>2 DEF AllCaused
<1>3. ASSUME NEW r \in Request, NEW password \in BOOLEAN, BeginLogin(r, password)
      PROVE  AllCaused'
  BY <1>2, <1>3 DEF BeginLogin, TypeOK
<1>4. ASSUME NEW r \in Request, Authenticate(r) PROVE AllCaused'
  BY <1>2, <1>4 DEF Authenticate, Finish, TypeOK
<1>5. ASSUME NEW r \in Request, RecordFailure(r) PROVE AllCaused'
  <2>1. Caused(row', total')
    BY <1>1, <1>5, FailureCaused DEF RecordFailure
  <2>2. \A x \in Thread : mine'[x] \in {mine[x], NewRow}
    BY <1>5 DEF RecordFailure, Finish, TypeOK
  <2>3. \A x \in Thread : Caused(mine[x], total') /\ Caused(NewRow, total')
    <3>1. NewRow \in Row
      BY DEF NewRow, Row, Never
    <3> QED BY <1>1, <1>5, <3>1, CausedLater DEF RecordFailure
  <2> QED BY <2>1, <2>2, <2>3 DEF AllCaused
<1>6. ASSUME NEW r \in Request, ResetFailures(r) PROVE AllCaused'
  <2>1. total' = total /\ \A x \in Thread : mine'[x] \in {mine[x], NewRow}
    BY <1>6 DEF ResetFailures, Finish, TypeOK
  <2>2. Caused(row', total)
    BY <1>1, <1>6 DEF ResetFailures, Caused, Row
  <2> QED BY <1>1, <2>1, <2>2 DEF AllCaused
<1>7. ASSUME NEW e \in Editor, BeginEdit(e) PROVE AllCaused'
  BY <1>2, <1>7 DEF BeginEdit, TypeOK
<1>8. ASSUME NEW e \in Editor, SaveEdit(e) PROVE AllCaused'
  BY <1>2, <1>8 DEF SaveEdit, Finish, TypeOK
<1>9. ASSUME NEW x \in Thread, Crash(x) PROVE AllCaused'
  BY <1>2, <1>9 DEF Crash, Finish, TypeOK
<1>10. CASE Tick
  <2> DEFINE aged(account) == [account EXCEPT !.lock = IF Locked(account) THEN @ - 1 ELSE @]
  <2>1. ASSUME NEW account \in Row, Caused(account, total) PROVE Caused(aged(account), total)
    BY <2>1 DEF Caused, Row, Locked, Never
  <2>2. row' = aged(row) /\ mine' = [x \in Thread |-> aged(mine[x])] /\ total' = total
    BY <1>10 DEF Tick
  <2> HIDE DEF aged
  <2> QED BY <1>1, <2>1, <2>2 DEF AllCaused
<1>11. CASE SetActive
  <2>1. row'.failed = row.failed /\ row'.lock = row.lock /\ UNCHANGED <<mine, total>>
    BY <1>1, <1>11 DEF SetActive, Row
  <2> QED BY <1>1, <2>1 DEF AllCaused, Caused
<1>12. CASE UNCHANGED vars
  BY <1>1, <1>12 DEF AllCaused, vars
<1> QED BY <1>3, <1>4, <1>5, <1>6, <1>7, <1>8, <1>9, <1>10, <1>11, <1>12 DEF Next

\* No account is locked on which fewer failures than the threshold were ever
\* recorded, whatever logins and edits interleave.
THEOREM LocksHaveCause == Spec => []NoLockWithoutCause
<1>1. Init => AllCaused
  BY DEF Init, AllCaused, Caused, NewRow
<1>2. AllCaused => NoLockWithoutCause
  BY DEF AllCaused, Caused, NoLockWithoutCause
<1> QED BY <1>1, <1>2, NextAllCaused, TypeCorrect, PTL DEF Spec

-----------------------------------------------------------------------------
(* The lockout schedules, at the counts an account reaches.                *)

LEMMA NextFailuresType == TypeOK => NextFailures \subseteq Nat
BY DEF TypeOK, Row, NextFailures, MoreFailures

\* The password lockout computes the minutes its reference asks for.
THEOREM PasswordScheduleCorrect == Spec => []PasswordScheduleRight
<1>1. TypeOK => PasswordScheduleRight
  BY NextFailuresType, FollowsReference DEF PasswordScheduleRight
<1> QED BY <1>1, TypeCorrect, PTL

\* The second-factor lockout does too, and fails where the threshold is zero.
THEOREM MfaScheduleCorrect == Spec => []MfaScheduleRight
<1>1. TypeOK => MfaScheduleRight
  BY NextFailuresType, FollowsReference DEF MfaScheduleRight
<1> QED BY <1>1, TypeCorrect, PTL

\* A further failure never shortens the lock, with a schedule that does not
\* decrease.
THEOREM EscalationCorrect == Spec => []LockoutsEscalate
<1>1. TypeOK => LockoutsEscalate
  BY NextFailuresType, FollowsReference DEF LockoutsEscalate
<1> QED BY <1>1, TypeCorrect, PTL
=============================================================================
