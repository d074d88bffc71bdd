----------------------- MODULE LockoutSchedule_proofs -----------------------
(***************************************************************************)
(* What the lockout schedule returns, for every threshold and schedule,    *)
(* and that it is what the reference asks for.                             *)
(***************************************************************************)
EXTENDS LockoutReference, FiniteSetTheorems, FunctionTheorems, SequenceTheorems, TLAPS

\* Integer division by a positive threshold: the quotient, and its monotony.
LEMMA Quotient ==
  ASSUME NEW n \in Nat, NEW t \in Nat \ {0}
  PROVE  /\ n \div t \in Nat
         /\ t * (n \div t) <= n
         /\ n < t * (n \div t) + t
BY Z3

\* The remainder is what the quotient leaves.
LEMMA Remainder ==
  ASSUME NEW n \in Nat, NEW t \in Nat \ {0}
  PROVE  n % t = n - t * (n \div t)
BY Z3

\* A multiple of the threshold is divided without remainder.
LEMMA QuotientOfMultiple ==
  ASSUME NEW j \in Nat, NEW t \in Nat \ {0}
  PROVE  (t * j) \div t = j /\ (t * j) % t = 0
BY Z3

LEMMA QuotientMonotone ==
  ASSUME NEW m \in Nat, NEW n \in Nat, NEW t \in Nat \ {0}, m <= n
  PROVE  m \div t <= n \div t
<1>1. SUFFICES ASSUME n \div t < m \div t PROVE FALSE
  BY Quotient
<1>2. t * (n \div t) + t <= t * (m \div t)
  <2> DEFINE a == n \div t
             b == m \div t
  <2>1. a \in Nat /\ b \in Nat /\ a + 1 <= b
    BY <1>1, Quotient
  <2> HIDE DEF a, b
  <2>2. t * (a + 1) <= t * b
    BY <2>1
  <2> QED BY <2>1, <2>2 DEF a, b
<1> QED BY <1>2, Quotient

\* The index the code computes is an index of the schedule.
LEMMA IndexInRange ==
  ASSUME NEW failed \in Nat, NEW threshold \in Nat \ {0}, NEW schedule \in Seq(Nat),
         schedule # <<>>, threshold <= failed
  PROVE  Lesser((failed - threshold) \div threshold, Len(schedule) - 1) + 1 \in 1..Len(schedule)
<1>1. Len(schedule) \in Nat /\ Len(schedule) # 0
  OBVIOUS
<1>2. (failed - threshold) \div threshold \in Nat
  BY Quotient
<1> QED BY <1>1, <1>2 DEF Lesser

\* An account is locked exactly from the threshold on, and then for a period
\* of the schedule: the index never leaves it.
THEOREM LockoutInRange ==
  ASSUME NEW failed \in Nat, NEW threshold \in Nat \ {0}, NEW schedule \in Seq(Nat),
         schedule # <<>>
  PROVE  /\ failed < threshold => PasswordMinutes(failed, threshold, schedule) = NoLockout
         /\ threshold <= failed =>
              \E i \in 1..Len(schedule) : PasswordMinutes(failed, threshold, schedule) = schedule[i]
<1>1. failed < threshold => PasswordMinutes(failed, threshold, schedule) = NoLockout
  BY DEF PasswordMinutes
<1>2. ASSUME threshold <= failed
      PROVE  \E i \in 1..Len(schedule) : PasswordMinutes(failed, threshold, schedule) = schedule[i]
  <2> DEFINE i == Lesser((failed - threshold) \div threshold, Len(schedule) - 1) + 1
  <2>1. i \in 1..Len(schedule)
    BY <1>2, IndexInRange
  <2>2. ~(threshold <= 0) /\ ~(failed < threshold)
    BY <1>2
  <2>3. PasswordMinutes(failed, threshold, schedule) = schedule[i]
    BY <2>2 DEF PasswordMinutes, ScheduledMinutes
  <2> HIDE DEF i
  <2> QED BY <2>1, <2>3
<1> QED BY <1>1, <1>2

\* Both versions agree for every threshold but zero.
THEOREM VersionsAgree ==
  ASSUME NEW failed \in Nat, NEW threshold \in Nat \ {0}, NEW schedule \in Seq(Nat)
  PROVE  MfaMinutes(failed, threshold, schedule) = PasswordMinutes(failed, threshold, schedule)
BY DEF MfaMinutes, PasswordMinutes

\* With a schedule that does not decrease, one more failure never shortens the
\* lockout.
THEOREM LockoutMonotone ==
  ASSUME NEW m \in Nat, NEW n \in Nat, m <= n, NEW threshold \in Nat \ {0},
         NEW schedule \in Seq(Nat), Nondecreasing(schedule)
  PROVE  PasswordMinutes(m, threshold, schedule) <= PasswordMinutes(n, threshold, schedule)
<1>1. CASE m < threshold \/ schedule = <<>>
  <2>1. PasswordMinutes(m, threshold, schedule) = NoLockout
    BY <1>1 DEF PasswordMinutes
  <2>2. CASE schedule = <<>> \/ n < threshold
    BY <2>1, <2>2 DEF PasswordMinutes, NoLockout
  <2>3. CASE schedule # <<>> /\ threshold <= n
    <3>1. PICK i \in 1..Len(schedule) : PasswordMinutes(n, threshold, schedule) = schedule[i]
      BY <2>3, LockoutInRange
    <3>2. schedule[i] \in Nat
      BY <3>1
    <3> QED BY <2>1, <3>1, <3>2 DEF NoLockout
  <2> QED BY <2>2, <2>3
<1>2. CASE threshold <= m /\ schedule # <<>>
  <2> DEFINE at(k) == Lesser((k - threshold) \div threshold, Len(schedule) - 1) + 1
  <2>0. threshold <= n
    BY <1>2
  <2>1. at(m) \in 1..Len(schedule) /\ at(n) \in 1..Len(schedule)
    <3>1. at(m) \in 1..Len(schedule)
      BY <1>2, IndexInRange
    <3>2. at(n) \in 1..Len(schedule)
      BY <1>2, <2>0, IndexInRange
    <3> QED BY <3>1, <3>2
  <2>2. (m - threshold) \div threshold <= (n - threshold) \div threshold
    BY <1>2, QuotientMonotone
  <2>3. (m - threshold) \div threshold \in Nat /\ (n - threshold) \div threshold \in Nat
    BY <1>2, Quotient
  <2>4. at(m) <= at(n)
    BY <2>2, <2>3 DEF Lesser
  <2>5. schedule[at(m)] <= schedule[at(n)]
    BY <2>1, <2>4 DEF Nondecreasing
  <2> QED BY <1>2, <2>5 DEF PasswordMinutes, ScheduledMinutes
<1> QED BY <1>1, <1>2

-----------------------------------------------------------------------------
(* The reference.                                                          *)

\* The multiples of a threshold up to n: one for each step of the quotient.
LEMMA LevelIsQuotient ==
  ASSUME NEW n \in Nat, NEW threshold \in Nat \ {0}
  PROVE  Level(n, threshold) = n \div threshold
<1> DEFINE q == n \div threshold
           Multiples == {k \in 1..n : k % threshold = 0}
           f == [j \in 1..q |-> threshold * j]
<1>0. q \in Nat /\ threshold * q <= n /\ n < threshold * q + threshold
  BY Quotient
<1> HIDE DEF q
<1>1. ASSUME NEW j \in 1..q
      PROVE  threshold * j \in Multiples
  <2>1. threshold * j >= 1 /\ threshold * j \in Nat
    BY <1>0
  <2>2. threshold * j <= threshold * q
    BY <1>0
  <2>3. (threshold * j) % threshold = 0
    BY <1>0, QuotientOfMultiple
  <2> QED BY <1>0, <2>1, <2>2, <2>3
<1>2. ASSUME NEW k \in Multiples
      PROVE  \E j \in 1..q : threshold * j = k
  <2> DEFINE j == k \div threshold
  <2>1. j \in Nat /\ k = threshold * j
    BY Quotient, Remainder
  <2>2. j <= q
    BY QuotientMonotone DEF q
  <2> HIDE DEF j
  <2>3. j # 0
    BY <2>1
  <2> QED BY <1>0, <2>1, <2>2, <2>3
<1>3. ASSUME NEW i \in 1..q, NEW j \in 1..q, threshold * i = threshold * j
      PROVE  i = j
  BY <1>0, <1>3, QuotientOfMultiple
<1>4. f \in Bijection(1..q, Multiples)
  BY <1>1, <1>2, <1>3, Fun_IsBij
<1>5. Cardinality(Multiples) = q
  BY <1>0, <1>4, FS_CountingElements, Fun_ExistsBij
<1> QED BY <1>5 DEF q, Level

\* The code's index, counted from the threshold on, is the level.
LEMMA ShiftedQuotient ==
  ASSUME NEW n \in Nat, NEW threshold \in Nat \ {0}, threshold <= n
  PROVE  (n - threshold) \div threshold = (n \div threshold) - 1
BY Z3

\* For every number of failures, threshold and schedule the code computes what the
\* reference asks for, but for the division by zero of the second factor.
THEOREM ScheduleIsReference ==
  ASSUME NEW n \in Nat, NEW threshold \in Nat, NEW schedule \in Seq(Nat)
  PROVE  /\ PasswordMinutes(n, threshold, schedule) = Reference(n, threshold, schedule)
         /\ MfaMinutes(n, threshold, schedule) =
              IF threshold = 0 /\ schedule # <<>> THEN DivisionByZero
              ELSE Reference(n, threshold, schedule)
<1>1. CASE threshold = 0
  BY <1>1 DEF PasswordMinutes, MfaMinutes, Reference
<1>2. CASE threshold # 0
  <2>1. threshold \in Nat \ {0} /\ ~(threshold <= 0)
    BY <1>2
  <2>2. Level(n, threshold) = n \div threshold
    BY <2>1, LevelIsQuotient
  <2>3. CASE schedule = <<>>
    BY <1>2, <2>3 DEF PasswordMinutes, MfaMinutes, Reference
  <2>4. CASE n < threshold
    <3>1. Level(n, threshold) = 0
      BY <2>1, <2>2, <2>4, Quotient
    <3> QED BY <1>2, <2>4, <3>1 DEF PasswordMinutes, MfaMinutes, Reference
  <2>5. CASE threshold <= n /\ schedule # <<>>
    <3> DEFINE level == Level(n, threshold)
    <3>1. level \in Nat \ {0} /\ (n - threshold) \div threshold = level - 1
      <4> DEFINE q == n \div threshold
      <4>1. q \in Nat /\ n < threshold * q + threshold
        BY <2>1, Quotient
      <4>2. (n - threshold) \div threshold = q - 1
        BY <2>1, <2>5, ShiftedQuotient
      <4> HIDE DEF q
      <4>3. q # 0
        BY <2>1, <2>5, <4>1
      <4>4. level = q
        BY <2>2 DEF q
      <4> QED BY <4>1, <4>2, <4>3, <4>4
    <3>2. Len(schedule) \in Nat
      OBVIOUS
    <3>3. Reference(n, threshold, schedule) = schedule[Lesser(level, Len(schedule))]
      BY <1>2, <2>5, <3>1 DEF Reference
    <3> HIDE DEF level
    <3>4. Lesser(level - 1, Len(schedule) - 1) + 1 = Lesser(level, Len(schedule))
      BY <3>1, <3>2 DEF Lesser
    <3>5. ScheduledMinutes(n, threshold, schedule) = Reference(n, threshold, schedule)
      BY <3>1, <3>3, <3>4 DEF ScheduledMinutes
    <3>6. ~(n < threshold)
      BY <2>5
    <3> QED BY <1>2, <2>1, <2>5, <3>5, <3>6 DEF PasswordMinutes, MfaMinutes
  <2> QED BY <2>3, <2>4, <2>5
<1> QED BY <1>1, <1>2

\* The bounded statements that the runs check.
LEMMA FollowsReference ==
  ASSUME NEW n \in Nat
  PROVE  PasswordFollows(n) /\ MfaFollows(n) /\ Escalates(n)
<1>1. \A schedule \in Schedules : schedule \in Seq(Nat)
  <2> SUFFICES ASSUME NEW m \in 0..3, NEW schedule \in [1..m -> 1..3]
               PROVE  schedule \in Seq(Nat)
    BY DEF Schedules
  <2> QED BY SeqDef
<1>2. \A threshold \in Thresholds : threshold \in Nat
  BY DEF Thresholds
<1>3. PasswordFollows(n)
  BY <1>1, <1>2, ScheduleIsReference DEF PasswordFollows
<1>4. MfaFollows(n)
  BY <1>1, <1>2, ScheduleIsReference DEF MfaFollows
<1>5. Escalates(n)
  <2> SUFFICES ASSUME NEW threshold \in Thresholds, NEW schedule \in Schedules,
                      Nondecreasing(schedule)
               PROVE  PasswordMinutes(n, threshold, schedule)
                        <= PasswordMinutes(n + 1, threshold, schedule)
    BY DEF Escalates
  <2>1. CASE threshold = 0
    BY <2>1 DEF PasswordMinutes, NoLockout
  <2>2. CASE threshold # 0
    BY <1>1, <1>2, <2>2, LockoutMonotone
  <2> QED BY <2>1, <2>2
<1> QED BY <1>3, <1>4, <1>5
=============================================================================
