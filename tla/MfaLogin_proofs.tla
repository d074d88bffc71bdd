-------------------------- MODULE MfaLogin_proofs --------------------------
(***************************************************************************)
(* Proofs about MfaLogin, for any users, challenges, secrets and requests  *)
(* at a time, any lifetime, window, number of tries, threshold and         *)
(* schedule, in both enforcement modes.                                    *)
(***************************************************************************)
EXTENDS MfaLogin, LockoutSchedule_proofs, FiniteSetTheorems

(***************************************************************************)
(* The inductive invariant.                                                *)
(***************************************************************************)
\* The requests that hold rows of a challenge or will.
OnChallenge == {"lockChallenge", "lockUser", "lockSettings", "apply", "issue"}

\* A history is a finite set.
HistoryOK == IsFiniteSet(accepted)

\* What a handler knows of its challenge and of its user.  The challenge stays
\* unused from the check to the commit, and the settings stay as they were read.
HandlersOK ==
  \A r \in Request :
    /\ pc[r] = "decide" => req[r] \in [kind : {"login"}, user : User]
    /\ pc[r] \in OnChallenge =>
         /\ req[r] \in [kind : {"setup", "confirm", "verify"}, chal : Challenge, code : Code]
         /\ challenge[req[r].chal] # Unissued
         /\ challenge[req[r].chal].purpose = PurposeOf(req[r].kind)
    /\ pc[r] \in {"lockSettings", "apply"} => ~challenge[req[r].chal].used
    /\ pc[r] = "apply" => mine[r] = settings[UserOf(r)]

\* A row lock has one holder.
LocksExclude ==
  \A r, q \in Request : r # q => Locks(r) \cap Locks(q) = {}

\* An accepted code used its challenge up, and was accepted once; its request
\* opens a session or has opened it.
GrantsOK ==
  /\ \A a \in accepted : challenge[a[1]] # Unissued /\ challenge[a[1]].used
  /\ \A a, b \in accepted : a[1] = b[1] => a = b
  /\ \A c \in Challenge : sessions[c] # 0 => sessions[c] = 1 /\ \E a \in accepted : a[1] = c
  /\ \A r \in Request : pc[r] = "issue" =>
       /\ sessions[req[r].chal] = 0
       /\ \E a \in accepted : a[1] = req[r].chal
       /\ \A q \in Request \ {r} : pc[q] = "issue" => req[q].chal # req[r].chal

\* The settings remember the last step of all that were accepted.
LastStepOK ==
  /\ \A a \in accepted : a[2] <= settings[challenge[a[1]].user].lastStep
  /\ NoCodeTwice

IInv ==
  /\ TypeOK /\ HistoryOK /\ HandlersOK /\ LocksExclude /\ GrantsOK /\ LastStepOK
  /\ TriesBounded /\ EnrolledOrNot

(***************************************************************************)
(* What the rows become.                                                   *)
(***************************************************************************)

\* A row that was issued has a user and a purpose, and can be told from one that
\* was not.
IssuedRow == [user : User, purpose : {"login", "enrollment"}, expires : Nat,
              used : BOOLEAN, failed : Nat]

LEMMA IssuedOrNot ==
  ASSUME NEW row \in ChallengeRow
  PROVE  row # Unissued <=> row \in IssuedRow /\ row.purpose # "none"
BY DEF ChallengeRow, Unissued, IssuedRow

\* From the threshold on a failure locks, and for some time.
LEMMA MinutesRange ==
  ASSUME NEW n \in Nat
  PROVE  /\ MfaMinutes(n, Threshold, Schedule) \in (Nat \ {0}) \cup {NoLockout}
         /\ n >= Threshold => MfaMinutes(n, Threshold, Schedule) # NoLockout
<1>1. /\ Threshold \in Nat \ {0} /\ Schedule \in Seq(Nat) /\ Schedule # <<>>
      /\ \A i \in 1..Len(Schedule) : Schedule[i] \in Nat \ {0}
  BY NumberAssumption
<1>2. MfaMinutes(n, Threshold, Schedule) = PasswordMinutes(n, Threshold, Schedule)
  BY <1>1, VersionsAgree
<1>3. /\ n < Threshold => PasswordMinutes(n, Threshold, Schedule) = NoLockout
      /\ Threshold <= n =>
           \E i \in 1..Len(Schedule) : PasswordMinutes(n, Threshold, Schedule) = Schedule[i]
  BY <1>1, LockoutInRange
<1> QED BY <1>1, <1>2, <1>3 DEF NoLockout

LEMMA NewSettingsType == NewSettings \in Settings
BY DEF NewSettings, Settings, Never

\* A failure is counted and may lock; the secrets and the last step stay.
LEMMA FailedSettingsFacts ==
  ASSUME NEW s \in Settings, now \in Nat
  PROVE  /\ FailedSettings(s) \in Settings
         /\ FailedSettings(s).failed = s.failed + 1
         /\ s.failed + 1 >= Threshold => FailedSettings(s).lockedUntil > now
         /\ FailedSettings(s).enabled = s.enabled /\ FailedSettings(s).secret = s.secret
         /\ FailedSettings(s).pending = s.pending /\ FailedSettings(s).lastStep = s.lastStep
<1> DEFINE minutes == MfaMinutes(s.failed + 1, Threshold, Schedule)
           until == IF minutes = NoLockout THEN s.lockedUntil ELSE now + minutes
<1>1. s.failed + 1 \in Nat
  BY DEF Settings
<1>2. minutes \in (Nat \ {0}) \cup {NoLockout} /\ (s.failed + 1 >= Threshold => minutes # NoLockout)
  BY <1>1, MinutesRange
<1> HIDE DEF minutes
<1>3. until \in Nat /\ (s.failed + 1 >= Threshold => until > now)
  BY <1>2 DEF Settings, NoLockout
<1>4. FailedSettings(s) = [s EXCEPT !.failed = s.failed + 1, !.lockedUntil = until]
  BY DEF FailedSettings, minutes, Settings
<1> HIDE DEF until
<1> QED BY <1>1, <1>3, <1>4 DEF Settings

\* A success clears the failures and the lock and remembers the step; the secrets
\* stay.
LEMMA SucceededSettingsFacts ==
  ASSUME NEW s \in Settings, NEW step \in Nat
  PROVE  /\ SucceededSettings(s, step) \in Settings
         /\ SucceededSettings(s, step).lastStep = step
         /\ SucceededSettings(s, step).failed = 0
         /\ SucceededSettings(s, step).enabled = s.enabled
         /\ SucceededSettings(s, step).secret = s.secret
         /\ SucceededSettings(s, step).pending = s.pending
BY DEF SucceededSettings, Settings, Never

\* A confirmed enrolment puts the pending secret in its place.
LEMMA ActivatedSettingsFacts ==
  ASSUME NEW s \in Settings, NEW step \in Nat
  PROVE  /\ ActivatedSettings(s, step) \in Settings
         /\ ActivatedSettings(s, step).lastStep = step
         /\ ActivatedSettings(s, step).failed = 0
         /\ ActivatedSettings(s, step).enabled = TRUE
         /\ ActivatedSettings(s, step).secret = s.pending
         /\ ActivatedSettings(s, step).pending = NoSecret
<1> DEFINE t == SucceededSettings(s, step)
<1>1. t \in Settings /\ t.lastStep = step /\ t.failed = 0
  BY SucceededSettingsFacts
<1>2. ActivatedSettings(s, step)
      = [t EXCEPT !.enabled = TRUE, !.secret = s.pending, !.pending = NoSecret]
  BY DEF ActivatedSettings
<1>3. s.pending \in Secret \cup {NoSecret}
  BY DEF Settings
<1> HIDE DEF t
<1> QED BY <1>1, <1>2, <1>3 DEF Settings

\* A failure counts a try, and the last one uses the challenge up.
LEMMA FailedChallengeFacts ==
  ASSUME NEW c \in IssuedRow
  PROVE  /\ FailedChallenge(c) \in IssuedRow
         /\ FailedChallenge(c).user = c.user /\ FailedChallenge(c).purpose = c.purpose
         /\ FailedChallenge(c).failed = c.failed + 1
         /\ c.failed + 1 >= MaxTries => FailedChallenge(c).used
<1> DEFINE used == c.used \/ c.failed + 1 >= MaxTries
           failed == c.failed + 1
<1>1. FailedChallenge(c) = [c EXCEPT !.failed = failed, !.used = used]
  BY DEF FailedChallenge, IssuedRow
<1>2. used \in BOOLEAN /\ failed \in Nat
  BY DEF IssuedRow
<1> HIDE DEF used, failed
<1>3. /\ FailedChallenge(c) \in IssuedRow /\ FailedChallenge(c).used = used
      /\ FailedChallenge(c).user = c.user /\ FailedChallenge(c).purpose = c.purpose
      /\ FailedChallenge(c).failed = failed
  BY <1>1, <1>2 DEF IssuedRow
<1>4. c.failed + 1 >= MaxTries => used
  BY DEF used
<1> QED BY <1>3, <1>4 DEF failed

(***************************************************************************)
(* Moving a handler.                                                       *)
(***************************************************************************)
Requests == [kind : {"login"}, user : User]
            \cup [kind : {"setup", "confirm", "verify"}, chal : Challenge, code : Code]
            \cup {NoRequest}

LEMMA GotoMoves ==
  ASSUME TypeOK, NEW r \in Request, NEW step \in Steps, Goto(r, step)
  PROVE  /\ pc' \in [Request -> Steps] /\ pc'[r] = step
         /\ \A q \in Request \ {r} : pc'[q] = pc[q]
         /\ req' = req /\ mine' = mine
BY DEF Goto, TypeOK

LEMMA TakeMoves ==
  ASSUME TypeOK, NEW r \in Request, NEW step \in Steps, NEW what \in Requests,
         Take(r, what, step)
  PROVE  /\ pc' \in [Request -> Steps] /\ pc'[r] = step
         /\ req' \in [Request -> Requests] /\ req'[r] = what
         /\ \A q \in Request \ {r} : pc'[q] = pc[q] /\ req'[q] = req[q]
BY DEF Take, TypeOK, Requests

LEMMA FinishMoves ==
  ASSUME TypeOK, NEW r \in Request, Finish(r)
  PROVE  /\ pc' \in [Request -> Steps] /\ pc'[r] = "idle"
         /\ req' \in [Request -> Requests]
         /\ mine' \in [Request -> Settings]
         /\ \A q \in Request \ {r} : pc'[q] = pc[q] /\ req'[q] = req[q] /\ mine'[q] = mine[q]
<1>1. "idle" \in Steps /\ NoRequest \in Requests
  BY DEF Steps, Requests
<1> QED BY <1>1, NewSettingsType DEF Finish, TypeOK, Requests

LEMMA InitIInv == Init => IInv
<1> SUFFICES ASSUME Init PROVE IInv
  OBVIOUS
<1>0. PICK enrolled \in SUBSET Enrolled : \E key \in [enrolled -> Secret] :
        /\ settings = [u \in User |->
             IF u \in enrolled THEN [NewSettings EXCEPT !.enabled = TRUE, !.secret = key[u]]
                               ELSE NewSettings]
        /\ generated = {key[u] : u \in enrolled}
  BY DEF Init
<1>1. PICK key \in [enrolled -> Secret] :
        /\ settings = [u \in User |->
             IF u \in enrolled THEN [NewSettings EXCEPT !.enabled = TRUE, !.secret = key[u]]
                               ELSE NewSettings]
        /\ generated = {key[u] : u \in enrolled}
  BY <1>0
<1>2. ASSUME NEW k \in Secret
      PROVE  [NewSettings EXCEPT !.enabled = TRUE, !.secret = k] \in Settings
  BY DEF NewSettings, Settings, Never
<1>3. /\ challenge = [c \in Challenge |-> Unissued] /\ now = 0
      /\ pc = [r \in Request |-> "idle"] /\ req = [r \in Request |-> NoRequest]
      /\ mine = [r \in Request |-> NewSettings] /\ sessions = [c \in Challenge |-> 0]
      /\ enforced \in BOOLEAN /\ accepted = {}
  BY DEF Init
<1>4. TypeOK
  <2>1. settings \in [User -> Settings]
    BY <1>1, <1>2, NewSettingsType
  <2>2. challenge \in [Challenge -> ChallengeRow]
    BY <1>3 DEF ChallengeRow
  <2>3. pc \in [Request -> Steps] /\ mine \in [Request -> Settings]
    BY <1>3, NewSettingsType DEF Steps
  <2>4. now \in 0..MaxTime
    BY <1>3, NumberAssumption
  <2>5. req \in [Request -> Requests]
    BY <1>3 DEF Requests
  <2> QED BY <1>1, <1>3, <2>1, <2>2, <2>3, <2>4, <2>5 DEF TypeOK, Requests
<1>5. HistoryOK
  BY <1>3, FS_EmptySet DEF HistoryOK
<1>6. HandlersOK /\ LocksExclude
  BY <1>3 DEF HandlersOK, OnChallenge, LocksExclude, Locks
<1>7. GrantsOK
  BY <1>3 DEF GrantsOK
<1>8. LastStepOK
  BY <1>3 DEF LastStepOK, NoCodeTwice
<1>9. TriesBounded
  BY <1>3 DEF TriesBounded
<1>10. EnrolledOrNot
  <2>1. ASSUME NEW u \in User, u \in enrolled
        PROVE  settings[u].enabled = TRUE /\ settings[u].secret \in Secret
               /\ settings[u].pending = NoSecret
    BY <1>1, <2>1 DEF NewSettings
  <2>2. ASSUME NEW u \in User, u \notin enrolled
        PROVE  settings[u].enabled = FALSE /\ settings[u].secret = NoSecret
    BY <1>1, <2>2 DEF NewSettings
  <2> QED BY <2>1, <2>2, SetAssumption DEF EnrolledOrNot
<1> QED BY <1>4, <1>5, <1>6, <1>7, <1>8, <1>9, <1>10 DEF IInv

(***************************************************************************)
(* Row locks.                                                              *)
(***************************************************************************)

\* A handler that does not move keeps its locks: the user of an issued challenge
\* does not change.
LEMMA LocksKept ==
  ASSUME HandlersOK, NEW q \in Request, pc'[q] = pc[q], req'[q] = req[q],
         pc[q] \in OnChallenge =>
           challenge'[req[q].chal].user = challenge[req[q].chal].user
  PROVE  Locks(q)' = Locks(q)
<1>1. CASE pc[q] \in {"lockUser", "lockSettings", "apply"}
  BY <1>1 DEF Locks, UserOf, OnChallenge
<1>2. CASE pc[q] \notin {"lockUser", "lockSettings", "apply"}
  BY <1>2 DEF Locks
<1> QED BY <1>1, <1>2

\* What a handler adds to its locks was free.
LEMMA LocksExcludeStep ==
  ASSUME LocksExclude, NEW r \in Request,
         \A q \in Request \ {r} : Locks(q)' = Locks(q),
         \A row \in Locks(r)' : row \in Locks(r) \/ Free(r, row)
  PROVE  LocksExclude'
BY DEF LocksExclude, Free

\* Two handlers that apply do so for different users, and the challenge of one
\* is in nobody else's transaction.
LEMMA HoldersDiffer ==
  ASSUME LocksExclude, NEW r \in Request, NEW q \in Request, r # q, pc[r] = "apply"
  PROVE  /\ pc[q] \in {"lockSettings", "apply"} => req[r].chal # req[q].chal
         /\ pc[q] = "apply" => UserOf(r) # UserOf(q)
<1>1. {<<"challenge", req[r].chal>>, <<"settings", UserOf(r)>>} \subseteq Locks(r)
  BY DEF Locks
<1>2. pc[q] \in {"lockSettings", "apply"} => <<"challenge", req[q].chal>> \in Locks(q)
  BY DEF Locks
<1>3. pc[q] = "apply" => <<"settings", UserOf(q)>> \in Locks(q)
  BY DEF Locks
<1>4. Locks(r) \cap Locks(q) = {}
  BY DEF LocksExclude
<1> QED BY <1>1, <1>2, <1>3, <1>4

(***************************************************************************)
(* What follows when rows stay as they are.                                *)
(***************************************************************************)
RowsOK == HistoryOK /\ LastStepOK /\ TriesBounded /\ EnrolledOrNot

LEMMA RowsKept ==
  ASSUME RowsOK, UNCHANGED <<settings, challenge, accepted>>
  PROVE  RowsOK'
BY DEF RowsOK, HistoryOK, LastStepOK, NoCodeTwice, TriesBounded, EnrolledOrNot

\* A handler that finishes lets go of its locks and knows nothing any more.
LEMMA FinishKeeps ==
  ASSUME IInv, NEW r \in Request, Finish(r), UNCHANGED <<settings, challenge>>
  PROVE  HandlersOK' /\ LocksExclude'
<1>0. TypeOK /\ HandlersOK /\ LocksExclude
  BY DEF IInv
<1>1. /\ pc'[r] = "idle"
      /\ \A q \in Request \ {r} : pc'[q] = pc[q] /\ req'[q] = req[q] /\ mine'[q] = mine[q]
  BY <1>0, FinishMoves
<1>2. HandlersOK'
  BY <1>0, <1>1 DEF HandlersOK, UserOf, OnChallenge
<1>3. LocksExclude'
  <2>1. \A q \in Request \ {r} : Locks(q)' = Locks(q)
    BY <1>0, <1>1, LocksKept
  <2>2. Locks(r)' = {}
    BY <1>1 DEF Locks
  <2> QED BY <1>0, <2>1, <2>2, LocksExcludeStep
<1> QED BY <1>2, <1>3

LEMMA GrantsKept ==
  ASSUME IInv, NEW r \in Request, UNCHANGED <<challenge, accepted, sessions>>,
         pc'[r] # "issue",
         \A q \in Request \ {r} : pc'[q] = pc[q] /\ req'[q] = req[q]
  PROVE  GrantsOK'
BY DEF IInv, GrantsOK

-----------------------------------------------------------------------------
(* The steps that leave the rows alone.                                    *)

LEMMA LoginStep ==
  ASSUME IInv, NEW r \in Request, NEW u \in User, Login(r, u)
  PROVE  IInv'
<1>0. TypeOK /\ HandlersOK /\ LocksExclude /\ GrantsOK /\ RowsOK
  BY DEF IInv, RowsOK
<1>1. /\ pc[r] = "idle" /\ mine' = [mine EXCEPT ![r] = settings[u]]
      /\ UNCHANGED <<settings, challenge, generated, now, sessions, enforced, accepted>>
  BY DEF Login
<1>2. /\ pc' \in [Request -> Steps] /\ pc'[r] = "decide"
      /\ req' \in [Request -> Requests] /\ req'[r] = [kind |-> "login", user |-> u]
      /\ \A q \in Request \ {r} : pc'[q] = pc[q] /\ req'[q] = req[q]
  <2>1. "decide" \in Steps /\ [kind |-> "login", user |-> u] \in Requests
    BY DEF Steps, Requests
  <2> QED BY <1>0, <2>1, TakeMoves DEF Login
<1>3. /\ mine' \in [Request -> Settings] /\ mine'[r] = settings[u]
      /\ \A q \in Request \ {r} : mine'[q] = mine[q]
  BY <1>0, <1>1 DEF TypeOK
<1>4. TypeOK'
  BY <1>0, <1>1, <1>2, <1>3 DEF TypeOK, Requests
<1>5. RowsOK'
  BY <1>0, <1>1, RowsKept
<1>6. HandlersOK'
  BY <1>0, <1>1, <1>2, <1>3 DEF HandlersOK, UserOf, OnChallenge
<1>7. LocksExclude'
  <2>1. \A q \in Request \ {r} : Locks(q)' = Locks(q)
    BY <1>0, <1>1, <1>2, LocksKept
  <2>2. Locks(r)' = {}
    BY <1>2 DEF Locks
  <2> QED BY <1>0, <2>1, <2>2, LocksExcludeStep
<1>8. GrantsOK'
  BY <1>1, <1>2, GrantsKept
<1> QED BY <1>4, <1>5, <1>6, <1>7, <1>8 DEF IInv, RowsOK

LEMMA BeginMfaStep ==
  ASSUME IInv, NEW r \in Request, NEW kind \in {"setup", "confirm", "verify"},
         NEW c \in Challenge, NEW code \in Code, BeginMfa(r, kind, c, code)
  PROVE  IInv'
<1>0. TypeOK /\ HandlersOK /\ LocksExclude /\ GrantsOK /\ RowsOK
  BY DEF IInv, RowsOK
<1> DEFINE what == [kind |-> kind, chal |-> c, code |-> code]
<1>1. /\ pc[r] = "idle" /\ challenge[c].purpose = PurposeOf(kind)
      /\ UNCHANGED <<settings, challenge, generated, now, mine, sessions, enforced, accepted>>
  BY DEF BeginMfa
<1>2. /\ pc' \in [Request -> Steps] /\ pc'[r] = "lockChallenge"
      /\ req' \in [Request -> Requests] /\ req'[r] = what
      /\ \A q \in Request \ {r} : pc'[q] = pc[q] /\ req'[q] = req[q]
  <2>1. "lockChallenge" \in Steps /\ what \in Requests
    BY DEF Steps, Requests
  <2> QED BY <1>0, <2>1, TakeMoves DEF BeginMfa
<1>3. /\ what \in [kind : {"setup", "confirm", "verify"}, chal : Challenge, code : Code]
      /\ what.chal = c /\ what.kind = kind /\ challenge[c] # Unissued
  <2>1. PurposeOf(kind) # "none"
    BY DEF PurposeOf
  <2> QED BY <1>1, <2>1 DEF Unissued
<1> HIDE DEF what
<1>4. TypeOK'
  BY <1>0, <1>1, <1>2 DEF TypeOK, Requests
<1>5. RowsOK'
  BY <1>0, <1>1, RowsKept
<1>6. HandlersOK'
  BY <1>0, <1>1, <1>2, <1>3 DEF HandlersOK, UserOf, OnChallenge
<1>7. LocksExclude'
  <2>1. \A q \in Request \ {r} : Locks(q)' = Locks(q)
    BY <1>0, <1>1, <1>2, LocksKept
  <2>2. Locks(r)' = {}
    BY <1>2 DEF Locks
  <2> QED BY <1>0, <2>1, <2>2, LocksExcludeStep
<1>8. GrantsOK'
  BY <1>1, <1>2, GrantsKept
<1> QED BY <1>4, <1>5, <1>6, <1>7, <1>8 DEF IInv, RowsOK

\* OpenDirectly, Refuse, Crash and a challenge that is no longer active: the
\* handler finishes, and no row changes.
LEMMA FinishStep ==
  ASSUME IInv, NEW r \in Request, Finish(r),
         UNCHANGED <<settings, challenge, generated, now, sessions, enforced, accepted>>
  PROVE  IInv'
<1>0. TypeOK /\ HandlersOK /\ GrantsOK /\ RowsOK
  BY DEF IInv, RowsOK
<1>1. /\ pc' \in [Request -> Steps] /\ pc'[r] = "idle"
      /\ req' \in [Request -> Requests] /\ mine' \in [Request -> Settings]
      /\ \A q \in Request \ {r} : pc'[q] = pc[q] /\ req'[q] = req[q] /\ mine'[q] = mine[q]
  BY <1>0, FinishMoves
<1>2. TypeOK'
  BY <1>0, <1>1 DEF TypeOK, Requests
<1>3. RowsOK'
  BY <1>0, RowsKept
<1>4. HandlersOK' /\ LocksExclude'
  BY FinishKeeps
<1>5. GrantsOK'
  BY <1>1, GrantsKept
<1> QED BY <1>2, <1>3, <1>4, <1>5 DEF IInv, RowsOK

\* The three locks: each step adds one that was free.
LEMMA LockStep ==
  ASSUME IInv, NEW r \in Request,
         UNCHANGED <<settings, challenge, generated, now, req, sessions, enforced, accepted>>,
         \/ pc[r] = "lockChallenge" /\ Free(r, <<"challenge", req[r].chal>>)
            /\ pc' = [pc EXCEPT ![r] = "lockUser"] /\ mine' = mine
         \/ pc[r] = "lockUser" /\ Free(r, <<"user", UserOf(r)>>) /\ Active(req[r].chal)
            /\ pc' = [pc EXCEPT ![r] = "lockSettings"] /\ mine' = mine
         \/ pc[r] = "lockSettings" /\ Free(r, <<"settings", UserOf(r)>>)
            /\ pc' = [pc EXCEPT ![r] = "apply"]
            /\ mine' = [mine EXCEPT ![r] = settings[UserOf(r)]]
  PROVE  IInv'
<1>0. TypeOK /\ HandlersOK /\ LocksExclude /\ GrantsOK /\ RowsOK
  BY DEF IInv, RowsOK
<1>1. pc[r] \in OnChallenge /\ pc[r] \notin {"decide", "issue"}
  BY DEF OnChallenge
<1>2. /\ req[r].chal \in Challenge /\ challenge[req[r].chal] # Unissued
      /\ UserOf(r) = challenge[req[r].chal].user
  BY <1>0, <1>1 DEF HandlersOK, UserOf
<1>3. UserOf(r) \in User
  BY <1>0, <1>2, IssuedOrNot DEF TypeOK, IssuedRow
<1>4. /\ pc' \in [Request -> Steps] /\ pc'[r] \in OnChallenge \ {"issue"}
      /\ \A q \in Request \ {r} : pc'[q] = pc[q]
  BY <1>0 DEF TypeOK, Steps, OnChallenge
<1>5. /\ mine' \in [Request -> Settings]
      /\ \A q \in Request \ {r} : mine'[q] = mine[q]
      /\ pc'[r] = "apply" => mine'[r] = settings[UserOf(r)]
  BY <1>0, <1>3 DEF TypeOK
<1>6. pc'[r] \in {"lockSettings", "apply"} => ~challenge[req[r].chal].used
  BY <1>0 DEF HandlersOK, Active, TypeOK
<1>7. TypeOK'
  BY <1>0, <1>4, <1>5 DEF TypeOK
<1>8. RowsOK'
  BY <1>0, RowsKept
<1>9. HandlersOK'
  <2>1. \A q \in Request : pc'[q] \in OnChallenge => UserOf(q)' = UserOf(q)
    BY <1>1, <1>4 DEF UserOf, OnChallenge
  <2> QED BY <1>0, <1>1, <1>4, <1>5, <1>6, <2>1 DEF HandlersOK, OnChallenge
<1>10. LocksExclude'
  <2>1. \A q \in Request \ {r} : Locks(q)' = Locks(q)
    BY <1>0, <1>4, LocksKept
  <2>2. UserOf(r)' = UserOf(r)
    BY <1>1, <1>4 DEF UserOf, OnChallenge
  <2>3. \A row \in Locks(r)' : row \in Locks(r) \/ Free(r, row)
    BY <1>0, <2>2 DEF Locks, TypeOK
  <2> QED BY <1>0, <2>1, <2>3, LocksExcludeStep
<1>11. GrantsOK'
  BY <1>4, GrantsKept DEF OnChallenge
<1> QED BY <1>7, <1>8, <1>9, <1>10, <1>11 DEF IInv, RowsOK

\* The clock: who is locked or active may change, no row does.
LEMMA TickStep ==
  ASSUME IInv, Tick
  PROVE  IInv'
<1>1. UNCHANGED <<settings, challenge, generated, pc, req, mine, sessions, enforced, accepted>>
      /\ now' \in 0..MaxTime
  BY NumberAssumption DEF IInv, TypeOK, Tick
<1>2. \A r \in Request : Locks(r)' = Locks(r) /\ UserOf(r)' = UserOf(r)
  BY <1>1 DEF Locks, UserOf
<1>3. TypeOK'
  BY <1>1 DEF IInv, TypeOK
<1>4. RowsOK'
  BY <1>1, RowsKept DEF IInv, RowsOK
<1>5. HandlersOK' /\ LocksExclude'
  BY <1>1, <1>2 DEF IInv, HandlersOK, LocksExclude
<1>6. GrantsOK'
  BY <1>1 DEF IInv, GrantsOK
<1> QED BY <1>3, <1>4, <1>5, <1>6 DEF IInv, RowsOK

\* The session of an accepted code is opened once.
LEMMA IssueStep ==
  ASSUME IInv, NEW r \in Request, Issue(r)
  PROVE  IInv'
<1>0. TypeOK /\ HandlersOK /\ GrantsOK /\ RowsOK
  BY DEF IInv, RowsOK
<1>1. /\ pc[r] = "issue" /\ Finish(r)
      /\ sessions' = [sessions EXCEPT ![req[r].chal] = @ + 1]
      /\ UNCHANGED <<settings, challenge, generated, now, enforced, accepted>>
  BY DEF Issue
<1>2. req[r].chal \in Challenge /\ sessions[req[r].chal] = 0
  BY <1>0, <1>1 DEF HandlersOK, OnChallenge, GrantsOK
<1>3. /\ sessions' \in [Challenge -> Nat] /\ sessions'[req[r].chal] = 1
      /\ \A c \in Challenge \ {req[r].chal} : sessions'[c] = sessions[c]
  BY <1>0, <1>1, <1>2 DEF TypeOK
<1>4. /\ pc' \in [Request -> Steps] /\ pc'[r] = "idle"
      /\ req' \in [Request -> Requests] /\ mine' \in [Request -> Settings]
      /\ \A q \in Request \ {r} : pc'[q] = pc[q] /\ req'[q] = req[q] /\ mine'[q] = mine[q]
  BY <1>0, <1>1, FinishMoves
<1>5. TypeOK'
  BY <1>0, <1>1, <1>3, <1>4 DEF TypeOK, Requests
<1>6. RowsOK'
  BY <1>0, <1>1, RowsKept
<1>7. HandlersOK' /\ LocksExclude'
  BY <1>1, FinishKeeps
<1>8. GrantsOK'
  <2>1. \A q \in Request : pc'[q] = "issue" =>
          q # r /\ pc[q] = "issue" /\ req'[q] = req[q] /\ req[q].chal \in Challenge
          /\ req[q].chal # req[r].chal
    BY <1>0, <1>1, <1>4 DEF GrantsOK, HandlersOK, OnChallenge
  <2>2. \A c \in Challenge : sessions'[c] # 0 => sessions'[c] = 1 /\ \E a \in accepted : a[1] = c
    BY <1>0, <1>1, <1>3 DEF GrantsOK
  <2> QED BY <1>0, <1>1, <1>3, <2>1, <2>2 DEF GrantsOK
<1> QED BY <1>5, <1>6, <1>7, <1>8 DEF IInv, RowsOK

\* A challenge that is created was not issued before: nobody carries it and no
\* code was accepted for it.
LEMMA CreateChallengeStep ==
  ASSUME IInv, NEW r \in Request, NEW c \in Challenge, CreateChallenge(r, c)
  PROVE  IInv'
<1>0. TypeOK /\ HandlersOK /\ LocksExclude /\ GrantsOK /\ RowsOK
  BY DEF IInv, RowsOK
<1> DEFINE row == [user |-> UserOf(r),
                   purpose |-> IF mine[r].enabled THEN "login" ELSE "enrollment",
                   expires |-> now + Lifetime, used |-> FALSE, failed |-> 0]
<1>1. /\ pc[r] = "decide"
      /\ challenge[c] = Unissued /\ challenge' = [challenge EXCEPT ![c] = row]
      /\ Finish(r)
      /\ UNCHANGED <<settings, generated, now, sessions, enforced, accepted>>
  BY DEF CreateChallenge
<1>2. /\ row \in IssuedRow /\ row.used = FALSE /\ row.failed = 0 /\ row.purpose # "none"
  <2>1. UserOf(r) \in User
    BY <1>0, <1>1 DEF HandlersOK, UserOf
  <2>2. now + Lifetime \in Nat
    BY <1>0, NumberAssumption DEF TypeOK
  <2> QED BY <1>1, <2>1, <2>2 DEF IssuedRow
<1> HIDE DEF row
<1>3. row \in ChallengeRow /\ row # Unissued
  BY <1>2, IssuedOrNot DEF ChallengeRow, IssuedRow
<1>4. /\ challenge' \in [Challenge -> ChallengeRow] /\ challenge'[c] = row
      /\ \A d \in Challenge \ {c} : challenge'[d] = challenge[d]
  BY <1>0, <1>1, <1>3 DEF TypeOK
<1>5. /\ pc' \in [Request -> Steps] /\ pc'[r] = "idle"
      /\ req' \in [Request -> Requests] /\ mine' \in [Request -> Settings]
      /\ \A q \in Request \ {r} : pc'[q] = pc[q] /\ req'[q] = req[q] /\ mine'[q] = mine[q]
  BY <1>0, <1>1, FinishMoves
<1>6. /\ \A q \in Request : pc[q] \in OnChallenge =>
           req[q].chal \in Challenge \ {c}
      /\ \A a \in accepted : a[1] \in Challenge \ {c}
  BY <1>0, <1>1 DEF HandlersOK, GrantsOK, TypeOK
<1>7. TypeOK'
  BY <1>0, <1>1, <1>4, <1>5 DEF TypeOK, Requests
<1>8. RowsOK'
  <2>1. HistoryOK' /\ EnrolledOrNot'
    BY <1>0, <1>1 DEF RowsOK, HistoryOK, EnrolledOrNot
  <2>2. \A a \in accepted : challenge'[a[1]] = challenge[a[1]]
    BY <1>4, <1>6
  <2>3. LastStepOK'
    BY <1>0, <1>1, <2>2 DEF RowsOK, LastStepOK, NoCodeTwice
  <2>4. TriesBounded'
    BY <1>0, <1>2, <1>4, NumberAssumption DEF RowsOK, TriesBounded
  <2> QED BY <2>1, <2>3, <2>4 DEF RowsOK
<1>9. \A q \in Request : pc'[q] \in OnChallenge =>
        q # r /\ pc[q] \in OnChallenge /\ challenge'[req[q].chal] = challenge[req[q].chal]
  BY <1>4, <1>5, <1>6 DEF OnChallenge
<1>10. HandlersOK'
  <2>1. \A q \in Request : pc'[q] = "apply" => UserOf(q)' = UserOf(q)
    BY <1>5, <1>9 DEF UserOf, OnChallenge
  <2> QED BY <1>0, <1>1, <1>5, <1>9, <2>1 DEF HandlersOK, OnChallenge
<1>11. LocksExclude'
  <2>1. \A q \in Request \ {r} : Locks(q)' = Locks(q)
    BY <1>0, <1>5, <1>9, LocksKept
  <2>2. Locks(r)' = {}
    BY <1>5 DEF Locks
  <2> QED BY <1>0, <2>1, <2>2, LocksExcludeStep
<1>12. GrantsOK'
  <2>1. \A a \in accepted : challenge'[a[1]] = challenge[a[1]]
    BY <1>4, <1>6
  <2> QED BY <1>0, <1>1, <1>5, <2>1 DEF GrantsOK
<1> QED BY <1>7, <1>8, <1>10, <1>11, <1>12 DEF IInv, RowsOK

-----------------------------------------------------------------------------
(* The steps that commit a transaction.                                    *)

\* A handler that applies: its challenge is not used up, its user's settings are
\* what it read, and nobody else in a transaction has either of them.
LEMMA Applying ==
  ASSUME IInv, NEW r \in Request, pc[r] = "apply"
  PROVE  /\ req[r] \in [kind : {"setup", "confirm", "verify"}, chal : Challenge, code : Code]
         /\ challenge[req[r].chal] \in IssuedRow /\ ~challenge[req[r].chal].used
         /\ challenge[req[r].chal].purpose = PurposeOf(req[r].kind)
         /\ challenge[req[r].chal].user = UserOf(r)
         /\ UserOf(r) \in User /\ mine[r] = settings[UserOf(r)]
         /\ \A q \in Request \ {r} :
              /\ pc[q] \in {"lockSettings", "apply"} => req[q].chal # req[r].chal
              /\ pc[q] = "apply" => UserOf(q) # UserOf(r)
         /\ \A a \in accepted : a[1] # req[r].chal
<1>0. TypeOK /\ HandlersOK /\ LocksExclude /\ GrantsOK
  BY DEF IInv
<1>1. pc[r] \in OnChallenge
  BY DEF OnChallenge
<1>2. /\ req[r] \in [kind : {"setup", "confirm", "verify"}, chal : Challenge, code : Code]
      /\ challenge[req[r].chal] # Unissued /\ ~challenge[req[r].chal].used
      /\ challenge[req[r].chal].purpose = PurposeOf(req[r].kind)
      /\ mine[r] = settings[UserOf(r)]
  BY <1>0, <1>1 DEF HandlersOK
<1>3. challenge[req[r].chal] \in IssuedRow
  BY <1>0, <1>2, IssuedOrNot DEF TypeOK
<1>4. challenge[req[r].chal].user = UserOf(r) /\ UserOf(r) \in User
  BY <1>3 DEF UserOf, IssuedRow
<1>5. \A q \in Request \ {r} :
        /\ pc[q] \in {"lockSettings", "apply"} => req[q].chal # req[r].chal
        /\ pc[q] = "apply" => UserOf(q) # UserOf(r)
  BY <1>0, HoldersDiffer
<1>6. \A a \in accepted : a[1] # req[r].chal
  BY <1>0, <1>2 DEF GrantsOK
<1> QED BY <1>2, <1>3, <1>4, <1>5, <1>6

\* It commits: settings only of its user, and only its challenge, change.  The
\* others' challenges keep their users, and a transaction its view of the rows.
LEMMA CommitKeeps ==
  ASSUME IInv, NEW r \in Request, pc[r] = "apply",
         challenge' \in [Challenge -> ChallengeRow],
         challenge'[req[r].chal] \in IssuedRow,
         challenge'[req[r].chal].user = challenge[req[r].chal].user,
         challenge'[req[r].chal].purpose = challenge[req[r].chal].purpose,
         \A c \in Challenge \ {req[r].chal} : challenge'[c] = challenge[c],
         \A u \in User \ {UserOf(r)} : settings'[u] = settings[u],
         pc'[r] \in {"idle", "issue"}, pc'[r] = "issue" => req'[r] = req[r],
         \A q \in Request \ {r} : pc'[q] = pc[q] /\ req'[q] = req[q] /\ mine'[q] = mine[q]
  PROVE  HandlersOK' /\ LocksExclude'
<1>0. TypeOK /\ HandlersOK /\ LocksExclude
  BY DEF IInv
<1>1. /\ req[r] \in [kind : {"setup", "confirm", "verify"}, chal : Challenge, code : Code]
      /\ challenge[req[r].chal].purpose = PurposeOf(req[r].kind)
      /\ challenge'[req[r].chal] # Unissued
  <2>1. challenge'[req[r].chal].purpose # "none"
    BY Zenon, Applying DEF PurposeOf
  <2> QED BY <2>1, Applying, IssuedOrNot
<1>2. \A c \in Challenge : /\ challenge'[c].user = challenge[c].user
                           /\ challenge'[c].purpose = challenge[c].purpose
                           /\ challenge[c] # Unissued => challenge'[c] # Unissued
  BY <1>1
<1>3. ASSUME NEW q \in Request \ {r}
      PROVE  /\ pc'[q] = "decide" => req'[q] \in [kind : {"login"}, user : User]
             /\ pc'[q] \in OnChallenge =>
                  /\ req'[q] \in [kind : {"setup", "confirm", "verify"},
                                  chal : Challenge, code : Code]
                  /\ challenge'[req'[q].chal] # Unissued
                  /\ challenge'[req'[q].chal].purpose = PurposeOf(req'[q].kind)
             /\ pc'[q] \in {"lockSettings", "apply"} => ~challenge'[req'[q].chal].used
             /\ pc'[q] = "apply" => mine'[q] = settings'[UserOf(q)']
  <2>1. pc[q] \in OnChallenge => req[q].chal \in Challenge
    BY <1>0 DEF HandlersOK
  <2>2. CASE pc[q] \in {"lockSettings", "apply"}
    <3>1. req[q].chal \in Challenge \ {req[r].chal}
      BY <2>1, <2>2, Applying DEF OnChallenge
    <3>2. challenge'[req[q].chal] = challenge[req[q].chal]
      BY <3>1
    <3>3. UserOf(q)' = UserOf(q)
      BY <2>2, <3>2 DEF UserOf
    <3>4. pc[q] = "apply" => UserOf(q) \in User \ {UserOf(r)}
      BY Applying
    <3> QED BY <1>0, <1>2, <2>1, <2>2, <3>2, <3>3, <3>4 DEF HandlersOK, OnChallenge
  <2>3. CASE pc[q] \notin {"lockSettings", "apply"}
    BY <1>0, <1>2, <2>1, <2>3 DEF HandlersOK
  <2> QED BY <2>2, <2>3
<1>4. pc'[r] = "issue" => /\ challenge'[req'[r].chal] # Unissued
                          /\ challenge'[req'[r].chal].purpose = PurposeOf(req'[r].kind)
  BY <1>1
<1>5. HandlersOK'
  BY <1>1, <1>3, <1>4 DEF HandlersOK, OnChallenge
<1>6. LocksExclude'
  <2>1. \A q \in Request \ {r} : pc[q] \in OnChallenge => req[q].chal \in Challenge
    BY <1>0 DEF HandlersOK
  <2>2. \A q \in Request \ {r} : Locks(q)' = Locks(q)
    BY <1>0, <1>2, <2>1, LocksKept
  <2>3. Locks(r)' = {}
    BY DEF Locks
  <2> QED BY <1>0, <2>2, <2>3, LocksExcludeStep
<1> QED BY <1>5, <1>6

LEMMA SetupStep ==
  ASSUME IInv, NEW r \in Request, NEW s \in Secret, Setup(r, s)
  PROVE  IInv'
<1>0. TypeOK /\ HandlersOK /\ LocksExclude /\ GrantsOK /\ RowsOK
  BY DEF IInv, RowsOK
<1> DEFINE u == UserOf(r)
           row == [settings[u] EXCEPT !.pending = s]
<1>1. /\ pc[r] = "apply" /\ ~mine[r].enabled
      /\ settings' = [settings EXCEPT ![u].pending = s]
      /\ generated' = generated \cup {s} /\ Finish(r)
      /\ UNCHANGED <<challenge, now, sessions, enforced, accepted>>
  BY DEF Setup, Refused
<1>2. u \in User /\ mine[r] = settings[u] /\ settings[u] \in Settings
  BY <1>0, <1>1, Applying DEF TypeOK
<1>3. /\ row \in Settings /\ row.enabled = settings[u].enabled
      /\ row.secret = settings[u].secret /\ row.lastStep = settings[u].lastStep
  BY <1>2 DEF Settings
<1>4. settings' = [settings EXCEPT ![u] = row]
  BY <1>1
<1> HIDE DEF row, u
<1>5. /\ settings' \in [User -> Settings] /\ settings'[u] = row
      /\ \A v \in User \ {u} : settings'[v] = settings[v]
  BY <1>0, <1>2, <1>3, <1>4 DEF TypeOK
<1>6. /\ pc' \in [Request -> Steps] /\ pc'[r] = "idle"
      /\ req' \in [Request -> Requests] /\ mine' \in [Request -> Settings]
      /\ \A q \in Request \ {r} : pc'[q] = pc[q] /\ req'[q] = req[q] /\ mine'[q] = mine[q]
  BY <1>0, <1>1, FinishMoves
<1>7. TypeOK'
  BY <1>0, <1>1, <1>5, <1>6 DEF TypeOK, Requests
<1>8. \A v \in User : /\ settings'[v].enabled = settings[v].enabled
                      /\ settings'[v].secret = settings[v].secret
                      /\ settings'[v].lastStep = settings[v].lastStep
  BY <1>3, <1>5
<1>9. RowsOK'
  <2>1. EnrolledOrNot'
    BY <1>0, <1>1, <1>2, <1>5, <1>8 DEF RowsOK, EnrolledOrNot
  <2>2. \A a \in accepted : challenge[a[1]].user \in User
    BY <1>0, IssuedOrNot DEF GrantsOK, TypeOK, IssuedRow
  <2>3. LastStepOK'
    BY <1>0, <1>1, <1>8, <2>2 DEF RowsOK, LastStepOK, NoCodeTwice
  <2>4. HistoryOK' /\ TriesBounded'
    BY <1>0, <1>1 DEF RowsOK, HistoryOK, TriesBounded
  <2> QED BY <2>1, <2>3, <2>4 DEF RowsOK
<1>10. HandlersOK' /\ LocksExclude'
  BY <1>0, <1>1, <1>5, <1>6, Applying, CommitKeeps DEF TypeOK, u
<1>11. GrantsOK'
  BY <1>1, <1>6, GrantsKept
<1> QED BY <1>7, <1>9, <1>10, <1>11 DEF IInv, RowsOK

LEMMA RejectStep ==
  ASSUME IInv, NEW r \in Request, Reject(r)
  PROVE  IInv'
<1>0. TypeOK /\ HandlersOK /\ LocksExclude /\ GrantsOK /\ RowsOK
  BY DEF IInv, RowsOK
<1> DEFINE u == UserOf(r)
           c == req[r].chal
           row == FailedSettings(settings[u])
           tried == FailedChallenge(challenge[c])
<1>1. /\ pc[r] = "apply"
      /\ settings' = [settings EXCEPT ![u] = row]
      /\ challenge' = [challenge EXCEPT ![c] = tried] /\ Finish(r)
      /\ UNCHANGED <<generated, now, sessions, enforced, accepted>>
  BY DEF Reject
<1>2. /\ u \in User /\ settings[u] \in Settings /\ now \in Nat
      /\ c \in Challenge /\ challenge[c] \in IssuedRow /\ ~challenge[c].used
      /\ \A a \in accepted : a[1] # c
  BY <1>0, <1>1, Applying, NumberAssumption DEF TypeOK
<1>3. /\ row \in Settings /\ row.enabled = settings[u].enabled
      /\ row.secret = settings[u].secret /\ row.lastStep = settings[u].lastStep
      /\ row.pending = settings[u].pending
  BY <1>2, FailedSettingsFacts
<1>4. /\ tried \in IssuedRow /\ tried.user = challenge[c].user
      /\ tried.purpose = challenge[c].purpose /\ tried.failed = challenge[c].failed + 1
      /\ challenge[c].failed + 1 >= MaxTries => tried.used
  BY <1>2, FailedChallengeFacts
<1>5. challenge[c] # Unissued
  BY <1>0, <1>1 DEF HandlersOK, OnChallenge
<1> HIDE DEF row, tried, u, c
<1>6. /\ settings' \in [User -> Settings] /\ settings'[u] = row
      /\ \A v \in User \ {u} : settings'[v] = settings[v]
  BY <1>0, <1>1, <1>2, <1>3 DEF TypeOK
<1>7. /\ challenge' \in [Challenge -> ChallengeRow] /\ challenge'[c] = tried
      /\ \A d \in Challenge \ {c} : challenge'[d] = challenge[d]
  BY <1>0, <1>1, <1>2, <1>4 DEF TypeOK, ChallengeRow, IssuedRow
<1>8. /\ pc' \in [Request -> Steps] /\ pc'[r] = "idle"
      /\ req' \in [Request -> Requests] /\ mine' \in [Request -> Settings]
      /\ \A q \in Request \ {r} : pc'[q] = pc[q] /\ req'[q] = req[q] /\ mine'[q] = mine[q]
  BY <1>0, <1>1, FinishMoves
<1>9. TypeOK'
  BY <1>0, <1>1, <1>6, <1>7, <1>8 DEF TypeOK, Requests
<1>10. /\ \A v \in User : /\ settings'[v].enabled = settings[v].enabled
                          /\ settings'[v].secret = settings[v].secret
                          /\ settings'[v].pending = settings[v].pending
                          /\ settings'[v].lastStep = settings[v].lastStep
       /\ \A d \in Challenge : challenge'[d].purpose = challenge[d].purpose
  BY <1>3, <1>4, <1>6, <1>7
<1>11. \A a \in accepted : challenge'[a[1]] = challenge[a[1]]
  BY <1>0, <1>2, <1>7 DEF TypeOK
<1>12. RowsOK'
  <2>1. EnrolledOrNot'
    BY <1>0, <1>10 DEF RowsOK, EnrolledOrNot
  <2>2. \A a \in accepted : challenge[a[1]].user \in User
    BY <1>0, IssuedOrNot DEF GrantsOK, TypeOK, IssuedRow
  <2>3. LastStepOK'
    BY <1>0, <1>1, <1>10, <1>11, <2>2 DEF RowsOK, LastStepOK, NoCodeTwice
  <2>4. TriesBounded'
    <3>1. challenge[c].failed \in Nat /\ challenge[c].failed < MaxTries
      BY <1>0, <1>2, <1>5, NumberAssumption DEF RowsOK, TriesBounded, IssuedRow
    <3>2. tried.failed <= MaxTries
      BY <1>4, <3>1, NumberAssumption
    <3>3. tried.failed = MaxTries => tried.used
      BY <1>4, <3>1, NumberAssumption
    <3> QED BY <1>0, <1>7, <3>2, <3>3 DEF RowsOK, TriesBounded
  <2>5. HistoryOK'
    BY <1>0, <1>1 DEF RowsOK, HistoryOK
  <2> QED BY <2>1, <2>3, <2>4, <2>5 DEF RowsOK
<1>13. HandlersOK' /\ LocksExclude'
  BY <1>1, <1>4, <1>6, <1>7, <1>8, CommitKeeps DEF u, c
<1>14. GrantsOK'
  <2>1. \A a \in accepted : challenge'[a[1]] # Unissued /\ challenge'[a[1]].used
    BY <1>0, <1>11 DEF GrantsOK
  <2> QED BY <1>0, <1>1, <1>8, <2>1 DEF GrantsOK
<1> QED BY <1>9, <1>12, <1>13, <1>14 DEF IInv, RowsOK

\* An accepted code is the first of its challenge, and of a later step than all
\* that were accepted for its user.
LEMMA AcceptStep ==
  ASSUME IInv, NEW r \in Request, Accept(r)
  PROVE  IInv'
<1>0. TypeOK /\ HandlersOK /\ LocksExclude /\ GrantsOK /\ RowsOK
  BY DEF IInv, RowsOK
<1> DEFINE u == UserOf(r)
           c == req[r].chal
           step == req[r].code[2]
           row == IF req[r].kind = "confirm" THEN ActivatedSettings(settings[u], step)
                                             ELSE SucceededSettings(settings[u], step)
           used == [challenge[c] EXCEPT !.used = TRUE]
           grants == {a \in accepted : a[1] = c}
           grant == <<c, step, Cardinality(grants) + 1>>
<1>1. /\ pc[r] = "apply" /\ req[r].kind # "setup" /\ ~Refused(r) /\ Valid(r)
      /\ settings' = [settings EXCEPT ![u] = row]
      /\ challenge' = [challenge EXCEPT ![c] = used]
      /\ accepted' = accepted \cup {grant}
      /\ pc' = [pc EXCEPT ![r] = "issue"]
      /\ UNCHANGED <<generated, now, req, mine, sessions, enforced>>
  BY DEF Accept, Goto
<1>2. /\ u \in User /\ mine[r] = settings[u] /\ settings[u] \in Settings
      /\ c \in Challenge /\ challenge[c] \in IssuedRow /\ ~challenge[c].used
      /\ challenge[c].user = u /\ challenge[c].purpose = PurposeOf(req[r].kind)
      /\ req[r].code \in Code /\ req[r].kind \in {"confirm", "verify"}
      /\ \A a \in accepted : a[1] # c
  BY <1>0, <1>1, Applying DEF TypeOK
<1>3. /\ SecretFor(r) # NoSecret /\ req[r].code[1] = SecretFor(r)
      /\ step > settings[u].lastStep
  BY <1>1, <1>2 DEF Refused, Valid, Matches
<1>4. step \in Nat
  BY <1>2, <1>3 DEF Code, WrongCode
<1>5. grant = <<c, step, 1>>
  BY <1>2, FS_EmptySet
<1>6. /\ row \in Settings /\ row.lastStep = step
      /\ \/ /\ req[r].kind = "confirm" /\ row.enabled = TRUE
            /\ row.secret = settings[u].pending /\ row.pending = NoSecret
         \/ /\ req[r].kind = "verify" /\ row.enabled = settings[u].enabled
            /\ row.secret = settings[u].secret /\ row.pending = settings[u].pending
  <2>1. CASE req[r].kind = "confirm"
    BY <1>2, <1>4, <2>1, ActivatedSettingsFacts
  <2>2. CASE req[r].kind = "verify"
    BY <1>2, <1>4, <2>2, SucceededSettingsFacts
  <2> QED BY <1>2, <2>1, <2>2
<1>7. /\ used \in IssuedRow /\ used.used = TRUE /\ used.user = challenge[c].user
      /\ used.purpose = challenge[c].purpose /\ used.failed = challenge[c].failed
  BY <1>2 DEF IssuedRow
<1>8. challenge[c] # Unissued
  BY <1>0, <1>1 DEF HandlersOK, OnChallenge
<1>9. req[r].kind = "confirm" => settings[u].pending # NoSecret
  BY <1>2, <1>3 DEF SecretFor
<1> HIDE DEF row, used, grants, grant, u, c, step
<1>10. /\ settings' \in [User -> Settings] /\ settings'[u] = row
       /\ \A v \in User \ {u} : settings'[v] = settings[v]
  BY <1>0, <1>1, <1>2, <1>6 DEF TypeOK
<1>11. /\ challenge' \in [Challenge -> ChallengeRow] /\ challenge'[c] = used
       /\ \A d \in Challenge \ {c} : challenge'[d] = challenge[d]
  BY <1>0, <1>1, <1>2, <1>7 DEF TypeOK, ChallengeRow, IssuedRow
<1>12. /\ pc' \in [Request -> Steps] /\ pc'[r] = "issue"
       /\ \A q \in Request \ {r} : pc'[q] = pc[q]
  BY <1>0, <1>1 DEF TypeOK, Steps
<1>13. used # Unissued
  BY <1>0, <1>7, <1>8, <1>2, IssuedOrNot DEF TypeOK, ChallengeRow
<1>14. TypeOK'
  <2>1. accepted' \subseteq Challenge \X Nat \X Nat
    BY <1>0, <1>1, <1>2, <1>4, <1>5 DEF TypeOK
  <2> QED BY <1>0, <1>1, <1>10, <1>11, <1>12, <2>1 DEF TypeOK
<1>15. \A a \in accepted : a[1] \in Challenge /\ a[1] # c /\ challenge'[a[1]] = challenge[a[1]]
  BY <1>0, <1>2, <1>11 DEF TypeOK
<1>16. \A a \in accepted : /\ challenge[a[1]].user \in User
                           /\ a[2] \in Nat
                           /\ a[2] <= settings[challenge[a[1]].user].lastStep
  BY <1>0, IssuedOrNot DEF GrantsOK, TypeOK, IssuedRow, RowsOK, LastStepOK
<1>17. RowsOK'
  <2>1. EnrolledOrNot'
    BY <1>0, <1>3, <1>6, <1>9, <1>10 DEF RowsOK, EnrolledOrNot
  <2>2. HistoryOK'
    BY <1>0, <1>1, FS_AddElement DEF RowsOK, HistoryOK
  <2>3. TriesBounded'
    BY <1>0, <1>7, <1>8, <1>11 DEF RowsOK, TriesBounded
  <2>4. \A a \in accepted : challenge[a[1]].user = u => a[2] < step
    BY <1>2, <1>3, <1>4, <1>16 DEF Settings, NoStep
  <2>5. \A a \in accepted' : a[2] <= settings'[challenge'[a[1]].user].lastStep
    <3>1. ASSUME NEW a \in accepted
          PROVE  a[2] <= settings'[challenge'[a[1]].user].lastStep
      BY <1>4, <1>6, <1>10, <1>15, <1>16, <2>4
    <3>2. grant[2] <= settings'[challenge'[grant[1]].user].lastStep
      BY <1>2, <1>4, <1>5, <1>6, <1>7, <1>10, <1>11
    <3> QED BY <1>1, <3>1, <3>2
  <2>6. NoCodeTwice'
    <3>1. \A a, b \in accepted :
            a # b /\ challenge'[a[1]].user = challenge'[b[1]].user => a[2] # b[2]
      BY <1>0, <1>15 DEF RowsOK, LastStepOK, NoCodeTwice
    <3>2. challenge'[grant[1]].user = u /\ grant[2] = step
      BY <1>2, <1>5, <1>7, <1>11
    <3>3. \A a \in accepted : challenge'[a[1]].user = u => a[2] # step
      BY <1>4, <1>15, <1>16, <2>4
    <3> QED BY <1>1, <3>1, <3>2, <3>3 DEF NoCodeTwice
  <2> QED BY <2>1, <2>2, <2>3, <2>5, <2>6 DEF RowsOK, LastStepOK
<1>18. HandlersOK' /\ LocksExclude'
  BY <1>1, <1>7, <1>10, <1>11, <1>12, CommitKeeps DEF u, c
<1>19. GrantsOK'
  <2>1. \A a \in accepted' : challenge'[a[1]] # Unissued /\ challenge'[a[1]].used
    BY <1>0, <1>1, <1>5, <1>7, <1>11, <1>13, <1>15 DEF GrantsOK
  <2>2. \A a, b \in accepted' : a[1] = b[1] => a = b
    BY <1>0, <1>1, <1>5, <1>15 DEF GrantsOK
  <2>3. \A d \in Challenge : sessions'[d] # 0 => sessions'[d] = 1 /\ \E a \in accepted' : a[1] = d
    BY <1>0, <1>1 DEF GrantsOK
  <2>4. \A q \in Request \ {r} : pc[q] = "issue" => req[q].chal # c
    BY <1>0, <1>2 DEF GrantsOK
  <2>5. sessions[c] = 0 /\ \E a \in accepted' : a[1] = c
    BY <1>0, <1>1, <1>2, <1>5 DEF GrantsOK
  <2>6. ASSUME NEW q \in Request, pc'[q] = "issue"
        PROVE  /\ sessions'[req'[q].chal] = 0
               /\ \E a \in accepted' : a[1] = req'[q].chal
               /\ \A p \in Request \ {q} : pc'[p] = "issue" => req'[p].chal # req'[q].chal
    BY <1>0, <1>1, <1>12, <2>4, <2>5, <2>6 DEF GrantsOK, c
  <2> QED BY <2>1, <2>2, <2>3, <2>6 DEF GrantsOK
<1> QED BY <1>14, <1>17, <1>18, <1>19 DEF IInv, RowsOK

-----------------------------------------------------------------------------

LEMMA NextIInv == IInv /\ [Next]_vars => IInv'
<1> SUFFICES ASSUME IInv, [Next]_vars PROVE IInv'
  OBVIOUS
<1>1. ASSUME NEW r \in Request, NEW u \in User, Login(r, u) PROVE IInv'
  BY <1>1, LoginStep
<1>2. ASSUME NEW r \in Request, NEW c \in Challenge, NEW code \in Codes \cup {WrongCode},
             NEW kind \in {"setup", "confirm", "verify"}, BeginMfa(r, kind, c, code)
      PROVE  IInv'
  <2>1. code \in Code
    BY DEF Codes, Code, IInv, TypeOK
  <2> QED BY <1>2, <2>1, BeginMfaStep
<1>3. ASSUME NEW r \in Request, Wait(r) PROVE IInv'
  <2>1. ASSUME NEW c \in Challenge, CreateChallenge(r, c) PROVE IInv'
    BY <2>1, CreateChallengeStep
  <2>2. CASE OpenDirectly(r)
    BY <2>2, FinishStep DEF OpenDirectly
  <2>3. CASE LockChallenge(r)
    BY <2>3, LockStep DEF LockChallenge, Goto
  <2>4. CASE LockUser(r)
    <3>1. CASE Active(req[r].chal)
      BY <2>4, <3>1, LockStep DEF LockUser, Goto
    <3>2. CASE ~Active(req[r].chal)
      BY <2>4, <3>2, FinishStep DEF LockUser
    <3> QED BY <3>1, <3>2
  <2>5. CASE LockSettings(r)
    BY <2>5, LockStep DEF LockSettings
  <2>6. CASE Issue(r)
    BY <2>6, IssueStep
  <2> QED BY <1>3, <2>1, <2>2, <2>3, <2>4, <2>5, <2>6 DEF Wait
<1>4. ASSUME NEW r \in Request, Work(r) PROVE IInv'
  <2>1. CASE Refuse(r)
    BY <2>1, FinishStep DEF Refuse
  <2>2. CASE Reject(r)
    BY <2>2, RejectStep
  <2>3. CASE Accept(r)
    BY <2>3, AcceptStep
  <2>4. ASSUME NEW s \in Secret, Setup(r, s) PROVE IInv'
    BY <2>4, SetupStep
  <2> QED BY <1>4, <2>1, <2>2, <2>3, <2>4 DEF Work
<1>5. ASSUME NEW r \in Request, Crash(r) PROVE IInv'
  BY <1>5, FinishStep DEF Crash
<1>6. CASE Tick
  BY <1>6, TickStep
<1>7. CASE UNCHANGED vars
  <2>1. \A r \in Request : Locks(r)' = Locks(r) /\ UserOf(r)' = UserOf(r)
    BY <1>7 DEF vars, Locks, UserOf
  <2>2. TypeOK' /\ RowsOK' /\ HandlersOK'
    BY <1>7, <2>1, RowsKept DEF vars, IInv, TypeOK, RowsOK, HandlersOK
  <2>3. LocksExclude' /\ GrantsOK'
    BY <1>7, <2>1 DEF vars, IInv, LocksExclude, GrantsOK
  <2> QED BY <2>2, <2>3 DEF IInv, RowsOK
<1> QED BY <1>1, <1>2, <1>3, <1>4, <1>5, <1>6, <1>7 DEF Next

\* What handlers read under their locks stays true until they commit, and what
\* was accepted has used its challenge up and moved the last step.
THEOREM Invariance == Spec => []IInv
<1>1. Init => IInv
  BY InitIInv
<1>2. IInv /\ [Next]_vars => IInv'
  BY NextIInv
<1> QED BY <1>1, <1>2, PTL DEF Spec

\* Rows, handlers and history keep their shape.
THEOREM TypeCorrect == Spec => []TypeOK
<1>1. IInv => TypeOK
  BY DEF IInv
<1> QED BY <1>1, Invariance, PTL

\* However many confirm and verify requests carry a challenge, at most one is let
\* through, and only it opens a session: the row locks of the transaction make
\* the look at used_at and the write of it one step for everybody else.
THEOREM OneSession == Spec => []OneSessionPerChallenge
<1>1. IInv => OneSessionPerChallenge
  <2> SUFFICES ASSUME IInv, NEW c \in Challenge
               PROVE  LET grants == Cardinality({a \in accepted : a[1] = c}) IN
                      /\ sessions[c] <= grants
                      /\ grants <= 1
                      /\ grants = 1 => challenge[c].used
    BY DEF OneSessionPerChallenge
  <2> DEFINE G == {a \in accepted : a[1] = c}
  <2>1. TypeOK /\ GrantsOK
    BY DEF IInv
  <2>2. CASE G = {}
    <3>1. sessions[c] = 0
      BY <2>1, <2>2 DEF GrantsOK
    <3>2. Cardinality(G) = 0
      BY <2>2, FS_EmptySet
    <3> QED BY <3>1, <3>2
  <2>3. CASE G # {}
    <3>1. PICK a \in accepted : a[1] = c
      BY <2>3
    <3>2. G = {a}
      BY <2>1, <3>1 DEF GrantsOK
    <3>3. Cardinality(G) = 1
      BY <3>2, FS_Singleton
    <3>4. challenge[c].used /\ sessions[c] <= 1
      BY <2>1, <3>1 DEF GrantsOK, TypeOK
    <3> QED BY <3>3, <3>4
  <2> QED BY <2>2, <2>3
<1> QED BY <1>1, Invariance, PTL

\* No code is accepted twice for a user, whatever challenges carry it and however
\* the requests interleave: the settings row is locked from the look at
\* last_used_totp_step until the new step is stored.
THEOREM CodesUsedOnce == Spec => []NoCodeTwice
<1>1. IInv => NoCodeTwice
  BY DEF IInv, LastStepOK
<1> QED BY <1>1, Invariance, PTL

\* A challenge counts every failure, also of requests that carry it at the same
\* time, and the last one allowed uses it up.
THEOREM TriesAreBounded == Spec => []TriesBounded
<1>1. IInv => TriesBounded
  BY DEF IInv
<1> QED BY <1>1, Invariance, PTL

\* Setup, confirm and a login that reads in between leave a user enrolled or not,
\* never half.
THEOREM EnrolmentWhole == Spec => []EnrolledOrNot
<1>1. IInv => EnrolledOrNot
  BY DEF IInv
<1> QED BY <1>1, Invariance, PTL

-----------------------------------------------------------------------------
(* What a step may do to the settings.                                     *)

\* Only setup, a wrong code and an accepted one change settings, those of the
\* handler's own user, which it read under the lock.
LEMMA SettingsChange ==
  ASSUME IInv, [Next]_vars, NEW u \in User, settings'[u] # settings[u]
  PROVE  /\ settings[u] \in Settings /\ now \in Nat
         /\ \E r \in Request :
              /\ mine[r] = settings[u]
              /\ ~Refused(r)
              /\ \/ \E s \in Secret : /\ req[r].kind = "setup"
                                      /\ settings'[u] = [settings[u] EXCEPT !.pending = s]
                 \/ /\ req[r].kind # "setup"
                    /\ settings'[u] = FailedSettings(settings[u])
                 \/ \E step \in Nat :
                      \/ /\ req[r].kind = "confirm"
                         /\ settings'[u] = ActivatedSettings(settings[u], step)
                      \/ /\ req[r].kind = "verify"
                         /\ settings'[u] = SucceededSettings(settings[u], step)
<1>0. TypeOK /\ settings[u] \in Settings /\ now \in Nat
  BY NumberAssumption DEF IInv, TypeOK
<1>1. ASSUME NEW r \in Request, NEW s \in Secret, Setup(r, s)
      PROVE  /\ mine[r] = settings[u] /\ ~Refused(r) /\ req[r].kind = "setup"
             /\ settings'[u] = [settings[u] EXCEPT !.pending = s]
  <2>1. UserOf(r) \in User /\ mine[r] = settings[UserOf(r)]
    BY <1>1, Applying DEF Setup
  <2>2. settings' = [settings EXCEPT ![UserOf(r)].pending = s]
    BY <1>1 DEF Setup
  <2>3. u = UserOf(r)
    BY <1>0, <2>1, <2>2 DEF TypeOK
  <2> QED BY <1>0, <1>1, <2>1, <2>2, <2>3 DEF Setup, TypeOK
<1>2. ASSUME NEW r \in Request, Reject(r)
      PROVE  /\ mine[r] = settings[u] /\ ~Refused(r) /\ req[r].kind # "setup"
             /\ settings'[u] = FailedSettings(settings[u])
  <2>1. UserOf(r) \in User /\ mine[r] = settings[UserOf(r)]
    BY <1>2, Applying DEF Reject
  <2>2. settings' = [settings EXCEPT ![UserOf(r)] = FailedSettings(settings[UserOf(r)])]
    BY <1>2 DEF Reject
  <2>3. u = UserOf(r)
    BY <1>0, <2>1, <2>2 DEF TypeOK
  <2> QED BY <1>0, <1>2, <2>1, <2>2, <2>3 DEF Reject, TypeOK
<1>3. ASSUME NEW r \in Request, Accept(r)
      PROVE  /\ mine[r] = settings[u] /\ ~Refused(r)
             /\ \E step \in Nat :
                  \/ /\ req[r].kind = "confirm"
                     /\ settings'[u] = ActivatedSettings(settings[u], step)
                  \/ /\ req[r].kind = "verify"
                     /\ settings'[u] = SucceededSettings(settings[u], step)
  <2> DEFINE step == req[r].code[2]
             row == IF req[r].kind = "confirm"
                    THEN ActivatedSettings(settings[UserOf(r)], step)
                    ELSE SucceededSettings(settings[UserOf(r)], step)
  <2>1. /\ pc[r] = "apply" /\ req[r].kind # "setup" /\ ~Refused(r) /\ Valid(r)
        /\ settings' = [settings EXCEPT ![UserOf(r)] = row]
    BY <1>3 DEF Accept
  <2>2. /\ UserOf(r) \in User /\ mine[r] = settings[UserOf(r)]
        /\ req[r].code \in Code /\ req[r].kind \in {"confirm", "verify"}
    BY <2>1, Applying
  <2>3. SecretFor(r) # NoSecret /\ req[r].code[1] = SecretFor(r)
    BY <2>1, <2>2 DEF Refused, Valid, Matches
  <2>4. step \in Nat
    BY <2>2, <2>3 DEF Code, WrongCode
  <2> HIDE DEF row
  <2>5. u = UserOf(r) /\ settings'[u] = row
    BY <1>0, <2>1, <2>2 DEF TypeOK
  <2>6. \/ req[r].kind = "confirm" /\ row = ActivatedSettings(settings[u], step)
        \/ req[r].kind = "verify" /\ row = SucceededSettings(settings[u], step)
    BY <2>2, <2>5 DEF row
  <2> HIDE DEF step
  <2> QED BY <2>1, <2>2, <2>4, <2>5, <2>6
<1>4. \E r \in Request : (\E s \in Secret : Setup(r, s)) \/ Reject(r) \/ Accept(r)
  <2>1. settings' # settings
    OBVIOUS
  <2> QED BY <2>1 DEF Next, vars, Login, BeginMfa, Wait, LockChallenge, LockUser,
               LockSettings, Issue, Work, CreateChallenge, OpenDirectly, Refuse, Crash, Tick
<1> QED BY <1>0, <1>1, <1>2, <1>3, <1>4

\* An enrolment under way never disables an enabled second factor or puts another
\* secret in its place: setup refuses, and a confirm finds no pending secret.
THEOREM SecretsStable == Spec => SecretStable
<1>1. ASSUME IInv, [Next]_vars, NEW u \in User, settings[u].enabled
      PROVE  settings'[u].enabled /\ settings'[u].secret = settings[u].secret
  <2>1. CASE settings'[u] = settings[u]
    BY <1>1, <2>1
  <2>2. CASE settings'[u] # settings[u]
    <3>1. settings[u].pending = NoSecret
      BY <1>1 DEF IInv, EnrolledOrNot
    <3>2. settings[u] \in Settings /\ now \in Nat
      BY <1>1, <2>2, SettingsChange
    <3>3. \/ settings'[u] = FailedSettings(settings[u])
          \/ \E step \in Nat : settings'[u] = SucceededSettings(settings[u], step)
      BY <1>1, <2>2, <3>1, SettingsChange DEF Refused, SecretFor
    <3>4. CASE settings'[u] = FailedSettings(settings[u])
      BY <1>1, <3>2, <3>4, FailedSettingsFacts
    <3>5. ASSUME NEW step \in Nat, settings'[u] = SucceededSettings(settings[u], step)
          PROVE  settings'[u].enabled /\ settings'[u].secret = settings[u].secret
      BY <1>1, <3>2, <3>5, SucceededSettingsFacts
    <3> QED BY <3>3, <3>4, <3>5
  <2> QED BY <2>1, <2>2
<1>2. IInv /\ [Next]_vars =>
        [\A u \in User : settings[u].enabled =>
           settings'[u].enabled /\ settings'[u].secret = settings[u].secret]_vars
  BY <1>1
<1> QED BY <1>2, Invariance, PTL DEF Spec, SecretStable

\* A lock holds until it runs out, also against the requests that had begun
\* before it was set: they read the settings after they got the row lock.
THEOREM LocksHold == Spec => LockHolds
<1>1. ASSUME IInv, [Next]_vars, NEW u \in User, Locked(settings[u])
      PROVE  /\ settings'[u].lockedUntil = settings[u].lockedUntil
             /\ settings'[u].failed = settings[u].failed
             /\ settings'[u].lastStep = settings[u].lastStep
  <2>1. CASE settings'[u] = settings[u]
    BY <2>1
  <2>2. CASE settings'[u] # settings[u]
    <3>1. PICK r \in Request, s \in Secret :
            settings'[u] = [settings[u] EXCEPT !.pending = s]
      BY <1>1, <2>2, SettingsChange DEF Refused
    <3>2. settings[u] \in Settings
      BY <1>1, <2>2, SettingsChange
    <3> QED BY <3>1, <3>2 DEF Settings
  <2> QED BY <2>1, <2>2
<1>2. IInv /\ [Next]_vars =>
        [\A u \in User : Locked(settings[u]) =>
           /\ settings'[u].lockedUntil = settings[u].lockedUntil
           /\ settings'[u].failed = settings[u].failed
           /\ settings'[u].lastStep = settings[u].lastStep]_vars
  BY <1>1
<1> QED BY <1>2, Invariance, PTL DEF Spec, LockHolds

\* From the threshold on every failure locks at once, for a period of the schedule.
THEOREM ThresholdLocksAlways == Spec => ThresholdLocks
<1>1. ASSUME IInv, [Next]_vars, NEW u \in User,
             settings'[u].failed > settings[u].failed, settings'[u].failed >= Threshold
      PROVE  settings'[u].lockedUntil > now
  <2>1. settings[u] \in Settings /\ now \in Nat /\ settings'[u] # settings[u]
    <3>1. settings[u].failed \in Nat
      BY <1>1 DEF IInv, TypeOK, Settings
    <3>2. settings'[u] # settings[u]
      BY <1>1, <3>1
    <3> QED BY <1>1, <3>2, SettingsChange
  <2>2. \A s \in Secret : [settings[u] EXCEPT !.pending = s].failed = settings[u].failed
    BY <2>1 DEF Settings
  <2>3. settings[u].failed \in Nat
    BY <2>1 DEF Settings
  <2>4. settings'[u] = FailedSettings(settings[u])
    <3>1. ASSUME NEW step \in Nat
          PROVE  /\ settings'[u] # SucceededSettings(settings[u], step)
                 /\ settings'[u] # ActivatedSettings(settings[u], step)
      <4>1. /\ SucceededSettings(settings[u], step).failed = 0
            /\ ActivatedSettings(settings[u], step).failed = 0
        BY <2>1, SucceededSettingsFacts, ActivatedSettingsFacts
      <4> QED BY <1>1, <2>3, <4>1
    <3>2. ASSUME NEW s \in Secret, settings'[u] = [settings[u] EXCEPT !.pending = s]
          PROVE  FALSE
      <4>1. settings'[u].failed = [settings[u] EXCEPT !.pending = s].failed
        BY Zenon, <3>2
      <4> QED BY <1>1, <2>2, <2>3, <4>1
    <3> QED BY <1>1, <2>1, <3>1, <3>2, SettingsChange
  <2> QED BY <1>1, <2>1, <2>4, FailedSettingsFacts
<1>2. IInv /\ [Next]_vars =>
        [\A u \in User : settings'[u].failed > settings[u].failed
                         /\ settings'[u].failed >= Threshold =>
           settings'[u].lockedUntil > now]_vars
  BY <1>1
<1> QED BY <1>2, Invariance, PTL DEF Spec, ThresholdLocks

-----------------------------------------------------------------------------
(* What the rows show implements SecondFactor.                             *)

\* A failure locks for a period of the schedule, from the threshold on.
LEMMA MinutesFromSchedule ==
  ASSUME NEW n \in Nat
  PROVE  /\ n < Threshold => MfaMinutes(n, Threshold, Schedule) = NoLockout
         /\ Threshold <= n =>
              /\ MfaMinutes(n, Threshold, Schedule) # NoLockout
              /\ \E i \in 1..Len(Schedule) : MfaMinutes(n, Threshold, Schedule) = Schedule[i]
<1>1. /\ Threshold \in Nat \ {0} /\ Schedule \in Seq(Nat) /\ Schedule # <<>>
  BY NumberAssumption
<1>2. MfaMinutes(n, Threshold, Schedule) = PasswordMinutes(n, Threshold, Schedule)
  BY <1>1, VersionsAgree
<1> QED BY <1>1, <1>2, LockoutInRange, MinutesRange

\* Steps that concern one challenge, and steps that concern one user.
LEMMA OneTicket ==
  ASSUME NEW d \in Challenge,
         \A c \in Challenge \ {d} :
           /\ challenge'[c] = challenge[c] /\ sessions'[c] = sessions[c]
           /\ (\E a \in accepted' : a[1] = c) <=> (\E a \in accepted : a[1] = c)
  PROVE  \A row : Ticket'[d] = row => Ticket' = [Ticket EXCEPT ![d] = row]
<1>1. ASSUME NEW c \in Challenge \ {d} PROVE Phase(c)' = Phase(c)
  BY DEF Phase
<1>2. \A c \in Challenge \ {d} : Ticket'[c] = Ticket[c]
  BY <1>1 DEF Ticket
<1>3. Ticket = [c \in Challenge |-> Ticket[c]] /\ Ticket' = [c \in Challenge |-> Ticket'[c]]
  BY DEF Ticket
<1> HIDE DEF Ticket
<1> QED BY <1>2, <1>3

LEMMA OneUser ==
  ASSUME NEW v \in User, \A u \in User \ {v} : settings'[u] = settings[u]
  PROVE  /\ SecretOf' = [SecretOf EXCEPT ![v] = settings'[v].secret]
         /\ LastStep' = [LastStep EXCEPT ![v] = settings'[v].lastStep]
         /\ Failures' = [Failures EXCEPT ![v] = settings'[v].failed]
         /\ LockedUntil' = [LockedUntil EXCEPT ![v] = settings'[v].lockedUntil]
BY DEF SecretOf, LastStep, Failures, LockedUntil

LEMMA SameRows ==
  ASSUME UNCHANGED <<settings, challenge, sessions, accepted>>
  PROVE  UNCHANGED <<Ticket, SecretOf, LastStep, Failures, LockedUntil>>
<1>1. \A c \in Challenge : Phase(c)' = Phase(c)
  BY DEF Phase
<1> QED BY <1>1 DEF Ticket, SecretOf, LastStep, Failures, LockedUntil

LEMMA SameSettings ==
  ASSUME UNCHANGED settings
  PROVE  UNCHANGED <<SecretOf, LastStep, Failures, LockedUntil>>
BY DEF SecretOf, LastStep, Failures, LockedUntil

LEMMA InitFactor == Init => Factor!Init
<1> SUFFICES ASSUME Init PROVE Factor!Init
  OBVIOUS
<1>1. \A u \in User : /\ settings[u].secret \in Secret \cup {NoSecret}
                      /\ settings[u].lastStep = NoStep /\ settings[u].failed = 0
                      /\ settings[u].lockedUntil = 0
  <2>1. PICK enrolled \in SUBSET Enrolled : \E key \in [enrolled -> Secret] :
          settings = [u \in User |->
            IF u \in enrolled THEN [NewSettings EXCEPT !.enabled = TRUE, !.secret = key[u]]
                              ELSE NewSettings]
    BY DEF Init
  <2>2. PICK key \in [enrolled -> Secret] :
          settings = [u \in User |->
            IF u \in enrolled THEN [NewSettings EXCEPT !.enabled = TRUE, !.secret = key[u]]
                              ELSE NewSettings]
    BY <2>1
  <2> QED BY <2>2 DEF NewSettings, Never
<1>2. Ticket = [c \in Challenge |-> Unissued] /\ now = 0
  BY DEF Init, Ticket
<1> QED BY <1>1, <1>2 DEF Factor!Init, SecretOf, LastStep, Failures, LockedUntil

LEMMA ChallengeImplements ==
  ASSUME IInv, NEW r \in Request, NEW c \in Challenge, CreateChallenge(r, c)
  PROVE  Factor!Next
<1> DEFINE purpose == IF mine[r].enabled THEN "login" ELSE "enrollment"
           row == [user |-> UserOf(r), purpose |-> purpose,
                   expires |-> now + Lifetime, used |-> FALSE, failed |-> 0]
           ticket == [owner |-> UserOf(r), purpose |-> purpose, tries |-> 0, phase |-> "open"]
<1>1. /\ pc[r] = "decide" /\ challenge[c] = Unissued
      /\ challenge' = [challenge EXCEPT ![c] = row]
      /\ UNCHANGED <<settings, now, sessions, accepted>>
  BY DEF CreateChallenge
<1>2. UserOf(r) \in User
  BY <1>1 DEF IInv, HandlersOK, UserOf
<1>3. challenge \in [Challenge -> ChallengeRow]
  BY DEF IInv, TypeOK
<1>4. challenge'[c] = row /\ row # Unissued
  BY <1>1, <1>3 DEF Unissued
<1>5. Ticket[c] = Unissued /\ Ticket'[c] = ticket
  BY <1>1, <1>4 DEF Ticket, Phase
<1>6. Ticket' = [Ticket EXCEPT ![c] = ticket]
  <2>1. \A d \in Challenge \ {c} : challenge'[d] = challenge[d]
    BY <1>1, <1>3
  <2> QED BY <1>1, <1>5, <2>1, OneTicket
<1>7. purpose \in {"login", "enrollment"}
  OBVIOUS
<1>8. Factor!Challenged(c, UserOf(r), purpose)
  BY <1>1, <1>5, <1>6, SameSettings DEF Factor!Challenged, Factor!factor
<1> HIDE DEF purpose
<1> QED BY <1>2, <1>7, <1>8 DEF Factor!Next

LEMMA IssueImplements ==
  ASSUME IInv, NEW r \in Request, Issue(r)
  PROVE  Factor!Next
<1> DEFINE c == req[r].chal
           row == challenge[c]
<1>1. /\ pc[r] = "issue" /\ sessions' = [sessions EXCEPT ![c] = @ + 1]
      /\ UNCHANGED <<settings, challenge, now, accepted>>
  BY DEF Issue
<1>2. /\ c \in Challenge /\ challenge[c] # Unissued /\ sessions[c] = 0
      /\ \E a \in accepted : a[1] = c
  BY <1>1 DEF IInv, HandlersOK, OnChallenge, GrantsOK
<1>3. challenge[c].used
  BY <1>2 DEF IInv, GrantsOK
<1>4. sessions'[c] = 1 /\ \A d \in Challenge \ {c} : sessions'[d] = sessions[d]
  BY <1>1, <1>2 DEF IInv, TypeOK
<1> HIDE DEF c
<1>5. Ticket[c] = [owner |-> row.user, purpose |-> row.purpose, tries |-> row.failed,
                   phase |-> "granted"]
  BY <1>2, <1>3 DEF Ticket, Phase
<1>6. Ticket'[c] = [owner |-> row.user, purpose |-> row.purpose, tries |-> row.failed,
                    phase |-> "session"]
  BY <1>1, <1>2, <1>3, <1>4 DEF Ticket, Phase
<1>7. Ticket'[c] = [Ticket[c] EXCEPT !.phase = "session"]
  BY <1>5, <1>6
<1>8. Ticket' = [Ticket EXCEPT ![c] = [Ticket[c] EXCEPT !.phase = "session"]]
  BY <1>1, <1>2, <1>4, <1>7, OneTicket
<1>9. Ticket[c] # Unissued /\ Ticket[c].phase = "granted"
  BY <1>5 DEF Unissued
<1>10. Factor!OpenSession(c)
  BY <1>1, <1>8, <1>9, SameSettings DEF Factor!OpenSession, Factor!factor
<1> QED BY <1>2, <1>10 DEF Factor!Next

LEMMA RejectImplements ==
  ASSUME IInv, NEW r \in Request, Reject(r)
  PROVE  Factor!Next
<1> DEFINE c == req[r].chal
           u == challenge[c].user
           row == challenge[c]
           tries == row.failed + 1
           count == settings[u].failed + 1
           minutes == MfaMinutes(count, Threshold, Schedule)
<1>1. /\ pc[r] = "apply" /\ ~Refused(r) /\ req[r].kind # "setup"
      /\ settings' = [settings EXCEPT ![UserOf(r)] = FailedSettings(settings[UserOf(r)])]
      /\ challenge' = [challenge EXCEPT ![c] = FailedChallenge(row)]
      /\ UNCHANGED <<now, sessions, accepted>>
  BY DEF Reject
<1>2. /\ c \in Challenge /\ row \in IssuedRow /\ ~row.used /\ UserOf(r) = u /\ u \in User
      /\ mine[r] = settings[u] /\ row # Unissued
      /\ \A a \in accepted : a[1] # c
  BY <1>1, Applying DEF IInv, HandlersOK, OnChallenge
<1>3. /\ settings \in [User -> Settings] /\ challenge \in [Challenge -> ChallengeRow]
      /\ settings[u] \in Settings /\ now \in Nat
  BY <1>2, NumberAssumption DEF IInv, TypeOK
<1>4. settings[u].lockedUntil <= now
  <2>1. settings[u].lockedUntil \in Nat
    BY <1>3 DEF Settings
  <2> QED BY <1>1, <1>2, <1>3, <2>1 DEF Refused, Locked
<1>5. sessions[c] = 0
  BY <1>2 DEF IInv, GrantsOK
<1>6. /\ settings'[u] = FailedSettings(settings[u])
      /\ \A v \in User \ {u} : settings'[v] = settings[v]
      /\ challenge'[c] = FailedChallenge(row)
      /\ \A d \in Challenge \ {c} : challenge'[d] = challenge[d]
  BY <1>1, <1>2, <1>3
<1>7. /\ FailedChallenge(row) \in IssuedRow
      /\ FailedChallenge(row).user = u /\ FailedChallenge(row).purpose = row.purpose
      /\ FailedChallenge(row).failed = tries
      /\ FailedChallenge(row).used <=> tries >= MaxTries
      /\ FailedChallenge(row) # Unissued
  <2>1. FailedChallenge(row).used <=> tries >= MaxTries
    BY <1>2 DEF FailedChallenge, IssuedRow
  <2>2. row.purpose # "none"
    BY <1>1, Applying DEF PurposeOf
  <2> QED BY <1>2, <2>1, <2>2, FailedChallengeFacts DEF Unissued
<1>8. settings[u].failed \in Nat /\ tries \in Nat /\ MaxTries \in Nat
  <2>1. settings[u].failed \in Nat
    BY <1>3 DEF Settings
  <2>2. row.failed \in Nat
    BY <1>2 DEF IssuedRow
  <2>3. MaxTries \in Nat
    BY NumberAssumption
  <2> QED BY <2>1, <2>2, <2>3
<1>9. /\ FailedSettings(settings[u]).secret = settings[u].secret
      /\ FailedSettings(settings[u]).lastStep = settings[u].lastStep
      /\ FailedSettings(settings[u]).failed = count
      /\ FailedSettings(settings[u]).lockedUntil =
           IF minutes = NoLockout THEN settings[u].lockedUntil ELSE now + minutes
  <2>1. FailedSettings(settings[u]).lockedUntil =
          IF minutes = NoLockout THEN settings[u].lockedUntil ELSE now + minutes
    BY <1>3 DEF FailedSettings, Settings
  <2> QED BY <1>3, <2>1, FailedSettingsFacts
<1> HIDE DEF u, row, c, tries
<1>10. Ticket[c] = [owner |-> u, purpose |-> row.purpose, tries |-> row.failed,
                    phase |-> "open"]
  BY <1>2 DEF Ticket, Phase, u, row
<1>11. Ticket'[c] = [owner |-> u, purpose |-> row.purpose, tries |-> tries,
                     phase |-> IF tries < MaxTries THEN "open" ELSE "closed"]
  BY <1>1, <1>2, <1>5, <1>6, <1>7, <1>8 DEF Ticket, Phase
<1>12. Ticket' = [Ticket EXCEPT ![c] = Ticket'[c]]
  BY <1>1, <1>2, <1>6, OneTicket
<1>13. /\ Ticket[c] # Unissued /\ Ticket[c].owner = u /\ Ticket[c].tries = row.failed
       /\ Ticket[c].phase = "open"
  BY <1>10 DEF Unissued
<1>14. Ticket'[c] = [Ticket[c] EXCEPT !.tries = tries,
                        !.phase = IF tries < MaxTries THEN "open" ELSE "closed"]
  <2> DEFINE purpose == row.purpose
             before == row.failed
             phase == IF tries < MaxTries THEN "open" ELSE "closed"
             old == Ticket[c]
  <2>1. old = [owner |-> u, purpose |-> purpose, tries |-> before, phase |-> "open"]
    BY <1>10
  <2>2. Ticket'[c] = [owner |-> u, purpose |-> purpose, tries |-> tries, phase |-> phase]
    BY <1>11
  <2> HIDE DEF purpose, before, phase, old
  <2>3. [old EXCEPT !.tries = tries, !.phase = phase]
        = [owner |-> u, purpose |-> purpose, tries |-> tries, phase |-> phase]
    <3> DEFINE tried == [old EXCEPT !.tries = tries]
    <3>1. tried = [owner |-> u, purpose |-> purpose, tries |-> tries, phase |-> "open"]
      BY <2>1
    <3>2. [old EXCEPT !.tries = tries, !.phase = phase] = [tried EXCEPT !.phase = phase]
      BY <2>1
    <3> HIDE DEF tried
    <3>3. [tried EXCEPT !.phase = phase]
          = [owner |-> u, purpose |-> purpose, tries |-> tries, phase |-> phase]
      BY <3>1
    <3> QED BY Zenon, <3>2, <3>3
  <2>4. Ticket'[c] = [old EXCEPT !.tries = tries, !.phase = phase]
    BY Zenon, <2>2, <2>3
  <2> QED BY Zenon, <2>4 DEF phase, old
<1>15. LockedUntil[u] = settings[u].lockedUntil /\ Failures[u] = settings[u].failed
  BY <1>2 DEF LockedUntil, Failures
<1>16. /\ SecretOf' = [SecretOf EXCEPT ![u] = settings[u].secret]
       /\ LastStep' = [LastStep EXCEPT ![u] = settings[u].lastStep]
       /\ Failures' = [Failures EXCEPT ![u] = count]
       /\ LockedUntil' = [LockedUntil EXCEPT ![u] =
            IF minutes = NoLockout THEN settings[u].lockedUntil ELSE now + minutes]
  BY <1>2, <1>6, <1>9, OneUser
<1>17. UNCHANGED <<SecretOf, LastStep>>
  BY <1>16 DEF SecretOf, LastStep
<1>18. IF count < Threshold THEN UNCHANGED LockedUntil
       ELSE \E n \in {Schedule[i] : i \in 1..Len(Schedule)} :
              LockedUntil' = [LockedUntil EXCEPT ![u] = now + n]
  <2>1. count \in Nat /\ Threshold \in Nat
    BY <1>8, NumberAssumption
  <2>2. CASE count < Threshold
    <3>1. minutes = NoLockout
      BY <2>1, <2>2, MinutesFromSchedule
    <3> QED BY <1>16, <2>2, <3>1 DEF LockedUntil
  <2>3. CASE ~(count < Threshold)
    <3>1. minutes # NoLockout /\ \E i \in 1..Len(Schedule) : minutes = Schedule[i]
      BY <2>1, <2>3, MinutesFromSchedule
    <3> HIDE DEF minutes
    <3> QED BY <1>16, <2>3, <3>1
  <2> QED BY <2>2, <2>3
<1> HIDE DEF minutes, count
<1>19. Factor!Fail(c)
  BY <1>1, <1>4, <1>12, <1>13, <1>14, <1>15, <1>16, <1>17, <1>18
     DEF Factor!Fail, Factor!Open, tries, count
<1> QED BY <1>2, <1>19 DEF Factor!Next

LEMMA AcceptImplements ==
  ASSUME IInv, NEW r \in Request, Accept(r)
  PROVE  Factor!Next
<1> DEFINE c == req[r].chal
           u == challenge[c].user
           row == challenge[c]
           k == SecretFor(r)
           step == req[r].code[2]
           new == IF req[r].kind = "confirm" THEN ActivatedSettings(settings[u], step)
                                             ELSE SucceededSettings(settings[u], step)
           grant == <<c, step, Cardinality({a \in accepted : a[1] = c}) + 1>>
<1>1. /\ pc[r] = "apply" /\ ~Refused(r) /\ req[r].kind # "setup" /\ Valid(r)
      /\ settings' = [settings EXCEPT ![UserOf(r)] =
           IF req[r].kind = "confirm" THEN ActivatedSettings(settings[UserOf(r)], step)
                                      ELSE SucceededSettings(settings[UserOf(r)], step)]
      /\ challenge' = [challenge EXCEPT ![c].used = TRUE]
      /\ accepted' = accepted \cup {grant}
      /\ UNCHANGED <<now, sessions>>
  BY DEF Accept
<1>2. /\ c \in Challenge /\ row \in IssuedRow /\ ~row.used /\ UserOf(r) = u /\ u \in User
      /\ mine[r] = settings[u] /\ row # Unissued
      /\ req[r].kind \in {"confirm", "verify"} /\ req[r].code \in Code
      /\ row.purpose = PurposeOf(req[r].kind)
      /\ \A a \in accepted : a[1] # c
  BY <1>1, Applying DEF IInv, HandlersOK, OnChallenge
<1>3. /\ settings \in [User -> Settings] /\ challenge \in [Challenge -> ChallengeRow]
      /\ settings[u] \in Settings /\ now \in Nat
  BY <1>2, NumberAssumption DEF IInv, TypeOK
<1>4. settings[u].lockedUntil <= now
  <2>1. settings[u].lockedUntil \in Nat
    BY <1>3 DEF Settings
  <2> QED BY <1>1, <1>2, <1>3, <2>1 DEF Refused, Locked
<1>5. sessions[c] = 0
  BY <1>2 DEF IInv, GrantsOK
<1>6. /\ k # NoSecret /\ req[r].code[1] = k /\ k \in Secret /\ step \in Nat
      /\ step \in (now - Window)..(now + Window) /\ step > settings[u].lastStep
  <2>1. k # NoSecret /\ req[r].code[1] = k
    BY <1>1 DEF Refused, Valid, Matches
  <2>2. req[r].code \in Secret \X Nat
    BY <1>2, <2>1 DEF Code, WrongCode
  <2> QED BY <1>1, <1>2, <2>1, <2>2 DEF Valid, Matches
<1>7. /\ settings[u].secret = IF row.purpose = "login" THEN k ELSE NoSecret
      /\ new.secret = k /\ new.lastStep = step /\ new.failed = 0 /\ new.lockedUntil = 0
  <2>1. CASE req[r].kind = "verify"
    <3>1. k = settings[u].secret /\ row.purpose = "login"
      BY <1>2, <2>1 DEF SecretFor, PurposeOf
    <3>2. new = SucceededSettings(settings[u], step)
      BY <2>1
    <3>3. new.lockedUntil = 0
      BY <1>3, <3>2 DEF SucceededSettings, Settings, Never
    <3> HIDE DEF k, new, step, u, row
    <3> QED BY <1>3, <1>6, <3>1, <3>2, <3>3, SucceededSettingsFacts
  <2>2. CASE req[r].kind = "confirm"
    <3>1. k = settings[u].pending /\ row.purpose = "enrollment"
      BY <1>2, <2>2 DEF SecretFor, PurposeOf
    <3>2. settings[u].secret = NoSecret
      BY <1>2, <1>3, <1>6, <3>1 DEF IInv, EnrolledOrNot
    <3>3. new = ActivatedSettings(settings[u], step)
      BY <2>2
    <3>4. new.lockedUntil = 0
      BY <1>3, <3>3 DEF ActivatedSettings, SucceededSettings, Settings, Never
    <3> HIDE DEF k, new, step, u, row
    <3> QED BY <1>3, <1>6, <3>1, <3>2, <3>3, <3>4, ActivatedSettingsFacts
  <2> QED BY <1>2, <2>1, <2>2
<1>8. /\ settings'[u] = new /\ \A v \in User \ {u} : settings'[v] = settings[v]
      /\ challenge'[c] = [row EXCEPT !.used = TRUE]
      /\ \A d \in Challenge \ {c} : challenge'[d] = challenge[d]
  BY <1>1, <1>2, <1>3
<1>9. /\ challenge'[c].user = u /\ challenge'[c].purpose = row.purpose
      /\ challenge'[c].failed = row.failed /\ challenge'[c].used = TRUE
      /\ challenge'[c] # Unissued
  BY <1>2, <1>8 DEF IssuedRow, Unissued
<1>10. /\ \E a \in accepted' : a[1] = c
       /\ \A d \in Challenge \ {c} :
            (\E a \in accepted' : a[1] = d) <=> (\E a \in accepted : a[1] = d)
  <2>1. grant[1] = c /\ accepted' = accepted \cup {grant}
    BY <1>1
  <2> HIDE DEF grant, c
  <2> QED BY <2>1
<1> HIDE DEF u, row, c, new, k, step, grant
<1>11. Ticket[c] = [owner |-> u, purpose |-> row.purpose, tries |-> row.failed,
                    phase |-> "open"]
  BY <1>2 DEF Ticket, Phase, u, row
<1>12. Ticket'[c] = [owner |-> u, purpose |-> row.purpose, tries |-> row.failed,
                     phase |-> "granted"]
  BY <1>1, <1>2, <1>5, <1>9, <1>10 DEF Ticket, Phase
<1>13. Ticket' = [Ticket EXCEPT ![c] = Ticket'[c]]
  BY <1>1, <1>2, <1>8, <1>10, OneTicket
<1>14. Ticket'[c] = [Ticket[c] EXCEPT !.phase = "granted"]
  BY <1>11, <1>12
<1>15. /\ Ticket[c] # Unissued /\ Ticket[c].owner = u /\ Ticket[c].purpose = row.purpose
       /\ Ticket[c].phase = "open"
  BY <1>11 DEF Unissued
<1>16. /\ SecretOf[u] = settings[u].secret /\ LastStep[u] = settings[u].lastStep
       /\ LockedUntil[u] = settings[u].lockedUntil
  BY <1>2 DEF SecretOf, LastStep, LockedUntil
<1>17. /\ SecretOf' = [SecretOf EXCEPT ![u] = k] /\ LastStep' = [LastStep EXCEPT ![u] = step]
       /\ Failures' = [Failures EXCEPT ![u] = 0]
       /\ LockedUntil' = [LockedUntil EXCEPT ![u] = 0]
  BY <1>2, <1>7, <1>8, OneUser
<1>18. Factor!Grant(c, k, step)
  BY <1>1, <1>4, <1>6, <1>7, <1>13, <1>14, <1>15, <1>16, <1>17
     DEF Factor!Grant, Factor!Open
<1> QED BY <1>2, <1>6, <1>18 DEF Factor!Next

LEMMA SetupImplements ==
  ASSUME IInv, NEW r \in Request, NEW s \in Secret, Setup(r, s)
  PROVE  UNCHANGED Factor!vars
<1>1. /\ settings' = [settings EXCEPT ![UserOf(r)].pending = s]
      /\ UNCHANGED <<challenge, now, sessions, accepted>>
  BY DEF Setup
<1>2. settings \in [User -> Settings]
  BY DEF IInv, TypeOK
<1>3. \A u \in User : /\ settings'[u].secret = settings[u].secret
                      /\ settings'[u].lastStep = settings[u].lastStep
                      /\ settings'[u].failed = settings[u].failed
                      /\ settings'[u].lockedUntil = settings[u].lockedUntil
  BY <1>1, <1>2 DEF Settings
<1>4. UNCHANGED <<SecretOf, LastStep, Failures, LockedUntil>>
  BY <1>3 DEF SecretOf, LastStep, Failures, LockedUntil
<1>5. UNCHANGED Ticket
  BY <1>1 DEF Ticket, Phase
<1> QED BY <1>1, <1>4, <1>5 DEF Factor!vars, Factor!factor

LEMMA NextFactor == IInv /\ [Next]_vars => [Factor!Next]_(Factor!vars)
<1> SUFFICES ASSUME IInv, [Next]_vars PROVE [Factor!Next]_(Factor!vars)
  OBVIOUS
<1>1. CASE UNCHANGED <<settings, challenge, now, sessions, accepted>>
  BY <1>1, SameRows DEF Factor!vars, Factor!factor
<1>2. ASSUME NEW r \in Request,
             \/ LockChallenge(r) \/ LockUser(r) \/ LockSettings(r) \/ Refuse(r)
             \/ OpenDirectly(r) \/ Crash(r) \/ \E u \in User : Login(r, u)
             \/ \E kind \in Kinds, c \in Challenge, code \in Codes \cup {WrongCode} :
                  BeginMfa(r, kind, c, code)
      PROVE  UNCHANGED <<settings, challenge, now, sessions, accepted>>
  BY <1>2 DEF LockChallenge, LockUser, LockSettings, Refuse, OpenDirectly, Crash, Login,
     BeginMfa
<1>3. ASSUME NEW r \in Request, NEW c \in Challenge, CreateChallenge(r, c)
      PROVE  Factor!Next
  BY <1>3, ChallengeImplements
<1>4. ASSUME NEW r \in Request, Issue(r) PROVE Factor!Next
  BY <1>4, IssueImplements
<1>5. ASSUME NEW r \in Request, Reject(r) PROVE Factor!Next
  BY <1>5, RejectImplements
<1>6. ASSUME NEW r \in Request, Accept(r) PROVE Factor!Next
  BY <1>6, AcceptImplements
<1>7. ASSUME NEW r \in Request, NEW s \in Secret, Setup(r, s) PROVE UNCHANGED Factor!vars
  BY <1>7, SetupImplements
<1>8. CASE Tick
  BY <1>8, SameRows DEF Tick, Factor!Next, Factor!Tick, Factor!factor
<1>9. CASE UNCHANGED vars
  BY <1>1, <1>9 DEF vars
<1> QED BY <1>1, <1>2, <1>3, <1>4, <1>5, <1>6, <1>7, <1>8, <1>9 DEF Next, Wait, Work, Kinds

\* The transactions implement the atomic decisions of SecondFactor: a code is
\* judged by settings and a challenge that are still so when it is committed,
\* because the locks are held from the reading to the commit.
THEOREM FactorImplemented == Spec => ImplementsFactor
BY InitFactor, NextFactor, Invariance, PTL DEF Spec, ImplementsFactor, Factor!Spec
=============================================================================
