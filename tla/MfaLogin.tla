------------------------------ MODULE MfaLogin ------------------------------
(***************************************************************************)
(* The second factor: from a password that was accepted, over a challenge, *)
(* the enrolment or the check of a TOTP code, to the session               *)
(* (serializers.py, mfa_services.py, views.py).                            *)
(*                                                                         *)
(* Setup, confirm and verify each run in one transaction that locks, with  *)
(* SELECT ... FOR UPDATE, the challenge, its user and the user's settings  *)
(* in this order and holds them until it commits; the effects of a         *)
(* transaction become visible at once, in the action that commits it.  The *)
(* login reads the settings without a lock, and inserting a challenge or a *)
(* session needs the user row not to be locked (its foreign key).          *)
(***************************************************************************)
EXTENDS Integers, FiniteSets, LockoutSchedule

CONSTANTS
  User,
  Request,      \* gunicorn threads
  Challenge,    \* rows of mfa_challenges, issued or not yet
  Secret,       \* TOTP secrets, generated or not yet
  NoSecret,
  Enrolled,     \* users whose second factor may be enabled from the start
  MaxTime,      \* bounds the clock, which counts TOTP intervals
  Lifetime,     \* MFA_CHALLENGE_TTL_SECONDS, in TOTP intervals
  Window,       \* MFA_TOTP_VALID_WINDOW
  MaxTries,     \* MFA_CHALLENGE_MAX_FAILED_ATTEMPTS
  Threshold,    \* MFA_LOCKOUT_FAILURE_THRESHOLD
  Schedule      \* MFA_LOCKOUT_MINUTES, in TOTP intervals

ASSUME SetAssumption == NoSecret \notin Secret /\ Enrolled \subseteq User
ASSUME NumberAssumption ==
  /\ {MaxTime, Window} \subseteq Nat
  /\ {Lifetime, MaxTries, Threshold} \subseteq Nat \ {0}
  /\ Schedule \in Seq(Nat \ {0}) /\ Schedule # <<>>

VARIABLES
  settings,   \* user_mfa_settings, one row per user
  challenge,  \* mfa_challenges
  generated,  \* secrets handed out so far
  now,
  pc, req,    \* a handler: where it is and what it was asked
  mine,       \* the settings row it read
  sessions,   \* number of sessions opened with each challenge
  enforced,   \* MFA_ENFORCEMENT_MODE is enrollment_required or required; never
              \* changes
  \* history
  accepted    \* <<challenge, step, n>>: the n-th acceptance of a code of that
              \* TOTP step for that challenge

vars == <<settings, challenge, generated, now, pc, req, mine, sessions, enforced, accepted>>

NoStep == -1   \* last_used_totp_step IS NULL
Never  == 0    \* locked_until IS NULL

Settings == [enabled : BOOLEAN, secret : Secret \cup {NoSecret},
             pending : Secret \cup {NoSecret}, failed : Nat, lockedUntil : Nat,
             lastStep : Nat \cup {NoStep}]
NewSettings == [enabled |-> FALSE, secret |-> NoSecret, pending |-> NoSecret,
                failed |-> 0, lockedUntil |-> Never, lastStep |-> NoStep]

Unissued == [purpose |-> "none"]
ChallengeRow == [user : User, purpose : {"login", "enrollment"}, expires : Nat,
                 used : BOOLEAN, failed : Nat] \cup {Unissued}

\* A code is the secret and the TOTP step it was made from.
WrongCode == <<NoSecret, 0>>
Code == (Secret \X Nat) \cup {WrongCode}

Kinds == {"login", "setup", "confirm", "verify"}
NoRequest == [kind |-> "none"]
Steps == {"idle", "decide", "lockChallenge", "lockUser", "lockSettings", "apply", "issue"}

(***************************************************************************)
(* What the rows say.                                                      *)
(***************************************************************************)
Locked(s) == s.lockedUntil > now
Active(c) == ~challenge[c].used /\ challenge[c].expires > now
PurposeOf(kind) == IF kind = "verify" THEN "login" ELSE "enrollment"

UserOf(r) == IF pc[r] = "decide" THEN req[r].user ELSE challenge[req[r].chal].user

\* The row locks a handler holds, and when it gets another.  Faulty variants:
\* no select_for_update; the user is locked before the challenge.
NoSelectForUpdate(r) == {}
UserLockedFirst(r) ==
  CASE pc[r] = "lockChallenge" -> {<<"user", UserOf(r)>>}
    [] pc[r] \in {"lockUser", "lockSettings", "apply"} ->
         {<<"challenge", req[r].chal>>, <<"user", UserOf(r)>>}
    [] OTHER -> {}
Locks(r) ==
  CASE pc[r] = "lockUser"     -> {<<"challenge", req[r].chal>>}
    [] pc[r] = "lockSettings" -> {<<"challenge", req[r].chal>>, <<"user", UserOf(r)>>}
    [] pc[r] = "apply"        -> {<<"challenge", req[r].chal>>, <<"user", UserOf(r)>>,
                                  <<"settings", UserOf(r)>>}
    [] OTHER                  -> {}
Free(r, row) == \A q \in Request \ {r} : row \notin Locks(q)

\* validate_totp_code: the secret and the step must match, and the step must be
\* later than the last one used.
SecretFor(r) == IF req[r].kind = "verify" THEN mine[r].secret ELSE mine[r].pending
Matches(r) ==
  /\ req[r].code[1] = SecretFor(r)
  /\ req[r].code[2] \in (now - Window)..(now + Window)
\* Faulty variant: the last step is accepted once more.
ReuseAllowed(r) == Matches(r) /\ req[r].code[2] >= mine[r].lastStep
Valid(r) == Matches(r) /\ req[r].code[2] > mine[r].lastStep

\* The requests that are refused once the settings were read.
\* Faulty variant: setup does not look at mfa_enabled.
SetupOfEnrolled(r) ==
  IF req[r].kind = "setup" THEN FALSE ELSE SecretFor(r) = NoSecret \/ Locked(mine[r])
Refused(r) ==
  IF req[r].kind = "setup" THEN mine[r].enabled
  ELSE SecretFor(r) = NoSecret \/ Locked(mine[r])

\* record_mfa_failure, on the rows as they are stored.
\* Faulty variants: one try more, None not told from a period, a lock that
\* starts one failure late.
OneTryMore(c) == [c EXCEPT !.failed = @ + 1, !.used = @ \/ c.failed > MaxTries]
FailedChallenge(c) == [c EXCEPT !.failed = @ + 1, !.used = @ \/ c.failed + 1 >= MaxTries]
UncheckedMinutes(s) ==
  [s EXCEPT !.failed = @ + 1,
            !.lockedUntil = now + MfaMinutes(s.failed + 1, Threshold, Schedule)]
LateLockout(s) ==
  LET minutes == MfaOnlyAboveThreshold(s.failed + 1, Threshold, Schedule)
  IN  [s EXCEPT !.failed = @ + 1,
                !.lockedUntil = IF minutes = NoLockout THEN @ ELSE now + minutes]
FailedSettings(s) ==
  LET minutes == MfaMinutes(s.failed + 1, Threshold, Schedule)
  IN  [s EXCEPT !.failed = @ + 1,
                !.lockedUntil = IF minutes = NoLockout THEN @ ELSE now + minutes]

\* record_mfa_success and activate_pending_mfa_secret.
SucceededSettings(s, step) ==
  [s EXCEPT !.failed = 0, !.lockedUntil = Never, !.lastStep = step]
\* Faulty variant: the pending secret stays.
PendingKept(s, step) ==
  [SucceededSettings(s, step) EXCEPT !.enabled = TRUE, !.secret = s.pending]
ActivatedSettings(s, step) ==
  [SucceededSettings(s, step) EXCEPT !.enabled = TRUE, !.secret = s.pending,
                                     !.pending = NoSecret]

(***************************************************************************)
(* Bounds on challenges and secrets: a request begins only if one is left  *)
(* for it.                                                                 *)
(***************************************************************************)
ChallengesLeft ==
  Cardinality({r \in Request : pc[r] = "decide"})
    < Cardinality({c \in Challenge : challenge[c] = Unissued})
SecretsLeft ==
  Cardinality({r \in Request : req[r].kind = "setup"}) < Cardinality(Secret \ generated)

(***************************************************************************)
(* Moves of a handler.                                                     *)
(***************************************************************************)
Goto(r, step) == pc' = [pc EXCEPT ![r] = step] /\ UNCHANGED <<req, mine>>
Take(r, what, step) ==
  /\ pc' = [pc EXCEPT ![r] = step]
  /\ req' = [req EXCEPT ![r] = what]
Finish(r) ==
  /\ pc' = [pc EXCEPT ![r] = "idle"]
  /\ req' = [req EXCEPT ![r] = NoRequest]
  /\ mine' = [mine EXCEPT ![r] = NewSettings]

(***************************************************************************)
(* POST token, once the password was accepted.  A user whose second factor *)
(* is locked is refused: no step.                                          *)
(***************************************************************************)
Login(r, u) ==
  /\ pc[r] = "idle"
  /\ ChallengesLeft
  /\ ~Locked(settings[u])
  /\ Take(r, [kind |-> "login", user |-> u], "decide")
  /\ mine' = [mine EXCEPT ![r] = settings[u]]
  /\ UNCHANGED <<settings, challenge, generated, now, sessions, enforced, accepted>>

\* In optional mode a user who is not enrolled gets a session without a challenge.
FactorOptional(r) == ~enforced /\ ~mine[r].enabled

CreateChallenge(r, c) ==
  /\ pc[r] = "decide"
  /\ ~FactorOptional(r)
  /\ Free(r, <<"user", UserOf(r)>>)
  /\ challenge[c] = Unissued
  /\ challenge' = [challenge EXCEPT ![c] =
       [user |-> UserOf(r), purpose |-> IF mine[r].enabled THEN "login" ELSE "enrollment",
        expires |-> now + Lifetime, used |-> FALSE, failed |-> 0]]
  /\ Finish(r)
  /\ UNCHANGED <<settings, generated, now, sessions, enforced, accepted>>

OpenDirectly(r) ==
  /\ pc[r] = "decide"
  /\ FactorOptional(r)
  /\ Free(r, <<"user", UserOf(r)>>)
  /\ Finish(r)
  /\ UNCHANGED <<settings, challenge, generated, now, sessions, enforced, accepted>>

(***************************************************************************)
(* POST mfa/setup, mfa/confirm and mfa/verify.  A challenge of the other   *)
(* purpose is not found: no step.                                          *)
(***************************************************************************)
BeginMfa(r, kind, c, code) ==
  /\ pc[r] = "idle"
  /\ kind = "setup" => SecretsLeft
  /\ challenge[c].purpose = PurposeOf(kind)
  /\ Take(r, [kind |-> kind, chal |-> c, code |-> code], "lockChallenge")
  /\ UNCHANGED <<settings, challenge, generated, now, mine, sessions, enforced, accepted>>

LockChallenge(r) ==
  /\ pc[r] = "lockChallenge"
  /\ Free(r, <<"challenge", req[r].chal>>)
  /\ Goto(r, "lockUser")
  /\ UNCHANGED <<settings, challenge, generated, now, sessions, enforced, accepted>>

LockUser(r) ==
  /\ pc[r] = "lockUser"
  /\ Free(r, <<"user", UserOf(r)>>)
  /\ IF Active(req[r].chal) THEN Goto(r, "lockSettings") ELSE Finish(r)
  /\ UNCHANGED <<settings, challenge, generated, now, sessions, enforced, accepted>>

LockSettings(r) ==
  /\ pc[r] = "lockSettings"
  /\ Free(r, <<"settings", UserOf(r)>>)
  /\ pc' = [pc EXCEPT ![r] = "apply"]
  /\ mine' = [mine EXCEPT ![r] = settings[UserOf(r)]]
  /\ UNCHANGED <<settings, challenge, generated, now, req, sessions, enforced, accepted>>

Refuse(r) ==
  /\ pc[r] = "apply"
  /\ Refused(r)
  /\ Finish(r)
  /\ UNCHANGED <<settings, challenge, generated, now, sessions, enforced, accepted>>

Setup(r, s) ==
  /\ pc[r] = "apply"
  /\ req[r].kind = "setup"
  /\ ~Refused(r)
  /\ s \in Secret \ generated
  /\ settings' = [settings EXCEPT ![UserOf(r)].pending = s]
  /\ generated' = generated \cup {s}
  /\ Finish(r)
  /\ UNCHANGED <<challenge, now, sessions, enforced, accepted>>

Reject(r) ==
  /\ pc[r] = "apply"
  /\ req[r].kind # "setup"
  /\ ~Refused(r)
  /\ ~Valid(r)
  /\ settings' = [settings EXCEPT ![UserOf(r)] = FailedSettings(@)]
  /\ challenge' = [challenge EXCEPT ![req[r].chal] = FailedChallenge(@)]
  /\ Finish(r)
  /\ UNCHANGED <<generated, now, sessions, enforced, accepted>>

Accept(r) ==
  LET c == req[r].chal
      step == req[r].code[2]
  IN
  /\ pc[r] = "apply"
  /\ req[r].kind # "setup"
  /\ ~Refused(r)
  /\ Valid(r)
  /\ settings' = [settings EXCEPT ![UserOf(r)] =
       IF req[r].kind = "confirm" THEN ActivatedSettings(@, step)
                                  ELSE SucceededSettings(@, step)]
  /\ challenge' = [challenge EXCEPT ![c].used = TRUE]
  /\ accepted' = accepted \cup {<<c, step, Cardinality({a \in accepted : a[1] = c}) + 1>>}
  /\ Goto(r, "issue")
  /\ UNCHANGED <<generated, now, sessions, enforced>>

\* issue_final_auth_response, after the transaction.
Issue(r) ==
  /\ pc[r] = "issue"
  /\ Free(r, <<"user", UserOf(r)>>)
  /\ sessions' = [sessions EXCEPT ![req[r].chal] = @ + 1]
  /\ Finish(r)
  /\ UNCHANGED <<settings, challenge, generated, now, enforced, accepted>>

(***************************************************************************)
(* The environment: the clock, and a worker that dies; the database rolls  *)
(* its transaction back, which had no visible effect yet.                  *)
(***************************************************************************)
Tick ==
  /\ now < MaxTime
  /\ now' = now + 1
  /\ UNCHANGED <<settings, challenge, generated, pc, req, mine, sessions, enforced, accepted>>

Crash(r) ==
  /\ pc[r] # "idle"
  /\ Finish(r)
  /\ UNCHANGED <<settings, challenge, generated, now, sessions, enforced, accepted>>

\* Some users are enrolled, each with a secret of their own.
Init ==
  /\ \E enrolled \in SUBSET Enrolled : \E key \in [enrolled -> Secret] :
       /\ \A u, v \in enrolled : u # v => key[u] # key[v]
       /\ settings = [u \in User |->
            IF u \in enrolled THEN [NewSettings EXCEPT !.enabled = TRUE, !.secret = key[u]]
                              ELSE NewSettings]
       /\ generated = {key[u] : u \in enrolled}
  /\ challenge = [c \in Challenge |-> Unissued]
  /\ now = 0
  /\ pc = [r \in Request |-> "idle"]
  /\ req = [r \in Request |-> NoRequest]
  /\ mine = [r \in Request |-> NewSettings]
  /\ sessions = [c \in Challenge |-> 0]
  /\ enforced \in BOOLEAN
  /\ accepted = {}

\* The steps that wait for a row, and those that do not.
Wait(r) ==
  \/ \E c \in Challenge : CreateChallenge(r, c)
  \/ OpenDirectly(r) \/ LockChallenge(r) \/ LockUser(r) \/ LockSettings(r) \/ Issue(r)
Work(r) ==
  \/ Refuse(r) \/ Reject(r) \/ Accept(r)
  \/ \E s \in Secret : Setup(r, s)

\* Codes a client may send: a wrong one, or one its authenticator shows about
\* now for a secret it was given.
Codes == {WrongCode} \cup (generated \X (Nat \cap (now - 1)..(now + 1)))

Next ==
  \/ \E r \in Request, u \in User : Login(r, u)
  \/ \E r \in Request, c \in Challenge :
       \/ BeginMfa(r, "setup", c, WrongCode)
       \/ \E kind \in {"confirm", "verify"}, code \in Codes : BeginMfa(r, kind, c, code)
  \/ \E r \in Request : Wait(r) \/ Work(r) \/ Crash(r)
  \/ Tick

Spec == Init /\ [][Next]_vars

\* A handler that can go on does; PostgreSQL grants row locks in the order of
\* the requests, so that a handler whose row becomes free again and again gets
\* it.  Workers need not die.
FairSpec ==
  /\ Spec
  /\ \A r \in Request : WF_vars(Work(r)) /\ SF_vars(Wait(r))

(***************************************************************************)
(* Properties                                                              *)
(***************************************************************************)
TypeOK ==
  /\ settings \in [User -> Settings]
  /\ challenge \in [Challenge -> ChallengeRow]
  /\ generated \subseteq Secret
  /\ now \in 0..MaxTime
  /\ pc \in [Request -> Steps]
  /\ req \in [Request -> [kind : {"login"}, user : User]
                         \cup [kind : {"setup", "confirm", "verify"}, chal : Challenge, code : Code]
                         \cup {NoRequest}]
  /\ mine \in [Request -> Settings]
  /\ sessions \in [Challenge -> Nat]
  /\ enforced \in BOOLEAN
  /\ accepted \subseteq Challenge \X Nat \X Nat

\* A challenge lets at most one request through, and opens at most one session
\* and none without it, however many confirm or verify requests carry it.
OneSessionPerChallenge ==
  \A c \in Challenge :
    LET grants == Cardinality({a \in accepted : a[1] = c}) IN
    /\ sessions[c] <= grants
    /\ grants <= 1
    /\ grants = 1 => challenge[c].used

\* A TOTP code that was accepted is never accepted again for the same user,
\* under another challenge either.
NoCodeTwice ==
  \A a, b \in accepted :
    a # b /\ challenge[a[1]].user = challenge[b[1]].user => a[2] # b[2]

\* Enrolment is complete or has not happened: an enabled user has a secret and
\* no pending one that a leftover enrolment challenge could put in its place.
EnrolledOrNot ==
  \A u \in User : /\ settings[u].enabled <=> settings[u].secret # NoSecret
                  /\ settings[u].enabled => settings[u].pending = NoSecret

\* Once enabled, the second factor stays enabled with the same secret, also
\* with a second enrolment under way in another tab.
SecretStable ==
  [][\A u \in User : settings[u].enabled =>
       settings'[u].enabled /\ settings'[u].secret = settings[u].secret]_vars

\* A challenge takes MaxTries failures and is then used up.
TriesBounded ==
  \A c \in Challenge : challenge[c] # Unissued =>
    /\ challenge[c].failed <= MaxTries
    /\ challenge[c].failed = MaxTries => challenge[c].used

\* As long as a user is locked nothing counts: no failure, no success, no change
\* of the lock, not even from requests that were under way when it was set.
LockHolds ==
  [][\A u \in User : Locked(settings[u]) =>
       /\ settings'[u].lockedUntil = settings[u].lockedUntil
       /\ settings'[u].failed = settings[u].failed
       /\ settings'[u].lastStep = settings[u].lastStep]_vars

\* Every failure from the threshold on locks the user at once.
ThresholdLocks ==
  [][\A u \in User : settings'[u].failed > settings[u].failed /\ settings'[u].failed >= Threshold =>
       settings'[u].lockedUntil > now]_vars

(* What the rows show of the second factor.                                *)
Phase(c) ==
  IF ~challenge[c].used THEN "open"
  ELSE IF sessions[c] > 0 THEN "session"
  ELSE IF \E a \in accepted : a[1] = c THEN "granted" ELSE "closed"
Ticket == [c \in Challenge |->
  IF challenge[c] = Unissued THEN Unissued
  ELSE [owner |-> challenge[c].user, purpose |-> challenge[c].purpose,
        tries |-> challenge[c].failed, phase |-> Phase(c)]]
SecretOf == [u \in User |-> settings[u].secret]
LastStep == [u \in User |-> settings[u].lastStep]
Failures == [u \in User |-> settings[u].failed]
LockedUntil == [u \in User |-> settings[u].lockedUntil]
Factor == INSTANCE SecondFactor
  WITH ticket <- Ticket, secret <- SecretOf, last <- LastStep, failures <- Failures,
       lockedUntil <- LockedUntil, Periods <- {Schedule[i] : i \in 1..Len(Schedule)}

\* The transactions of setup, confirm and verify are as good as single steps: what
\* they commit was decided on rows that were still so, whoever else was under way.
ImplementsFactor == Factor!Spec

\* Every login, setup, confirm and verify ends, without a worker being killed: no
\* two of them wait for each other's rows, whatever challenges they carry, and
\* a session or challenge that waits for the user row gets it.
EveryRequestEnds == \A r \in Request : pc[r] # "idle" ~> pc[r] = "idle"
=============================================================================
