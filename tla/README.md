# Verification of profile_identity_backend

TLA+ models of the identity service (`src/`): its refresh-token sessions, its
second factor, its password lockout, its accounts, profiles and groups, and what
it tells the legacy system and the company service, with the runs that check them with TLC and theorems about them that TLAPS checks.

## 1. The system

A Django 5 service over PostgreSQL, served by gunicorn (`docker-compose_produccion.yaml:14`:
2 workers with 2 threads each; with threads, `--timeout` watches the worker and
kills no slow request).
Three facts shape every model:

* the database runs READ COMMITTED in autocommit, and there is no
  `ATOMIC_REQUESTS`: outside an explicit `transaction.atomic()` every query of a
  handler stands alone and other handlers run between two of them;
* the ORM reads a row into an object, changes it in memory and writes all of it
  or the columns named in `update_fields` back later;
* a worker can die anywhere; what was committed stays.

### Inventory

| Component | State | Operations | What is hard | What makes it correct |
|---|---|---|---|---|
| Refresh-token sessions (`auth_sessions.py`, refresh and logout in `serializers.py`, `views.py`) | `auth_sessions` rows, SimpleJWT's blacklist | open, refresh (find, verify, blacklist, rotate), logout (find, revoke, verify, blacklist) | stale rows, two refreshes with one token, logout against refresh, a crash between blacklist and rotation | revocation is final; a logged-out session is revoked; a spent token stays spent |
| Second factor (`mfa_services.py`, MFA serializers and views) | `user_mfa_settings`, `mfa_challenges` | login decision, setup, confirm, verify | concurrent requests on one challenge or user, leftover challenges, replay in the window, row locks | one session per challenge, no code twice, an enrolled secret is stable, the lock holds |
| Password check and lockout (`login_lockout.py`, `authentication_backends.py`) | `failed_login_attempts`, `password_locked_until` | check, record failure, reset | three reads of the row at three moments, full-row saves elsewhere | failures counted, guesses bounded, locks end |
| Lockout schedules (both `_lockout_minutes_for_failures`) | none | number of failures to minutes | multiples of the threshold, end of the schedule, threshold 0 | agreement with a reference |
| Registration and profile edit (`application/use_cases.py`) | `users` | register, update | uniqueness races, `user.save()` of a stale row, posts before the commit | one account per address and type; the legacy system is told or will be |
| Legacy synchronisation (`legacy_sync.py`, `infrastructure/`, retry command) | `legacy_sync_outbox` | post, enqueue, retry | lost and late posts, posts before the commit, two retry commands, crashes, reordering | no change is forgotten, no record is retried twice at once, in step while nothing fails |
| Groups | `groups`, `group_users` | create, leave, remove, delete | two posts per change, before the commit; a deletion while a member leaves | no member is dropped in the legacy system, deletions are not undone |
| Profile information (`profile_services.py`) | `profiles_information` | lazy creation, edit, deletion of an empty profile | creation in a transaction and posted after it, edits and deletions of a stale instance | the legacy system shows the row, or the next change makes it so |
| Company registration (`company_profiles.py`) | `users` and a remote service | provision inside the local transaction | one of the two fails, the answer is lost or late | no account without profile; a profile without account only where the outcome of the post was not known |
| Company synchronisation command | `users` | fetch, look up, update or create | look up, then write, while companies register | one account per address |
| Import command | all tables | update or create from a file, one transaction | run while the service is in use | idempotence |
| Access-token validation (`ValidateTokenView`) | none | validate | reads `is_active`, never the session | an inactive user is refused |
| Observability, routing, admin, settings, migrations | counters, logs | | | |

A login goes through three components: the password check resets or counts
failures on the user's row; the second factor issues a challenge and later
consumes it; a session row is inserted. From then on a client deals with
refresh and logout. A profile edit writes the row the password check relies on;
an import or sync command changes `is_active`, which refresh looks at. Edits,
registrations and group changes post to the legacy system before they commit,
and leave an outbox record behind when the post fails.

## 2. Modules

| Module | Models |
|---|---|
| `AuthSessions` | refresh, logout and the opening of a session, one action per query |
| `SessionLifecycle` | what sessions promise: the abstract specification |
| `AuthSessions_proofs` | theorems about `AuthSessions` |
| `MfaLogin` | from an accepted password over challenge and code to a session |
| `SecondFactor` | what the second factor promises: the abstract specification |
| `MfaLogin_proofs` | theorems about `MfaLogin` |
| `PasswordLockout` | the password check, its lockout, and the profile edit |
| `PasswordLockout_proofs` | theorems about `PasswordLockout` |
| `LockoutSchedule` | the two schedule computations, used by both models above |
| `LockoutSchedule_proofs` | theorems about them, and that they follow the reference |
| `LegacySync` | the posts of a user's edits to the legacy system, the outbox, the retry command |
| `LegacySync_proofs` | theorems about `LegacySync` |
| `Groups` | the life of a group and what the legacy system shows of it |
| `Groups_proofs` | theorems about `Groups` |
| `ProfileInformation` | the profile of a user: lazy creation, edit, deletion |
| `ProfileInformation_proofs` | theorems about `ProfileInformation` |
| `Accounts` | registration of researchers and companies, provisioning, the company synchronisation command |
| `Accounts_proofs` | theorems about `Accounts` |
| `LockoutReference` | a reference for the two schedule computations |
| `MCAuthSessions`, `MCMfaLogin`, `MCPasswordLockout`, `MCLegacySync`, `MCGroups`, `MCProfileInformation`, `MCAccounts` | instances for TLC |

Beside some definitions stand *faulty variants* (`FullSaveOfRotation`,
`NoSelectForUpdate`, `UserLockedFirst` and others): what the code would do with a
plausible bug. No specification uses them. Put in place of the definition they
stand beside, each makes one property fail, which is how the properties are
known to say something; `PROJECT.json` lists the pairs under `mutants`.

### AuthSessions

`session[s]` is a row of `auth_sessions`, reduced to `refresh_jti`, whether
`revoked_at` is set, and `rotation_count`; the hash and `expires_at` of a row
belong to the token its `refresh_jti` names. A handler is a program counter
`pc`, its token, the session it found and the row it read (`copy`).

A refresh is `BeginRefresh` (the first `RefreshToken(raw)`), `FindSession`
(the query of `get_active_session_for_refresh`), `Verify` and `Blacklist`
(SimpleJWT's `TokenRefreshSerializer.validate`, modelled from its call at
`serializers.py:456`), `Rotate` (`rotate_auth_session`, on the stale copy but
with `update_fields`) and `Answer`. A logout is `BeginLogout`, `FindLogout`,
`Revoke`, `VerifyLogout`, `BlacklistLogout`. `OpenSession` and `Answer` are
the end of a login. The environment expires tokens, switches `is_active` and
kills workers. A request that is refused before it changed anything is not a
step.

Tokens are in the model only once minted; clients send tokens they received.
The history variables `displaced`, `exchanged`, `loggedOut`, `stranded` record
what the properties speak of; no guard reads them.

`SessionLifecycle` knows only open, renew, close and discard. Under the
mapping in `AuthSessions` (`Lifecycle`) a revoked row is a closed session and
the current token is the `refresh_jti` of a row that is not revoked. A refresh
that saves after a logout discards its new token.

### MfaLogin

Setup, confirm and verify each run in one transaction. `_get_locked_mfa_challenge`
locks the challenge and, because of `select_related`, its user; then the
settings are locked. `LockChallenge`, `LockUser`, `LockSettings` acquire them
one by one; `Locks` gives the locks a handler holds at each point. The effects
of the transaction become visible in the action that commits it (`Setup`,
`Reject`, `Accept`), and the second `select_for_update` of rows already held
never waits. `Issue` is the session opened after the commit. The foreign keys
of a challenge and of a session need the user's row not to be locked by
another transaction. `OpenDirectly` is the session of a user who is not
enrolled when the second factor is optional; a user who must have one gets a
challenge (`CreateChallenge`) to verify or to enrol. The mode of enforcement is
chosen at the start (`enforced`) and stays, so every run and theorem covers both.

A code is the secret and the TOTP step it was made from: that two secrets or
two steps give the same six digits by chance is left out, so are encryption,
QR code and the wording of answers. The clock counts TOTP intervals; lockouts
and the life of a challenge are given in the same unit. The history variable
`accepted` records every acceptance.

`SecondFactor` has no rows, locks or handlers: in one step a code is judged and
takes effect. Its challenges are open, granted, used for a session or closed, its
users have a secret, a last step, a number of failures and the end of a lock. The
mapping in `MfaLogin` (`Factor`) reads these off the rows; taking a lock, reading
and refusing are stutters, so is setup, whose pending secret counts only once it
is confirmed. That a challenge has expired is not among the promises: the code
looks at `expires_at` once (`LockUser`), and the commit may be later.

### PasswordLockout

One account. A login reads the row three times, as the code does: the
candidate (`BeginLogin`), the user of `authenticate` (`Authenticate`), and the
locked row of `record_password_failure` (`RecordFailure`). A success resets
only columns that were set in the row it read (`ResetFailures`). `BeginEdit`
and `SaveEdit` are `UserUpdateView` with `update_user`; the event it publishes
does not touch the row. A lock is the number of minutes left, 0 once it ran
out, and is `Never` when the column is NULL; `Tick` lets a minute pass on the
row and on the copies alike. `since`, `total` and `late` are history.

### LegacySync

One user row. Its contents are numbered by the edits that write them, and a
content is at the same time its payload and its outbox record: an edit posts
once. An edit is one transaction: `SaveUser` writes the row and from then on
holds its lock, `PostUser` posts it, `CommitUser` commits the row together with
the record of a post that failed. A retry command is `StartCommand` (the query
for candidates, without a lock), then per candidate `TakeItem` (lock, second
look at the status, PROCESSING), `PostItem`, `CommitItem`, and `EndCommand`.
PROCESSING is saved and replaced inside one transaction, so the committed
`outbox` never shows it. `next_retry_at` is the set `due`; `TakeItem` does not
look at it, as the code does not.

A post is answered 2xx, 410 (which the code takes for success), refused, or
fails with its outcome unknown: an error status or a timeout, after which it was
processed, is lost, or is in `network` and may `Arrive` later. `Crash` rolls a
transaction back, not its post.

The synchronisation is taken to be enabled, here and in `Groups`,
`ProfileInformation` and `Accounts`. `.env.example:38` ships it disabled:
`send_legacy_sync` then reports success without a post (`legacy_sync.py:30-31`),
edits tell nobody, and a retry command marks open records COMPLETED without
sending them. `NothingLost` and what the other modules say of the legacy system
do not hold for such a service.

The code does not order retries after newer posts: an old content that failed
may replace a newer one in the legacy system, and a post whose edit did not
commit is not taken back. Nothing in the repository promises otherwise, so
`LegacyInStep` speaks only of histories in which no post of an edit failed and
no edit died after its post (`disturbed`); the model contains the other histories.

### Groups

One group, as rows of different groups do not meet. The view reads the group
before the transaction (`BeginLeave`, `BeginRemove`, `BeginDelete`: it exists,
and the policy allows the operation); then the transaction deletes membership
rows (`EndMembership`, `Delete`), posts and commits. Nobody locks the group
itself: `RowsFree` is the lock of the membership rows a transaction has deleted
and not committed. `GetGroup` is `Group.objects.get` of the event handler, which
raises when the group is gone. `sync_group` lists the members twice and posts
twice, so `ListMembers` runs before `PostGroup` and before `PostMembers`. The
legacy system (external) takes a group with its members from the first post
and ignores memberships of a group it does not know.

A request for somebody who is no member any more deletes no row and locks
nothing; its posts can follow those of a deletion and bring the group back in the
legacy system. `overtaken` marks these histories, `overlapped` those in which two
changes were under way at once, `disturbed` those in which a worker died between
a post and the commit. Two removals at once each post the other's member, and
the legacy group keeps one of them; `GroupInStep` therefore asks for equality
only without an overlap.

### ProfileInformation

One user. `Get`, `Insert` and `GetAgain` are Django's `get_or_create`: the query,
the insertion in a transaction of its own, which waits for whoever holds the key
of the user, and the second query after an IntegrityError. `Tell` is the post
that follows, outside any transaction. Then comes the operation with the
instance it got: `Save` is `profile.save()`, an UPDATE by primary key, and
`Reinsert` the INSERT Django tries when the UPDATE finds no row, which brings a
deleted profile back or fails on a new one. `Delete` trusts the emptiness of the
instance: it goes by the primary key, and a content that another request saved
since the instance was read is deleted with the row. Nothing in the repository
promises otherwise, so no property forbids it. A deletion that finds no row posts
"deleted" all the same.

`astray` is TRUE from the moment the legacy system was told something out of
order (the late post of a creation, the post of a deletion that found no row), or
that was rolled back, or was not told of a creation whose worker died, until the
next post of a change that holds the row. The content is one value: that a PATCH
writes the fields it does not change back as it read them is not told apart from
an edit of all fields.

### Accounts

Rows of `users` reduced to identifier, address and account type. A researcher:
`RegisterResearcher` (the check of `validate_username`), `Insert`, `PostUser`
and `PostProfile` (accepted, or queued in the outbox by the same transaction),
`Commit`. A company: `RegisterCompany`, `Insert`, `Send`, then `Answered` or
`Timeout`, `Commit`; everything but 200 and 201 rolls back
(`company_profiles.py:40-43`). `Process` is the company service (external, from
how `company_profiles.py` uses it): it makes the profile (200, 201), or refuses
an address that belongs to another company (409); it may process a request after
the registration has given up. `AnswerError` is any other status, of the service
or of a gateway before it (500 stands for all of them). Such an answer says
nothing of the profile: it may have been made, may be made yet, or never. The command is `Fetch`, then per company
`LookUp` and `Upsert`. The two queries of `LookUp` are one action: accounts are
never removed and keep their address, so whatever appears between the two is
found by the second or by the constraint of the insertion.

The address of a registration that gave up, died or was answered an error over its
post may stay blocked: the company service has it under an identifier that no
account has, a second attempt sends another and is refused. The history variable
`unsure` collects these registrations, and `NoOrphanProfile` says that no other
leaves such a profile: none that was answered 409, and none that goes on.

## 3. Runs

| Run | Shows |
|---|---|
| `sessions` | `LogoutRevokes`: a logout answered 204 has revoked its session, up to displaced tokens. `SpentTokensStayDead`. `StrandedOnlyByCrash`: a live session with a blacklisted token is the work of a crash. `RevocationIsFinal`: no stale save reopens a session. `ImplementsLifecycle`: the handlers implement `SessionLifecycle`. `RevocationDrains`: refreshes on a revoked session run out |
| `mfa_login` | `OneSessionPerChallenge`, `NoCodeTwice` (across challenges), `LockHolds` (nothing counts during a lock), `ThresholdLocks`; `EnrolledOrNot`, `SecretStable`: a second enrolment cannot replace the secret. `ImplementsFactor`: the transactions implement `SecondFactor`, whatever they interleave with, which bounds the tries of a challenge too |
| `mfa_ends` | `EveryRequestEnds`: every login, setup, confirm and verify ends, in both modes of enforcement; the lock order never leads to a deadlock |
| `password_lock` | `FailuresCounted`, `LockBoundsGuesses`: past a lock only requests under way still guess. `PasswordScheduleRight`, `MfaScheduleRight`, `LockoutsEscalate`: for the next failures of the account both schedule computations agree with a reference, and lockouts escalate, for all small thresholds and schedules |
| `password_edits` | with an edit that saves old rows back: `NoLockWithoutCause`, and `LockEnds`: requests past the check extend a lock, but not for ever |
| `legacy_sync` | `NothingLost`: a committed content was accepted or its record is open. `RetriedByOne`: a record is in the hands of one command, and never again once completed. `LegacyInStep`: while nothing fails the legacy system shows the row between edits |
| `groups` | `GroupInStep`: the legacy system shows every member, and nobody else unless changes overlapped. `DeletedStaysDeleted` |
| `profiles` | `ProfileInStep`: between requests the legacy system shows the profile, however creations, edits and deletions overlapped, or the next change repairs it. |
| `accounts` | `OneAccountPerAddress`; `Backed`: no company account without its profile, no researcher the legacy system will never hear of. `NoOrphanProfile`: a profile without account belongs to a registration that is under way or did not know its outcome. `EveryRequestEnds`: the timeout of the post ends every wait |

Three runs end in a violation. Each states what a test of the repository
expects and finds an interleaving the test does not have:

* `sessions_logout_lost` (`auth_sessions.py:56`; `tests.py:191-193`): two
  refreshes with one token pass the blacklist check together and both rotate
  the row. The client that got the first new token logs out: the query finds no
  session, the answer is 204 and the session goes on. (The same two refreshes
  raise `rotation_count` by one, `auth_sessions.py:36`; nothing reads it.)
* `password_edit_lost` (`use_cases.py:47`; `tests.py:106-107`): a profile edit
  saves the failure counter and the lock back as it read them.
* `password_reset_lost` (`login_lockout.py:30-39`; `tests.py:136-138`): a success
  whose copy had failures but no lock resets the counter and leaves a lock that
  was set meanwhile.

### Bounds

* `AuthSessions`: one session. Queries go by `refresh_jti`, which is unique, so
  handlers meet only on the session their tokens belong to. Three tokens (one
  opening, two rotations) and two handlers, which is where a logout meets a
  refresh and two refreshes displace a token; a logout may follow with the
  displaced one. The proofs have no bound.
* `MfaLogin`: two handlers and two challenges; one user, who is enrolled or not
  at the start, as rows of different users do not meet. In `mfa_login` the clock moves once, which gives three TOTP steps with
  window 1, and a challenge lives for one interval, so that it expires; two tries per challenge and a threshold of two, so that a lock comes
  from two challenges as well as from one, runs out and is followed by a second.
  Two secrets for two enrolments at once. `mfa_ends` is about waiting and not about
  the counting: a challenge takes one try, and the clock stands, as a challenge
  that expired ends a request where one that was used does. A login begins only
  if a challenge is left for it, and a setup only if a secret is
  (`ChallengesLeft`, `SecretsLeft`), so that no request waits for what the bound
  has used up.
* `PasswordLockout`: counters stop at `MaxFailures` = 4, which with threshold 2
  and two periods is where the schedule has reached its last period; a
  counter that stops leaves the lockout as it is, so failing goes on. Three
  handlers for `LockBoundsGuesses` (two late guesses), two and an edit elsewhere;
  `password_edits` has one period of two minutes and stops at two failures,
  which is enough to lock, to extend a lock and to let it run out.
* `LegacySync`: two edits and two commands at once, which is where they meet on
  the row and on a record; three contents, so that a command holds two candidates
  (`Limit` = 2) and leaves a third to the other. The proofs have no bound.
* `LockoutSchedule`: thresholds up to 4, schedules of up to three periods, up to
  18 failures (four counted ones and `MoreFailures` = 14), beyond the last period
  for every threshold.
* `Groups`: three requests at once: two removals and the deletion, the smallest
  case in which a post of a change can follow that of the deletion. An
  administrator, two members or non-members and a company, which cannot be one.
* `ProfileInformation`: three requests at once (a creation, an edit, a
  deletion), three primary keys (`MaxRows`: a profile is deleted and made again
  twice) and two contents (`MaxEdits`) besides the empty one.
* `Accounts`: three threads, two registrations (`Id`) and any number of imports;
  two addresses, one of them of the one company the other service had before.

Symmetry is used for requests, challenges, secrets, accounts and threads in safety
runs, never in liveness runs. Deadlock is not checked: tokens, challenges, contents
and the clock run out in the models, where the service goes on.

### Fairness

* `AuthSessions`: a handler goes on or dies with its worker, so weak fairness of
  `Step \/ Crash` per handler: between two autocommit queries it waits for
  nobody. No more is assumed: a new request need not come.
* `MfaLogin`: a handler that can run does (weak fairness). A handler that waits
  for a row gets it if it becomes free again and again (strong fairness of the
  waiting steps), as PostgreSQL queues waiters. Waiting steps are the three locks
  and the insertions of a challenge or a session, whose foreign keys need the
  user's row. Crashes are not assumed: the property is that no worker has to be
  killed.
* `PasswordLockout`: only time passes (weak fairness of `Tick`). `LockEnds`
  holds because logins that start during a lock are refused.

* `Accounts`: a thread that can go on does (weak fairness of `Step`); the company
  service need not answer, and `Timeout` is a step of the thread
  (`company_profiles.py:36`). An insertion waits for the one registration that
  holds its key; that identifiers run out in the model leaves out an endless
  series of registrations of one address in front of another.

## 4. Proofs

`AuthSessions_proofs` proves, for any sets of sessions, tokens, handlers and
users and with only the assumptions that the null values are none of them and
that sessions have owners, `TypeOK`, `LogoutRevokes`, `SpentTokensStayDead`,
`StrandedOnlyByCrash`, `RevocationIsFinal` and the refinement of
`SessionLifecycle`. All rest on the inductive invariant `IInv`. `LogoutRevokes`
is not inductive: one has to know what a handler relies on between its queries.
`HandlersOK` says it: after the find of a logout its session was revoked, or the
row had dropped the token, which means the token is blacklisted or displaced;
the second check of the logout (`VerifyLogout`) rules out the blacklisted. This
is why dropping that check breaks the invariant. `RowsOK` relates rows and
tokens both ways, `TokensOK` says that a token that was exchanged or displaced
is no longer named by its row. The refinement maps each action to a step or a
stutter: `Rotate` renews an open session and discards its token on a revoked
one.

`LockoutSchedule_proofs` shows that the schedule index is in range for every
threshold and schedule, that the two versions agree for positive thresholds,
that a nondecreasing schedule gives nondecreasing lockouts, and that both
versions follow `LockoutReference` (`ScheduleIsReference`). The reference counts
the multiples of the threshold among the failures, the code divides: the two
meet in a bijection between 1..(n div threshold) and those multiples. Unlike
the run, the theorem has no bound on failures, thresholds or periods.

`PasswordLockout_proofs` shows the types and, with profile edits,
`NoLockWithoutCause`: the row an edit saves back was the account's row once,
so its lock had a cause then and the failures ever recorded only grow
(`AllCaused` says so of the row and of every copy). Under the assumption that no
profile edit runs (`Editor = {}`) it shows `FailuresCounted` and
`LockBoundsGuesses` for any number of handlers, threshold and schedule. With
edits the first is false (`password_edit_lost`). For the bound on guesses the
invariant counts the late failures and the requests still under way together: a
lock is set by one of them, and none joins during it. The three properties of
the schedules follow from the types and the theorems about `LockoutSchedule`.

`MfaLogin_proofs` shows, for any users, challenges, secrets, requests and
settings (a positive lifetime, number of tries and threshold, a schedule that is
not empty) and in both modes of enforcement, every safety property of the
`mfa_login` run. Its invariant is about
the row locks: no two requests hold the same row (`LocksExclude`). So a challenge
that was unused when it was checked is unused when its transaction commits, and
the settings a handler read are the settings it changes (`HandlersOK`): without
the lock on the settings, a second enrolment would bring in its own secret.
An accepted code has used up its challenge (`GrantsOK`), which makes the session
of a challenge the only one; `last_totp_step` bounds all steps that were ever
accepted for the user (`LastStepOK`), which is why no code returns under another
challenge. The three action properties follow from the invariant: one step per
action, and only the holder of the settings changes them. `FactorImplemented` maps every action to a
step or a stutter of `SecondFactor`: what `Reject` and `Accept` rely on was read
earlier, and `HandlersOK` says that it is still so.

`Accounts_proofs` shows, for any addresses, identifiers, companies of the other
service and threads, the four safety properties of the `accounts` run. It
assumes that fresh identifiers are not those of companies the other service had
before, and that `None` is neither an identifier nor an answer. What a thread has
established at each point is `ThreadOK`: its identifier belongs to no account and,
once it inserted, nor does its key; what it posted is told or in its queue; its
request for a profile is processed at most once, and `ProfileTraced` follows it
from the post to the answer: after 200 or 201 the profile is there, after a 409
there is none and will be none, after an error nothing is known, as before the
answer. Registrations have different identifiers and, once
inserted, different keys (`ThreadsApart`), which is what the unique constraint
gives. `NoOrphanProfile` needs `TravellingOK`: every request that still travels
belongs to a registration that waits, or that ended without knowing its outcome.

`ProfileInformation_proofs` shows, for any number of requests, rows and contents,
the two properties of the `profiles` run. One transaction at a time writes the
row (`OneWriter`). Unless `astray`, the legacy system is ahead by what a writer
has posted and not committed, behind by a new row whose creator has still to
tell, and equal otherwise (`ShownOK`).

`LegacySync_proofs` shows, for any number of edits, commands and contents and
any `--limit`, the four properties of the `legacy_sync` run. What makes them
inductive (`ThreadsOK`, `InStep`): edits exclude each other from their save to
their commit, which is the row lock; a record under retry is open and in no other
command's hands; a thread that was answered 2xx or 410 posted an accepted
content; and as long as nothing failed there is neither a record nor a post in
the network, so that no retry can disturb the order of the edits.

`Groups_proofs` shows, for any accounts and any number of requests at a time,
the three properties of the `groups` run, assuming only that researchers are
accounts, the administrator is one, and `NoGroup` is no set of accounts. The
invariant says what a request may rely on. The rows a transaction deleted belong
to nobody else (`RowsOK`), and a deletion has them all: hence a removal that
holds its row cannot post once the deletion has (`DeletionOK`), and a removal
without one is what `overtaken` records. What the legacy system shows lacks no
member but those whose removal was posted and is not committed (`ShownOK`,
`Complete`); without an overlap it shows nobody else (`Exact`), because then one
transaction runs at a time (`AloneOK`) and what it listed is what its commit
leaves (`ListOK`).

Only model-checked are the liveness properties (`RevocationDrains`, `LockEnds`,
`EveryRequestEnds` of `MfaLogin` and of `Accounts`), which are out of the
prover's reach. Every other property of a passing run is a theorem, `FailuresCounted`
and `LockBoundsGuesses` without profile edits, as in the run that checks them.

## 5. Not modelled, and the plan

Done: `LockoutSchedule`, `AuthSessions` with `SessionLifecycle`, `MfaLogin`,
`PasswordLockout`, `LegacySync`, `Groups`, `ProfileInformation`, `Accounts`. Next:

1. Proofs: an abstract specification of the outbox, shown to be implemented.
2. `LoginFlow`: password, second factor and session in one model with
   `is_active`, and the validation of access tokens (which only reads).
3. The outbox behind `Groups`, `ProfileInformation` and `Accounts`, whose posts
   are taken to be answered 2xx or, in `Accounts`, queued: what a late retry does to
   a group or a profile is what `LegacySync` shows for a user. The starvation of
   records beyond `--limit` by older ones that fail again and again, and an
   abstract specification of the outbox under a fairness for the retry command,
   which nothing in the repository schedules.
4. The import command. It copies a file into all tables in one transaction, by
   hand, when the service takes over; run during operation it writes rows back
   without telling anybody.

Left out for good: logging, metrics and security events, which feed nothing
back; routing, admin and migrations; password hashing and validation; JWT
signatures and the encryption of secrets, which are taken to work; the unique
`scopus_id`; what a payload contains beyond the values the properties compare.
