------------------------------ MODULE Accounts ------------------------------
(***************************************************************************)
(* How rows of `users` come to be: the registration of a researcher, the   *)
(* registration of a company with its profile in the other service, and    *)
(* the command that imports the companies of that service.                 *)
(*                                                                         *)
(* Each looks for the address first and inserts later; the constraint on   *)
(* address and account type decides.  A registration posts to another      *)
(* system before it commits.                                               *)
(***************************************************************************)
EXTENDS FiniteSets

CONSTANTS
  Address,   \* e-mail addresses, in lower case
  Id,        \* identifiers generated here, never the same twice
  Legacy,    \* identifiers of companies the other service had before
  Request,   \* threads and commands
  None       \* no account, no answer

ASSUME IdAssumption == Id \cap Legacy = {} /\ None \notin Id \cup Legacy
ASSUME AnswerAssumption == None \notin {200, 201, 409, 500}

VARIABLES
  accounts,  \* committed rows of users
  outbox,    \* committed outbox records: what is queued, for which account
  told,      \* what the legacy system said it accepted, for which account
  profiles,  \* company profiles in the other service
  travelling,\* requests for a profile that were not processed yet
  pc,        \* where a thread is
  pending,   \* the row it wants to insert, or inserted and did not commit
  queued,    \* the outbox records its transaction inserted
  answer,    \* the status of the answer it waits for, or None
  todo,      \* the companies a command has still to look at
  \* history
  used,      \* identifiers generated
  unsure     \* identifiers of registrations that gave up, died or got an error over
             \* a post

vars == <<accounts, outbox, told, profiles, travelling, pc, pending, queued,
          answer, todo, used, unsure>>

Steps == {"idle", "insert", "post user", "post profile", "provision", "wait", "commit",
          "next", "upsert"}
Posts == {"user", "profile"}
Row == [id : Id \cup Legacy, address : Address, type : {"researcher", "company"}]
Profile == [id : Id \cup Legacy, address : Address]

(***************************************************************************)
(* The database and the other service.                                     *)
(***************************************************************************)
SameKey(x, y) == x.address = y.address /\ x.type = y.type

\* identity_unique_email_per_account_type.  Faulty variant: no constraint.
Unconstrained(r) == FALSE
Taken(r) == \E x \in accounts : SameKey(x, pending[r])

\* The steps at which a transaction has inserted its row.
Inserted(r) == pc[r] \in {"post user", "post profile", "provision", "wait", "commit"}

\* An insertion waits for one with the same key until that ends.
KeyFree(r) == \A x \in Request \ {r} : Inserted(x) => ~SameKey(pending[x], pending[r])

\* What counts as provisioned.  Faulty variants: one of the codes, any answer.
OnlyOk(status) == status = 200
AnyAnswer(status) == TRUE
Provisioned(status) == status \in {200, 201}

\* An address belongs to one company there.
Conflict(profile) ==
  \E x \in profiles : x.address = profile.address /\ x.id # profile.id

\* Faulty variant: the identifier of the account is not put into the payload.
IdLost(r) == [id |-> None, address |-> pending[r].address]
ProfileOf(r) == [id |-> pending[r].id, address |-> pending[r].address]

Goto(r, step) == pc' = [pc EXCEPT ![r] = step]

\* Rollback, or nothing more to do: what is not committed is forgotten.
End(r) ==
  /\ Goto(r, "idle")
  /\ pending' = [pending EXCEPT ![r] = None]
  /\ queued' = [queued EXCEPT ![r] = {}]
  /\ answer' = [answer EXCEPT ![r] = None]
  /\ todo' = [todo EXCEPT ![r] = {}]

(***************************************************************************)
(* Registration.                                                           *)
(***************************************************************************)

\* One unused identifier is as good as another.
NewId == CHOOSE id \in Id : id \notin used

\* validate_username: nobody has the address yet.
Validate(r, row) ==
  /\ pc[r] = "idle" /\ Id \ used # {}
  /\ \A x \in accounts : ~SameKey(x, row)
  /\ used' = used \cup {row.id}
  /\ pending' = [pending EXCEPT ![r] = row]
  /\ Goto(r, "insert")
  /\ UNCHANGED <<accounts, outbox, told, profiles, travelling, queued, answer, todo, unsure>>

RegisterResearcher(r, address) ==
  Validate(r, [id |-> NewId, address |-> address, type |-> "researcher"])
RegisterCompany(r, address) ==
  Validate(r, [id |-> NewId, address |-> address, type |-> "company"])

\* A row that was committed since then is an IntegrityError.
Insert(r) ==
  /\ pc[r] = "insert" /\ KeyFree(r)
  /\ IF Taken(r) THEN End(r)
     ELSE /\ Goto(r, IF pending[r].type = "company" THEN "provision" ELSE "post user")
          /\ UNCHANGED <<pending, queued, answer, todo>>
  /\ UNCHANGED <<accounts, outbox, told, profiles, travelling, used, unsure>>

\* A post is accepted, or queued for whatever other reason.
Posted(r, what) ==
  LET record == <<what, pending[r].id>> IN
  \/ told' = told \cup {record} /\ UNCHANGED queued
  \/ queued' = [queued EXCEPT ![r] = @ \cup {record}] /\ UNCHANGED told

PostUser(r) ==
  /\ pc[r] = "post user"
  /\ Posted(r, "user")
  /\ Goto(r, "post profile")
  /\ UNCHANGED <<accounts, outbox, profiles, travelling, pending, answer, todo, used, unsure>>

PostProfile(r) ==
  /\ pc[r] = "post profile"
  /\ Posted(r, "profile")
  /\ Goto(r, "commit")
  /\ UNCHANGED <<accounts, outbox, profiles, travelling, pending, answer, todo, used, unsure>>

Commit(r) ==
  /\ pc[r] = "commit"
  /\ accounts' = accounts \cup {pending[r]}
  /\ outbox' = outbox \cup queued[r]
  /\ End(r)
  /\ UNCHANGED <<told, profiles, travelling, used, unsure>>

(***************************************************************************)
(* provision_company_profile.                                              *)
(***************************************************************************)
Send(r) ==
  /\ pc[r] = "provision"
  /\ travelling' = travelling \cup {ProfileOf(r)}
  /\ Goto(r, "wait")
  /\ UNCHANGED <<accounts, outbox, told, profiles, pending, queued, answer, todo, used, unsure>>

\* The other service makes the profile, or refuses; it may do so after the
\* registration gave up or got an error, and it may never do it.
Process(profile, status) ==
  /\ profile \in travelling
  /\ IF Conflict(profile) THEN status = 409 ELSE status \in {200, 201}
  /\ travelling' = travelling \ {profile}
  /\ profiles' = IF status = 409 THEN profiles ELSE profiles \cup {profile}
  /\ answer' = [r \in Request |->
       IF pc[r] = "wait" /\ answer[r] = None /\ ProfileOf(r) = profile THEN status
       ELSE answer[r]]
  /\ UNCHANGED <<accounts, outbox, told, pc, pending, queued, todo, used, unsure>>

\* 500 stands for every other status, of the service or a gateway before it.  It says
\* nothing of the profile, which may be processed yet, before the answer is seen
\* or after, or never.
AnswerError(r) ==
  /\ pc[r] = "wait" /\ answer[r] = None
  /\ answer' = [answer EXCEPT ![r] = 500]
  /\ UNCHANGED <<accounts, outbox, told, profiles, travelling, pc, pending, queued,
                 todo, used, unsure>>

Answered(r) ==
  /\ pc[r] = "wait" /\ answer[r] # None
  /\ IF Provisioned(answer[r])
     THEN Goto(r, "commit") /\ UNCHANGED <<pending, queued, answer, todo>>
     ELSE End(r)
  /\ unsure' = IF answer[r] = 500 THEN unsure \cup {pending[r].id} ELSE unsure
  /\ UNCHANGED <<accounts, outbox, told, profiles, travelling, used>>

\* The post fails after 5 seconds at the latest.  Faulty variant: never.
NoTimeout(r) == FALSE
GivesUp(r) == pc[r] = "wait"

Timeout(r) ==
  /\ GivesUp(r)
  /\ unsure' = unsure \cup {pending[r].id}
  /\ End(r)
  /\ UNCHANGED <<accounts, outbox, told, profiles, travelling, used>>

(***************************************************************************)
(* sync_company_identities.                                                *)
(***************************************************************************)

\* Companies without a password are passed over: those registered here.
Fetch(r) ==
  /\ pc[r] = "idle"
  /\ todo' = [todo EXCEPT ![r] = {x \in profiles : x.id \in Legacy}]
  /\ Goto(r, "next")
  /\ UNCHANGED <<accounts, outbox, told, profiles, travelling, pending, queued, answer, used, unsure>>

\* The owners of the address and of the identifier.
LookUp(r, company) ==
  LET owned == \E x \in accounts :
        \/ x.address = company.address /\ x.type = "company" /\ x.id # company.id
        \/ x.id = company.id /\ x.address # company.address IN
  /\ pc[r] = "next" /\ company \in todo[r]
  /\ todo' = [todo EXCEPT ![r] = @ \ {company}]
  /\ IF owned THEN UNCHANGED <<pc, pending>>
     ELSE /\ Goto(r, "upsert")
          /\ pending' = [pending EXCEPT ![r] =
               [id |-> company.id, address |-> company.address, type |-> "company"]]
  /\ UNCHANGED <<accounts, outbox, told, profiles, travelling, queued, answer, used, unsure>>

\* update_or_create in a transaction of its own; an IntegrityError is a conflict.
Upsert(r) ==
  /\ pc[r] = "upsert" /\ KeyFree(r)
  /\ accounts' = IF Taken(r) THEN accounts ELSE accounts \cup {pending[r]}
  /\ pending' = [pending EXCEPT ![r] = None]
  /\ Goto(r, "next")
  /\ UNCHANGED <<outbox, told, profiles, travelling, queued, answer, todo, used, unsure>>

EndSync(r) ==
  /\ pc[r] = "next" /\ todo[r] = {}
  /\ End(r)
  /\ UNCHANGED <<accounts, outbox, told, profiles, travelling, used, unsure>>

(***************************************************************************)
(* A worker dies.                                                          *)
(***************************************************************************)
Crash(r) ==
  /\ pc[r] # "idle"
  /\ unsure' = IF pc[r] \in {"wait", "commit"} THEN unsure \cup {pending[r].id} ELSE unsure
  /\ End(r)
  /\ UNCHANGED <<accounts, outbox, told, profiles, travelling, used>>

\* The companies of the other service at the start, one to an address.
Init ==
  /\ \E f \in [Legacy -> Address] :
       /\ \A x, y \in Legacy : f[x] = f[y] => x = y
       /\ profiles = {[id |-> x, address |-> f[x]] : x \in Legacy}
  /\ accounts = {} /\ outbox = {} /\ told = {} /\ travelling = {}
  /\ pc = [r \in Request |-> "idle"]
  /\ pending = [r \in Request |-> None]
  /\ queued = [r \in Request |-> {}]
  /\ answer = [r \in Request |-> None]
  /\ todo = [r \in Request |-> {}]
  /\ used = {} /\ unsure = {}


Step(r) ==
  \/ Insert(r) \/ PostUser(r) \/ PostProfile(r) \/ Commit(r)
  \/ Send(r) \/ Answered(r) \/ Timeout(r)
  \/ \E company \in Profile : LookUp(r, company)
  \/ Upsert(r) \/ EndSync(r)

Next ==
  \/ \E r \in Request, address \in Address :
       RegisterResearcher(r, address) \/ RegisterCompany(r, address)
  \/ \E r \in Request : Fetch(r) \/ Step(r) \/ AnswerError(r) \/ Crash(r)
  \/ \E profile \in Profile, status \in {200, 201, 409} : Process(profile, status)

Spec == Init /\ [][Next]_vars

\* A thread that can go on does; the other service may never answer.  A crash ends
\* a request as well, but need not come.
FairSpec == Spec /\ \A r \in Request : WF_vars(Step(r))

(***************************************************************************)
(* Properties                                                              *)
(***************************************************************************)
TypeOK ==
  /\ accounts \subseteq Row
  /\ outbox \subseteq Posts \X Id /\ told \subseteq Posts \X Id
  /\ profiles \subseteq Profile /\ travelling \subseteq Profile
  /\ pc \in [Request -> Steps]
  /\ pending \in [Request -> Row \cup {None}]
  /\ queued \in [Request -> SUBSET (Posts \X Id)]
  /\ answer \in [Request -> {200, 201, 409, 500, None}]
  /\ todo \in [Request -> SUBSET Profile]
  /\ used \subseteq Id /\ unsure \subseteq Id

\* However registrations and imports overlap, an address has one account of each
\* type, and an identifier one account.
OneAccountPerAddress ==
  \A x, y \in accounts : SameKey(x, y) \/ x.id = y.id => x = y

\* An account is known where it must be: a company has its profile in the other
\* service, under its identifier and address, and of a researcher and their
\* profile the legacy system was told, or will be from the outbox.
Backed ==
  \A x \in accounts :
    IF x.type = "company" THEN [id |-> x.id, address |-> x.address] \in profiles
    ELSE \A what \in Posts : <<what, x.id>> \in told \cup outbox

\* The other service has a profile without an account, of those registered here,
\* only while the registration is under way or after it gave up, died or was
\* answered an error over the post: neither an answer that the profile is there
\* nor a conflict leaves one.
NoOrphanProfile ==
  \A p \in profiles :
    p.id \in Id => \/ p.id \in unsure
                   \/ \E x \in accounts : x.id = p.id
                   \/ \E r \in Request : pc[r] \in {"wait", "commit"} /\ ProfileOf(r) = p

\* Every registration and every import comes to an end, also when the other
\* service does not answer and when others register the same address.
EveryRequestEnds == \A r \in Request : pc[r] # "idle" ~> pc[r] = "idle"
=============================================================================
