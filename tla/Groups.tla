------------------------------- MODULE Groups -------------------------------
(***************************************************************************)
(* The life of one group: create_group, leave_group, remove_group_member   *)
(* and delete_group (application/use_cases.py), and what they tell the     *)
(* legacy system before they commit (legacy_event_handlers.py).            *)
(*                                                                         *)
(* Every use case is one transaction under READ COMMITTED.  Nobody locks   *)
(* the group: what keeps two of them apart are the membership rows they    *)
(* delete.  Every post is taken to be answered 2xx; LegacySync is about    *)
(* those that are not.                                                     *)
(***************************************************************************)

CONSTANTS
  Account,     \* users, companies among them
  Researcher,  \* those who can be put into a group
  Admin,       \* who creates the group: any account
  Request,     \* threads handling a request
  NoGroup      \* what the legacy system shows of a group it does not know

ASSUME AccountAssumption == Researcher \subseteq Account /\ Admin \in Account
ASSUME NoGroupAssumption == \A users \in SUBSET Account : NoGroup # users

VARIABLES
  group,     \* the row of the group, as committed
  members,   \* the users with a membership row, as committed
  shown,     \* the members the legacy system shows
  pc, op,    \* where a request is, and what it does
  target,    \* whose membership it ends
  change,    \* membership rows its transaction inserted, or deleted and locks
  list,      \* the members it read last
  \* history
  overlapped, \* two changes of the group were in their transactions at once
  disturbed, \* a worker died between a post and the commit
  overtaken  \* a deletion was followed by a post of a change without any row

vars == <<group, members, shown, pc, op, target, change, list, overlapped, disturbed, overtaken>>

Steps == {"idle", "write", "get", "list", "post", "list again", "post again", "commit"}

(***************************************************************************)
(* What the code decides.                                                  *)
(***************************************************************************)

\* Nobody ends the membership of the administrator.
MayLeave(u) == u # Admin
MayRemove(actor, u) == actor = Admin /\ u # actor
MayDelete(actor) == actor = Admin

\* Whom a creation may name.  Faulty variant: any account.
AnyAccount(users) == TRUE
Assignable(users) == users \subseteq Researcher

\* The members after the change of a transaction, which others see at its commit.
Changed(r) == IF op[r] = "create" THEN change[r] ELSE members \ change[r]

\* The post lists the members inside the transaction.  Faulty variant: as they
\* were before it.
CommittedMembers(r) == IF op[r] = "create" THEN change[r] ELSE members
VisibleMembers(r) == Changed(r)

\* The rows of these users are locked by no other transaction.  Faulty variant:
\* deletions do not wait for each other.
NoRowLocks(r, users) == TRUE
RowsFree(r, users) == \A x \in Request \ {r} : users \cap change[x] = {}

InTransaction(r) == pc[r] \notin {"idle", "write"}
Deleting(r) == op[r] = "delete" /\ pc[r] = "commit"

Begin(r, operation, u) ==
  /\ pc[r] = "idle"
  /\ pc' = [pc EXCEPT ![r] = "write"]
  /\ op' = [op EXCEPT ![r] = operation]
  /\ target' = [target EXCEPT ![r] = u]
  /\ UNCHANGED <<group, members, shown, change, list, overlapped, disturbed, overtaken>>

Goto(r, step) == pc' = [pc EXCEPT ![r] = step]

End(r) ==
  /\ Goto(r, "idle")
  /\ change' = [change EXCEPT ![r] = {}]
  /\ list' = [list EXCEPT ![r] = {}]

(***************************************************************************)
(* The views: the group is read before the transaction.                    *)
(***************************************************************************)

\* One creation makes the one group of the model.
BeginCreate(r) ==
  /\ group = "none"
  /\ \A x \in Request : pc[x] = "idle"
  /\ Begin(r, "create", Admin)

BeginLeave(r, u) == group = "exists" /\ MayLeave(u) /\ Begin(r, "end", u)

BeginRemove(r, actor, u) ==
  group = "exists" /\ MayRemove(actor, u) /\ Begin(r, "end", u)

BeginDelete(r, actor) ==
  group = "exists" /\ MayDelete(actor) /\ Begin(r, "delete", actor)

(***************************************************************************)
(* The transactions.                                                       *)
(***************************************************************************)
Create(r, users) ==
  /\ pc[r] = "write" /\ op[r] = "create"
  /\ Assignable(users)
  /\ change' = [change EXCEPT ![r] = {Admin} \cup users]
  /\ Goto(r, "get")
  /\ UNCHANGED <<group, members, shown, op, target, list, overlapped, disturbed, overtaken>>

\* group.users.remove: nothing is deleted, and nothing locked, when the user is
\* no member (any more).
EndMembership(r) ==
  LET rows == members \cap {target[r]} IN
  /\ pc[r] = "write" /\ op[r] = "end"
  /\ RowsFree(r, rows)
  /\ change' = [change EXCEPT ![r] = rows]
  /\ Goto(r, "get")
  /\ overlapped' = (overlapped \/ \E x \in Request : InTransaction(x))
  /\ UNCHANGED <<group, members, shown, op, target, list, disturbed, overtaken>>

\* group.delete: the membership rows first.
Delete(r) ==
  /\ pc[r] = "write" /\ op[r] = "delete"
  /\ RowsFree(r, members)
  /\ change' = [change EXCEPT ![r] = members]
  /\ Goto(r, "post")
  /\ overlapped' = (overlapped \/ \E x \in Request : InTransaction(x))
  /\ UNCHANGED <<group, members, shown, op, target, list, disturbed, overtaken>>

\* Group.objects.get raises when the group was deleted; the request fails.
GetGroup(r) ==
  /\ pc[r] = "get"
  /\ IF group = "deleted" THEN End(r)
     ELSE Goto(r, "list") /\ UNCHANGED <<change, list>>
  /\ UNCHANGED <<group, members, shown, op, target, overlapped, disturbed, overtaken>>

ListMembers(r) ==
  /\ pc[r] \in {"list", "list again"}
  /\ list' = [list EXCEPT ![r] = VisibleMembers(r)]
  /\ Goto(r, IF pc[r] = "list" THEN "post" ELSE "post again")
  /\ UNCHANGED <<group, members, shown, op, target, change, overlapped, disturbed, overtaken>>

\* The legacy system takes over the group with its members, or deletes it.
PostGroup(r) ==
  /\ pc[r] = "post"
  /\ shown' = IF op[r] = "delete" THEN NoGroup ELSE list[r]
  /\ Goto(r, IF op[r] = "delete" THEN "commit" ELSE "list again")
  /\ overtaken' = (overtaken \/ (op[r] = "end" /\ change[r] = {}
                                 /\ (group = "deleted" \/ \E x \in Request : Deleting(x))))
  /\ UNCHANGED <<group, members, op, target, change, list, overlapped, disturbed>>

\* Only the members, of a group the legacy system knows.
PostMembers(r) ==
  /\ pc[r] = "post again"
  /\ shown' = IF shown = NoGroup THEN NoGroup ELSE list[r]
  /\ Goto(r, "commit")
  /\ UNCHANGED <<group, members, op, target, change, list, overlapped, disturbed, overtaken>>

Commit(r) ==
  /\ pc[r] = "commit"
  /\ group' = CASE op[r] = "create" -> "exists"
                [] op[r] = "delete" -> "deleted"
                [] OTHER            -> group
  /\ members' = Changed(r)
  /\ End(r)
  /\ UNCHANGED <<shown, op, target, overlapped, disturbed, overtaken>>

\* A worker dies: the transaction is rolled back, its posts are not.
Crash(r) ==
  /\ pc[r] # "idle"
  /\ End(r)
  /\ disturbed' = (disturbed \/ pc[r] \in {"list again", "post again", "commit"})
  /\ UNCHANGED <<group, members, shown, op, target, overlapped, overtaken>>

Init ==
  /\ group = "none" /\ members = {} /\ shown = NoGroup
  /\ pc = [r \in Request |-> "idle"]
  /\ op = [r \in Request |-> "create"]
  /\ target = [r \in Request |-> Admin]
  /\ change = [r \in Request |-> {}]
  /\ list = [r \in Request |-> {}]
  /\ overlapped = FALSE /\ disturbed = FALSE /\ overtaken = FALSE

Next ==
  \E r \in Request :
    \/ BeginCreate(r)
    \/ \E users \in SUBSET Account : Create(r, users)
    \/ \E u \in Account : BeginLeave(r, u)
    \/ \E actor, u \in Account : BeginRemove(r, actor, u)
    \/ \E actor \in Account : BeginDelete(r, actor)
    \/ EndMembership(r)
    \/ Delete(r)
    \/ GetGroup(r)
    \/ ListMembers(r)
    \/ PostGroup(r)
    \/ PostMembers(r)
    \/ Commit(r)
    \/ Crash(r)

Spec == Init /\ [][Next]_vars

(***************************************************************************)
(* Properties                                                              *)
(***************************************************************************)
TypeOK ==
  LET Members == SUBSET (Researcher \cup {Admin}) IN
  /\ group \in {"none", "exists", "deleted"}
  /\ members \in Members
  /\ shown = NoGroup \/ shown \in Members
  /\ pc \in [Request -> Steps]
  /\ op \in [Request -> {"create", "end", "delete"}]
  /\ target \in [Request -> Account]
  /\ change \in [Request -> Members]
  /\ list \in [Request -> Members]
  /\ overlapped \in BOOLEAN /\ disturbed \in BOOLEAN /\ overtaken \in BOOLEAN

Quiet == \A r \in Request : pc[r] = "idle"

\* Whatever changes of memberships overlap, the legacy system shows every
\* member of an existing group when no request is under way and no worker died
\* after a post.  It shows others only after two changes overlapped: two removals
\* at the same time each post the other's member.
GroupInStep ==
  (Quiet /\ ~disturbed /\ group = "exists") =>
    /\ shown # NoGroup
    /\ members \subseteq shown
    /\ ~overlapped => shown = members

\* A deleted group stays deleted in the legacy system: a change that ends a
\* membership and the deletion wait for each other's rows.  A change of somebody
\* who is no member has no row to wait for and may bring the group back.
DeletedStaysDeleted ==
  (Quiet /\ ~disturbed /\ ~overtaken /\ group = "deleted") => shown = NoGroup
=============================================================================
