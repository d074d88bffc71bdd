--------------------------- MODULE Groups_proofs ---------------------------
(***************************************************************************)
(* Proofs about Groups, for any number of accounts and of requests at a    *)
(* time.                                                                   *)
(***************************************************************************)
EXTENDS Groups, TLAPS

(***************************************************************************)
(* The inductive invariant.                                                *)
(***************************************************************************)
Members == SUBSET (Researcher \cup {Admin})

\* What a request does at each step; the administrator is never the one who
\* leaves.
StepsOK ==
  \A r \in Request :
    /\ pc[r] \in {"get", "list", "list again", "post again"} => op[r] # "delete"
    /\ op[r] = "end" /\ pc[r] # "idle" => target[r] # Admin
    /\ pc[r] \in {"idle", "write"} => change[r] = {}
    /\ op[r] = "create" /\ InTransaction(r) => Admin \in change[r]

\* The creation is alone, and nothing came before it.
CreationOK ==
  /\ group = "none" => members = {} /\ ~overlapped
  /\ \A r \in Request :
       pc[r] # "idle" => \/ op[r] # "create" /\ group # "none"
                         \/ /\ op[r] = "create" /\ group = "none"
                            /\ \A x \in Request \ {r} : pc[x] = "idle"

\* The rows a transaction has deleted are there for the others, and nobody else
\* deletes them; a deletion has them all.
RowsOK ==
  /\ group = "exists" => Admin \in members
  /\ group = "deleted" => members = {}
  /\ \A r \in Request : op[r] = "end" => change[r] \subseteq members \cap {target[r]}
  /\ \A r \in Request : op[r] = "delete" /\ InTransaction(r) => change[r] = members
  /\ \A r \in Request : op[r] = "delete" => change[r] \subseteq members
  /\ \A x, y \in Request : x # y => change[x] \cap change[y] = {}

\* Once the deletion has been posted, nobody who holds a row posts.
DeletionOK ==
  ~overtaken /\ (group = "deleted" \/ \E r \in Request : Deleting(r)) => shown = NoGroup

\* Without an overlap one transaction runs at a time.
AloneOK ==
  ~overlapped =>
    \A x, y \in Request : InTransaction(x) /\ InTransaction(y) => x = y

\* What is listed is posted, and not less than what the change will leave.
ListOK ==
  \A r \in Request : pc[r] \in {"post", "post again"} /\ op[r] # "delete" =>
    /\ Changed(r) \subseteq list[r]
    /\ ~overlapped => list[r] = Changed(r)

\* A request has posted the end of a membership and not committed it.
Told(r) == op[r] = "end" /\ pc[r] \in {"list again", "post again", "commit"}

\* The legacy system shows the members but for those whose removal it knows of,
\* and without an overlap nobody else.
Complete == \A u \in members : u \in shown \/ \E r \in Request : Told(r) /\ u \in change[r]
Exact == shown \subseteq members /\ \A r \in Request : Told(r) => shown \cap change[r] = {}

ShownOK ==
  (~disturbed /\ group = "exists" /\ ~\E r \in Request : Deleting(r)) =>
    shown # NoGroup /\ Complete /\ (~overlapped => Exact)

CreatedOK ==
  \A r \in Request :
    op[r] = "create" /\ pc[r] \in {"list again", "post again", "commit"} => shown = change[r]

IInv ==
  /\ TypeOK /\ StepsOK /\ CreationOK /\ RowsOK
  /\ DeletionOK /\ AloneOK /\ ListOK /\ ShownOK /\ CreatedOK

(***************************************************************************)
(* Moving a request.                                                       *)
(***************************************************************************)
LEMMA GotoPc ==
  ASSUME TypeOK, NEW r \in Request, NEW step \in Steps, Goto(r, step)
  PROVE  /\ pc' \in [Request -> Steps]
         /\ pc'[r] = step
         /\ \A x \in Request \ {r} : pc'[x] = pc[x]
BY DEF Goto, TypeOK

LEMMA EndPc ==
  ASSUME TypeOK, NEW r \in Request, End(r)
  PROVE  /\ pc' \in [Request -> Steps]
         /\ change' \in [Request -> Members] /\ list' \in [Request -> Members]
         /\ pc'[r] = "idle" /\ change'[r] = {} /\ list'[r] = {}
         /\ \A x \in Request \ {r} :
              pc'[x] = pc[x] /\ change'[x] = change[x] /\ list'[x] = list[x]
<1>1. "idle" \in Steps
  BY DEF Steps
<1>2. pc' \in [Request -> Steps] /\ pc'[r] = "idle"
      /\ \A x \in Request \ {r} : pc'[x] = pc[x]
  BY <1>1, GotoPc DEF End
<1> QED BY <1>2 DEF End, TypeOK, Members

LEMMA InitIInv == Init => IInv
<1> SUFFICES ASSUME Init PROVE IInv
  OBVIOUS
<1>1. TypeOK
  BY AccountAssumption DEF Init, TypeOK, Steps
<1>2. StepsOK /\ CreationOK /\ RowsOK
  BY DEF Init, StepsOK, CreationOK, RowsOK, InTransaction
<1>3. DeletionOK /\ AloneOK /\ ListOK /\ ShownOK /\ CreatedOK
  BY DEF Init, DeletionOK, AloneOK, ListOK, ShownOK, CreatedOK, InTransaction
<1> QED BY <1>1, <1>2, <1>3 DEF IInv

-----------------------------------------------------------------------------
(* One lemma for each action.                                              *)

LEMMA BeginStep ==
  ASSUME IInv, NEW r \in Request, NEW operation \in {"create", "end", "delete"},
         NEW actor \in Account, Begin(r, operation, actor),
         operation = "create" => group = "none" /\ \A x \in Request : pc[x] = "idle",
         operation # "create" => group = "exists",
         operation = "end" => actor # Admin
  PROVE  IInv'
<1>0. TypeOK /\ StepsOK /\ CreationOK /\ RowsOK
     /\ DeletionOK /\ AloneOK /\ ListOK /\ ShownOK /\ CreatedOK
  BY DEF IInv
<1>1. /\ pc[r] = "idle" /\ pc' = [pc EXCEPT ![r] = "write"]
      /\ op' = [op EXCEPT ![r] = operation] /\ target' = [target EXCEPT ![r] = actor]
      /\ UNCHANGED <<group, members, shown, change, list, overlapped, disturbed, overtaken>>
  BY DEF Begin
<1>2. /\ pc' \in [Request -> Steps] /\ op' \in [Request -> {"create", "end", "delete"}]
      /\ target' \in [Request -> Account]
      /\ pc'[r] = "write" /\ op'[r] = operation /\ target'[r] = actor
      /\ \A x \in Request \ {r} : pc'[x] = pc[x] /\ op'[x] = op[x] /\ target'[x] = target[x]
  BY <1>0, <1>1 DEF TypeOK, Steps
<1>3. \A x \in Request : (Told(x)' <=> Told(x)) /\ (Deleting(x)' <=> Deleting(x))
  BY <1>1, <1>2 DEF Told, Deleting
<1>4. TypeOK'
  BY <1>0, <1>1, <1>2 DEF TypeOK
<1>5. StepsOK'
  BY <1>0, <1>1, <1>2 DEF StepsOK, InTransaction
<1>6. CreationOK'
  BY <1>0, <1>1, <1>2 DEF CreationOK
<1>7. RowsOK'
  <2>1. (group' = "exists" => Admin \in members') /\ (group' = "deleted" => members' = {})
    BY <1>0, <1>1 DEF RowsOK
  <2>2. \A x \in Request : op'[x] = "end" => change'[x] \subseteq members' \cap {target'[x]}
    BY <1>0, <1>1, <1>2 DEF RowsOK, StepsOK
  <2>3. \A x \in Request : op'[x] = "delete" /\ InTransaction(x)' => change'[x] = members'
    BY <1>0, <1>1 DEF RowsOK, InTransaction
  <2>4. \A x \in Request : op'[x] = "delete" => change'[x] \subseteq members'
    BY <1>0, <1>1, <1>2 DEF RowsOK, StepsOK
  <2>5. \A x, y \in Request : x # y => change'[x] \cap change'[y] = {}
    BY <1>0, <1>1 DEF RowsOK
  <2> QED BY <2>1, <2>2, <2>3, <2>4, <2>5 DEF RowsOK
<1>8. DeletionOK'
  BY <1>0, <1>1, <1>3 DEF DeletionOK
<1>9. AloneOK'
  BY <1>0, <1>1 DEF AloneOK, InTransaction
<1>10. ListOK'
  <2> SUFFICES ASSUME NEW x \in Request, pc'[x] \in {"post", "post again"}, op'[x] # "delete"
               PROVE  Changed(x)' \subseteq list'[x] /\ (~overlapped' => list'[x] = Changed(x)')
    BY DEF ListOK
  <2>1. x # r /\ pc'[x] = pc[x] /\ op'[x] = op[x]
    BY <1>2
  <2>2. Changed(x)' = Changed(x)
    BY <1>1, <1>2 DEF Changed
  <2> QED BY <1>0, <1>1, <1>2, <1>3, <2>1, <2>2 DEF ListOK
<1>11. ShownOK'
  <2> SUFFICES ASSUME ~disturbed', group' = "exists", ~\E x \in Request : Deleting(x)'
               PROVE  shown' # NoGroup /\ Complete' /\ (~overlapped' => Exact')
    BY DEF ShownOK
  <2>1. /\ group = "exists" /\ shown # NoGroup
        /\ \A u \in members : u \in shown \/ \E x \in Request : Told(x) /\ u \in change[x]
        /\ ~overlapped => /\ shown \subseteq members
                          /\ \A x \in Request : Told(x) => shown \cap change[x] = {}
    BY <1>0, <1>1, <1>3 DEF ShownOK, Complete, Exact
  <2>2. shown' # NoGroup
    BY <1>1, <2>1
  <2>3. Complete'
    BY <1>1, <1>3, <2>1 DEF Complete
  <2>4. ~overlapped' => Exact'
    BY <1>1, <1>3, <2>1 DEF Exact
  <2> QED BY <2>2, <2>3, <2>4
<1>12. CreatedOK'
  BY <1>0, <1>1, <1>2 DEF CreatedOK
<1> QED BY <1>4, <1>5, <1>6, <1>7, <1>8, <1>9, <1>10, <1>11, <1>12 DEF IInv

LEMMA CreateStep ==
  ASSUME IInv, NEW r \in Request, NEW users \in SUBSET Account, Create(r, users)
  PROVE  IInv'
<1>0. TypeOK /\ StepsOK /\ CreationOK /\ RowsOK
     /\ DeletionOK /\ AloneOK /\ ListOK /\ ShownOK /\ CreatedOK
  BY DEF IInv
<1>1. /\ pc' \in [Request -> Steps] /\ pc'[r] = "get"
      /\ \A x \in Request \ {r} : pc'[x] = pc[x]
  BY <1>0, GotoPc DEF Create, Steps
<1>2. /\ pc[r] = "write" /\ op[r] = "create" /\ users \subseteq Researcher
      /\ change' \in [Request -> Members] /\ change'[r] = {Admin} \cup users
      /\ \A x \in Request \ {r} : change'[x] = change[x]
  BY <1>0 DEF Create, Assignable, TypeOK, Members
<1>3. UNCHANGED <<group, members, shown, op, target, list, overlapped, disturbed, overtaken>>
  BY DEF Create
<1>4. group = "none" /\ \A x \in Request \ {r} : pc[x] = "idle" /\ change[x] = {}
  BY <1>0, <1>2 DEF CreationOK, StepsOK
<1>5. \A x \in Request : (Told(x)' <=> Told(x)) /\ (Deleting(x)' <=> Deleting(x))
  BY <1>1, <1>2, <1>3 DEF Told, Deleting
<1>6. TypeOK'
  BY <1>0, <1>1, <1>2, <1>3 DEF TypeOK
<1>7. StepsOK'
  BY <1>0, <1>1, <1>2, <1>3 DEF StepsOK, InTransaction
<1>8. CreationOK'
  BY <1>0, <1>1, <1>2, <1>3 DEF CreationOK
<1>9. RowsOK'
  <2>1. (group' = "exists" => Admin \in members') /\ (group' = "deleted" => members' = {})
    BY <1>3, <1>4
  <2>2. \A x \in Request : op'[x] = "end" => change'[x] \subseteq members' \cap {target'[x]}
    BY <1>2, <1>3, <1>4
  <2>3. \A x \in Request : op'[x] = "delete" /\ InTransaction(x)' => change'[x] = members'
    BY <1>0, <1>2, <1>3, <1>4 DEF CreationOK
  <2>4. \A x \in Request : op'[x] = "delete" => change'[x] \subseteq members'
    BY <1>2, <1>3, <1>4
  <2>5. \A x, y \in Request : x # y => change'[x] \cap change'[y] = {}
    BY <1>2, <1>4
  <2> QED BY <2>1, <2>2, <2>3, <2>4, <2>5 DEF RowsOK
<1>10. DeletionOK'
  BY <1>0, <1>3, <1>5 DEF DeletionOK
<1>11. AloneOK'
  BY <1>1, <1>4 DEF AloneOK, InTransaction
<1>12. ListOK'
  BY <1>1, <1>4 DEF ListOK
<1>13. ShownOK'
  \* There is no group before the commit.
  BY <1>3, <1>4 DEF ShownOK
<1>14. CreatedOK'
  BY <1>0, <1>1, <1>2, <1>3 DEF CreatedOK
<1> QED BY <1>6, <1>7, <1>8, <1>9, <1>10, <1>11, <1>12, <1>13, <1>14 DEF IInv

LEMMA EndMembershipStep ==
  ASSUME IInv, NEW r \in Request, EndMembership(r)
  PROVE  IInv'
<1>0. TypeOK /\ StepsOK /\ CreationOK /\ RowsOK
     /\ DeletionOK /\ AloneOK /\ ListOK /\ ShownOK /\ CreatedOK
  BY DEF IInv
<1>1. /\ pc' \in [Request -> Steps] /\ pc'[r] = "get"
      /\ \A x \in Request \ {r} : pc'[x] = pc[x]
  BY <1>0, GotoPc DEF EndMembership, Steps
<1>2. /\ pc[r] = "write" /\ op[r] = "end"
      /\ change' \in [Request -> Members] /\ change'[r] = members \cap {target[r]}
      /\ \A x \in Request \ {r} : change'[x] = change[x] /\ change[x] \cap change'[r] = {}
  BY <1>0 DEF EndMembership, RowsFree, TypeOK, Members
<1>3. UNCHANGED <<group, members, shown, op, target, list, disturbed, overtaken>>
  BY DEF EndMembership
<1>4. overlapped' = (overlapped \/ \E x \in Request : InTransaction(x))
  BY DEF EndMembership
<1>5. \A x \in Request : (Told(x)' <=> Told(x)) /\ (Deleting(x)' <=> Deleting(x))
  BY <1>1, <1>2, <1>3 DEF Told, Deleting
<1>6. TypeOK'
  BY <1>0, <1>1, <1>2, <1>3, <1>4 DEF TypeOK
<1>7. StepsOK'
  BY <1>0, <1>1, <1>2, <1>3 DEF StepsOK, InTransaction
<1>8. CreationOK'
  BY <1>0, <1>1, <1>2, <1>3 DEF CreationOK
<1>9. RowsOK'
  <2>1. (group' = "exists" => Admin \in members') /\ (group' = "deleted" => members' = {})
    BY <1>0, <1>3 DEF RowsOK
  <2>2. \A x \in Request : op'[x] = "end" => change'[x] \subseteq members' \cap {target'[x]}
    BY <1>0, <1>2, <1>3 DEF RowsOK
  <2>3. \A x \in Request : op'[x] = "delete" /\ InTransaction(x)' => change'[x] = members'
    BY <1>0, <1>1, <1>2, <1>3 DEF RowsOK, InTransaction
  <2>4. \A x \in Request : op'[x] = "delete" => change'[x] \subseteq members'
    BY <1>0, <1>2, <1>3 DEF RowsOK
  <2>5. \A x, y \in Request : x # y => change'[x] \cap change'[y] = {}
    <3>1. \A x \in Request \ {r} : change'[x] \cap change'[r] = {}
      BY <1>2
    <3>2. \A x, y \in Request \ {r} : x # y => change'[x] \cap change'[y] = {}
      BY <1>0, <1>2 DEF RowsOK
    <3> QED BY <3>1, <3>2
  <2> QED BY <2>1, <2>2, <2>3, <2>4, <2>5 DEF RowsOK
<1>10. DeletionOK'
  BY <1>0, <1>3, <1>5 DEF DeletionOK
<1>11. AloneOK'
  BY <1>1, <1>4 DEF AloneOK, InTransaction
<1>12. ListOK'
  BY <1>0, <1>1, <1>2, <1>3, <1>4 DEF ListOK, Changed
<1>13. ShownOK'
  <2> SUFFICES ASSUME ~disturbed', group' = "exists", ~\E x \in Request : Deleting(x)'
               PROVE  shown' # NoGroup /\ Complete' /\ (~overlapped' => Exact')
    BY DEF ShownOK
  <2>1. /\ group = "exists" /\ shown # NoGroup
        /\ \A u \in members : u \in shown \/ \E x \in Request : Told(x) /\ u \in change[x]
        /\ ~overlapped => /\ shown \subseteq members
                          /\ \A x \in Request : Told(x) => shown \cap change[x] = {}
    BY <1>0, <1>3, <1>5 DEF ShownOK, Complete, Exact
  <2>2. shown' # NoGroup
    BY <1>3, <2>1
  <2>3. \A x \in Request : Told(x) => Told(x)' /\ change'[x] = change[x]
    BY <1>1, <1>2, <1>3 DEF Told
  <2>4. Complete'
    BY <1>3, <2>1, <2>3 DEF Complete
  <2>5. ~overlapped' => Exact'
    BY <1>3, <1>4, <1>5, <2>1, <2>3 DEF Exact
  <2> QED BY <2>2, <2>4, <2>5
<1>14. CreatedOK'
  BY <1>0, <1>1, <1>2, <1>3 DEF CreatedOK
<1> QED BY <1>6, <1>7, <1>8, <1>9, <1>10, <1>11, <1>12, <1>13, <1>14 DEF IInv

LEMMA DeleteStep ==
  ASSUME IInv, NEW r \in Request, Delete(r)
  PROVE  IInv'
<1>0. TypeOK /\ StepsOK /\ CreationOK /\ RowsOK
     /\ DeletionOK /\ AloneOK /\ ListOK /\ ShownOK /\ CreatedOK
  BY DEF IInv
<1>1. /\ pc' \in [Request -> Steps] /\ pc'[r] = "post"
      /\ \A x \in Request \ {r} : pc'[x] = pc[x]
  BY <1>0, GotoPc DEF Delete, Steps
<1>2. /\ pc[r] = "write" /\ op[r] = "delete"
      /\ change' \in [Request -> Members] /\ change'[r] = members
      /\ \A x \in Request \ {r} : change'[x] = change[x] /\ change[x] \cap members = {}
  BY <1>0 DEF Delete, RowsFree, TypeOK, Members
<1>3. UNCHANGED <<group, members, shown, op, target, list, disturbed, overtaken>>
  BY DEF Delete
<1>4. overlapped' = (overlapped \/ \E x \in Request : InTransaction(x))
  BY DEF Delete
<1>5. \A x \in Request : (Told(x)' <=> Told(x)) /\ (Deleting(x)' <=> Deleting(x))
  BY <1>1, <1>2, <1>3 DEF Told, Deleting
<1>6. TypeOK'
  BY <1>0, <1>1, <1>2, <1>3, <1>4 DEF TypeOK
<1>7. StepsOK'
  BY <1>0, <1>1, <1>2, <1>3 DEF StepsOK, InTransaction
<1>8. CreationOK'
  BY <1>0, <1>1, <1>2, <1>3 DEF CreationOK
<1>9. RowsOK'
  <2>1. (group' = "exists" => Admin \in members') /\ (group' = "deleted" => members' = {})
    BY <1>0, <1>3 DEF RowsOK
  <2>2. \A x \in Request : op'[x] = "end" => change'[x] \subseteq members' \cap {target'[x]}
    BY <1>0, <1>2, <1>3 DEF RowsOK
  <2>3. \A x \in Request : op'[x] = "delete" /\ InTransaction(x)' => change'[x] = members'
    BY <1>0, <1>1, <1>2, <1>3 DEF RowsOK, InTransaction
  <2>4. \A x \in Request : op'[x] = "delete" => change'[x] \subseteq members'
    BY <1>0, <1>2, <1>3 DEF RowsOK
  <2>5. \A x, y \in Request : x # y => change'[x] \cap change'[y] = {}
    <3>1. \A x \in Request \ {r} : change'[x] \cap change'[r] = {}
      BY <1>2
    <3>2. \A x, y \in Request \ {r} : x # y => change'[x] \cap change'[y] = {}
      BY <1>0, <1>2 DEF RowsOK
    <3> QED BY <3>1, <3>2
  <2> QED BY <2>1, <2>2, <2>3, <2>4, <2>5 DEF RowsOK
<1>10. DeletionOK'
  BY <1>0, <1>3, <1>5 DEF DeletionOK
<1>11. AloneOK'
  BY <1>1, <1>4 DEF AloneOK, InTransaction
<1>12. ListOK'
  BY <1>0, <1>1, <1>2, <1>3, <1>4 DEF ListOK, Changed, InTransaction
<1>13. ShownOK'
  <2> SUFFICES ASSUME ~disturbed', group' = "exists", ~\E x \in Request : Deleting(x)'
               PROVE  shown' # NoGroup /\ Complete' /\ (~overlapped' => Exact')
    BY DEF ShownOK
  <2>1. /\ group = "exists" /\ shown # NoGroup
        /\ \A u \in members : u \in shown \/ \E x \in Request : Told(x) /\ u \in change[x]
        /\ ~overlapped => /\ shown \subseteq members
                          /\ \A x \in Request : Told(x) => shown \cap change[x] = {}
    BY <1>0, <1>3, <1>5 DEF ShownOK, Complete, Exact
  <2>2. shown' # NoGroup
    BY <1>3, <2>1
  <2>3. \A x \in Request : Told(x) => Told(x)' /\ change'[x] = change[x]
    BY <1>1, <1>2, <1>3 DEF Told
  <2>4. Complete'
    BY <1>2, <1>3, <1>5, <2>1 DEF Complete
  <2>5. ~overlapped' => Exact'
    BY <1>3, <1>4, <1>5, <2>1, <2>3 DEF Exact
  <2> QED BY <2>2, <2>4, <2>5
<1>14. CreatedOK'
  BY <1>0, <1>1, <1>2, <1>3 DEF CreatedOK
<1> QED BY <1>6, <1>7, <1>8, <1>9, <1>10, <1>11, <1>12, <1>13, <1>14 DEF IInv

LEMMA GetGroupStep ==
  ASSUME IInv, NEW r \in Request, GetGroup(r)
  PROVE  IInv'
<1>0. TypeOK /\ StepsOK /\ CreationOK /\ RowsOK
     /\ DeletionOK /\ AloneOK /\ ListOK /\ ShownOK /\ CreatedOK
  BY DEF IInv
<1>1. pc[r] = "get" /\ UNCHANGED <<group, members, shown, op, target, overlapped, disturbed, overtaken>>
  BY DEF GetGroup
<1>2. /\ pc' \in [Request -> Steps]
      /\ change' \in [Request -> Members] /\ list' \in [Request -> Members]
      /\ \A x \in Request \ {r} : pc'[x] = pc[x] /\ change'[x] = change[x] /\ list'[x] = list[x]
      /\ \/ group = "deleted" /\ pc'[r] = "idle" /\ change'[r] = {} /\ list'[r] = {}
         \/ group # "deleted" /\ pc'[r] = "list" /\ change'[r] = change[r] /\ list'[r] = list[r]
  <2>1. CASE group = "deleted"
    BY <1>0, <2>1, EndPc DEF GetGroup
  <2>2. CASE group # "deleted"
    <3>1. Goto(r, "list") /\ UNCHANGED <<change, list>> /\ "list" \in Steps
      BY <2>2 DEF GetGroup, Steps
    <3> QED BY <1>0, <2>2, <3>1, GotoPc DEF TypeOK, Members
  <2> QED BY <2>1, <2>2
<1>3. \A x \in Request : (Told(x)' <=> Told(x)) /\ (Deleting(x)' <=> Deleting(x))
  BY <1>1, <1>2 DEF Told, Deleting
<1>4. TypeOK'
  BY <1>0, <1>1, <1>2 DEF TypeOK
<1>5. StepsOK'
  BY <1>0, <1>1, <1>2 DEF StepsOK, InTransaction
<1>6. CreationOK'
  BY <1>0, <1>1, <1>2 DEF CreationOK
<1>7. RowsOK'
  <2>1. (group' = "exists" => Admin \in members') /\ (group' = "deleted" => members' = {})
    BY <1>0, <1>1 DEF RowsOK
  <2>2. \A x \in Request : op'[x] = "end" => change'[x] \subseteq members' \cap {target'[x]}
    BY <1>0, <1>1, <1>2 DEF RowsOK
  <2>3. \A x \in Request : op'[x] = "delete" /\ InTransaction(x)' => change'[x] = members'
    <3>1. op[r] # "delete"
      BY <1>0, <1>1 DEF StepsOK
    <3>2. \A x \in Request \ {r} : InTransaction(x)' => InTransaction(x)
      BY <1>2 DEF InTransaction
    <3> QED BY <1>0, <1>1, <1>2, <3>1, <3>2 DEF RowsOK
  <2>4. \A x \in Request : op'[x] = "delete" => change'[x] \subseteq members'
    BY <1>0, <1>1, <1>2 DEF RowsOK
  <2>5. \A x, y \in Request : x # y => change'[x] \cap change'[y] = {}
    <3>1. \A x \in Request \ {r} : change'[x] \cap change'[r] = {}
      BY <1>0, <1>2 DEF RowsOK
    <3>2. \A x, y \in Request \ {r} : x # y => change'[x] \cap change'[y] = {}
      BY <1>0, <1>2 DEF RowsOK
    <3> QED BY <3>1, <3>2
  <2> QED BY <2>1, <2>2, <2>3, <2>4, <2>5 DEF RowsOK
<1>8. DeletionOK'
  BY <1>0, <1>1, <1>3 DEF DeletionOK
<1>9. AloneOK'
  BY <1>0, <1>1, <1>2 DEF AloneOK, InTransaction
<1>10. ListOK'
  BY <1>0, <1>1, <1>2 DEF ListOK, Changed
<1>11. ShownOK'
  <2> SUFFICES ASSUME ~disturbed', group' = "exists", ~\E x \in Request : Deleting(x)'
               PROVE  shown' # NoGroup /\ Complete' /\ (~overlapped' => Exact')
    BY DEF ShownOK
  <2>1. /\ group = "exists" /\ shown # NoGroup
        /\ \A u \in members : u \in shown \/ \E x \in Request : Told(x) /\ u \in change[x]
        /\ ~overlapped => /\ shown \subseteq members
                          /\ \A x \in Request : Told(x) => shown \cap change[x] = {}
    BY <1>0, <1>1, <1>3 DEF ShownOK, Complete, Exact
  <2>2. shown' # NoGroup
    BY <1>1, <2>1
  <2>3. Complete'
    BY <1>1, <1>2, <1>3, <2>1 DEF Complete
  <2>4. ~overlapped' => Exact'
    BY <1>1, <1>2, <1>3, <2>1 DEF Exact
  <2> QED BY <2>2, <2>3, <2>4
<1>12. CreatedOK'
  BY <1>0, <1>1, <1>2 DEF CreatedOK
<1> QED BY <1>4, <1>5, <1>6, <1>7, <1>8, <1>9, <1>10, <1>11, <1>12 DEF IInv

LEMMA ListMembersStep ==
  ASSUME IInv, NEW r \in Request, ListMembers(r)
  PROVE  IInv'
<1>0. TypeOK /\ StepsOK /\ CreationOK /\ RowsOK
     /\ DeletionOK /\ AloneOK /\ ListOK /\ ShownOK /\ CreatedOK
  BY DEF IInv
<1>1. /\ pc[r] \in {"list", "list again"}
      /\ UNCHANGED <<group, members, shown, op, target, change, overlapped, disturbed, overtaken>>
  BY DEF ListMembers
<1>2. Changed(r) \in Members
  BY <1>0 DEF Changed, TypeOK, Members
<1>3. /\ list' \in [Request -> Members] /\ list'[r] = Changed(r)
      /\ \A x \in Request \ {r} : list'[x] = list[x]
  BY <1>0, <1>2 DEF ListMembers, VisibleMembers, TypeOK, Members
<1>4. /\ pc' \in [Request -> Steps]
      /\ pc'[r] = IF pc[r] = "list" THEN "post" ELSE "post again"
      /\ \A x \in Request \ {r} : pc'[x] = pc[x]
  BY <1>0, GotoPc DEF ListMembers, Steps
<1>5. \A x \in Request : (Told(x)' <=> Told(x)) /\ (Deleting(x)' <=> Deleting(x))
  BY <1>1, <1>4 DEF Told, Deleting
<1>6. TypeOK'
  BY <1>0, <1>1, <1>3, <1>4 DEF TypeOK, Members
<1>7. StepsOK'
  BY <1>0, <1>1, <1>4 DEF StepsOK, InTransaction
<1>8. CreationOK'
  BY <1>0, <1>1, <1>4 DEF CreationOK
<1>9. RowsOK'
  <2>1. (group' = "exists" => Admin \in members') /\ (group' = "deleted" => members' = {})
    BY <1>0, <1>1 DEF RowsOK
  <2>2. \A x \in Request : op'[x] = "end" => change'[x] \subseteq members' \cap {target'[x]}
    BY <1>0, <1>1 DEF RowsOK
  <2>3. \A x \in Request : op'[x] = "delete" /\ InTransaction(x)' => change'[x] = members'
    BY <1>0, <1>1, <1>4 DEF RowsOK, InTransaction
  <2>4. \A x \in Request : op'[x] = "delete" => change'[x] \subseteq members'
    BY <1>0, <1>1 DEF RowsOK
  <2>5. \A x, y \in Request : x # y => change'[x] \cap change'[y] = {}
    BY <1>0, <1>1 DEF RowsOK
  <2> QED BY <2>1, <2>2, <2>3, <2>4, <2>5 DEF RowsOK
<1>10. DeletionOK'
  BY <1>0, <1>1, <1>5 DEF DeletionOK
<1>11. AloneOK'
  BY <1>0, <1>1, <1>4 DEF AloneOK, InTransaction
<1>12. ListOK'
  <2> SUFFICES ASSUME NEW x \in Request, pc'[x] \in {"post", "post again"}, op'[x] # "delete"
               PROVE  Changed(x)' \subseteq list'[x] /\ (~overlapped' => list'[x] = Changed(x)')
    BY DEF ListOK
  <2>1. Changed(x)' = Changed(x)
    BY <1>1 DEF Changed
  <2>2. CASE x = r
    BY <1>3, <2>1, <2>2
  <2>3. CASE x # r
    BY <1>0, <1>1, <1>3, <1>4, <2>1 DEF ListOK
  <2> QED BY <2>2, <2>3
<1>13. ShownOK'
  <2> SUFFICES ASSUME ~disturbed', group' = "exists", ~\E x \in Request : Deleting(x)'
               PROVE  shown' # NoGroup /\ Complete' /\ (~overlapped' => Exact')
    BY DEF ShownOK
  <2>1. /\ group = "exists" /\ shown # NoGroup
        /\ \A u \in members : u \in shown \/ \E x \in Request : Told(x) /\ u \in change[x]
        /\ ~overlapped => /\ shown \subseteq members
                          /\ \A x \in Request : Told(x) => shown \cap change[x] = {}
    BY <1>0, <1>1, <1>5 DEF ShownOK, Complete, Exact
  <2>2. shown' # NoGroup
    BY <1>1, <2>1
  <2>3. Complete'
    BY <1>1, <1>5, <2>1 DEF Complete
  <2>4. ~overlapped' => Exact'
    BY <1>1, <1>5, <2>1 DEF Exact
  <2> QED BY <2>2, <2>3, <2>4
<1>14. CreatedOK'
  BY <1>0, <1>1, <1>4 DEF CreatedOK
<1> QED BY <1>6, <1>7, <1>8, <1>9, <1>10, <1>11, <1>12, <1>13, <1>14 DEF IInv

LEMMA PostGroupStep ==
  ASSUME IInv, NEW r \in Request, PostGroup(r)
  PROVE  IInv'
<1>0. TypeOK /\ StepsOK /\ CreationOK /\ RowsOK
     /\ DeletionOK /\ AloneOK /\ ListOK /\ ShownOK /\ CreatedOK
  BY DEF IInv
<1>1. /\ pc[r] = "post" /\ UNCHANGED <<group, members, op, target, change, list, overlapped, disturbed>>
      /\ shown' = IF op[r] = "delete" THEN NoGroup ELSE list[r]
      /\ overtaken' = (overtaken \/ (op[r] = "end" /\ change[r] = {}
                                     /\ (group = "deleted" \/ \E x \in Request : Deleting(x))))
  BY DEF PostGroup
<1>2. /\ pc' \in [Request -> Steps]
      /\ pc'[r] = IF op[r] = "delete" THEN "commit" ELSE "list again"
      /\ \A x \in Request \ {r} : pc'[x] = pc[x]
  BY <1>0, GotoPc DEF PostGroup, Steps
<1>3. list[r] # NoGroup
  BY <1>0, NoGroupAssumption, AccountAssumption DEF TypeOK
<1>4. \A x \in Request : /\ Told(x)' <=> Told(x) \/ (x = r /\ op[r] = "end")
                        /\ Deleting(x)' <=> Deleting(x) \/ (x = r /\ op[r] = "delete")
  BY <1>1, <1>2 DEF Told, Deleting
<1>5. TypeOK'
  BY <1>0, <1>1, <1>2 DEF TypeOK
<1>6. StepsOK'
  BY <1>0, <1>1, <1>2 DEF StepsOK, InTransaction
<1>7. CreationOK'
  BY <1>0, <1>1, <1>2 DEF CreationOK
<1>8. RowsOK'
  <2>1. (group' = "exists" => Admin \in members') /\ (group' = "deleted" => members' = {})
    BY <1>0, <1>1 DEF RowsOK
  <2>2. \A x \in Request : op'[x] = "end" => change'[x] \subseteq members' \cap {target'[x]}
    BY <1>0, <1>1 DEF RowsOK
  <2>3. \A x \in Request : op'[x] = "delete" /\ InTransaction(x)' => change'[x] = members'
    BY <1>0, <1>1, <1>2 DEF RowsOK, InTransaction
  <2>4. \A x \in Request : op'[x] = "delete" => change'[x] \subseteq members'
    BY <1>0, <1>1 DEF RowsOK
  <2>5. \A x, y \in Request : x # y => change'[x] \cap change'[y] = {}
    BY <1>0, <1>1 DEF RowsOK
  <2> QED BY <2>1, <2>2, <2>3, <2>4, <2>5 DEF RowsOK
<1>9. DeletionOK'
  <2> SUFFICES ASSUME ~overtaken', group' = "deleted" \/ \E x \in Request : Deleting(x)'
               PROVE  shown' = NoGroup
    BY DEF DeletionOK
  <2>1. CASE op[r] = "delete"
    BY <1>1, <2>1
  <2>2. CASE op[r] # "delete"
    \* A transaction that posts now has waited for no row of the deletion.
    <3>1. group = "deleted" \/ \E x \in Request : Deleting(x)
      BY <1>1, <1>2, <2>2 DEF Deleting
    <3>2. op[r] = "end"
      BY <1>0, <1>1, <2>2, <3>1 DEF CreationOK, Deleting, TypeOK
    <3>3. change[r] # {}
      BY <1>1, <3>1, <3>2
    <3>4. group # "deleted"
      BY <1>0, <3>2, <3>3 DEF RowsOK
    <3>5. PICK x \in Request : Deleting(x)
      BY <3>1, <3>4
    <3>6. x # r /\ op[x] = "delete" /\ InTransaction(x)
      BY <1>1, <3>5 DEF Deleting, InTransaction
    <3>7. change[x] = members /\ change[r] \subseteq members /\ change[r] \cap change[x] = {}
      BY <1>0, <3>2, <3>6 DEF RowsOK
    <3> QED BY <3>3, <3>7
  <2> QED BY <2>1, <2>2
<1>10. AloneOK'
  BY <1>0, <1>1, <1>2 DEF AloneOK, InTransaction
<1>11. ListOK'
  BY <1>0, <1>1, <1>2 DEF ListOK, Changed
<1>12. ShownOK'
  <2> SUFFICES ASSUME ~disturbed', group' = "exists", ~\E x \in Request : Deleting(x)'
               PROVE  shown' # NoGroup /\ Complete' /\ (~overlapped' => Exact')
    BY DEF ShownOK
  <2>1. group = "exists" /\ op[r] = "end"
    BY <1>0, <1>1, <1>4 DEF CreationOK, TypeOK
  <2>2. Told(r)' /\ shown' = list[r] /\ shown' # NoGroup
    BY <1>1, <1>2, <1>3, <2>1 DEF Told
  <2>3. InTransaction(r) /\ \A x \in Request : Told(x)' => InTransaction(x)'
    BY <1>1 DEF InTransaction, Told
  <2>4. \A x \in Request : InTransaction(x)' <=> InTransaction(x)
    BY <1>1, <1>2 DEF InTransaction
  <2>5. Changed(r) = members \ change[r] /\ Changed(r) \subseteq list[r]
        /\ (~overlapped => list[r] = Changed(r))
    BY <1>0, <1>1, <2>1 DEF ListOK, Changed
  <2>6. Complete'
    BY <1>1, <2>2, <2>5 DEF Complete
  <2>7. ~overlapped' => Exact'
    <3> SUFFICES ASSUME ~overlapped' PROVE Exact'
      OBVIOUS
    <3>1. shown' = members \ change[r]
      BY <1>1, <2>2, <2>5
    <3>2. \A x \in Request : Told(x)' => x = r
      BY <1>0, <1>1, <2>3, <2>4 DEF AloneOK
    <3> QED BY <1>1, <3>1, <3>2 DEF Exact
  <2> QED BY <2>2, <2>6, <2>7
<1>13. CreatedOK'
  <2> SUFFICES ASSUME NEW x \in Request, op'[x] = "create",
                      pc'[x] \in {"list again", "post again", "commit"}
               PROVE  shown' = change'[x]
    BY DEF CreatedOK
  <2>1. x = r /\ ~overlapped
    BY <1>0, <1>1, <1>2 DEF CreationOK
  <2> QED BY <1>0, <1>1, <1>3, <2>1 DEF ListOK, CreatedOK, Changed
<1> QED BY <1>5, <1>6, <1>7, <1>8, <1>9, <1>10, <1>11, <1>12, <1>13 DEF IInv

LEMMA PostMembersStep ==
  ASSUME IInv, NEW r \in Request, PostMembers(r)
  PROVE  IInv'
<1>0. TypeOK /\ StepsOK /\ CreationOK /\ RowsOK
     /\ DeletionOK /\ AloneOK /\ ListOK /\ ShownOK /\ CreatedOK
  BY DEF IInv
<1>1. /\ pc[r] = "post again" /\ shown' = IF shown = NoGroup THEN NoGroup ELSE list[r]
      /\ UNCHANGED <<group, members, op, target, change, list, overlapped, disturbed, overtaken>>
  BY DEF PostMembers
<1>2. /\ pc' \in [Request -> Steps] /\ pc'[r] = "commit"
      /\ \A x \in Request \ {r} : pc'[x] = pc[x]
  BY <1>0, GotoPc DEF PostMembers, Steps
<1>3. list[r] # NoGroup /\ change[r] # NoGroup
  BY <1>0, NoGroupAssumption, AccountAssumption DEF TypeOK
<1>4. \A x \in Request : (Told(x)' <=> Told(x)) /\ (Deleting(x)' <=> Deleting(x))
  BY <1>0, <1>1, <1>2 DEF Told, Deleting, StepsOK
<1>5. TypeOK'
  BY <1>0, <1>1, <1>2 DEF TypeOK
<1>6. StepsOK'
  BY <1>0, <1>1, <1>2 DEF StepsOK, InTransaction
<1>7. CreationOK'
  BY <1>0, <1>1, <1>2 DEF CreationOK
<1>8. RowsOK'
  <2>1. (group' = "exists" => Admin \in members') /\ (group' = "deleted" => members' = {})
    BY <1>0, <1>1 DEF RowsOK
  <2>2. \A x \in Request : op'[x] = "end" => change'[x] \subseteq members' \cap {target'[x]}
    BY <1>0, <1>1 DEF RowsOK
  <2>3. \A x \in Request : op'[x] = "delete" /\ InTransaction(x)' => change'[x] = members'
    BY <1>0, <1>1, <1>2 DEF RowsOK, InTransaction
  <2>4. \A x \in Request : op'[x] = "delete" => change'[x] \subseteq members'
    BY <1>0, <1>1 DEF RowsOK
  <2>5. \A x, y \in Request : x # y => change'[x] \cap change'[y] = {}
    BY <1>0, <1>1 DEF RowsOK
  <2> QED BY <2>1, <2>2, <2>3, <2>4, <2>5 DEF RowsOK
<1>9. DeletionOK'
  BY <1>0, <1>1, <1>4 DEF DeletionOK
<1>10. AloneOK'
  BY <1>0, <1>1, <1>2 DEF AloneOK, InTransaction
<1>11. ListOK'
  BY <1>0, <1>1, <1>2 DEF ListOK, Changed
<1>12. ShownOK'
  <2> SUFFICES ASSUME ~disturbed', group' = "exists", ~\E x \in Request : Deleting(x)'
               PROVE  shown' # NoGroup /\ Complete' /\ (~overlapped' => Exact')
    BY DEF ShownOK
  <2>1. group = "exists" /\ op[r] = "end" /\ shown # NoGroup
    BY <1>0, <1>1, <1>4 DEF CreationOK, StepsOK, ShownOK, TypeOK
  <2>2. Told(r)' /\ shown' = list[r] /\ shown' # NoGroup
    BY <1>1, <1>2, <1>3, <2>1 DEF Told
  <2>3. InTransaction(r) /\ \A x \in Request : Told(x)' => InTransaction(x)'
    BY <1>1 DEF InTransaction, Told
  <2>4. \A x \in Request : InTransaction(x)' <=> InTransaction(x)
    BY <1>1, <1>2 DEF InTransaction
  <2>5. Changed(r) = members \ change[r] /\ Changed(r) \subseteq list[r]
        /\ (~overlapped => list[r] = Changed(r))
    BY <1>0, <1>1, <2>1 DEF ListOK, Changed
  <2>6. Complete'
    BY <1>1, <2>2, <2>5 DEF Complete
  <2>7. ~overlapped' => Exact'
    <3> SUFFICES ASSUME ~overlapped' PROVE Exact'
      OBVIOUS
    <3>1. shown' = members \ change[r]
      BY <1>1, <2>2, <2>5
    <3>2. \A x \in Request : Told(x)' => x = r
      BY <1>0, <1>1, <2>3, <2>4 DEF AloneOK
    <3> QED BY <1>1, <3>1, <3>2 DEF Exact
  <2> QED BY <2>2, <2>6, <2>7
<1>13. CreatedOK'
  <2> SUFFICES ASSUME NEW x \in Request, op'[x] = "create",
                      pc'[x] \in {"list again", "post again", "commit"}
               PROVE  shown' = change'[x]
    BY DEF CreatedOK
  <2>1. x = r /\ ~overlapped
    BY <1>0, <1>1, <1>2 DEF CreationOK
  <2> QED BY <1>0, <1>1, <1>3, <2>1 DEF ListOK, CreatedOK, Changed
<1> QED BY <1>5, <1>6, <1>7, <1>8, <1>9, <1>10, <1>11, <1>12, <1>13 DEF IInv

LEMMA CommitStep ==
  ASSUME IInv, NEW r \in Request, Commit(r)
  PROVE  IInv'
<1>0. TypeOK /\ StepsOK /\ CreationOK /\ RowsOK
     /\ DeletionOK /\ AloneOK /\ ListOK /\ ShownOK /\ CreatedOK
  BY DEF IInv
<1>1. /\ pc[r] = "commit" /\ members' = Changed(r)
      /\ group' = CASE op[r] = "create" -> "exists"
                    [] op[r] = "delete" -> "deleted"
                    [] OTHER            -> group
      /\ UNCHANGED <<shown, op, target, overlapped, disturbed, overtaken>>
  BY DEF Commit
<1>2. /\ pc' \in [Request -> Steps]
      /\ change' \in [Request -> Members] /\ list' \in [Request -> Members]
      /\ pc'[r] = "idle" /\ change'[r] = {}
      /\ \A x \in Request \ {r} : pc'[x] = pc[x] /\ change'[x] = change[x] /\ list'[x] = list[x]
  BY <1>0, EndPc DEF Commit
<1>3. Changed(r) \in Members
  BY <1>0 DEF Changed, TypeOK, Members
<1>4. change[r] # NoGroup
  BY <1>0, NoGroupAssumption, AccountAssumption DEF TypeOK
<1>5. \A x \in Request : (Told(x)' <=> Told(x) /\ x # r) /\ (Deleting(x)' <=> Deleting(x) /\ x # r)
  BY <1>1, <1>2 DEF Told, Deleting
<1>6. TypeOK'
  BY <1>0, <1>1, <1>2, <1>3 DEF TypeOK, Members
<1>7. StepsOK'
  BY <1>0, <1>1, <1>2 DEF StepsOK, InTransaction
<1>8. CreationOK'
  BY <1>0, <1>1, <1>2 DEF CreationOK
<1>9. RowsOK'
  <2>1. (group' = "exists" => Admin \in members') /\ (group' = "deleted" => members' = {})
    <3>1. CASE op[r] = "create"
      BY <1>0, <1>1, <3>1 DEF StepsOK, InTransaction, Changed
    <3>2. CASE op[r] = "delete"
      BY <1>0, <1>1, <3>2 DEF RowsOK, InTransaction, Changed
    <3>3. CASE op[r] = "end"
      <4>1. group' = group /\ members' = members \ change[r]
        BY <1>1, <3>3 DEF Changed
      <4>2. change[r] \subseteq {target[r]} /\ target[r] # Admin
        BY <1>0, <1>1, <3>3 DEF RowsOK, StepsOK
      <4> QED BY <1>0, <4>1, <4>2 DEF RowsOK
    <3> QED BY <1>0, <3>1, <3>2, <3>3 DEF TypeOK
  <2>2. \A x \in Request : op'[x] = "end" => change'[x] \subseteq members' \cap {target'[x]}
    BY <1>0, <1>1, <1>2 DEF RowsOK
  <2>3. \A x \in Request : op'[x] = "delete" /\ InTransaction(x)' => change'[x] = members'
    <3> SUFFICES ASSUME NEW x \in Request, op'[x] = "delete", InTransaction(x)'
                 PROVE  change'[x] = members'
      OBVIOUS
    <3>1. x # r /\ op[x] = "delete" /\ InTransaction(x) /\ change[x] = members
      BY <1>0, <1>1, <1>2 DEF InTransaction, RowsOK
    <3>2. op[r] \in {"end", "delete"}
      BY <1>0, <1>1, <3>1 DEF CreationOK, InTransaction, TypeOK
    <3>3. change[r] \subseteq members /\ change[r] \cap change[x] = {}
      BY <1>0, <3>1, <3>2 DEF RowsOK
    <3>4. change'[x] = change[x] /\ members' = members \ change[r]
      BY <1>1, <1>2, <3>1, <3>2 DEF Changed
    <3> QED BY <3>1, <3>3, <3>4
  <2>4. \A x \in Request : op'[x] = "delete" => change'[x] \subseteq members'
    BY <1>0, <1>1, <1>2 DEF RowsOK, CreationOK, Changed
  <2>5. \A x, y \in Request : x # y => change'[x] \cap change'[y] = {}
    <3>1. \A x \in Request \ {r} : change'[x] \cap change'[r] = {}
      BY <1>2
    <3>2. \A x, y \in Request \ {r} : x # y => change'[x] \cap change'[y] = {}
      BY <1>0, <1>2 DEF RowsOK
    <3> QED BY <3>1, <3>2
  <2> QED BY <2>1, <2>2, <2>3, <2>4, <2>5 DEF RowsOK
<1>10. DeletionOK'
  <2>1. (group' = "deleted" \/ \E x \in Request : Deleting(x)')
          => (group = "deleted" \/ \E x \in Request : Deleting(x))
    BY <1>1, <1>5 DEF Deleting
  <2> QED BY <1>0, <1>1, <2>1 DEF DeletionOK
<1>11. AloneOK'
  BY <1>0, <1>1, <1>2 DEF AloneOK, InTransaction
<1>12. ListOK'
  BY <1>0, <1>1, <1>2 DEF ListOK, AloneOK, CreationOK, Changed, InTransaction
<1>13. ShownOK'
  <2> SUFFICES ASSUME ~disturbed', group' = "exists", ~\E x \in Request : Deleting(x)'
               PROVE  shown' # NoGroup /\ Complete' /\ (~overlapped' => Exact')
    BY DEF ShownOK
  <2>1. op[r] \in {"create", "end"}
    BY <1>0, <1>1 DEF TypeOK
  <2>2. CASE op[r] = "create"
    <3>1. shown = change[r] /\ members' = change[r]
      BY <1>0, <1>1, <2>2 DEF CreatedOK, Changed
    <3>2. \A x \in Request : ~Told(x)'
      BY <1>0, <1>1, <1>5, <2>2 DEF CreationOK, Told
    <3> QED BY <1>1, <1>4, <3>1, <3>2 DEF Complete, Exact
  <2>3. CASE op[r] = "end"
    <3>1. group = "exists" /\ members' = members \ change[r] /\ Told(r)
      BY <1>1, <2>3 DEF Changed, Told
    <3>2. ~\E x \in Request : Deleting(x)
      BY <1>5, <2>3 DEF Deleting
    <3>3. shown # NoGroup /\ Complete /\ (~overlapped => Exact)
      BY <1>0, <1>1, <3>1, <3>2 DEF ShownOK
    <3>4. Complete'
      BY <1>1, <1>2, <1>5, <3>1, <3>3 DEF Complete
    <3>5. ~overlapped' => Exact'
      BY <1>1, <1>2, <1>5, <3>1, <3>3 DEF Exact
    <3> QED BY <1>1, <3>3, <3>4, <3>5
  <2> QED BY <2>1, <2>2, <2>3
<1>14. CreatedOK'
  BY <1>0, <1>1, <1>2 DEF CreatedOK
<1> QED BY <1>6, <1>7, <1>8, <1>9, <1>10, <1>11, <1>12, <1>13, <1>14 DEF IInv

LEMMA CrashStep ==
  ASSUME IInv, NEW r \in Request, Crash(r)
  PROVE  IInv'
<1>0. TypeOK /\ StepsOK /\ CreationOK /\ RowsOK
     /\ DeletionOK /\ AloneOK /\ ListOK /\ ShownOK /\ CreatedOK
  BY DEF IInv
<1>1. /\ pc[r] # "idle"
      /\ disturbed' = (disturbed \/ pc[r] \in {"list again", "post again", "commit"})
      /\ UNCHANGED <<group, members, shown, op, target, overlapped, overtaken>>
  BY DEF Crash
<1>2. /\ pc' \in [Request -> Steps]
      /\ change' \in [Request -> Members] /\ list' \in [Request -> Members]
      /\ pc'[r] = "idle" /\ change'[r] = {}
      /\ \A x \in Request \ {r} : pc'[x] = pc[x] /\ change'[x] = change[x] /\ list'[x] = list[x]
  BY <1>0, EndPc DEF Crash
<1>3. \A x \in Request : (Told(x)' <=> Told(x) /\ x # r) /\ (Deleting(x)' <=> Deleting(x) /\ x # r)
  BY <1>1, <1>2 DEF Told, Deleting
<1>4. TypeOK'
  BY <1>0, <1>1, <1>2 DEF TypeOK, Members
<1>5. StepsOK'
  BY <1>0, <1>1, <1>2 DEF StepsOK, InTransaction
<1>6. CreationOK'
  BY <1>0, <1>1, <1>2 DEF CreationOK
<1>7. RowsOK'
  <2>1. (group' = "exists" => Admin \in members') /\ (group' = "deleted" => members' = {})
    BY <1>0, <1>1 DEF RowsOK
  <2>2. \A x \in Request : op'[x] = "end" => change'[x] \subseteq members' \cap {target'[x]}
    BY <1>0, <1>1, <1>2 DEF RowsOK
  <2>3. \A x \in Request : op'[x] = "delete" /\ InTransaction(x)' => change'[x] = members'
    BY <1>0, <1>1, <1>2 DEF RowsOK, InTransaction
  <2>4. \A x \in Request : op'[x] = "delete" => change'[x] \subseteq members'
    BY <1>0, <1>1, <1>2 DEF RowsOK
  <2>5. \A x, y \in Request : x # y => change'[x] \cap change'[y] = {}
    <3>1. \A x \in Request \ {r} : change'[x] \cap change'[r] = {}
      BY <1>2
    <3>2. \A x, y \in Request \ {r} : x # y => change'[x] \cap change'[y] = {}
      BY <1>0, <1>2 DEF RowsOK
    <3> QED BY <3>1, <3>2
  <2> QED BY <2>1, <2>2, <2>3, <2>4, <2>5 DEF RowsOK
<1>8. DeletionOK'
  BY <1>0, <1>1, <1>3 DEF DeletionOK
<1>9. AloneOK'
  BY <1>0, <1>1, <1>2 DEF AloneOK, InTransaction
<1>10. ListOK'
  <2> SUFFICES ASSUME NEW x \in Request, pc'[x] \in {"post", "post again"}, op'[x] # "delete"
               PROVE  Changed(x)' \subseteq list'[x] /\ (~overlapped' => list'[x] = Changed(x)')
    BY DEF ListOK
  <2>1. x # r /\ pc'[x] = pc[x] /\ op'[x] = op[x]
    BY <1>1, <1>2
  <2>2. Changed(x)' = Changed(x)
    BY <1>1, <1>2 DEF Changed
  <2> QED BY <1>0, <1>1, <1>2, <1>3, <2>1, <2>2 DEF ListOK
<1>11. ShownOK'
  <2> SUFFICES ASSUME ~disturbed', group' = "exists", ~\E x \in Request : Deleting(x)'
               PROVE  shown' # NoGroup /\ Complete' /\ (~overlapped' => Exact')
    BY DEF ShownOK
  <2>1. ~Told(r) /\ ~Deleting(r)
    BY <1>1 DEF Told, Deleting
  <2>2. shown # NoGroup /\ Complete /\ (~overlapped => Exact)
    BY <1>0, <1>1, <1>3, <2>1 DEF ShownOK
  <2>3. Complete'
    BY <1>1, <1>2, <1>3, <2>1, <2>2 DEF Complete
  <2>4. ~overlapped' => Exact'
    BY <1>1, <1>2, <1>3, <2>2 DEF Exact
  <2> QED BY <1>1, <2>2, <2>3, <2>4
<1>12. CreatedOK'
  BY <1>0, <1>1, <1>2 DEF CreatedOK
<1> QED BY <1>4, <1>5, <1>6, <1>7, <1>8, <1>9, <1>10, <1>11, <1>12 DEF IInv

-----------------------------------------------------------------------------
(* The theorems.                                                           *)

LEMMA NextIInv == IInv /\ [Next]_vars => IInv'
<1> SUFFICES ASSUME IInv, [Next]_vars PROVE IInv'
  OBVIOUS
<1>1. ASSUME NEW r \in Request, BeginCreate(r) PROVE IInv'
  BY <1>1, BeginStep, AccountAssumption DEF BeginCreate
<1>2. ASSUME NEW r \in Request, NEW users \in SUBSET Account, Create(r, users) PROVE IInv'
  BY <1>2, CreateStep
<1>3. ASSUME NEW r \in Request, NEW u \in Account, BeginLeave(r, u) PROVE IInv'
  BY <1>3, BeginStep DEF BeginLeave, MayLeave
<1>4. ASSUME NEW r \in Request, NEW actor \in Account, NEW u \in Account,
             BeginRemove(r, actor, u)
      PROVE  IInv'
  BY <1>4, BeginStep DEF BeginRemove, MayRemove
<1>5. ASSUME NEW r \in Request, NEW actor \in Account, BeginDelete(r, actor) PROVE IInv'
  BY <1>5, BeginStep DEF BeginDelete
<1>6. ASSUME NEW r \in Request,
             EndMembership(r) \/ Delete(r) \/ GetGroup(r) \/ ListMembers(r)
               \/ PostGroup(r) \/ PostMembers(r) \/ Commit(r) \/ Crash(r)
      PROVE  IInv'
  BY <1>6, EndMembershipStep, DeleteStep, GetGroupStep, ListMembersStep, PostGroupStep,
     PostMembersStep, CommitStep, CrashStep
<1>7. CASE UNCHANGED vars
  BY <1>7 DEF vars, IInv, TypeOK, StepsOK, CreationOK, RowsOK, DeletionOK, AloneOK, ListOK,
              ShownOK, CreatedOK, Complete, Exact, InTransaction, Deleting, Told, Changed
<1> QED BY <1>1, <1>2, <1>3, <1>4, <1>5, <1>6, <1>7 DEF Next

\* What the requests rely on: the rows they hold, and how far they have told.
THEOREM Invariance == Spec => []IInv
BY InitIInv, NextIInv, PTL DEF Spec

\* The types of the model.
THEOREM TypeCorrect == Spec => []TypeOK
<1>1. IInv => TypeOK
  BY DEF IInv
<1> QED BY <1>1, Invariance, PTL

\* The legacy system shows every member of a group, and nobody else unless
\* changes overlapped, for any number of requests at a time.
THEOREM InStep == Spec => []GroupInStep
<1>1. IInv => GroupInStep
  BY DEF IInv, ShownOK, Complete, Exact, GroupInStep, Quiet, Told, Deleting
<1> QED BY <1>1, Invariance, PTL

\* A deleted group stays deleted, for any number of requests at a time.
THEOREM Deletion == Spec => []DeletedStaysDeleted
<1>1. IInv => DeletedStaysDeleted
  BY DEF IInv, DeletionOK, DeletedStaysDeleted
<1> QED BY <1>1, Invariance, PTL
=============================================================================
