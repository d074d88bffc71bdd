------------------------- MODULE ProfileInformation -------------------------
(***************************************************************************)
(* The profile information of one user.  Every access first makes sure     *)
(* that there is a row (ensure_profile_information), in a transaction of   *)
(* its own, and tells the legacy system of a new row after that; the edit  *)
(* or deletion follows in another transaction, with the row read before.   *)
(*                                                                         *)
(* The content is one number, 0 when all three fields are empty.  Every    *)
(* post is taken to be answered 2xx; LegacySync is about those that are    *)
(* not.                                                                    *)
(***************************************************************************)
EXTENDS Naturals

CONSTANTS
  Request,   \* threads handling a request
  MaxRows,   \* bound on primary keys given out
  MaxEdits,  \* bound on contents given out
  Nothing,   \* no row, nothing written, nothing shown
  Deleted    \* what a transaction wrote that deleted the row

ASSUME BoundsAssumption == MaxRows \in Nat \ {0} /\ MaxEdits \in Nat
ASSUME MarkAssumption ==
  /\ Nothing # Deleted
  /\ \A profile \in [pk : 1..MaxRows, content : 0..MaxEdits] : profile \notin {Nothing, Deleted}
  /\ \A content \in 0..MaxEdits : content # Nothing

VARIABLES
  row,    \* the row as committed, or Nothing
  shown,  \* the content the legacy system shows, or Nothing
  keys,   \* primary keys given out
  edits,  \* contents given out
  pc, op, \* where a request is, and what it does
  copy,   \* the row it read or created
  write,  \* what its transaction wrote: a row, Deleted, or Nothing
  astray  \* history: the legacy system was told what did not last, out of order,
          \* or not at all, and no post of a change came after it

vars == <<row, shown, keys, edits, pc, op, copy, write, astray>>

Steps == {"idle", "insert", "get again", "tell", "operate", "reinsert", "post", "commit"}
Operations == {"read", "edit", "delete"}
Rows == [pk : 1..MaxRows, content : 0..MaxEdits]

(***************************************************************************)
(* What the code and the database decide.                                  *)
(***************************************************************************)

\* No other transaction holds the row, or the key of the user, uncommitted.
\* Faulty variant: the change and its post are not one transaction.
NoTransaction(r) == TRUE
RowFree(r) == \A x \in Request \ {r} : write[x] = Nothing

\* ensure_can_delete_profile looks at the copy.
MayDelete(profile) == profile.content = 0

\* UPDATE and DELETE go by the primary key.
Matches(r) == row # Nothing /\ row.pk = copy[r].pk

Shows(profile) == IF profile = Nothing THEN Nothing ELSE profile.content

\* Another transaction told the legacy system and has not committed.
OthersTold(r) == \E x \in Request \ {r} : pc[x] = "commit"

Goto(r, step) == pc' = [pc EXCEPT ![r] = step]

End(r) ==
  /\ Goto(r, "idle")
  /\ copy' = [copy EXCEPT ![r] = Nothing]
  /\ write' = [write EXCEPT ![r] = Nothing]

(***************************************************************************)
(* ensure_profile_information: get_or_create, and the post of a new row.   *)
(***************************************************************************)
Get(r, operation) ==
  /\ pc[r] = "idle"
  /\ op' = [op EXCEPT ![r] = operation]
  /\ copy' = [copy EXCEPT ![r] = row]
  /\ Goto(r, IF row = Nothing THEN "insert" ELSE "operate")
  /\ UNCHANGED <<row, shown, keys, edits, write, astray>>

\* INSERT waits for whoever inserts, changes or deletes the row.
Insert(r) ==
  /\ pc[r] = "insert" /\ RowFree(r)
  /\ IF row = Nothing
     THEN /\ keys < MaxRows
          /\ keys' = keys + 1
          /\ row' = [pk |-> keys + 1, content |-> 0]
          /\ copy' = [copy EXCEPT ![r] = row']
          /\ Goto(r, "tell")
     ELSE Goto(r, "get again") /\ UNCHANGED <<row, keys, copy>>
  /\ UNCHANGED <<shown, edits, op, write, astray>>

\* The row that was in the way may be gone: IntegrityError.  Faulty variant: what
\* is (not) there is returned.
GetWhateverIsThere(r) ==
  /\ pc[r] = "get again"
  /\ copy' = [copy EXCEPT ![r] = row]
  /\ Goto(r, "operate")
  /\ UNCHANGED <<row, shown, keys, edits, op, write, astray>>
GetAgain(r) ==
  /\ pc[r] = "get again"
  /\ IF row = Nothing THEN End(r)
     ELSE /\ copy' = [copy EXCEPT ![r] = row]
          /\ Goto(r, "operate")
          /\ UNCHANGED write
  /\ UNCHANGED <<row, shown, keys, edits, op, astray>>

\* The row is committed: others may have changed it, and told so.
Tell(r) ==
  /\ pc[r] = "tell"
  /\ shown' = copy[r].content
  /\ astray' = (astray \/ row # copy[r] \/ OthersTold(r))
  /\ Goto(r, "operate")
  /\ UNCHANGED <<row, keys, edits, op, copy, write>>

(***************************************************************************)
(* The operations.                                                         *)
(***************************************************************************)
Read(r) ==
  /\ pc[r] = "operate" /\ op[r] = "read"
  /\ End(r)
  /\ UNCHANGED <<row, shown, keys, edits, op, astray>>

Written(r, what) == write' = [write EXCEPT ![r] = what] /\ Goto(r, "post")

\* profile.save(): UPDATE by primary key, INSERT when that found no row.
Save(r, content) ==
  /\ pc[r] = "operate" /\ op[r] = "edit" /\ RowFree(r)
  /\ copy' = [copy EXCEPT ![r].content = content]
  /\ IF Matches(r) THEN Written(r, copy'[r])
     ELSE Goto(r, "reinsert") /\ UNCHANGED write
  /\ UNCHANGED <<row, shown, keys, op, astray>>

SaveNew(r) == edits < MaxEdits /\ edits' = edits + 1 /\ Save(r, edits + 1)
SaveEmpty(r) == Save(r, 0) /\ UNCHANGED edits

\* A deleted profile comes back; a row made meanwhile is in the way.
Reinsert(r) ==
  /\ pc[r] = "reinsert" /\ RowFree(r)
  /\ IF row = Nothing THEN Written(r, copy[r]) /\ UNCHANGED copy
     ELSE End(r)
  /\ UNCHANGED <<row, shown, keys, edits, op, astray>>

RefuseDeletion(r) ==
  /\ pc[r] = "operate" /\ op[r] = "delete" /\ ~MayDelete(copy[r])
  /\ End(r)
  /\ UNCHANGED <<row, shown, keys, edits, op, astray>>

Delete(r) ==
  /\ pc[r] = "operate" /\ op[r] = "delete" /\ MayDelete(copy[r])
  /\ RowFree(r)
  /\ Written(r, IF Matches(r) THEN Deleted ELSE Nothing)
  /\ UNCHANGED <<row, shown, keys, edits, op, copy, astray>>

\* A deletion that found no row says "deleted" all the same, and holds nothing
\* that keeps others from telling at the same time.
Post(r) ==
  /\ pc[r] = "post"
  /\ shown' = IF op[r] = "delete" THEN Nothing ELSE write[r].content
  /\ astray' = (write[r] = Nothing /\ (astray \/ row # Nothing \/ OthersTold(r)))
  /\ Goto(r, "commit")
  /\ UNCHANGED <<row, keys, edits, op, copy, write>>

Commit(r) ==
  /\ pc[r] = "commit"
  /\ row' = CASE write[r] = Nothing   -> row
              [] write[r] = Deleted -> Nothing
              [] OTHER                -> write[r]
  /\ End(r)
  /\ UNCHANGED <<shown, keys, edits, op, astray>>

\* A worker dies: after creating the row, or after the post of a change.
Crash(r) ==
  /\ pc[r] # "idle"
  /\ End(r)
  /\ astray' = (astray \/ pc[r] = "tell" \/ (pc[r] = "commit" /\ write[r] # Nothing))
  /\ UNCHANGED <<row, shown, keys, edits, op>>

\* The registration of a researcher makes the row; companies have none.
Init ==
  /\ \/ row = [pk |-> 1, content |-> 0] /\ keys = 1
     \/ row = Nothing /\ keys = 0
  /\ shown = Shows(row)
  /\ edits = 0
  /\ pc = [r \in Request |-> "idle"]
  /\ op = [r \in Request |-> "read"]
  /\ copy = [r \in Request |-> Nothing]
  /\ write = [r \in Request |-> Nothing]
  /\ astray = FALSE

Next ==
  \E r \in Request :
    \/ \E operation \in Operations : Get(r, operation)
    \/ Insert(r) \/ GetAgain(r) \/ Tell(r)
    \/ Read(r)
    \/ SaveNew(r) \/ SaveEmpty(r) \/ Reinsert(r)
    \/ RefuseDeletion(r) \/ Delete(r)
    \/ Post(r)
    \/ Commit(r)
    \/ Crash(r)

Spec == Init /\ [][Next]_vars

(***************************************************************************)
(* Properties                                                              *)
(***************************************************************************)
TypeOK ==
  /\ row \in Rows \cup {Nothing}
  /\ shown \in 0..MaxEdits \cup {Nothing}
  /\ keys \in 0..MaxRows /\ edits \in 0..MaxEdits
  /\ pc \in [Request -> Steps]
  /\ op \in [Request -> Operations]
  /\ copy \in [Request -> Rows \cup {Nothing}]
  /\ write \in [Request -> Rows \cup {Deleted, Nothing}]
  /\ astray \in BOOLEAN
  /\ \A r \in Request : pc[r] \notin {"idle", "insert", "get again"} => copy[r] # Nothing

\* When no request is under way the legacy system shows the row, in whatever
\* order edits, deletions and creations overlapped, unless it went astray; the
\* next edit or deletion of the row puts that right.
ProfileInStep ==
  ((\A r \in Request : pc[r] = "idle") /\ ~astray) => shown = Shows(row)
=============================================================================
