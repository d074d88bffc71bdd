--------------------- MODULE ProfileInformation_proofs ---------------------
(***************************************************************************)
(* Proofs about ProfileInformation, for any number of requests, rows and   *)
(* contents.                                                               *)
(***************************************************************************)
EXTENDS ProfileInformation, TLAPS

(***************************************************************************)
(* The inductive invariant.                                                *)
(***************************************************************************)

\* What a transaction wrote is not committed yet and fits its operation.
WriteOK(r) ==
  /\ write[r] # Nothing => pc[r] \in {"post", "commit"}
  /\ pc[r] = "reinsert" => op[r] = "edit"
  /\ pc[r] = "post" /\ op[r] = "delete" => write[r] \in {Deleted, Nothing}
  /\ pc[r] = "post" /\ op[r] # "delete" => write[r] \in Rows
  /\ write[r] = Deleted => copy[r] \in Rows

\* The row has one writer at a time.
OneWriter ==
  \A r, q \in Request : r # q => write[r] = Nothing \/ write[q] = Nothing

\* A writer that told the legacy system and has still to commit.
Telling(r) == pc[r] = "commit" /\ write[r] # Nothing
After(r) == IF write[r] = Deleted THEN Nothing ELSE write[r]

\* Unless it went astray, the legacy system is ahead by what a writer is about to
\* commit, behind by a new row that somebody is about to tell, and otherwise
\* shows the row.
ShownOK ==
  ~astray =>
    /\ \A r \in Request : Telling(r) => shown = Shows(After(r))
    /\ (\A r \in Request : pc[r] # "tell" /\ ~Telling(r)) => shown = Shows(row)

WritesOK == \A r \in Request : WriteOK(r)

IInv == TypeOK /\ WritesOK /\ OneWriter /\ ShownOK

(***************************************************************************)
(* Rows, and moves of a request.                                           *)
(***************************************************************************)
LEMMA RowFacts ==
  ASSUME NEW profile \in Rows
  PROVE  /\ profile # Nothing /\ profile # Deleted
         /\ profile.content \in 0..MaxEdits /\ profile.content # Nothing
         /\ Shows(profile) = profile.content
BY MarkAssumption DEF Rows, Shows

LEMMA GotoMoves ==
  ASSUME TypeOK, NEW r \in Request, NEW step \in Steps, Goto(r, step)
  PROVE  /\ pc' \in [Request -> Steps] /\ pc'[r] = step
         /\ \A q \in Request \ {r} : pc'[q] = pc[q]
BY DEF Goto, TypeOK

LEMMA EndMoves ==
  ASSUME TypeOK, NEW r \in Request, End(r)
  PROVE  /\ pc' \in [Request -> Steps] /\ pc'[r] = "idle"
         /\ copy' \in [Request -> Rows \cup {Nothing}] /\ copy'[r] = Nothing
         /\ write' \in [Request -> Rows \cup {Deleted, Nothing}] /\ write'[r] = Nothing
         /\ \A q \in Request \ {r} : pc'[q] = pc[q] /\ copy'[q] = copy[q] /\ write'[q] = write[q]
<1>1. "idle" \in Steps
  BY DEF Steps
<1> QED BY <1>1, GotoMoves DEF End, TypeOK

LEMMA WrittenMoves ==
  ASSUME TypeOK, NEW r \in Request, NEW what \in Rows \cup {Deleted, Nothing}, Written(r, what)
  PROVE  /\ pc' \in [Request -> Steps] /\ pc'[r] = "post"
         /\ write' \in [Request -> Rows \cup {Deleted, Nothing}] /\ write'[r] = what
         /\ \A q \in Request \ {r} : pc'[q] = pc[q] /\ write'[q] = write[q]
<1>1. "post" \in Steps
  BY DEF Steps
<1> QED BY <1>1, GotoMoves DEF Written, TypeOK

\* The other requests stay where they are.
OthersStay(r) ==
  \A q \in Request \ {r} : /\ pc'[q] = pc[q] /\ op'[q] = op[q]
                           /\ copy'[q] = copy[q] /\ write'[q] = write[q]

\* A request that is past its look at the row has a copy.
LEMMA CopyThere ==
  ASSUME TypeOK, NEW r \in Request, pc[r] \notin {"idle", "insert", "get again"}
  PROVE  copy[r] \in Rows
BY DEF TypeOK

\* A request moves: what it wrote fits, and nobody else has written.
LEMMA WritesKept ==
  ASSUME IInv, NEW r \in Request, OthersStay(r), WriteOK(r)',
         write'[r] = Nothing \/ write'[r] = write[r] \/ RowFree(r)
  PROVE  WritesOK' /\ OneWriter'
<1>1. WritesOK'
  <2>1. ASSUME NEW q \in Request \ {r} PROVE WriteOK(q)'
    BY DEF IInv, WritesOK, WriteOK, OthersStay
  <2> QED BY <2>1 DEF WritesOK
<1>2. OneWriter'
  BY DEF IInv, OneWriter, OthersStay, RowFree
<1> QED BY <1>1, <1>2

\* It does not change what is shown, and if it was ahead or about to tell that is
\* remembered.
LEMMA ShownKept ==
  ASSUME IInv, NEW r \in Request, OthersStay(r), UNCHANGED <<row, shown>>,
         astray => astray', ~Telling(r)',
         pc[r] = "tell" \/ Telling(r) => astray'
  PROVE  ShownOK'
<1>1. \A q \in Request \ {r} : Telling(q)' = Telling(q) /\ After(q)' = After(q)
  BY DEF OthersStay, Telling, After
<1>2. \A q \in Request : Telling(q)' => Telling(q) /\ After(q)' = After(q)
  BY <1>1
<1>3. ASSUME ~astray', NEW q \in Request, Telling(q)'
      PROVE  shown' = Shows(After(q)')
  BY <1>2, <1>3 DEF IInv, ShownOK
<1>4. ASSUME ~astray', \A q \in Request : pc'[q] # "tell" /\ ~Telling(q)'
      PROVE  shown' = Shows(row')
  <2>1. \A q \in Request : pc[q] # "tell" /\ ~Telling(q)
    BY <1>1, <1>4 DEF OthersStay
  <2> QED BY <1>4, <2>1 DEF IInv, ShownOK
<1> QED BY <1>3, <1>4 DEF ShownOK, Shows

\* The two together, for a step that changes neither the row nor what is shown.
LEMMA QuietStep ==
  ASSUME IInv, NEW r \in Request, OthersStay(r), TypeOK', WriteOK(r)',
         write'[r] = Nothing \/ write'[r] = write[r] \/ RowFree(r),
         UNCHANGED <<row, shown>>, astray => astray', ~Telling(r)',
         pc[r] = "tell" \/ Telling(r) => astray'
  PROVE  IInv'
BY WritesKept, ShownKept DEF IInv

-----------------------------------------------------------------------------
(* The steps before the row is written.                                    *)

\* A request that goes to the operation, or on to it, with what it read; nothing
\* is written.
LEMMA MoveStep ==
  ASSUME IInv, NEW r \in Request, NEW step \in Steps \ {"tell", "reinsert", "post", "commit"},
         Goto(r, step), write[r] = Nothing, pc[r] # "tell",
         copy' \in [Request -> Rows \cup {Nothing}], op' \in [Request -> Operations],
         \A q \in Request \ {r} : op'[q] = op[q] /\ copy'[q] = copy[q],
         step = "operate" => copy'[r] # Nothing,
         UNCHANGED <<row, shown, keys, edits, write, astray>>
  PROVE  IInv'
<1>0. TypeOK
  BY DEF IInv
<1>1. /\ pc' \in [Request -> Steps] /\ pc'[r] = step
      /\ \A q \in Request \ {r} : pc'[q] = pc[q]
  BY <1>0, GotoMoves
<1>2. TypeOK'
  BY <1>0, <1>1 DEF TypeOK, Steps
<1>3. WriteOK(r)'
  BY <1>1, MarkAssumption DEF WriteOK
<1>4. OthersStay(r) /\ ~Telling(r)' /\ ~Telling(r)
  BY <1>1 DEF OthersStay, Telling
<1> QED BY <1>2, <1>3, <1>4, QuietStep

\* A request that ends before it wrote anything.
LEMMA EndStep ==
  ASSUME IInv, NEW r \in Request, End(r), write[r] = Nothing, pc[r] # "tell",
         UNCHANGED <<row, shown, keys, edits, op, astray>>
  PROVE  IInv'
<1>0. TypeOK
  BY DEF IInv
<1>1. /\ pc' \in [Request -> Steps] /\ pc'[r] = "idle"
      /\ copy' \in [Request -> Rows \cup {Nothing}]
      /\ write' \in [Request -> Rows \cup {Deleted, Nothing}] /\ write'[r] = Nothing
      /\ \A q \in Request \ {r} : pc'[q] = pc[q] /\ copy'[q] = copy[q] /\ write'[q] = write[q]
  BY <1>0, EndMoves
<1>2. TypeOK'
  BY <1>0, <1>1 DEF TypeOK
<1>3. WriteOK(r)'
  BY <1>1, MarkAssumption DEF WriteOK
<1>4. OthersStay(r) /\ ~Telling(r)' /\ ~Telling(r)
  BY <1>1 DEF OthersStay, Telling
<1> QED BY <1>1, <1>2, <1>3, <1>4, QuietStep

\* Outside post and commit a request has written nothing.
LEMMA NothingWritten ==
  ASSUME IInv, NEW r \in Request, pc[r] \notin {"post", "commit"}
  PROVE  write[r] = Nothing
BY DEF IInv, WritesOK, WriteOK

LEMMA GetStep ==
  ASSUME IInv, NEW r \in Request, NEW operation \in Operations, Get(r, operation)
  PROVE  IInv'
<1>0. TypeOK /\ pc[r] = "idle"
  BY DEF IInv, Get
<1>1. /\ op' = [op EXCEPT ![r] = operation] /\ copy' = [copy EXCEPT ![r] = row]
      /\ Goto(r, IF row = Nothing THEN "insert" ELSE "operate")
      /\ UNCHANGED <<row, shown, keys, edits, write, astray>>
  BY DEF Get
<1>2. /\ op' \in [Request -> Operations] /\ copy' \in [Request -> Rows \cup {Nothing}]
      /\ \A q \in Request \ {r} : op'[q] = op[q] /\ copy'[q] = copy[q]
      /\ copy'[r] = row
  BY <1>0, <1>1 DEF TypeOK
<1>3. write[r] = Nothing
  BY <1>0, NothingWritten
<1>4. CASE row = Nothing
  BY <1>0, <1>1, <1>2, <1>3, <1>4, MoveStep DEF Steps
<1>5. CASE row # Nothing
  BY <1>0, <1>1, <1>2, <1>3, <1>5, MoveStep DEF Steps
<1> QED BY <1>4, <1>5

\* The new row is to be told; nobody is writing it.
LEMMA InsertStep ==
  ASSUME IInv, NEW r \in Request, Insert(r)
  PROVE  IInv'
<1>0. TypeOK /\ pc[r] = "insert" /\ write[r] = Nothing
  BY NothingWritten DEF IInv, Insert
<1>1. RowFree(r) /\ UNCHANGED <<shown, edits, op, write, astray>>
  BY DEF Insert
<1>2. CASE row # Nothing
  <2>1. Goto(r, "get again") /\ UNCHANGED <<row, keys, copy>>
    BY <1>2 DEF Insert
  <2> QED BY <1>0, <1>1, <2>1, MoveStep DEF Steps, TypeOK
<1>3. CASE row = Nothing
  <2> DEFINE new == [pk |-> keys + 1, content |-> 0]
  <2>1. /\ keys < MaxRows /\ keys' = keys + 1 /\ row' = new
        /\ copy' = [copy EXCEPT ![r] = new] /\ Goto(r, "tell")
    BY <1>3 DEF Insert
  <2>2. keys \in 0..MaxRows
    BY <1>0 DEF TypeOK
  <2>3. new \in Rows
    BY <2>1, <2>2, BoundsAssumption DEF Rows
  <2> HIDE DEF new
  <2>4. /\ pc' \in [Request -> Steps] /\ pc'[r] = "tell"
        /\ \A q \in Request \ {r} : pc'[q] = pc[q]
    BY <1>0, <2>1, GotoMoves DEF Steps
  <2>5. /\ copy' \in [Request -> Rows \cup {Nothing}] /\ copy'[r] = new
        /\ \A q \in Request \ {r} : copy'[q] = copy[q]
    BY <1>0, <2>1, <2>3 DEF TypeOK
  <2>6. keys' \in 0..MaxRows
    BY <2>1, <2>2, BoundsAssumption
  <2>7. TypeOK'
    BY <1>0, <1>1, <2>1, <2>3, <2>4, <2>5, <2>6, RowFacts DEF TypeOK
  <2>8. WritesOK' /\ OneWriter'
    <3>1. OthersStay(r) /\ WriteOK(r)'
      BY <1>0, <1>1, <2>4, <2>5, MarkAssumption DEF OthersStay, WriteOK
    <3> QED BY <1>1, <3>1, WritesKept
  <2>9. ShownOK'
    <3>1. \A q \in Request : ~Telling(q)'
      BY <1>0, <1>1, <2>4 DEF RowFree, Telling
    <3> QED BY <2>4, <3>1 DEF ShownOK
  <2> QED BY <2>7, <2>8, <2>9 DEF IInv
<1> QED BY <1>2, <1>3

LEMMA GetAgainStep ==
  ASSUME IInv, NEW r \in Request, GetAgain(r)
  PROVE  IInv'
<1>0. TypeOK /\ pc[r] = "get again" /\ write[r] = Nothing
  BY NothingWritten DEF IInv, GetAgain
<1>1. UNCHANGED <<row, shown, keys, edits, op, astray>>
  BY DEF GetAgain
<1>2. CASE row = Nothing
  BY <1>0, <1>1, <1>2, EndStep DEF GetAgain
<1>3. CASE row # Nothing
  <2>1. copy' = [copy EXCEPT ![r] = row] /\ Goto(r, "operate") /\ UNCHANGED write
    BY <1>3 DEF GetAgain
  <2>2. /\ copy' \in [Request -> Rows \cup {Nothing}] /\ copy'[r] = row
        /\ \A q \in Request \ {r} : copy'[q] = copy[q]
    BY <1>0, <2>1 DEF TypeOK
  <2> QED BY <1>0, <1>1, <1>3, <2>1, <2>2, MoveStep DEF Steps, TypeOK
<1> QED BY <1>2, <1>3

\* What is told is the row, unless that is remembered.
LEMMA TellStep ==
  ASSUME IInv, NEW r \in Request, Tell(r)
  PROVE  IInv'
<1>0. TypeOK /\ pc[r] = "tell" /\ write[r] = Nothing
  BY NothingWritten DEF IInv, Tell
<1>1. /\ shown' = copy[r].content /\ Goto(r, "operate")
      /\ astray' = (astray \/ row # copy[r] \/ OthersTold(r))
      /\ UNCHANGED <<row, keys, edits, op, copy, write>>
  BY DEF Tell
<1>2. copy[r] \in Rows
  BY <1>0, CopyThere
<1>3. /\ pc' \in [Request -> Steps] /\ pc'[r] = "operate"
      /\ \A q \in Request \ {r} : pc'[q] = pc[q]
  BY <1>0, <1>1, GotoMoves DEF Steps
<1>4. TypeOK'
  <2>1. shown' \in 0..MaxEdits /\ astray' \in BOOLEAN
    BY <1>0, <1>1, <1>2, RowFacts DEF TypeOK
  <2>2. copy[r] # Nothing
    BY <1>2, RowFacts
  <2> QED BY <1>0, <1>1, <1>3, <2>1, <2>2 DEF TypeOK
<1>5. WritesOK' /\ OneWriter'
  <2>1. OthersStay(r) /\ WriteOK(r)'
    BY <1>0, <1>1, <1>3, MarkAssumption DEF OthersStay, WriteOK
  <2> QED BY <1>1, <2>1, WritesKept
<1>6. ShownOK'
  <2>1. ~astray' => row = copy[r] /\ \A q \in Request \ {r} : pc[q] # "commit"
    BY <1>1 DEF OthersTold
  <2>2. ~astray' => shown' = Shows(row')
    BY <1>1, <1>2, <2>1, RowFacts
  <2>3. ~astray' => \A q \in Request : ~Telling(q)'
    BY <1>3, <2>1 DEF Telling
  <2> QED BY <2>2, <2>3 DEF ShownOK, Shows
<1> QED BY <1>4, <1>5, <1>6 DEF IInv

-----------------------------------------------------------------------------
(* The operations.                                                         *)

\* An UPDATE that finds the row writes it; otherwise an INSERT is tried.
LEMMA SaveStep ==
  ASSUME IInv, NEW r \in Request, NEW content \in 0..MaxEdits, Save(r, content),
         edits' \in 0..MaxEdits
  PROVE  IInv'
<1>0. TypeOK /\ pc[r] = "operate" /\ op[r] = "edit" /\ write[r] = Nothing
  BY NothingWritten DEF IInv, Save
<1>1. /\ RowFree(r) /\ copy' = [copy EXCEPT ![r].content = content]
      /\ UNCHANGED <<row, shown, keys, op, astray>>
  BY DEF Save
<1>2. copy[r] \in Rows
  BY <1>0, CopyThere
<1>3. /\ copy' \in [Request -> Rows \cup {Nothing}] /\ copy'[r] \in Rows
      /\ \A q \in Request \ {r} : copy'[q] = copy[q]
  <2> DEFINE profile == [copy[r] EXCEPT !.content = content]
  <2>1. profile \in Rows
    BY <1>2 DEF Rows
  <2>2. copy' = [copy EXCEPT ![r] = profile]
    BY <1>1
  <2> HIDE DEF profile
  <2> QED BY <1>0, <2>1, <2>2 DEF TypeOK
<1>4. CASE Matches(r)
  <2>1. Written(r, copy'[r])
    BY <1>4 DEF Save
  <2>2. /\ pc' \in [Request -> Steps] /\ pc'[r] = "post"
        /\ write' \in [Request -> Rows \cup {Deleted, Nothing}] /\ write'[r] = copy'[r]
        /\ \A q \in Request \ {r} : pc'[q] = pc[q] /\ write'[q] = write[q]
    BY <1>0, <1>3, <2>1, WrittenMoves
  <2>3. TypeOK'
    BY <1>0, <1>1, <1>3, <2>2, RowFacts DEF TypeOK
  <2>4. WriteOK(r)'
    BY <1>0, <1>1, <1>3, <2>2, RowFacts DEF WriteOK
  <2>5. OthersStay(r) /\ ~Telling(r)' /\ ~Telling(r)
    BY <1>0, <1>1, <1>3, <2>2 DEF OthersStay, Telling
  <2> QED BY <1>0, <1>1, <2>3, <2>4, <2>5, QuietStep
<1>5. CASE ~Matches(r)
  <2>1. Goto(r, "reinsert") /\ UNCHANGED write
    BY <1>5 DEF Save
  <2>2. /\ pc' \in [Request -> Steps] /\ pc'[r] = "reinsert"
        /\ \A q \in Request \ {r} : pc'[q] = pc[q]
    BY <1>0, <2>1, GotoMoves DEF Steps
  <2>3. TypeOK'
    BY <1>0, <1>1, <1>3, <2>1, <2>2, RowFacts DEF TypeOK
  <2>4. WriteOK(r)'
    BY <1>0, <1>1, <2>1, <2>2, MarkAssumption DEF WriteOK
  <2>5. OthersStay(r) /\ ~Telling(r)' /\ ~Telling(r)
    BY <1>0, <1>1, <1>3, <2>1, <2>2 DEF OthersStay, Telling
  <2> QED BY <1>0, <1>1, <2>1, <2>3, <2>4, <2>5, QuietStep
<1> QED BY <1>4, <1>5

\* Reinsert, when there is no row, and Delete: the row is written.
LEMMA WriteStep ==
  ASSUME IInv, NEW r \in Request, RowFree(r),
         NEW what \in Rows \cup {Deleted, Nothing}, Written(r, what),
         \/ pc[r] = "reinsert" /\ what \in Rows
         \/ /\ pc[r] = "operate" /\ op[r] = "delete" /\ what \in {Deleted, Nothing}
            /\ copy[r].content = 0,
         UNCHANGED <<row, shown, keys, edits, op, copy, astray>>
  PROVE  IInv'
<1>0. TypeOK /\ WriteOK(r) /\ write[r] = Nothing /\ copy[r] \in Rows
  BY NothingWritten, CopyThere DEF IInv, WritesOK
<1>1. /\ pc' \in [Request -> Steps] /\ pc'[r] = "post"
      /\ write' \in [Request -> Rows \cup {Deleted, Nothing}] /\ write'[r] = what
      /\ \A q \in Request \ {r} : pc'[q] = pc[q] /\ write'[q] = write[q]
  BY <1>0, WrittenMoves
<1>2. TypeOK'
  BY <1>0, <1>1, RowFacts DEF TypeOK
<1>3. WriteOK(r)'
  BY <1>0, <1>1, RowFacts DEF WriteOK
<1>4. OthersStay(r) /\ ~Telling(r)' /\ ~Telling(r)
  BY <1>1 DEF OthersStay, Telling
<1> QED BY <1>0, <1>2, <1>3, <1>4, QuietStep

LEMMA ReinsertStep ==
  ASSUME IInv, NEW r \in Request, Reinsert(r)
  PROVE  IInv'
<1>0. TypeOK /\ pc[r] = "reinsert" /\ write[r] = Nothing /\ RowFree(r)
      /\ UNCHANGED <<row, shown, keys, edits, op, astray>>
  BY NothingWritten DEF IInv, Reinsert
<1>1. CASE row = Nothing
  <2>1. copy[r] \in Rows
    BY <1>0, CopyThere
  <2> QED BY <1>0, <1>1, <2>1, WriteStep DEF Reinsert
<1>2. CASE row # Nothing
  BY <1>0, <1>2, EndStep DEF Reinsert
<1> QED BY <1>1, <1>2

LEMMA DeleteStep ==
  ASSUME IInv, NEW r \in Request, Delete(r)
  PROVE  IInv'
<1> DEFINE what == IF Matches(r) THEN Deleted ELSE Nothing
<1>1. /\ pc[r] = "operate" /\ op[r] = "delete" /\ copy[r].content = 0 /\ RowFree(r)
      /\ Written(r, what) /\ UNCHANGED <<row, shown, keys, edits, op, copy, astray>>
  BY DEF Delete, MayDelete
<1>2. what \in {Deleted, Nothing}
  OBVIOUS
<1> HIDE DEF what
<1> QED BY <1>1, <1>2, WriteStep

\* Once it is posted the legacy system is ahead by what was written.
LEMMA PostStep ==
  ASSUME IInv, NEW r \in Request, Post(r)
  PROVE  IInv'
<1>0. TypeOK /\ WriteOK(r) /\ OneWriter /\ pc[r] = "post" /\ copy[r] \in Rows
  BY CopyThere DEF IInv, WritesOK, Post
<1>1. /\ shown' = IF op[r] = "delete" THEN Nothing ELSE write[r].content
      /\ astray' = (write[r] = Nothing /\ (astray \/ row # Nothing \/ OthersTold(r)))
      /\ Goto(r, "commit")
      /\ UNCHANGED <<row, keys, edits, op, copy, write>>
  BY DEF Post
<1>2. /\ pc' \in [Request -> Steps] /\ pc'[r] = "commit"
      /\ \A q \in Request \ {r} : pc'[q] = pc[q]
  BY <1>0, <1>1, GotoMoves DEF Steps
<1>3. write[r] \in IF op[r] = "delete" THEN {Deleted, Nothing} ELSE Rows
  BY <1>0 DEF WriteOK
<1>4. TypeOK'
  <2>1. shown' \in 0..MaxEdits \cup {Nothing} /\ astray' \in BOOLEAN
    BY <1>1, <1>3, RowFacts
  <2>2. copy[r] # Nothing
    BY <1>0, RowFacts
  <2> QED BY <1>0, <1>1, <1>2, <2>1, <2>2 DEF TypeOK
<1>5. OthersStay(r)
  BY <1>1, <1>2 DEF OthersStay
<1>6. WritesOK' /\ OneWriter'
  <2>1. WriteOK(r)'
    BY <1>0, <1>1, <1>2 DEF WriteOK
  <2> QED BY <1>1, <1>5, <2>1, WritesKept
<1>7. ShownOK'
  <2>1. CASE write[r] # Nothing
    <3>1. shown' = Shows(After(r)')
      BY <1>1, <1>3, <2>1, RowFacts DEF After, Shows
    <3>2. \A q \in Request : Telling(q)' => q = r
      BY <1>0, <1>1, <2>1 DEF Telling, OneWriter
    <3>3. Telling(r)'
      BY <1>1, <1>2, <2>1 DEF Telling
    <3> QED BY <3>1, <3>2, <3>3 DEF ShownOK
  <2>2. CASE write[r] = Nothing
    <3>1. op[r] = "delete"
      BY <1>3, <2>2, RowFacts
    <3>2. ~astray' => row = Nothing /\ \A q \in Request \ {r} : pc[q] # "commit"
      BY <1>1, <2>2 DEF OthersTold
    <3>3. ~astray' => shown' = Shows(row')
      BY <1>1, <3>1, <3>2 DEF Shows
    <3>4. ~astray' => \A q \in Request : ~Telling(q)'
      BY <1>1, <1>2, <2>2, <3>2 DEF Telling
    <3> QED BY <3>3, <3>4 DEF ShownOK, Shows
  <2> QED BY <2>1, <2>2
<1> QED BY <1>4, <1>6, <1>7 DEF IInv

\* With the commit the row catches up.
LEMMA CommitStep ==
  ASSUME IInv, NEW r \in Request, Commit(r)
  PROVE  IInv'
<1>0. TypeOK /\ OneWriter /\ ShownOK /\ pc[r] = "commit"
  BY DEF IInv, Commit
<1>1. /\ row' = CASE write[r] = Nothing -> row
                  [] write[r] = Deleted -> Nothing
                  [] OTHER              -> write[r]
      /\ End(r) /\ UNCHANGED <<shown, keys, edits, op, astray>>
  BY DEF Commit
<1>2. /\ pc' \in [Request -> Steps] /\ pc'[r] = "idle"
      /\ copy' \in [Request -> Rows \cup {Nothing}]
      /\ write' \in [Request -> Rows \cup {Deleted, Nothing}] /\ write'[r] = Nothing
      /\ \A q \in Request \ {r} : pc'[q] = pc[q] /\ copy'[q] = copy[q] /\ write'[q] = write[q]
  BY <1>0, <1>1, EndMoves
<1>3. row' = IF write[r] = Nothing THEN row ELSE After(r)
  BY <1>1, MarkAssumption DEF After
<1>4. TypeOK'
  <2>1. row' \in Rows \cup {Nothing}
    BY <1>0, <1>3 DEF TypeOK, After
  <2> QED BY <1>0, <1>1, <1>2, <2>1 DEF TypeOK
<1>5. OthersStay(r) /\ WriteOK(r)' /\ ~Telling(r)'
  BY <1>1, <1>2, MarkAssumption DEF OthersStay, WriteOK, Telling
<1>6. CASE write[r] = Nothing
  BY <1>0, <1>1, <1>2, <1>3, <1>4, <1>5, <1>6, QuietStep DEF Telling
<1>7. CASE write[r] # Nothing
  <2>1. WritesOK' /\ OneWriter'
    BY <1>2, <1>5, WritesKept
  <2>2. ~astray => shown = Shows(After(r))
    BY <1>0, <1>7 DEF ShownOK, Telling
  <2>3. \A q \in Request : ~Telling(q)'
    BY <1>0, <1>2, <1>5, <1>7 DEF OneWriter, Telling
  <2>4. ShownOK'
    BY <1>1, <1>3, <1>7, <2>2, <2>3 DEF ShownOK, Shows
  <2> QED BY <1>4, <2>1, <2>4 DEF IInv
<1> QED BY <1>6, <1>7

\* A new row that is never told, and a post that is not committed, are remembered.
LEMMA CrashStep ==
  ASSUME IInv, NEW r \in Request, Crash(r)
  PROVE  IInv'
<1>0. TypeOK
  BY DEF IInv
<1>1. /\ End(r) /\ UNCHANGED <<row, shown, keys, edits, op>>
      /\ astray' = (astray \/ pc[r] = "tell" \/ (pc[r] = "commit" /\ write[r] # Nothing))
  BY DEF Crash
<1>2. /\ pc' \in [Request -> Steps] /\ pc'[r] = "idle"
      /\ copy' \in [Request -> Rows \cup {Nothing}]
      /\ write' \in [Request -> Rows \cup {Deleted, Nothing}] /\ write'[r] = Nothing
      /\ \A q \in Request \ {r} : pc'[q] = pc[q] /\ copy'[q] = copy[q] /\ write'[q] = write[q]
  BY <1>0, <1>1, EndMoves
<1>3. TypeOK'
  <2>1. astray' \in BOOLEAN
    BY <1>1
  <2> QED BY <1>0, <1>1, <1>2, <2>1 DEF TypeOK
<1>4. OthersStay(r) /\ WriteOK(r)' /\ ~Telling(r)'
  BY <1>1, <1>2, MarkAssumption DEF OthersStay, WriteOK, Telling
<1>5. /\ astray => astray'
      /\ pc[r] = "tell" \/ Telling(r) => astray'
  BY <1>1 DEF Telling
<1> QED BY <1>1, <1>2, <1>3, <1>4, <1>5, QuietStep

-----------------------------------------------------------------------------

LEMMA InitIInv == Init => IInv
<1> SUFFICES ASSUME Init PROVE IInv
  OBVIOUS
<1>1. /\ shown = Shows(row) /\ edits = 0 /\ pc = [r \in Request |-> "idle"]
      /\ op = [r \in Request |-> "read"] /\ copy = [r \in Request |-> Nothing]
      /\ write = [r \in Request |-> Nothing] /\ astray = FALSE
  BY DEF Init
<1>2. row \in Rows \cup {Nothing} /\ keys \in 0..MaxRows
  BY BoundsAssumption DEF Init, Rows
<1>3. shown \in 0..MaxEdits \cup {Nothing} /\ edits \in 0..MaxEdits
  BY <1>1, <1>2, BoundsAssumption, RowFacts DEF Shows
<1>4. TypeOK
  BY <1>1, <1>2, <1>3 DEF TypeOK, Steps, Operations
<1>5. WritesOK /\ OneWriter /\ ShownOK
  BY <1>1, MarkAssumption DEF WritesOK, WriteOK, OneWriter, ShownOK, Telling
<1> QED BY <1>4, <1>5 DEF IInv

LEMMA NextIInv == IInv /\ [Next]_vars => IInv'
<1> SUFFICES ASSUME IInv, [Next]_vars PROVE IInv'
  OBVIOUS
<1>0. TypeOK
  BY DEF IInv
<1>1. ASSUME NEW r \in Request, NEW operation \in Operations, Get(r, operation)
      PROVE  IInv'
  BY <1>1, GetStep
<1>2. ASSUME NEW r \in Request, Read(r) \/ RefuseDeletion(r) PROVE IInv'
  BY <1>2, EndStep, NothingWritten DEF Read, RefuseDeletion
<1>3. ASSUME NEW r \in Request, SaveNew(r) PROVE IInv'
  <2>1. edits \in 0..MaxEdits /\ edits < MaxEdits /\ edits' = edits + 1 /\ Save(r, edits + 1)
    BY <1>0, <1>3 DEF TypeOK, SaveNew
  <2>2. edits + 1 \in 0..MaxEdits
    BY <2>1, BoundsAssumption
  <2> QED BY <2>1, <2>2, SaveStep
<1>4. ASSUME NEW r \in Request, SaveEmpty(r) PROVE IInv'
  <2>1. edits' \in 0..MaxEdits /\ Save(r, 0)
    BY <1>0, <1>4 DEF TypeOK, SaveEmpty
  <2>2. 0 \in 0..MaxEdits
    BY BoundsAssumption
  <2> QED BY <2>1, <2>2, SaveStep
<1>5. ASSUME NEW r \in Request,
             Insert(r) \/ GetAgain(r) \/ Tell(r) \/ Reinsert(r) \/ Delete(r)
      PROVE  IInv'
  BY <1>5, InsertStep, GetAgainStep, TellStep, ReinsertStep, DeleteStep
<1>6. ASSUME NEW r \in Request, Post(r) \/ Commit(r) \/ Crash(r) PROVE IInv'
  BY <1>6, PostStep, CommitStep, CrashStep
<1>7. CASE UNCHANGED vars
  BY <1>7 DEF vars, IInv, TypeOK, WritesOK, WriteOK, OneWriter, ShownOK, Telling, After, Shows
<1> QED BY <1>1, <1>2, <1>3, <1>4, <1>5, <1>6, <1>7 DEF Next

\* One transaction writes the row at a time, and the legacy system differs from
\* the row only by what a request has still to commit or to tell.
THEOREM Invariance == Spec => []IInv
<1>1. Init => IInv
  BY InitIInv
<1>2. IInv /\ [Next]_vars => IInv'
  BY NextIInv
<1> QED BY <1>1, <1>2, PTL DEF Spec

\* The row, the copies and what was written keep their shape; a request that
\* operates has a copy.
THEOREM TypeCorrect == Spec => []TypeOK
<1>1. IInv => TypeOK
  BY DEF IInv
<1> QED BY <1>1, Invariance, PTL

\* However creations, edits and deletions overlap, once none is under way the
\* legacy system shows the row, unless a new row was told late or a worker died:
\* the change and its post are one transaction, which holds the row.
THEOREM InStep == Spec => []ProfileInStep
<1>1. IInv => ProfileInStep
  BY DEF IInv, ShownOK, ProfileInStep, Telling
<1> QED BY <1>1, Invariance, PTL
=============================================================================
