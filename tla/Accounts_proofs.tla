-------------------------- MODULE Accounts_proofs --------------------------
(***************************************************************************)
(* Proofs about Accounts, for any addresses, identifiers, companies of the *)
(* other service and threads.                                              *)
(***************************************************************************)
EXTENDS Accounts, TLAPS

(***************************************************************************)
(* The inductive invariant: what a thread may count on, how threads keep   *)
(* out of each other's way, and where identifiers come from.               *)
(***************************************************************************)

\* A registration from its look at the address to its end, and the part of it in
\* which nothing was asked of the other service.
Registering(r) == Inserted(r) \/ pc[r] = "insert"
NotSent(r) == pc[r] \in {"insert", "post user", "post profile", "provision"}

\* Answers that leave open whether the request for a profile was processed.
Unknown == {None, 500}

\* What it wants to insert.
PendingOK(r) ==
  /\ Registering(r) => pending[r] \in Row /\ pending[r].id \in used
  /\ pc[r] \in {"post user", "post profile"} => pending[r].type = "researcher"
  /\ pc[r] \in {"provision", "wait"} => pending[r].type = "company"
  /\ pc[r] = "upsert" => /\ pending[r] \in Row
                         /\ pending[r].id \in Legacy /\ pending[r].type = "company"
                         /\ ProfileOf(r) \in profiles
  /\ todo[r] \subseteq {x \in profiles : x.id \in Legacy}

\* No account has its identifier, nor its key once it inserted.
KeyIsNew(r) ==
  /\ Registering(r) => \A x \in accounts : x.id # pending[r].id
  /\ Inserted(r) => \A x \in accounts : ~SameKey(x, pending[r])

\* What it may count on when it commits.
BackedSoFar(r) ==
  /\ pc[r] = "post profile" => <<"user", pending[r].id>> \in told \cup queued[r]
  /\ pc[r] = "commit" /\ pending[r].type = "company" => ProfileOf(r) \in profiles
  /\ pc[r] = "commit" /\ pending[r].type = "researcher" =>
       \A what \in Posts : <<what, pending[r].id>> \in told \cup queued[r]
  /\ pc[r] = "wait" /\ Provisioned(answer[r]) => ProfileOf(r) \in profiles

\* Its request for a profile is processed once.  Until then the other service has
\* no such profile, and after a conflict it will have none.  After an error
\* nothing is known.
ProfileTraced(r) ==
  /\ pc[r] \notin {"wait", "commit"} => answer[r] = None
  /\ NotSent(r) => \A p \in profiles \cup travelling : p.id # pending[r].id
  /\ pc[r] = "wait" /\ answer[r] = None =>
       /\ \A p \in profiles : p.id # pending[r].id
       /\ \A p \in travelling : p.id = pending[r].id => p = ProfileOf(r)
  /\ pc[r] = "wait" /\ answer[r] \notin Unknown =>
       \A p \in travelling : p.id # pending[r].id
  /\ pc[r] = "wait" /\ answer[r] = 409 => \A p \in profiles : p.id # pending[r].id

ThreadOK(r) == PendingOK(r) /\ KeyIsNew(r) /\ BackedSoFar(r) /\ ProfileTraced(r)

\* Two registrations have different identifiers, and keys once they inserted.
Apart(r, q) ==
  /\ Registering(r) /\ Registering(q) => pending[r].id # pending[q].id
  /\ Inserted(r) /\ Inserted(q) => ~SameKey(pending[r], pending[q])

\* What was generated here was used, and the companies of the other service stay
\* what they were.
IdsOK ==
  /\ \A x \in accounts : IF x.id \in Legacy
                         THEN x.type = "company" /\ [id |-> x.id, address |-> x.address] \in profiles
                         ELSE x.id \in used
  /\ \A p \in travelling : p.id \in used
  /\ \A p \in profiles : p.id \in Legacy \cup used
  /\ \A p, q \in profiles : p.id = q.id /\ p.id \in Legacy => p = q

\* A request that travels has a registration that waits and does not know of it, or
\* one that ended without knowing.
Traced(p) ==
  \/ p.id \in unsure
  \/ \E r \in Request : pc[r] = "wait" /\ answer[r] \in Unknown /\ ProfileOf(r) = p

ThreadsOK == \A r \in Request : ThreadOK(r)
ThreadsApart == \A r, q \in Request : r # q => Apart(r, q)
TravellingOK == \A p \in travelling : Traced(p)

IInv ==
  /\ TypeOK /\ ThreadsOK /\ ThreadsApart /\ IdsOK /\ TravellingOK
  /\ OneAccountPerAddress /\ Backed /\ NoOrphanProfile

(***************************************************************************)
(* Moves of a thread.                                                      *)
(***************************************************************************)

\* The other threads stay where they are.
OthersStay(r) ==
  \A q \in Request \ {r} : /\ pc'[q] = pc[q] /\ pending'[q] = pending[q]
                           /\ queued'[q] = queued[q] /\ answer'[q] = answer[q]
                           /\ todo'[q] = todo[q]

LEMMA GotoMoves ==
  ASSUME TypeOK, NEW r \in Request, NEW step \in Steps, Goto(r, step)
  PROVE  /\ pc' \in [Request -> Steps] /\ pc'[r] = step
         /\ \A q \in Request \ {r} : pc'[q] = pc[q]
BY DEF Goto, TypeOK

LEMMA EndMoves ==
  ASSUME TypeOK, NEW r \in Request, End(r)
  PROVE  /\ pc' \in [Request -> Steps] /\ pc'[r] = "idle"
         /\ pending' \in [Request -> Row \cup {None}]
         /\ queued' \in [Request -> SUBSET (Posts \X Id)]
         /\ answer' \in [Request -> {200, 201, 409, 500, None}] /\ answer'[r] = None
         /\ todo' \in [Request -> SUBSET Profile] /\ todo'[r] = {}
         /\ OthersStay(r)
<1>1. "idle" \in Steps
  BY DEF Steps
<1> QED BY <1>1, GotoMoves DEF End, TypeOK, OthersStay

\* A thread that is idle again is in order.
LEMMA IdleOK ==
  ASSUME NEW r \in Request, pc'[r] = "idle", answer'[r] = None, todo'[r] = {}
  PROVE  ThreadOK(r)' /\ \A q \in Request : Apart(r, q)'
BY DEF ThreadOK, PendingOK, KeyIsNew, BackedSoFar, ProfileTraced, Registering, Inserted,
       NotSent, Apart

\* A thread that stays where it is is in order, when what others add is not
\* its own.
LEMMA OtherKept ==
  ASSUME NEW q \in Request, ThreadOK(q),
         pc'[q] = pc[q], pending'[q] = pending[q], queued'[q] = queued[q],
         answer'[q] = answer[q], todo'[q] = todo[q],
         profiles' = profiles, told \subseteq told', used \subseteq used',
         \A x \in accounts' : \/ x \in accounts
                              \/ /\ Registering(q) => x.id # pending[q].id
                                 /\ Inserted(q) => ~SameKey(x, pending[q]),
         \A p \in travelling' : p \in travelling \/ (Registering(q) => p.id # pending[q].id)
  PROVE  ThreadOK(q)'
<1>1. /\ Registering(q)' = Registering(q) /\ Inserted(q)' = Inserted(q)
      /\ NotSent(q)' = NotSent(q) /\ ProfileOf(q)' = ProfileOf(q)
  BY DEF Registering, Inserted, NotSent, ProfileOf
<1>2. PendingOK(q)'
  BY <1>1 DEF ThreadOK, PendingOK
<1>3. KeyIsNew(q)'
  BY <1>1 DEF ThreadOK, KeyIsNew, SameKey
<1>4. BackedSoFar(q)'
  <2>1. \A record : record \in told \cup queued[q] => record \in (told \cup queued[q])'
    OBVIOUS
  <2>2. BackedSoFar(q)
    BY DEF ThreadOK
  <2>3. pc[q] = "wait" /\ Provisioned(answer[q])' => ProfileOf(q)' \in profiles'
    BY <1>1, <2>2 DEF BackedSoFar, Provisioned
  <2> QED BY <1>1, <2>1, <2>2, <2>3 DEF BackedSoFar
<1>5. ProfileTraced(q)'
  <2>1. NotSent(q) \/ pc[q] = "wait" => Registering(q)
    BY DEF NotSent, Registering, Inserted
  <2> QED BY <1>1, <2>1 DEF ThreadOK, ProfileTraced, Provisioned
<1> QED BY <1>2, <1>3, <1>4, <1>5 DEF ThreadOK

LEMMA OthersApart ==
  ASSUME ThreadsApart, NEW r \in Request, OthersStay(r),
         \A q \in Request \ {r} : Apart(r, q)'
  PROVE  ThreadsApart'
<1>1. ASSUME NEW p \in Request \ {r}, NEW q \in Request \ {r}, p # q
      PROVE  Apart(p, q)'
  <2>1. /\ Registering(p)' = Registering(p) /\ Inserted(p)' = Inserted(p)
        /\ Registering(q)' = Registering(q) /\ Inserted(q)' = Inserted(q)
    BY DEF OthersStay, Registering, Inserted
  <2> QED BY <1>1, <2>1 DEF ThreadsApart, Apart, OthersStay, SameKey
<1>2. ASSUME NEW q \in Request \ {r} PROVE Apart(q, r)'
  BY DEF Apart, SameKey
<1> QED BY <1>1, <1>2 DEF ThreadsApart

\* A thread moves, and adds at most to what was told, generated or given up.  A
\* post that it ends without knowing of is remembered.
LEMMA QuietStep ==
  ASSUME IInv, NEW r \in Request, OthersStay(r), TypeOK',
         UNCHANGED <<accounts, outbox, profiles, travelling>>,
         told \subseteq told', used \subseteq used', unsure \subseteq unsure',
         ThreadOK(r)', \A q \in Request \ {r} : Apart(r, q)',
         pc[r] = "wait" /\ answer[r] \in Unknown => pending[r].id \in unsure',
         pc[r] = "commit" \/ (pc[r] = "wait" /\ Provisioned(answer[r])) =>
           \/ pending[r].id \in unsure'
           \/ pc'[r] = "commit" /\ pending'[r] = pending[r]
  PROVE  IInv'
<1>0. /\ TypeOK /\ ThreadsOK /\ ThreadsApart /\ IdsOK /\ TravellingOK
      /\ OneAccountPerAddress /\ Backed /\ NoOrphanProfile
  BY DEF IInv
<1>1. ThreadsOK'
  <2>1. ASSUME NEW q \in Request \ {r} PROVE ThreadOK(q)'
    BY <1>0, OtherKept DEF ThreadsOK, OthersStay
  <2> QED BY <2>1 DEF ThreadsOK
<1>2. ThreadsApart'
  BY <1>0, OthersApart
<1>3. IdsOK'
  BY <1>0 DEF IdsOK
<1>4. TravellingOK'
  <2>1. ASSUME NEW p \in travelling PROVE Traced(p)'
    <3>1. CASE p.id \in unsure
      BY <3>1 DEF Traced
    <3>2. ASSUME NEW q \in Request, pc[q] = "wait", answer[q] \in Unknown, ProfileOf(q) = p
          PROVE  Traced(p)'
      <4>1. p.id = pending[q].id
        BY <3>2 DEF ProfileOf
      <4> QED BY <3>2, <4>1 DEF Traced, OthersStay, ProfileOf
    <3> QED BY <1>0, <3>1, <3>2 DEF TravellingOK, Traced
  <2> QED BY <2>1 DEF TravellingOK
<1>5. OneAccountPerAddress' /\ Backed'
  BY <1>0 DEF OneAccountPerAddress, Backed
<1>6. NoOrphanProfile'
  <2> SUFFICES ASSUME NEW p \in profiles, p.id \in Id
               PROVE  \/ p.id \in unsure'
                      \/ \E x \in accounts : x.id = p.id
                      \/ \E q \in Request : pc'[q] \in {"wait", "commit"} /\ ProfileOf(q)' = p
    BY DEF NoOrphanProfile
  <2>1. ASSUME NEW q \in Request, pc[q] \in {"wait", "commit"}, ProfileOf(q) = p,
               p.id \notin unsure'
        PROVE  pc'[q] \in {"wait", "commit"} /\ ProfileOf(q)' = p
    <3>1. CASE q # r
      BY <2>1, <3>1 DEF OthersStay, ProfileOf
    <3>2. CASE q = r
      <4>1. p.id = pending[r].id
        BY <2>1, <3>2 DEF ProfileOf
      <4>2. ~(pc[r] = "wait" /\ answer[r] = 409)
        BY <1>0, <4>1 DEF ThreadsOK, ThreadOK, ProfileTraced
      <4>3. Provisioned(answer[r]) \/ answer[r] = 409 \/ answer[r] \in Unknown
        BY <1>0 DEF TypeOK, Provisioned, Unknown
      <4> QED BY <4>3, <2>1, <3>2, <4>1, <4>2 DEF ProfileOf
    <3> QED BY <3>1, <3>2
  <2> QED BY <1>0, <2>1 DEF NoOrphanProfile
<1> QED BY <1>1, <1>2, <1>3, <1>4, <1>5, <1>6 DEF IInv

-----------------------------------------------------------------------------
(* The steps that leave the accounts and the other service alone.          *)

\* A new identifier is nobody's.
LEMMA ValidateStep ==
  ASSUME IInv, NEW r \in Request, NEW row \in Row, Validate(r, row),
         row.id \in Id \ used
  PROVE  IInv'
<1>0. TypeOK /\ ThreadsOK /\ IdsOK
  BY DEF IInv
<1>1. /\ pc[r] = "idle" /\ used' = used \cup {row.id}
      /\ pending' = [pending EXCEPT ![r] = row] /\ Goto(r, "insert")
      /\ UNCHANGED <<accounts, outbox, told, profiles, travelling, queued, answer, todo, unsure>>
  BY DEF Validate
<1>2. /\ pc' \in [Request -> Steps] /\ pc'[r] = "insert"
      /\ \A q \in Request \ {r} : pc'[q] = pc[q]
  BY <1>0, <1>1, GotoMoves DEF Steps
<1>3. /\ pending' \in [Request -> Row \cup {None}] /\ pending'[r] = row
      /\ OthersStay(r)
  BY <1>0, <1>1, <1>2 DEF TypeOK, OthersStay
<1>4. TypeOK'
  BY <1>0, <1>1, <1>2, <1>3 DEF TypeOK
<1>5. ThreadOK(r)'
  <2>1. ThreadOK(r)
    BY <1>0 DEF ThreadsOK
  <2>2. PendingOK(r)' /\ BackedSoFar(r)'
    BY <1>1, <1>2, <1>3, <2>1 DEF ThreadOK, PendingOK, BackedSoFar
  <2>3. KeyIsNew(r)'
    BY <1>0, <1>1, <1>2, <1>3, IdAssumption DEF KeyIsNew, Inserted, IdsOK
  <2>4. ProfileTraced(r)'
    BY <1>0, <1>1, <1>2, <1>3, <2>1, IdAssumption DEF ThreadOK, ProfileTraced, NotSent, IdsOK
  <2> QED BY <2>2, <2>3, <2>4 DEF ThreadOK
<1>6. ASSUME NEW q \in Request \ {r} PROVE Apart(r, q)'
  <2>1. Registering(q) => pending[q].id \in used
    BY <1>0 DEF ThreadsOK, ThreadOK, PendingOK
  <2> QED BY <1>2, <1>3, <2>1 DEF Apart, Registering, Inserted, OthersStay
<1> QED BY <1>1, <1>3, <1>4, <1>5, <1>6, QuietStep

LEMMA NewIdIsNew ==
  ASSUME Id \ used # {}
  PROVE  NewId \in Id \ used
BY DEF NewId

\* A row is inserted when nobody has or inserts the same key.
LEMMA InsertStep ==
  ASSUME IInv, NEW r \in Request, Insert(r)
  PROVE  IInv'
<1>0. TypeOK /\ ThreadsOK /\ ThreadsApart /\ ThreadOK(r)
  BY DEF IInv, ThreadsOK
<1>1. /\ pc[r] = "insert" /\ KeyFree(r)
      /\ UNCHANGED <<accounts, outbox, told, profiles, travelling, used, unsure>>
  BY DEF Insert
<1>2. CASE Taken(r)
  <2>1. End(r)
    BY <1>2 DEF Insert
  <2>2. TypeOK'
    BY <1>0, <1>1, <2>1, EndMoves DEF TypeOK
  <2>3. ThreadOK(r)' /\ \A q \in Request \ {r} : Apart(r, q)'
    BY <1>0, <2>1, EndMoves, IdleOK
  <2> QED BY <1>0, <1>1, <2>1, <2>2, <2>3, EndMoves, QuietStep
<1>3. CASE ~Taken(r)
  <2> DEFINE step == IF pending[r].type = "company" THEN "provision" ELSE "post user"
  <2>1. Goto(r, step) /\ UNCHANGED <<pending, queued, answer, todo>>
    BY <1>3 DEF Insert
  <2>2. step \in Steps
    BY DEF Steps
  <2>3. /\ pc' \in [Request -> Steps] /\ pc'[r] = step
        /\ \A q \in Request \ {r} : pc'[q] = pc[q]
    BY <1>0, <2>1, <2>2, GotoMoves
  <2>4. TypeOK' /\ OthersStay(r)
    BY <1>0, <1>1, <2>1, <2>3 DEF TypeOK, OthersStay
  <2>5. pending[r] \in Row /\ pending[r].id \in used
    BY <1>0, <1>1 DEF ThreadOK, PendingOK, Registering
  <2>6. PendingOK(r)' /\ BackedSoFar(r)'
    BY <1>0, <1>1, <2>1, <2>3, <2>5 DEF ThreadOK, PendingOK, BackedSoFar, Row
  <2>7. KeyIsNew(r)'
    BY <1>0, <1>1, <1>3, <2>1 DEF ThreadOK, KeyIsNew, Registering, Taken, SameKey
  <2>8. ProfileTraced(r)'
    BY <1>0, <1>1, <2>1, <2>3 DEF ThreadOK, ProfileTraced, NotSent
  <2>9. ASSUME NEW q \in Request \ {r} PROVE Apart(r, q)'
    <3>1. Apart(r, q) /\ Registering(r)
      BY <1>0, <1>1 DEF ThreadsApart, Registering
    <3>2. Inserted(q) => ~SameKey(pending[r], pending[q])
      BY <1>1 DEF KeyFree, SameKey
    <3>3. Inserted(q)' = Inserted(q) /\ Registering(q)' = Registering(q)
      BY <2>3 DEF Inserted, Registering
    <3> QED BY <2>1, <3>1, <3>2, <3>3 DEF Apart, SameKey
  <2> QED BY <1>1, <2>4, <2>6, <2>7, <2>8, <2>9, QuietStep DEF ThreadOK
<1> QED BY <1>2, <1>3

\* A thread that inserted goes on with the same row.
LEMMA SameRowApart ==
  ASSUME IInv, NEW r \in Request, Inserted(r), pending' = pending,
         \A q \in Request \ {r} : pc'[q] = pc[q]
  PROVE  /\ \A q \in Request \ {r} : Apart(r, q)'
         /\ accounts' = accounts => KeyIsNew(r)'
<1>1. ASSUME NEW q \in Request \ {r} PROVE Apart(r, q)'
  <2>1. Inserted(q)' = Inserted(q) /\ Registering(q)' = Registering(q)
    BY DEF Inserted, Registering
  <2> QED BY <2>1 DEF IInv, ThreadsApart, Apart, Registering, SameKey
<1>2. accounts' = accounts => KeyIsNew(r)'
  BY DEF IInv, ThreadsOK, ThreadOK, KeyIsNew, Registering, SameKey
<1> QED BY <1>1, <1>2

\* What was posted was accepted or is queued.
LEMMA PostedFacts ==
  ASSUME TypeOK, NEW r \in Request, NEW what \in Posts, pending[r].id \in Id, Posted(r, what)
  PROVE  /\ told' \subseteq Posts \X Id /\ told \subseteq told'
         /\ queued' \in [Request -> SUBSET (Posts \X Id)]
         /\ \A q \in Request \ {r} : queued'[q] = queued[q]
         /\ queued[r] \subseteq queued'[r]
         /\ <<what, pending[r].id>> \in told' \cup queued'[r]
<1> DEFINE record == <<what, pending[r].id>>
<1>1. record \in Posts \X Id
  OBVIOUS
<1>2. \/ told' = told \cup {record} /\ queued' = queued
      \/ queued' = [queued EXCEPT ![r] = queued[r] \cup {record}] /\ told' = told
  BY DEF Posted
<1> HIDE DEF record
<1>3. told \subseteq Posts \X Id /\ queued \in [Request -> SUBSET (Posts \X Id)]
  BY DEF TypeOK
<1>4. /\ told' \subseteq Posts \X Id /\ told \subseteq told'
      /\ queued' \in [Request -> SUBSET (Posts \X Id)]
      /\ \A q \in Request \ {r} : queued'[q] = queued[q]
      /\ queued[r] \subseteq queued'[r]
      /\ record \in told' \cup queued'[r]
  <2>1. CASE told' = told \cup {record} /\ queued' = queued
    BY <1>1, <1>3, <2>1
  <2>2. CASE queued' = [queued EXCEPT ![r] = queued[r] \cup {record}] /\ told' = told
    BY <1>1, <1>3, <2>2
  <2> QED BY <1>2, <2>1, <2>2
<1> QED BY <1>4 DEF record

LEMMA PostStep ==
  ASSUME IInv, NEW r \in Request, NEW what \in Posts, NEW next \in Steps,
         \/ pc[r] = "post user" /\ what = "user" /\ next = "post profile"
         \/ pc[r] = "post profile" /\ what = "profile" /\ next = "commit",
         Posted(r, what), Goto(r, next),
         UNCHANGED <<accounts, outbox, profiles, travelling, pending, answer, todo, used, unsure>>
  PROVE  IInv'
<1>0. TypeOK /\ ThreadOK(r) /\ Inserted(r)
  BY DEF IInv, ThreadsOK, Inserted
<1>1. pending[r] \in Row /\ pending[r].id \in Id /\ pending[r].type = "researcher"
  BY <1>0 DEF ThreadOK, PendingOK, Registering, TypeOK
<1>2. /\ told' \subseteq Posts \X Id /\ told \subseteq told'
      /\ queued' \in [Request -> SUBSET (Posts \X Id)]
      /\ \A q \in Request \ {r} : queued'[q] = queued[q]
      /\ queued[r] \subseteq queued'[r]
      /\ <<what, pending[r].id>> \in told' \cup queued'[r]
  BY <1>0, <1>1, PostedFacts
<1>3. /\ pc' \in [Request -> Steps] /\ pc'[r] = next
      /\ \A q \in Request \ {r} : pc'[q] = pc[q]
  BY <1>0, GotoMoves
<1>4. TypeOK' /\ OthersStay(r)
  BY <1>0, <1>2, <1>3 DEF TypeOK, OthersStay
<1>5. PendingOK(r)'
  BY <1>0, <1>1, <1>3 DEF ThreadOK, PendingOK, Registering, Inserted
<1>6. BackedSoFar(r)'
  <2>1. pc[r] = "post profile" => <<"user", pending[r].id>> \in told' \cup queued'[r]
    BY <1>0, <1>2 DEF ThreadOK, BackedSoFar
  <2>2. \A post \in Posts : post = "user" \/ post = "profile"
    BY DEF Posts
  <2>3. CASE pc[r] = "post user"
    BY <1>2, <1>3, <2>3 DEF BackedSoFar
  <2>4. CASE pc[r] = "post profile"
    BY <1>1, <1>2, <1>3, <2>1, <2>2, <2>4 DEF BackedSoFar
  <2> QED BY <2>3, <2>4
<1>7. ProfileTraced(r)'
  BY <1>0, <1>3 DEF ThreadOK, ProfileTraced, NotSent
<1>8. KeyIsNew(r)' /\ \A q \in Request \ {r} : Apart(r, q)'
  BY <1>0, <1>3, SameRowApart
<1> QED BY <1>2, <1>4, <1>5, <1>6, <1>7, <1>8, QuietStep DEF ThreadOK

\* Timeout, Crash and EndSync: what was posted is remembered, and the thread ends.
LEMMA EndStep ==
  ASSUME IInv, NEW r \in Request, End(r),
         UNCHANGED <<accounts, outbox, told, profiles, travelling, used>>,
         \/ pc[r] \in {"wait", "commit"} /\ unsure' = unsure \cup {pending[r].id}
         \/ pc[r] \notin {"wait", "commit"} /\ unsure' = unsure
  PROVE  IInv'
<1>0. TypeOK /\ ThreadOK(r)
  BY DEF IInv, ThreadsOK
<1>1. unsure' \subseteq Id
  <2>1. pc[r] \in {"wait", "commit"} => pending[r].id \in used
    BY <1>0 DEF ThreadOK, PendingOK, Registering, Inserted
  <2>2. used \subseteq Id /\ unsure \subseteq Id
    BY <1>0 DEF TypeOK
  <2> QED BY <2>1, <2>2
<1>2. TypeOK'
  BY <1>0, <1>1, EndMoves DEF TypeOK
<1>3. ThreadOK(r)' /\ \A q \in Request \ {r} : Apart(r, q)'
  BY <1>0, EndMoves, IdleOK
<1> QED BY <1>0, <1>2, <1>3, EndMoves, QuietStep

LEMMA AnsweredStep ==
  ASSUME IInv, NEW r \in Request, Answered(r)
  PROVE  IInv'
<1>0. TypeOK /\ ThreadOK(r)
  BY DEF IInv, ThreadsOK
<1>1. /\ pc[r] = "wait" /\ answer[r] # None
      /\ unsure' = IF answer[r] = 500 THEN unsure \cup {pending[r].id} ELSE unsure
      /\ UNCHANGED <<accounts, outbox, told, profiles, travelling, used>>
  BY DEF Answered
<1>2. unsure \subseteq unsure' /\ unsure' \subseteq Id
  <2>1. pending[r].id \in used /\ used \subseteq Id /\ unsure \subseteq Id
    BY <1>0, <1>1 DEF ThreadOK, PendingOK, Registering, Inserted, TypeOK
  <2> QED BY <1>1, <2>1
<1>3. CASE Provisioned(answer[r])
  <2>0. unsure' = unsure /\ answer[r] \notin Unknown
    BY <1>1, <1>3 DEF Provisioned, Unknown
  <2>1. Goto(r, "commit") /\ UNCHANGED <<pending, queued, answer, todo>>
    BY <1>3 DEF Answered
  <2>2. /\ pc' \in [Request -> Steps] /\ pc'[r] = "commit"
        /\ \A q \in Request \ {r} : pc'[q] = pc[q]
    BY <1>0, <2>1, GotoMoves DEF Steps
  <2>3. TypeOK' /\ OthersStay(r)
    BY <1>0, <1>1, <1>2, <2>1, <2>2 DEF TypeOK, OthersStay
  <2>4. PendingOK(r)' /\ ProfileTraced(r)'
    BY <1>0, <1>1, <2>1, <2>2 DEF ThreadOK, PendingOK, ProfileTraced, Registering, Inserted, NotSent
  <2>5. BackedSoFar(r)'
    BY <1>0, <1>1, <1>3, <2>1, <2>2 DEF ThreadOK, PendingOK, BackedSoFar, ProfileOf
  <2>6. KeyIsNew(r)' /\ \A q \in Request \ {r} : Apart(r, q)'
    BY <1>1, <2>1, <2>2, SameRowApart DEF Inserted
  <2> QED BY <1>1, <2>0, <2>1, <2>2, <2>3, <2>4, <2>5, <2>6, QuietStep DEF ThreadOK
<1>4. CASE ~Provisioned(answer[r])
  <2>1. End(r)
    BY <1>4 DEF Answered
  <2>2. TypeOK'
    BY <1>0, <1>1, <1>2, <2>1, EndMoves DEF TypeOK
  <2>3. ThreadOK(r)' /\ \A q \in Request \ {r} : Apart(r, q)'
    BY <1>0, <2>1, EndMoves, IdleOK
  <2>4. answer[r] \in Unknown => pending[r].id \in unsure'
    BY <1>1 DEF Unknown
  <2> QED BY <1>0, <1>1, <1>4, <1>2, <2>1, <2>2, <2>3, <2>4, EndMoves, QuietStep
<1> QED BY <1>3, <1>4

\* The command reads the companies of the other service.
LEMMA FetchStep ==
  ASSUME IInv, NEW r \in Request, Fetch(r)
  PROVE  IInv'
<1>0. TypeOK /\ ThreadOK(r)
  BY DEF IInv, ThreadsOK
<1> DEFINE companies == {x \in profiles : x.id \in Legacy}
<1>1. /\ pc[r] = "idle" /\ todo' = [todo EXCEPT ![r] = companies] /\ Goto(r, "next")
      /\ UNCHANGED <<accounts, outbox, told, profiles, travelling, pending, queued, answer,
                     used, unsure>>
  BY DEF Fetch
<1>2. companies \in SUBSET Profile
  BY <1>0 DEF TypeOK
<1>3. /\ pc' \in [Request -> Steps] /\ pc'[r] = "next"
      /\ \A q \in Request \ {r} : pc'[q] = pc[q]
  BY <1>0, <1>1, GotoMoves DEF Steps
<1>4. /\ todo' \in [Request -> SUBSET Profile] /\ todo'[r] = companies
      /\ \A q \in Request \ {r} : todo'[q] = todo[q]
  BY <1>0, <1>1, <1>2 DEF TypeOK
<1>5. TypeOK' /\ OthersStay(r)
  BY <1>0, <1>1, <1>3, <1>4 DEF TypeOK, OthersStay
<1>6. ThreadOK(r)'
  BY <1>0, <1>1, <1>3, <1>4 DEF ThreadOK, PendingOK, KeyIsNew, BackedSoFar, ProfileTraced,
     Registering, Inserted, NotSent
<1>7. \A q \in Request \ {r} : Apart(r, q)'
  BY <1>3 DEF Apart, Registering, Inserted
<1> QED BY <1>1, <1>5, <1>6, <1>7, QuietStep

\* A company whose address and identifier nobody else has is upserted next.
LEMMA LookUpStep ==
  ASSUME IInv, NEW r \in Request, NEW company \in Profile, LookUp(r, company)
  PROVE  IInv'
<1>0. TypeOK /\ ThreadOK(r)
  BY DEF IInv, ThreadsOK
<1> DEFINE row == [id |-> company.id, address |-> company.address, type |-> "company"]
<1>1. /\ pc[r] = "next" /\ company \in todo[r]
      /\ todo' = [todo EXCEPT ![r] = todo[r] \ {company}]
      /\ \/ UNCHANGED <<pc, pending>>
         \/ Goto(r, "upsert") /\ pending' = [pending EXCEPT ![r] = row]
      /\ UNCHANGED <<accounts, outbox, told, profiles, travelling, queued, answer, used, unsure>>
  BY DEF LookUp
<1>2. /\ company \in profiles /\ company.id \in Legacy
      /\ todo[r] \subseteq {x \in profiles : x.id \in Legacy}
  BY <1>0, <1>1 DEF ThreadOK, PendingOK
<1>3. row \in Row /\ row.id \in Legacy /\ row.type = "company"
      /\ [id |-> row.id, address |-> row.address] = company
  BY <1>2 DEF Row, Profile
<1> HIDE DEF row
<1>4. /\ pc' \in [Request -> Steps] /\ pc'[r] \in {"next", "upsert"}
      /\ \A q \in Request \ {r} : pc'[q] = pc[q]
  BY <1>0, <1>1, GotoMoves DEF Steps, TypeOK
<1>5. /\ pending' \in [Request -> Row \cup {None}]
      /\ \A q \in Request \ {r} : pending'[q] = pending[q]
      /\ pc'[r] = "upsert" => pending'[r] = row
  BY <1>0, <1>1, <1>3 DEF TypeOK
<1>6. /\ todo' \in [Request -> SUBSET Profile] /\ todo'[r] \subseteq todo[r]
      /\ \A q \in Request \ {r} : todo'[q] = todo[q]
  BY <1>0, <1>1 DEF TypeOK
<1>7. TypeOK' /\ OthersStay(r)
  BY <1>0, <1>1, <1>4, <1>5, <1>6 DEF TypeOK, OthersStay
<1>8. ThreadOK(r)'
  <2>1. PendingOK(r)'
    BY <1>1, <1>2, <1>3, <1>4, <1>5, <1>6 DEF PendingOK, Registering, Inserted, ProfileOf
  <2>2. KeyIsNew(r)' /\ BackedSoFar(r)' /\ ProfileTraced(r)'
    BY <1>0, <1>1, <1>4 DEF ThreadOK, KeyIsNew, BackedSoFar, ProfileTraced,
       Registering, Inserted, NotSent
  <2> QED BY <2>1, <2>2 DEF ThreadOK
<1>9. \A q \in Request \ {r} : Apart(r, q)'
  BY <1>4 DEF Apart, Registering, Inserted
<1> QED BY <1>1, <1>7, <1>8, <1>9, QuietStep

-----------------------------------------------------------------------------
(* The steps that insert an account.                                       *)

\* The new account has an identifier and a key that no account and no other
\* registration has, and is backed.
LEMMA AccountStep ==
  ASSUME IInv, NEW r \in Request, NEW row \in Row, OthersStay(r), TypeOK',
         accounts' = accounts \cup {row}, outbox \subseteq outbox',
         UNCHANGED <<told, profiles, travelling, used, unsure>>,
         \A x \in accounts : x.id # row.id /\ ~SameKey(x, row),
         \A q \in Request \ {r} : /\ Registering(q) => pending[q].id # row.id
                                  /\ Inserted(q) => ~SameKey(row, pending[q]),
         IF row.id \in Legacy THEN row.type = "company" ELSE row.id \in used,
         row.type = "company" => [id |-> row.id, address |-> row.address] \in profiles,
         row.type = "researcher" => \A what \in Posts : <<what, row.id>> \in told \cup outbox',
         ThreadOK(r)', \A q \in Request \ {r} : Apart(r, q)',
         pc[r] # "wait", pc[r] = "commit" => row = pending[r]
  PROVE  IInv'
<1>0. /\ TypeOK /\ ThreadsOK /\ ThreadsApart /\ IdsOK /\ TravellingOK
      /\ OneAccountPerAddress /\ Backed /\ NoOrphanProfile
  BY DEF IInv
<1>1. ThreadsOK'
  <2>1. ASSUME NEW q \in Request \ {r} PROVE ThreadOK(q)'
    BY <1>0, OtherKept DEF ThreadsOK, OthersStay
  <2> QED BY <2>1 DEF ThreadsOK
<1>2. ThreadsApart'
  BY <1>0, OthersApart
<1>3. IdsOK'
  BY <1>0 DEF IdsOK
<1>4. TravellingOK'
  <2>1. ASSUME NEW p \in travelling PROVE Traced(p)'
    BY <1>0 DEF TravellingOK, Traced, OthersStay, ProfileOf
  <2> QED BY <2>1 DEF TravellingOK
<1>5. OneAccountPerAddress'
  BY <1>0 DEF OneAccountPerAddress, SameKey
<1>6. Backed'
  <2>1. ASSUME NEW x \in accounts
        PROVE  IF x.type = "company" THEN [id |-> x.id, address |-> x.address] \in profiles
               ELSE \A what \in Posts : <<what, x.id>> \in told \cup outbox'
    BY <1>0 DEF Backed
  <2>2. IF row.type = "company" THEN [id |-> row.id, address |-> row.address] \in profiles
        ELSE \A what \in Posts : <<what, row.id>> \in told \cup outbox'
    BY DEF Row
  <2> QED BY <2>1, <2>2 DEF Backed
<1>7. NoOrphanProfile'
  <2> SUFFICES ASSUME NEW p \in profiles, p.id \in Id
               PROVE  \/ p.id \in unsure
                      \/ \E x \in accounts' : x.id = p.id
                      \/ \E q \in Request : pc'[q] \in {"wait", "commit"} /\ ProfileOf(q)' = p
    BY DEF NoOrphanProfile
  <2>1. ASSUME NEW q \in Request, pc[q] \in {"wait", "commit"}, ProfileOf(q) = p
        PROVE  \/ pc'[q] \in {"wait", "commit"} /\ ProfileOf(q)' = p
               \/ row.id = p.id
    BY <2>1 DEF OthersStay, ProfileOf
  <2> QED BY <1>0, <2>1 DEF NoOrphanProfile
<1> QED BY <1>1, <1>2, <1>3, <1>4, <1>5, <1>6, <1>7 DEF IInv

LEMMA CommitStep ==
  ASSUME IInv, NEW r \in Request, Commit(r)
  PROVE  IInv'
<1>0. TypeOK /\ ThreadsOK /\ ThreadsApart /\ ThreadOK(r)
  BY DEF IInv, ThreadsOK
<1>1. /\ pc[r] = "commit" /\ accounts' = accounts \cup {pending[r]}
      /\ outbox' = outbox \cup queued[r] /\ End(r)
      /\ UNCHANGED <<told, profiles, travelling, used, unsure>>
  BY DEF Commit
<1>2. Registering(r) /\ Inserted(r)
  BY <1>1 DEF Registering, Inserted
<1>3. pending[r] \in Row /\ pending[r].id \in used /\ pending[r].id \notin Legacy
  BY <1>0, <1>2, IdAssumption DEF ThreadOK, PendingOK, TypeOK
<1>4. TypeOK' /\ OthersStay(r)
  BY <1>0, <1>1, <1>3, EndMoves DEF TypeOK
<1>5. \A x \in accounts : x.id # pending[r].id /\ ~SameKey(x, pending[r])
  BY <1>0, <1>2 DEF ThreadOK, KeyIsNew
<1>6. \A q \in Request \ {r} : /\ Registering(q) => pending[q].id # pending[r].id
                               /\ Inserted(q) => ~SameKey(pending[r], pending[q])
  BY <1>0, <1>2 DEF ThreadsApart, Apart
<1>7. /\ pending[r].type = "company" =>
           [id |-> pending[r].id, address |-> pending[r].address] \in profiles
      /\ pending[r].type = "researcher" =>
           \A what \in Posts : <<what, pending[r].id>> \in told \cup outbox'
  BY <1>0, <1>1 DEF ThreadOK, BackedSoFar, ProfileOf
<1>8. ThreadOK(r)' /\ \A q \in Request \ {r} : Apart(r, q)'
  BY <1>0, <1>1, EndMoves, IdleOK
<1> QED BY <1>1, <1>3, <1>4, <1>5, <1>6, <1>7, <1>8, AccountStep

\* A company of the other service has one identifier and one address there: an
\* account with its identifier has its key, and then nothing is inserted.
LEMMA UpsertStep ==
  ASSUME IInv, NEW r \in Request, Upsert(r)
  PROVE  IInv'
<1>0. TypeOK /\ ThreadsOK /\ ThreadsApart /\ ThreadOK(r) /\ IdsOK
  BY DEF IInv, ThreadsOK
<1>1. /\ pc[r] = "upsert" /\ KeyFree(r)
      /\ accounts' = IF Taken(r) THEN accounts ELSE accounts \cup {pending[r]}
      /\ pending' = [pending EXCEPT ![r] = None] /\ Goto(r, "next")
      /\ UNCHANGED <<outbox, told, profiles, travelling, queued, answer, todo, used, unsure>>
  BY DEF Upsert
<1>2. /\ pending[r] \in Row /\ pending[r].id \in Legacy /\ pending[r].type = "company"
      /\ ProfileOf(r) \in profiles
  BY <1>0, <1>1 DEF ThreadOK, PendingOK
<1>3. /\ pc' \in [Request -> Steps] /\ pc'[r] = "next"
      /\ \A q \in Request \ {r} : pc'[q] = pc[q]
  BY <1>0, <1>1, GotoMoves DEF Steps
<1>4. TypeOK' /\ OthersStay(r)
  BY <1>0, <1>1, <1>2, <1>3 DEF TypeOK, OthersStay
<1>5. ThreadOK(r)'
  BY <1>0, <1>1, <1>3 DEF ThreadOK, PendingOK, KeyIsNew, BackedSoFar, ProfileTraced,
     Registering, Inserted, NotSent
<1>6. \A q \in Request \ {r} : Apart(r, q)'
  BY <1>3 DEF Apart, Registering, Inserted
<1>7. CASE Taken(r)
  BY <1>1, <1>4, <1>5, <1>6, <1>7, QuietStep
<1>8. CASE ~Taken(r)
  <2>1. ASSUME NEW x \in accounts PROVE x.id # pending[r].id /\ ~SameKey(x, pending[r])
    <3>1. ~SameKey(x, pending[r])
      BY <1>8 DEF Taken
    <3>2. x.id = pending[r].id =>
            x.type = "company" /\ [id |-> x.id, address |-> x.address] = ProfileOf(r)
      BY <1>0, <1>2 DEF IdsOK, ProfileOf
    <3> QED BY <1>2, <3>1, <3>2 DEF SameKey, ProfileOf
  <2>2. \A q \in Request \ {r} : /\ Registering(q) => pending[q].id # pending[r].id
                                 /\ Inserted(q) => ~SameKey(pending[r], pending[q])
    BY <1>0, <1>1, <1>2, IdAssumption
       DEF KeyFree, SameKey, ThreadsOK, ThreadOK, PendingOK, TypeOK
  <2>3. [id |-> pending[r].id, address |-> pending[r].address] \in profiles
    BY <1>2 DEF ProfileOf
  <2> QED BY <1>1, <1>2, <1>4, <1>5, <1>6, <1>8, <2>1, <2>2, <2>3, AccountStep
<1> QED BY <1>7, <1>8

-----------------------------------------------------------------------------
(* The other service.                                                      *)

LEMMA SendStep ==
  ASSUME IInv, NEW r \in Request, Send(r)
  PROVE  IInv'
<1>0. /\ TypeOK /\ ThreadsOK /\ ThreadsApart /\ IdsOK /\ TravellingOK /\ ThreadOK(r)
      /\ OneAccountPerAddress /\ Backed /\ NoOrphanProfile
  BY DEF IInv, ThreadsOK
<1>1. /\ pc[r] = "provision" /\ travelling' = travelling \cup {ProfileOf(r)} /\ Goto(r, "wait")
      /\ UNCHANGED <<accounts, outbox, told, profiles, pending, queued, answer, todo, used, unsure>>
  BY DEF Send
<1>2. Registering(r) /\ Inserted(r)
  BY <1>1 DEF Registering, Inserted
<1>3. /\ pending[r] \in Row /\ pending[r].id \in used /\ pending[r].type = "company"
      /\ ProfileOf(r) \in Profile /\ ProfileOf(r).id = pending[r].id
  BY <1>0, <1>1, <1>2 DEF ThreadOK, PendingOK, ProfileOf, Profile, Row
<1>4. /\ pc' \in [Request -> Steps] /\ pc'[r] = "wait"
      /\ \A q \in Request \ {r} : pc'[q] = pc[q]
  BY <1>0, <1>1, GotoMoves DEF Steps
<1>5. TypeOK' /\ OthersStay(r)
  BY <1>0, <1>1, <1>3, <1>4 DEF TypeOK, OthersStay
<1>6. answer[r] = None /\ \A p \in profiles \cup travelling : p.id # pending[r].id
  BY <1>0, <1>1 DEF ThreadOK, ProfileTraced, NotSent
<1>7. KeyIsNew(r)' /\ \A q \in Request \ {r} : Apart(r, q)'
  BY <1>1, <1>2, <1>4, SameRowApart
<1>8. ThreadsOK'
  <2>1. ASSUME NEW q \in Request \ {r} PROVE ThreadOK(q)'
    <3>1. Registering(q) => ProfileOf(r).id # pending[q].id
      BY <1>0, <1>2, <1>3 DEF ThreadsApart, Apart
    <3> QED BY <1>0, <1>1, <1>5, <3>1, OtherKept DEF ThreadsOK, OthersStay
  <2>2. PendingOK(r)' /\ BackedSoFar(r)'
    BY <1>0, <1>1, <1>3, <1>4, <1>6, AnswerAssumption
       DEF ThreadOK, PendingOK, BackedSoFar, Provisioned
  <2>3. ProfileTraced(r)'
    BY <1>1, <1>4, <1>6, AnswerAssumption DEF ProfileTraced, NotSent, ProfileOf, Unknown
  <2> QED BY <1>7, <2>1, <2>2, <2>3 DEF ThreadsOK, ThreadOK
<1>9. ThreadsApart'
  BY <1>0, <1>5, <1>7, OthersApart
<1>10. IdsOK'
  BY <1>0, <1>1, <1>3 DEF IdsOK
<1>11. TravellingOK'
  <2>1. ASSUME NEW p \in travelling PROVE Traced(p)'
    BY <1>0, <1>1, <1>5 DEF TravellingOK, Traced, OthersStay, ProfileOf
  <2>2. ASSUME NEW p, p = ProfileOf(r) PROVE Traced(p)'
    BY <1>1, <1>4, <1>6, <2>2 DEF Traced, ProfileOf, Unknown
  <2>3. \A p \in travelling' : p \in travelling \/ p = ProfileOf(r)
    BY <1>1
  <2> QED BY <2>1, <2>2, <2>3 DEF TravellingOK
<1>12. OneAccountPerAddress' /\ Backed'
  BY <1>0, <1>1 DEF OneAccountPerAddress, Backed
<1>13. NoOrphanProfile'
  BY <1>0, <1>1, <1>5 DEF NoOrphanProfile, OthersStay, ProfileOf
<1> QED BY <1>5, <1>8, <1>9, <1>10, <1>11, <1>12, <1>13 DEF IInv

\* The other service answers the registration that asked, if it still waits; if
\* not, it gave up, and that is remembered.
LEMMA ProcessStep ==
  ASSUME IInv, NEW profile \in Profile, NEW status \in {200, 201, 409},
         Process(profile, status)
  PROVE  IInv'
<1>0. /\ TypeOK /\ ThreadsOK /\ ThreadsApart /\ IdsOK /\ TravellingOK
      /\ OneAccountPerAddress /\ Backed /\ NoOrphanProfile
  BY DEF IInv
<1> DEFINE Asked(q) == pc[q] = "wait" /\ answer[q] = None /\ ProfileOf(q) = profile
<1>1. /\ profile \in travelling /\ travelling' = travelling \ {profile}
      /\ profiles' = IF status = 409 THEN profiles ELSE profiles \cup {profile}
      /\ answer' = [q \in Request |-> IF Asked(q) THEN status ELSE answer[q]]
      /\ UNCHANGED <<accounts, outbox, told, pc, pending, queued, todo, used, unsure>>
  BY DEF Process
<1>2. /\ profiles \subseteq profiles' /\ \A p \in profiles' : p \in profiles \/ p = profile
      /\ profile \in Profile /\ profile.id \in used /\ profile.id \notin Legacy
      /\ Provisioned(status) => profile \in profiles'
      /\ status = 409 => profiles' = profiles
  BY <1>0, <1>1, IdAssumption DEF IdsOK, TypeOK, Provisioned
<1>3. \A q \in Request : IF Asked(q) THEN answer'[q] = status ELSE answer'[q] = answer[q]
  BY <1>1
<1>4. status \notin Unknown
  BY AnswerAssumption DEF Unknown
<1> HIDE DEF Asked
<1>5. TypeOK'
  <2>1. answer' \in [Request -> {200, 201, 409, 500, None}]
    BY <1>0, <1>1 DEF TypeOK
  <2> QED BY <1>0, <1>1, <1>2, <2>1 DEF TypeOK
<1>6. ASSUME NEW q \in Request PROVE ThreadOK(q)'
  <2>1. /\ Registering(q)' = Registering(q) /\ Inserted(q)' = Inserted(q)
        /\ NotSent(q)' = NotSent(q) /\ ProfileOf(q)' = ProfileOf(q)
        /\ ProfileOf(q).id = pending[q].id
    BY <1>1 DEF Registering, Inserted, NotSent, ProfileOf
  <2>2. ThreadOK(q)
    BY <1>0 DEF ThreadsOK
  <2>3. PendingOK(q)' /\ KeyIsNew(q)'
    <3>1. PendingOK(q) /\ KeyIsNew(q)
      BY <2>2 DEF ThreadOK
    <3>2. todo'[q] \subseteq {x \in profiles' : x.id \in Legacy}
      <4>1. todo'[q] = todo[q] /\ todo[q] \subseteq {x \in profiles : x.id \in Legacy}
        BY <1>1, <3>1 DEF PendingOK
      <4> QED BY <1>2, <4>1
    <3>3. pc[q] = "upsert" => ProfileOf(q)' \in profiles'
      BY <1>2, <2>1, <3>1 DEF PendingOK
    <3>4. pc' = pc /\ pending' = pending /\ used' = used
      BY <1>1
    <3>5. PendingOK(q)'
      BY <2>1, <3>1, <3>2, <3>3, <3>4 DEF PendingOK, ProfileOf
    <3> QED BY <1>1, <2>1, <3>1, <3>5 DEF KeyIsNew, SameKey
  <2>4. CASE Asked(q)
    <3>1. answer[q] = None /\ pc[q] = "wait" /\ profile = ProfileOf(q)
      BY <1>1, <2>1, <2>2, <2>4 DEF ThreadOK, ProfileTraced, Asked
    <3>2. answer'[q] = status
      BY <1>3, <2>4
    <3>3. BackedSoFar(q)'
      BY <1>1, <1>2, <2>1, <3>1, <3>2 DEF BackedSoFar, Provisioned
    <3>4. /\ \A p \in travelling' : p.id # pending[q].id
          /\ status = 409 => \A p \in profiles' : p.id # pending[q].id
      BY <1>1, <1>2, <2>2, <3>1 DEF ThreadOK, ProfileTraced
    <3>5. ProfileTraced(q)'
      BY <1>1, <1>4, <3>1, <3>2, <3>4 DEF ProfileTraced, NotSent, Unknown
    <3> QED BY <2>3, <3>3, <3>5 DEF ThreadOK
  <2>5. CASE ~Asked(q)
    <3>1. answer'[q] = answer[q]
      BY <1>3, <2>5
    <3>2. BackedSoFar(q)'
      <4>1. BackedSoFar(q)
        BY <2>2 DEF ThreadOK
      <4>2. pc[q] = "wait" /\ Provisioned(answer[q])' => ProfileOf(q)' \in profiles'
        BY <1>2, <2>1, <3>1, <4>1 DEF BackedSoFar, Provisioned
      <4>3. pc[q] = "commit" /\ pending[q].type = "company" => ProfileOf(q)' \in profiles'
        BY <1>2, <2>1, <4>1 DEF BackedSoFar
      <4>4. pc' = pc /\ pending' = pending /\ queued' = queued /\ told' = told
        BY <1>1
      <4>5. pc[q] = "post profile" => <<"user", pending[q].id>> \in told \cup queued[q]
        BY <4>1 DEF BackedSoFar
      <4>6. pc[q] = "commit" /\ pending[q].type = "researcher" =>
              \A what \in Posts : <<what, pending[q].id>> \in told \cup queued[q]
        BY <4>1 DEF BackedSoFar
      <4> QED BY <4>2, <4>3, <4>4, <4>5, <4>6 DEF BackedSoFar
    <3>3. NotSent(q) \/ (pc[q] = "wait" /\ answer[q] # 500) => profile.id # pending[q].id
      BY <1>1, <2>2, <2>5 DEF ThreadOK, ProfileTraced, Asked, Unknown
    <3>4. ProfileTraced(q)'
      BY <1>1, <1>2, <2>1, <2>2, <3>1, <3>3, AnswerAssumption
         DEF ThreadOK, ProfileTraced, Unknown
    <3> QED BY <2>3, <3>2, <3>4 DEF ThreadOK
  <2> QED BY <2>4, <2>5
<1>7. ThreadsApart'
  <2>1. ASSUME NEW r \in Request, NEW q \in Request, r # q PROVE Apart(r, q)'
    <3>1. /\ Registering(r)' = Registering(r) /\ Inserted(r)' = Inserted(r)
          /\ Registering(q)' = Registering(q) /\ Inserted(q)' = Inserted(q)
      BY <1>1 DEF Registering, Inserted
    <3> QED BY <1>0, <1>1, <2>1, <3>1 DEF ThreadsApart, Apart, SameKey
  <2> QED BY <2>1 DEF ThreadsApart
<1>8. IdsOK'
  BY <1>0, <1>1, <1>2 DEF IdsOK
<1>9. TravellingOK'
  <2>1. ASSUME NEW p \in travelling' PROVE Traced(p)'
    <3>1. p \in travelling /\ p # profile
      BY <1>1
    <3>2. ASSUME NEW q \in Request, ProfileOf(q) = p PROVE answer'[q] = answer[q]
      BY <1>3, <3>1, <3>2 DEF Asked
    <3> QED BY <1>0, <1>1, <3>1, <3>2 DEF TravellingOK, Traced, ProfileOf
  <2> QED BY <2>1 DEF TravellingOK
<1>10. OneAccountPerAddress' /\ Backed'
  BY <1>0, <1>1, <1>2 DEF OneAccountPerAddress, Backed
<1>11. NoOrphanProfile'
  <2>1. ASSUME NEW q \in Request PROVE ProfileOf(q)' = ProfileOf(q)
    BY <1>1 DEF ProfileOf
  <2>2. \/ profile.id \in unsure
        \/ \E q \in Request : pc[q] \in {"wait", "commit"} /\ ProfileOf(q) = profile
    BY <1>0, <1>1 DEF TravellingOK, Traced
  <2> QED BY <1>0, <1>1, <1>2, <2>1, <2>2 DEF NoOrphanProfile
<1> QED BY <1>5, <1>6, <1>7, <1>8, <1>9, <1>10, <1>11 DEF IInv, ThreadsOK

\* An error: nothing that was known is lost, as nothing was known.
LEMMA AnswerErrorStep ==
  ASSUME IInv, NEW r \in Request, AnswerError(r)
  PROVE  IInv'
<1>0. /\ TypeOK /\ ThreadsOK /\ ThreadsApart /\ IdsOK /\ TravellingOK /\ ThreadOK(r)
      /\ OneAccountPerAddress /\ Backed /\ NoOrphanProfile
  BY DEF IInv, ThreadsOK
<1>1. /\ pc[r] = "wait" /\ answer[r] = None /\ answer' = [answer EXCEPT ![r] = 500]
      /\ UNCHANGED <<accounts, outbox, told, profiles, travelling, pc, pending, queued,
                     todo, used, unsure>>
  BY DEF AnswerError
<1>2. /\ answer' \in [Request -> {200, 201, 409, 500, None}] /\ answer'[r] = 500
      /\ \A q \in Request \ {r} : answer'[q] = answer[q]
  BY <1>0, <1>1 DEF TypeOK
<1>3. TypeOK' /\ OthersStay(r)
  BY <1>0, <1>1, <1>2 DEF TypeOK, OthersStay
<1>4. ThreadsOK'
  <2>1. ASSUME NEW q \in Request \ {r} PROVE ThreadOK(q)'
    BY <1>0, <1>1, <1>3, OtherKept DEF ThreadsOK, OthersStay
  <2>2. PendingOK(r)' /\ KeyIsNew(r)'
    BY <1>0, <1>1 DEF ThreadOK, PendingOK, KeyIsNew, Registering, Inserted, ProfileOf, SameKey
  <2>3. BackedSoFar(r)' /\ ProfileTraced(r)'
    <3>1. pc'[r] = "wait" /\ ~Provisioned(answer[r])' /\ answer'[r] \in Unknown'
      BY <1>1, <1>2 DEF Provisioned, Unknown
    <3>2. BackedSoFar(r)'
      BY <3>1 DEF BackedSoFar
    <3>3. ProfileTraced(r)'
      BY <1>2, <3>1, AnswerAssumption DEF ProfileTraced, NotSent
    <3> QED BY <3>2, <3>3
  <2> QED BY <2>1, <2>2, <2>3 DEF ThreadsOK, ThreadOK
<1>5. ThreadsApart'
  BY <1>0, <1>1 DEF ThreadsApart, Apart, Registering, Inserted, SameKey
<1>6. TravellingOK'
  BY <1>0, <1>1, <1>2 DEF TravellingOK, Traced, ProfileOf, Unknown
<1>7. IdsOK' /\ OneAccountPerAddress' /\ Backed' /\ NoOrphanProfile'
  BY <1>0, <1>1 DEF IdsOK, OneAccountPerAddress, Backed, NoOrphanProfile, SameKey, ProfileOf
<1> QED BY <1>3, <1>4, <1>5, <1>6, <1>7 DEF IInv

-----------------------------------------------------------------------------

LEMMA InitIInv == Init => IInv
<1> SUFFICES ASSUME Init PROVE IInv
  OBVIOUS
<1>1. PICK f \in [Legacy -> Address] : profiles = {[id |-> x, address |-> f[x]] : x \in Legacy}
  BY DEF Init
<1>2. /\ accounts = {} /\ outbox = {} /\ told = {} /\ travelling = {}
      /\ pc = [r \in Request |-> "idle"] /\ pending = [r \in Request |-> None]
      /\ queued = [r \in Request |-> {}] /\ answer = [r \in Request |-> None]
      /\ todo = [r \in Request |-> {}] /\ used = {} /\ unsure = {}
  BY DEF Init
<1>3. \A p \in profiles : p \in Profile /\ p.id \in Legacy /\ p.address = f[p.id]
  BY <1>1 DEF Profile
<1>4. TypeOK
  BY <1>2, <1>3 DEF TypeOK, Steps
<1>5. ThreadsOK /\ ThreadsApart
  BY <1>2 DEF ThreadsOK, ThreadOK, PendingOK, KeyIsNew, BackedSoFar, ProfileTraced,
     ThreadsApart, Apart, Registering, Inserted, NotSent
<1>6. IdsOK
  <2>1. \A p, q \in profiles : p.id = q.id => p = q
    BY <1>1
  <2> QED BY <1>2, <1>3, <2>1 DEF IdsOK
<1>7. TravellingOK /\ OneAccountPerAddress /\ Backed
  BY <1>2 DEF TravellingOK, OneAccountPerAddress, Backed
<1>8. NoOrphanProfile
  BY <1>3, IdAssumption DEF NoOrphanProfile
<1> QED BY <1>4, <1>5, <1>6, <1>7, <1>8 DEF IInv

LEMMA NextIInv == IInv /\ [Next]_vars => IInv'
<1> SUFFICES ASSUME IInv, [Next]_vars PROVE IInv'
  OBVIOUS
<1>1. ASSUME NEW r \in Request, NEW address \in Address, NEW type \in {"researcher", "company"},
             Validate(r, [id |-> NewId, address |-> address, type |-> type])
      PROVE  IInv'
  <2> DEFINE row == [id |-> NewId, address |-> address, type |-> type]
  <2>1. NewId \in Id \ used
    BY <1>1, NewIdIsNew DEF Validate
  <2>2. row \in Row /\ row.id \in Id \ used
    BY <2>1 DEF Row
  <2> QED BY <1>1, <2>2, ValidateStep
<1>2. ASSUME NEW r \in Request, Step(r) PROVE IInv'
  <2>1. CASE Insert(r)
    BY <2>1, InsertStep
  <2>2. CASE PostUser(r)
    BY <2>2, PostStep DEF PostUser, Posts, Steps
  <2>3. CASE PostProfile(r)
    BY <2>3, PostStep DEF PostProfile, Posts, Steps
  <2>4. CASE Commit(r)
    BY <2>4, CommitStep
  <2>5. CASE Send(r)
    BY <2>5, SendStep
  <2>6. CASE Answered(r)
    BY <2>6, AnsweredStep
  <2>7. CASE Timeout(r)
    BY <2>7, EndStep DEF Timeout, GivesUp
  <2>8. ASSUME NEW company \in Profile, LookUp(r, company) PROVE IInv'
    BY <2>8, LookUpStep
  <2>9. CASE Upsert(r)
    BY <2>9, UpsertStep
  <2>10. CASE EndSync(r)
    BY <2>10, EndStep DEF EndSync
  <2> QED BY <1>2, <2>1, <2>2, <2>3, <2>4, <2>5, <2>6, <2>7, <2>8, <2>9, <2>10 DEF Step
<1>3. ASSUME NEW r \in Request, Fetch(r) PROVE IInv'
  BY <1>3, FetchStep
<1>4. ASSUME NEW r \in Request, Crash(r) PROVE IInv'
  BY <1>4, EndStep DEF Crash
<1>5. ASSUME NEW profile \in Profile, NEW status \in {200, 201, 409},
             Process(profile, status)
      PROVE  IInv'
  BY <1>5, ProcessStep
<1>6. CASE UNCHANGED vars
  <2>1. ASSUME NEW r \in Request PROVE ThreadOK(r)'
    BY <1>6, OtherKept DEF vars, IInv, ThreadsOK
  <2>2. TypeOK' /\ ThreadsApart'
    BY <1>6 DEF vars, IInv, TypeOK, ThreadsApart, Apart, Registering, Inserted, SameKey
  <2>3. IdsOK' /\ OneAccountPerAddress' /\ Backed'
    BY <1>6 DEF vars, IInv, IdsOK, OneAccountPerAddress, Backed, SameKey
  <2>4. TravellingOK' /\ NoOrphanProfile'
    BY <1>6 DEF vars, IInv, TravellingOK, Traced, NoOrphanProfile, ProfileOf
  <2> QED BY <2>1, <2>2, <2>3, <2>4 DEF IInv, ThreadsOK
<1>7. ASSUME NEW r \in Request, NEW address \in Address,
             RegisterResearcher(r, address) \/ RegisterCompany(r, address)
      PROVE  IInv'
  BY <1>1, <1>7 DEF RegisterResearcher, RegisterCompany
<1>8. ASSUME NEW r \in Request, AnswerError(r) PROVE IInv'
  BY <1>8, AnswerErrorStep
<1> QED BY <1>2, <1>3, <1>4, <1>5, <1>6, <1>7, <1>8 DEF Next

\* Threads keep apart and may count on what they did so far; every identifier and
\* every profile is accounted for.
THEOREM Invariance == Spec => []IInv
<1>1. Init => IInv
  BY InitIInv
<1>2. IInv /\ [Next]_vars => IInv'
  BY NextIInv
<1> QED BY <1>1, <1>2, PTL DEF Spec

\* Accounts, messages and threads keep their shape.
THEOREM TypeCorrect == Spec => []TypeOK
<1>1. IInv => TypeOK
  BY DEF IInv
<1> QED BY <1>1, Invariance, PTL

\* However many registrations and imports overlap, none of which sees what the
\* others have not committed: an address has one account of each type, and an
\* identifier has one account.
THEOREM AccountsUnique == Spec => []OneAccountPerAddress
<1>1. IInv => OneAccountPerAddress
  BY DEF IInv
<1> QED BY <1>1, Invariance, PTL

\* No account without its counterpart: the other service has the profile of a
\* company, the legacy system was told of a researcher or the outbox has it.
THEOREM AccountsBacked == Spec => []Backed
<1>1. IInv => Backed
  BY DEF IInv
<1> QED BY <1>1, Invariance, PTL

\* No counterpart without its account, but for a registration under way and one
\* that gave up, died or was answered an error over the post: any status but 200,
\* 201 and 409 is taken to leave the profile made or not.
THEOREM ProfilesOwned == Spec => []NoOrphanProfile
<1>1. IInv => NoOrphanProfile
  BY DEF IInv
<1> QED BY <1>1, Invariance, PTL
=============================================================================
