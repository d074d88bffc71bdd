-------------------------- MODULE LegacySync_proofs --------------------------
(***************************************************************************)
(* Proofs about LegacySync, for any number of edits, of retry commands and *)
(* of contents, and any --limit.                                           *)
(***************************************************************************)
EXTENDS LegacySync, TLAPS

\* A move of a thread keeps the types of the program counters.
LEMMA GotoType ==
  ASSUME TypeOK, NEW x \in Thread, NEW step \in Steps,
         NEW v \in Version \cup {NoItem}, NEW a \in Answers \cup {NoAnswer},
         Goto(x, step, v, a)
  PROVE  /\ pc' \in [Thread -> Steps]
         /\ item' \in [Thread -> Version \cup {NoItem}]
         /\ answer' \in [Thread -> Answers \cup {NoAnswer}]
         /\ pc'[x] = step /\ item'[x] = v /\ answer'[x] = a
         /\ \A y \in Thread \ {x} : /\ pc'[y] = pc[y]
                                    /\ item'[y] = item[y]
                                    /\ answer'[y] = answer[y]
BY DEF TypeOK, Goto

\* A post leaves a content in the legacy system and remembers acceptance.
LEMMA SendType ==
  ASSUME TypeOK, NEW v \in Version, NEW a \in Answers, Send(v, a)
  PROVE  /\ legacy' \in 0..MaxVersion
         /\ network' \subseteq Version
         /\ accepted' \subseteq Version /\ accepted \subseteq accepted'
         /\ Succeeded(a) => v \in accepted'
         /\ a = "ok" => legacy' = v /\ network' = network
<1>1. v \in 0..MaxVersion
  BY NumberAssumption DEF Version
<1>2. legacy \in 0..MaxVersion /\ network \subseteq Version /\ accepted \subseteq Version
  BY DEF TypeOK
<1> QED BY <1>1, <1>2 DEF Send, Answers

LEMMA InitIInv == Init => IInv
<1> SUFFICES ASSUME Init PROVE IInv
  OBVIOUS
<1>1. TypeOK
  <2>1. 0 \in 0..MaxVersion
    BY NumberAssumption
  <2>2. outbox \in [Version -> Statuses]
    BY DEF Init, Statuses
  <2>3. pc \in [Thread -> Steps]
    BY DEF Init, Steps
  <2>4. /\ item \in [Thread -> Version \cup {NoItem}]
        /\ answer \in [Thread -> Answers \cup {NoAnswer}]
        /\ todo \in [Thread -> SUBSET Version]
    BY DEF Init
  <2> QED BY <2>1, <2>2, <2>3, <2>4 DEF Init, TypeOK
<1>2. \A x \in Thread : pc[x] = "idle"
  BY DEF Init
<1>3. ThreadsOK /\ RetriedByOne
  BY <1>2 DEF ThreadsOK, RetriedByOne, Thread
<1>4. NothingLost /\ LegacyInStep
  BY DEF Init, NothingLost, LegacyInStep
<1>5. InStep
  BY <1>2 DEF Init, InStep, Thread
<1> QED BY <1>1, <1>3, <1>4, <1>5 DEF IInv

-----------------------------------------------------------------------------
(* The steps of a profile edit.                                            *)

LEMMA SaveUserStep ==
  ASSUME IInv, NEW w \in Writer, SaveUser(w) PROVE IInv'
<1>0. TypeOK /\ NothingLost /\ RetriedByOne /\ LegacyInStep /\ ThreadsOK /\ InStep
  BY DEF IInv
<1>1. latest + 1 \in Version /\ latest' \in 0..MaxVersion
  BY <1>0, NumberAssumption DEF SaveUser, TypeOK, Version
<1>2. w \in Thread /\ \A x \in Writer : pc[x] = "idle"
  BY DEF SaveUser, RowFree, Thread
<1>3. /\ pc' \in [Thread -> Steps]
      /\ item' \in [Thread -> Version \cup {NoItem}]
      /\ answer' \in [Thread -> Answers \cup {NoAnswer}]
      /\ pc'[w] = "post" /\ item'[w] = latest + 1
      /\ \A y \in Thread \ {w} : /\ pc'[y] = pc[y] /\ item'[y] = item[y]
                                 /\ answer'[y] = answer[y]
  BY <1>0, <1>1, <1>2, GotoType DEF SaveUser, Steps
<1>4. UNCHANGED <<row, legacy, outbox, due, network, todo, committed, accepted, disturbed>>
  BY DEF SaveUser
<1>5. TypeOK'
  BY <1>0, <1>1, <1>3, <1>4 DEF TypeOK
<1>6. w \notin Command
  BY ThreadAssumption
<1>7. NothingLost' /\ RetriedByOne'
  BY <1>0, <1>3, <1>4, <1>6 DEF NothingLost, RetriedByOne, Open, Thread
<1>8. ThreadsOK'
  BY <1>0, <1>1, <1>2, <1>3, <1>4, <1>6 DEF ThreadsOK, Open, Thread
<1>9. LegacyInStep' /\ InStep'
  BY <1>0, <1>2, <1>3, <1>4 DEF LegacyInStep, InStep, Thread
<1> QED BY <1>5, <1>7, <1>8, <1>9 DEF IInv

LEMMA PostUserStep ==
  ASSUME IInv, NEW w \in Writer, NEW a \in Answers, PostUser(w, a) PROVE IInv'
<1>0. TypeOK /\ NothingLost /\ RetriedByOne /\ LegacyInStep /\ ThreadsOK /\ InStep
  BY DEF IInv
<1>1. pc[w] = "post" /\ w \in Thread /\ w \notin Command
  BY ThreadAssumption DEF PostUser, Thread
<1>2. item[w] \in Version
  BY <1>0, <1>1 DEF ThreadsOK
<1>3. /\ pc' \in [Thread -> Steps]
      /\ item' \in [Thread -> Version \cup {NoItem}]
      /\ answer' \in [Thread -> Answers \cup {NoAnswer}]
      /\ pc'[w] = "commit" /\ item'[w] = item[w] /\ answer'[w] = a
      /\ \A y \in Thread \ {w} : /\ pc'[y] = pc[y] /\ item'[y] = item[y]
                                 /\ answer'[y] = answer[y]
  BY <1>0, <1>1, <1>2, GotoType DEF PostUser, Steps
<1>4. /\ legacy' \in 0..MaxVersion
      /\ network' \subseteq Version
      /\ accepted' \subseteq Version /\ accepted \subseteq accepted'
      /\ Succeeded(a) => item[w] \in accepted'
      /\ a = "ok" => legacy' = item[w] /\ network' = network
  BY <1>0, <1>2, SendType DEF PostUser, Payload
<1>5. UNCHANGED <<row, outbox, due, latest, todo, committed>>
      /\ disturbed' = (disturbed \/ a # "ok")
  BY DEF PostUser
<1>6. TypeOK'
  BY <1>0, <1>3, <1>4, <1>5 DEF TypeOK
<1>7. NothingLost' /\ RetriedByOne'
  BY <1>0, <1>1, <1>3, <1>4, <1>5 DEF NothingLost, RetriedByOne, Open, Thread
<1>8. ThreadsOK'
  BY <1>0, <1>1, <1>2, <1>3, <1>4, <1>5 DEF ThreadsOK, Open, Thread
<1>9. LegacyInStep'
  BY <1>3 DEF LegacyInStep
<1>10. InStep'
  BY <1>0, <1>1, <1>3, <1>4, <1>5 DEF InStep, ThreadsOK, Thread
<1> QED BY <1>6, <1>7, <1>8, <1>9, <1>10 DEF IInv

LEMMA CommitUserStep ==
  ASSUME IInv, NEW w \in Writer, CommitUser(w) PROVE IInv'
<1>0. TypeOK /\ NothingLost /\ RetriedByOne /\ LegacyInStep /\ ThreadsOK /\ InStep
  BY DEF IInv
<1>1. pc[w] = "commit" /\ w \in Thread /\ w \notin Command
  BY ThreadAssumption DEF CommitUser, Thread
<1>2. /\ item[w] \in Version /\ item[w] \in 0..MaxVersion
      /\ answer[w] \in Answers
      /\ Succeeded(answer[w]) => item[w] \in accepted
      /\ \A x \in Writer \ {w} : pc[x] = "idle"
  BY <1>0, <1>1, NumberAssumption DEF ThreadsOK, Version
<1>3. /\ pc' \in [Thread -> Steps]
      /\ item' \in [Thread -> Version \cup {NoItem}]
      /\ answer' \in [Thread -> Answers \cup {NoAnswer}]
      /\ pc'[w] = "idle"
      /\ \A y \in Thread \ {w} : /\ pc'[y] = pc[y] /\ item'[y] = item[y]
                                 /\ answer'[y] = answer[y]
  BY <1>0, <1>1, GotoType DEF CommitUser, Steps
<1>4. /\ UNCHANGED <<legacy, network, latest, todo, accepted, disturbed>>
      /\ row' = item[w] /\ committed' = committed \cup {item[w]}
      /\ due' \subseteq Version
      /\ outbox' \in [Version -> Statuses]
      /\ \A v \in Version : outbox'[v] = outbox[v] \/ outbox'[v] = "pending"
      /\ Queued(answer[w]) => outbox'[item[w]] = "pending"
      /\ ~Queued(answer[w]) => outbox' = outbox
  BY <1>0, <1>2 DEF CommitUser, TypeOK, Statuses
<1>5. TypeOK'
  BY <1>0, <1>2, <1>3, <1>4 DEF TypeOK
<1>6. \A v \in Version : Open(v) => Open(v)'
  BY <1>4 DEF Open
<1>7. NothingLost'
  <2>1. item[w] \in accepted \/ outbox'[item[w]] = "pending"
    BY <1>2, <1>4 DEF Queued
  <2>2. committed \subseteq Version
    BY <1>0 DEF TypeOK
  <2> QED BY <1>0, <1>4, <1>6, <2>1, <2>2 DEF NothingLost, Open
<1>8. ThreadsOK'
  <2>1. \A c \in Command : pc'[c] = pc[c] /\ item'[c] = item[c]
    BY <1>1, <1>3 DEF Thread
  <2>2. ASSUME NEW c \in Command, pc'[c] \in {"post", "commit"}
        PROVE  Open(item[c])'
    <3>1. item[c] \in Version /\ Open(item[c])
      BY <1>0, <2>1, <2>2 DEF ThreadsOK, Thread
    <3>2. outbox'[item[c]] \in {"pending", "failed"}
      BY <1>4, <3>1 DEF Open
    <3> QED BY <2>1, <3>2 DEF Open
  <2>3. \A x \in Writer : pc'[x] = "idle"
    BY <1>2, <1>3 DEF Thread
  <2> QED BY <1>0, <1>1, <1>3, <1>4, <2>1, <2>2, <2>3 DEF ThreadsOK, Thread
<1>9. RetriedByOne'
  <2>1. \A c \in Command : pc'[c] = pc[c] /\ item'[c] = item[c]
    BY <1>1, <1>3 DEF Thread
  <2>2. \A c \in Command : pc'[c] \in {"post", "commit"} => outbox'[item'[c]] # "completed"
    BY <1>8 DEF ThreadsOK, Open
  <2> QED BY <1>0, <2>1, <2>2 DEF RetriedByOne
<1>10. ~disturbed' => legacy' = row' /\ ~Queued(answer[w])
  BY <1>0, <1>1, <1>4 DEF InStep, Queued, Succeeded
<1>11. \A x \in Writer : pc'[x] = "idle"
  BY <1>2, <1>3 DEF Thread
<1>12. LegacyInStep' /\ InStep'
  BY <1>0, <1>4, <1>10, <1>11 DEF LegacyInStep, InStep
<1> QED BY <1>5, <1>7, <1>8, <1>9, <1>12 DEF IInv
-----------------------------------------------------------------------------
(* The steps of a retry command.                                           *)

LEMMA StartCommandStep ==
  ASSUME IInv, NEW c \in Command, StartCommand(c) PROVE IInv'
<1>0. TypeOK /\ NothingLost /\ RetriedByOne /\ LegacyInStep /\ ThreadsOK /\ InStep
  BY DEF IInv
<1>1. c \in Thread /\ c \notin Writer
  BY ThreadAssumption DEF Thread
<1>2. /\ pc' \in [Thread -> Steps]
      /\ item' \in [Thread -> Version \cup {NoItem}]
      /\ answer' \in [Thread -> Answers \cup {NoAnswer}]
      /\ pc'[c] = "next"
      /\ \A y \in Thread \ {c} : /\ pc'[y] = pc[y] /\ item'[y] = item[y]
                                 /\ answer'[y] = answer[y]
  BY <1>0, <1>1, GotoType DEF StartCommand, Steps
<1>3. UNCHANGED <<row, legacy, outbox, due, network, latest, committed, accepted, disturbed>>
  BY DEF StartCommand
<1>4. todo' \in [Thread -> SUBSET Version]
  BY <1>0 DEF StartCommand, Candidates, TypeOK
<1>5. TypeOK'
  BY <1>0, <1>2, <1>3, <1>4 DEF TypeOK
<1> QED BY <1>0, <1>1, <1>2, <1>3, <1>5
        DEF IInv, NothingLost, RetriedByOne, LegacyInStep, ThreadsOK, InStep, Open, Thread

LEMMA TakeItemStep ==
  ASSUME IInv, NEW c \in Command, NEW v \in Version, TakeItem(c, v) PROVE IInv'
<1>0. TypeOK /\ NothingLost /\ RetriedByOne /\ LegacyInStep /\ ThreadsOK /\ InStep
  BY DEF IInv
<1>1. c \in Thread /\ c \notin Writer /\ pc[c] = "next"
  BY ThreadAssumption DEF Thread, TakeItem
<1>2. UNCHANGED <<row, legacy, due, network, latest, committed, accepted, disturbed>>
  BY DEF TakeItem
<1>3. todo' \in [Thread -> SUBSET Version]
  BY <1>0 DEF TakeItem, TypeOK
<1>4. CASE ~Retryable(v)
  <2>1. UNCHANGED <<outbox, pc, item, answer>>
    BY <1>4 DEF TakeItem
  <2>2. TypeOK'
    BY <1>0, <1>2, <1>3, <2>1 DEF TypeOK
  <2> QED BY <1>0, <1>2, <2>1, <2>2
          DEF IInv, NothingLost, RetriedByOne, LegacyInStep, ThreadsOK, InStep, Open
<1>5. CASE Retryable(v)
  <2>1. Goto(c, "post", v, NoAnswer) /\ outbox' = outbox
    BY <1>0, <1>5 DEF TakeItem, SeenDuringRetry, TypeOK
  <2>2. /\ pc' \in [Thread -> Steps]
        /\ item' \in [Thread -> Version \cup {NoItem}]
        /\ answer' \in [Thread -> Answers \cup {NoAnswer}]
        /\ pc'[c] = "post" /\ item'[c] = v
        /\ \A y \in Thread \ {c} : /\ pc'[y] = pc[y] /\ item'[y] = item[y]
                                   /\ answer'[y] = answer[y]
    BY <1>0, <1>1, <2>1, GotoType DEF Steps
  <2>3. TypeOK'
    BY <1>0, <1>2, <1>3, <2>1, <2>2 DEF TypeOK
  <2>4. Open(v) /\ \A d \in Command \ {c} : pc[d] \in {"post", "commit"} => item[d] # v
    BY <1>5 DEF TakeItem, Retryable, ItemFree
  <2>5. RetriedByOne'
    BY <1>0, <2>1, <2>2, <2>4 DEF RetriedByOne, Open, Thread
  <2>6. ThreadsOK'
    BY <1>0, <1>1, <1>2, <2>1, <2>2, <2>4 DEF ThreadsOK, Open, Thread
  <2>7. NothingLost' /\ LegacyInStep' /\ InStep'
    BY <1>0, <1>1, <1>2, <2>1, <2>2 DEF NothingLost, LegacyInStep, InStep, Open, Thread
  <2> QED BY <2>3, <2>5, <2>6, <2>7 DEF IInv
<1> QED BY <1>4, <1>5

\* A record is posted again only when a post of it failed before, so that
\* InStep asks nothing of a command's post.
LEMMA PostItemStep ==
  ASSUME IInv, NEW c \in Command, NEW a \in Answers, PostItem(c, a) PROVE IInv'
<1>0. TypeOK /\ NothingLost /\ RetriedByOne /\ LegacyInStep /\ ThreadsOK /\ InStep
  BY DEF IInv
<1>1. c \in Thread /\ c \notin Writer /\ pc[c] = "post"
  BY ThreadAssumption DEF Thread, PostItem
<1>2. item[c] \in Version /\ Open(item[c])
  BY <1>0, <1>1 DEF ThreadsOK
<1>3. /\ pc' \in [Thread -> Steps]
      /\ item' \in [Thread -> Version \cup {NoItem}]
      /\ answer' \in [Thread -> Answers \cup {NoAnswer}]
      /\ pc'[c] = "commit" /\ item'[c] = item[c] /\ answer'[c] = a
      /\ \A y \in Thread \ {c} : /\ pc'[y] = pc[y] /\ item'[y] = item[y]
                                 /\ answer'[y] = answer[y]
  BY <1>0, <1>1, <1>2, GotoType DEF PostItem, Steps
<1>4. /\ legacy' \in 0..MaxVersion
      /\ network' \subseteq Version
      /\ accepted' \subseteq Version /\ accepted \subseteq accepted'
      /\ Succeeded(a) => item[c] \in accepted'
  BY <1>0, <1>2, SendType DEF PostItem
<1>5. UNCHANGED <<row, outbox, due, latest, todo, committed, disturbed>>
  BY DEF PostItem
<1>6. TypeOK'
  BY <1>0, <1>3, <1>4, <1>5 DEF TypeOK
<1>7. disturbed'
  BY <1>0, <1>2, <1>5 DEF InStep, Open
<1>8. NothingLost' /\ RetriedByOne'
  BY <1>0, <1>1, <1>3, <1>4, <1>5 DEF NothingLost, RetriedByOne, Open, Thread
<1>9. ThreadsOK'
  BY <1>0, <1>1, <1>2, <1>3, <1>4, <1>5 DEF ThreadsOK, Open, Thread
<1> QED BY <1>6, <1>7, <1>8, <1>9 DEF IInv, LegacyInStep, InStep

LEMMA CommitItemStep ==
  ASSUME IInv, NEW c \in Command, CommitItem(c) PROVE IInv'
<1>0. TypeOK /\ NothingLost /\ RetriedByOne /\ LegacyInStep /\ ThreadsOK /\ InStep
  BY DEF IInv
<1>1. c \in Thread /\ c \notin Writer /\ pc[c] = "commit"
  BY ThreadAssumption DEF Thread, CommitItem
<1>2. /\ item[c] \in Version /\ Open(item[c])
      /\ Succeeded(answer[c]) => item[c] \in accepted
  BY <1>0, <1>1 DEF ThreadsOK
<1>3. /\ pc' \in [Thread -> Steps]
      /\ item' \in [Thread -> Version \cup {NoItem}]
      /\ answer' \in [Thread -> Answers \cup {NoAnswer}]
      /\ pc'[c] = "next"
      /\ \A y \in Thread \ {c} : /\ pc'[y] = pc[y] /\ item'[y] = item[y]
                                 /\ answer'[y] = answer[y]
  BY <1>0, <1>1, GotoType DEF CommitItem, Steps
<1>4. /\ UNCHANGED <<row, legacy, network, latest, todo, committed, accepted, disturbed>>
      /\ due' \subseteq Version
      /\ outbox' \in [Version -> Statuses]
      /\ \A v \in Version \ {item[c]} : outbox'[v] = outbox[v]
      /\ Succeeded(answer[c]) \/ outbox'[item[c]] = "failed"
  BY <1>0, <1>2 DEF CommitItem, TypeOK, Statuses
<1>5. TypeOK'
  BY <1>0, <1>3, <1>4 DEF TypeOK
<1>6. disturbed'
  BY <1>0, <1>2, <1>4 DEF InStep, Open
<1>7. NothingLost'
  BY <1>0, <1>2, <1>4 DEF NothingLost, Open, TypeOK
<1>8. \A d \in Command : pc'[d] \in {"post", "commit"} =>
        /\ d # c /\ pc'[d] = pc[d] /\ item'[d] = item[d]
        /\ item[d] \in Version /\ outbox'[item[d]] = outbox[item[d]]
  BY <1>0, <1>1, <1>3, <1>4 DEF RetriedByOne, ThreadsOK, Thread
<1>9. RetriedByOne'
  BY <1>0, <1>8 DEF RetriedByOne
<1>10. ThreadsOK'
  BY <1>0, <1>1, <1>3, <1>4, <1>8 DEF ThreadsOK, Open, Thread
<1> QED BY <1>5, <1>6, <1>7, <1>9, <1>10 DEF IInv, LegacyInStep, InStep

LEMMA EndCommandStep ==
  ASSUME IInv, NEW c \in Command, EndCommand(c) PROVE IInv'
<1>0. TypeOK /\ NothingLost /\ RetriedByOne /\ LegacyInStep /\ ThreadsOK /\ InStep
  BY DEF IInv
<1>1. c \in Thread /\ c \notin Writer
  BY ThreadAssumption DEF Thread
<1>2. /\ pc' \in [Thread -> Steps]
      /\ item' \in [Thread -> Version \cup {NoItem}]
      /\ answer' \in [Thread -> Answers \cup {NoAnswer}]
      /\ pc'[c] = "idle"
      /\ \A y \in Thread \ {c} : /\ pc'[y] = pc[y] /\ item'[y] = item[y]
                                 /\ answer'[y] = answer[y]
  BY <1>0, <1>1, GotoType DEF EndCommand, Steps
<1>3. UNCHANGED <<row, legacy, outbox, due, network, latest, todo, committed, accepted, disturbed>>
  BY DEF EndCommand
<1>4. TypeOK'
  BY <1>0, <1>2, <1>3 DEF TypeOK
<1> QED BY <1>0, <1>1, <1>2, <1>3, <1>4
        DEF IInv, NothingLost, RetriedByOne, LegacyInStep, ThreadsOK, InStep, Open, Thread

-----------------------------------------------------------------------------
(* The steps of the environment.                                           *)

LEMMA ArriveStep ==
  ASSUME IInv, NEW v \in Version, Arrive(v) PROVE IInv'
<1>0. TypeOK /\ NothingLost /\ RetriedByOne /\ LegacyInStep /\ ThreadsOK /\ InStep
  BY DEF IInv
<1>1. UNCHANGED <<row, outbox, due, latest, pc, item, answer, todo, committed, accepted, disturbed>>
  BY DEF Arrive
<1>2. TypeOK'
  BY <1>0, <1>1, NumberAssumption DEF Arrive, TypeOK, Version
<1>3. disturbed'
  BY <1>0, <1>1 DEF Arrive, InStep
<1> QED BY <1>0, <1>1, <1>2, <1>3
        DEF IInv, NothingLost, RetriedByOne, LegacyInStep, ThreadsOK, InStep, Open

LEMMA ElapseStep ==
  ASSUME IInv, NEW v \in Version, Elapse(v) PROVE IInv'
<1>1. UNCHANGED <<row, legacy, outbox, network, latest, pc, item, answer, todo,
                  committed, accepted, disturbed>> /\ due' = due \cup {v}
  BY DEF Elapse
<1> QED BY <1>1 DEF IInv, TypeOK, NothingLost, RetriedByOne, LegacyInStep, ThreadsOK, InStep, Open

LEMMA CrashStep ==
  ASSUME IInv, NEW x \in Thread, Crash(x) PROVE IInv'
<1>0. TypeOK /\ NothingLost /\ RetriedByOne /\ LegacyInStep /\ ThreadsOK /\ InStep
  BY DEF IInv
<1>1. /\ pc' \in [Thread -> Steps]
      /\ item' \in [Thread -> Version \cup {NoItem}]
      /\ answer' \in [Thread -> Answers \cup {NoAnswer}]
      /\ pc'[x] = "idle"
      /\ \A y \in Thread \ {x} : /\ pc'[y] = pc[y] /\ item'[y] = item[y]
                                 /\ answer'[y] = answer[y]
  BY <1>0, GotoType DEF Crash, Steps
<1>2. /\ UNCHANGED <<row, legacy, outbox, due, network, latest, committed, accepted>>
      /\ disturbed' = (disturbed \/ (x \in Writer /\ pc[x] = "commit"))
  BY DEF Crash
<1>3. TypeOK'
  BY <1>0, <1>1, <1>2 DEF Crash, TypeOK
<1>4. NothingLost' /\ RetriedByOne' /\ ThreadsOK'
  BY <1>0, <1>1, <1>2 DEF NothingLost, RetriedByOne, ThreadsOK, Open, Thread
<1>5. InStep'
  BY <1>0, <1>1, <1>2 DEF InStep, Thread
<1>6. LegacyInStep'
  <2> SUFFICES ASSUME ~disturbed', \A w \in Writer : pc'[w] = "idle"
               PROVE  legacy' = row'
    BY DEF LegacyInStep
  <2>1. \A w \in Writer \ {x} : pc[w] = "idle"
    BY <1>1 DEF Thread
  <2>2. CASE x \in Writer /\ pc[x] = "post"
    BY <1>0, <1>2, <2>2 DEF InStep
  <2>3. CASE x \in Writer /\ pc[x] # "post"
    <3>1. pc[x] = "idle"
      BY <1>0, <1>2, <2>3 DEF TypeOK, ThreadsOK, Steps
    <3> QED BY <1>0, <1>2, <2>1, <3>1 DEF LegacyInStep
  <2>4. CASE x \notin Writer
    BY <1>0, <1>2, <2>1, <2>4 DEF LegacyInStep
  <2> QED BY <2>2, <2>3, <2>4
<1> QED BY <1>3, <1>4, <1>5, <1>6 DEF IInv

-----------------------------------------------------------------------------

LEMMA NextIInv == IInv /\ [Next]_vars => IInv'
<1> SUFFICES ASSUME IInv, [Next]_vars PROVE IInv'
  OBVIOUS
<1>1. ASSUME NEW w \in Writer,
             SaveUser(w) \/ CommitUser(w) \/ \E a \in Answers : PostUser(w, a)
      PROVE  IInv'
  BY <1>1, SaveUserStep, CommitUserStep, PostUserStep
<1>2. ASSUME NEW c \in Command,
             \/ StartCommand(c) \/ CommitItem(c) \/ EndCommand(c)
             \/ \E v \in Version : TakeItem(c, v)
             \/ \E a \in Answers : PostItem(c, a)
      PROVE  IInv'
  BY <1>2, StartCommandStep, CommitItemStep, EndCommandStep, TakeItemStep, PostItemStep
<1>3. ASSUME NEW v \in Version, Arrive(v) \/ Elapse(v)
      PROVE  IInv'
  BY <1>3, ArriveStep, ElapseStep
<1>4. ASSUME NEW x \in Thread, Crash(x)
      PROVE  IInv'
  BY <1>4, CrashStep
<1>5. CASE UNCHANGED vars
  BY <1>5 DEF vars, IInv, TypeOK, NothingLost, RetriedByOne, LegacyInStep, ThreadsOK,
              InStep, Open
<1> QED BY <1>1, <1>2, <1>3, <1>4, <1>5 DEF Next

\* The inductive invariant holds: edits exclude each other from the save to the
\* commit, a record under retry is open, and undisturbed there is no record.
THEOREM IInvHolds == Spec => []IInv
<1>1. Init => IInv
  BY InitIInv
<1>2. IInv /\ [Next]_vars => IInv'
  BY NextIInv
<1> QED BY <1>1, <1>2, PTL DEF Spec

\* Types: no state that commits ever shows PROCESSING (retry_outbox_item).
THEOREM TypeCorrect == Spec => []TypeOK
<1>1. IInv => TypeOK
  BY DEF IInv
<1> QED BY <1>1, IInvHolds, PTL

\* No committed edit is forgotten: it was accepted or its record is open
\* (send_legacy_sync, enqueue_legacy_sync, retry_outbox_item).
THEOREM NothingIsLost == Spec => []NothingLost
<1>1. IInv => NothingLost
  BY DEF IInv
<1> QED BY <1>1, IInvHolds, PTL

\* A record is retried by one command at a time and not after it completed
\* (the lock and the second look at the status in retry_legacy_sync_outbox).
THEOREM OneRetryAtATime == Spec => []RetriedByOne
<1>1. IInv => RetriedByOne
  BY DEF IInv
<1> QED BY <1>1, IInvHolds, PTL

\* While nothing fails, the legacy system shows the row between edits, however
\* the edits interleave (the post inside the transaction of update_user).
THEOREM InStepWhileUndisturbed == Spec => []LegacyInStep
<1>1. IInv => LegacyInStep
  BY DEF IInv
<1> QED BY <1>1, IInvHolds, PTL
=============================================================================
