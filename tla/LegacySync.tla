----------------------------- MODULE LegacySync -----------------------------
(***************************************************************************)
(* Telling the legacy system about a user (application/use_cases.py,       *)
(* legacy_event_handlers.py, legacy_sync.py) and retrying what failed      *)
(* (retry_legacy_sync_outbox.py), for one user row whose contents are      *)
(* numbered by the profile edits that write them.                          *)
(*                                                                         *)
(* An edit saves the row, posts it and commits, all in one transaction:    *)
(* the row lock is held during the post, and the outbox record of a post   *)
(* that failed is part of the transaction too.  A retry command locks a    *)
(* record, posts it and commits the outcome.                               *)
(***************************************************************************)
EXTENDS Naturals, FiniteSets

CONSTANTS
  Writer,      \* threads handling a profile edit
  Command,     \* retry commands
  MaxVersion,  \* bounds the contents of the row
  Limit        \* --limit of the retry command

ASSUME ThreadAssumption == Writer \cap Command = {}
ASSUME NumberAssumption == MaxVersion \in Nat /\ Limit \in Nat \ {0}

VARIABLES
  row,       \* the content committed last
  legacy,    \* the content the legacy system shows
  outbox,    \* status of the outbox record of a content, as committed
  due,       \* contents whose next_retry_at has come
  network,   \* posts given up by their sender that may still arrive
  latest,    \* number of contents written so far
  pc,        \* where an edit or a command is
  item,      \* the content it writes or posts
  answer,    \* what came of the post
  todo,      \* the candidates a command has left
  \* history
  committed, \* contents that were committed
  accepted,  \* contents a post of which was answered 2xx or 410
  disturbed  \* a post failed, was answered 410, or an edit died after it

vars == <<row, legacy, outbox, due, network, latest, pc, item, answer, todo,
          committed, accepted, disturbed>>

Version == 1..MaxVersion
Thread  == Writer \cup Command
NoItem  == 0

\* 2xx; 410; the connection is refused; a timeout or an error status, when the
\* post may have been processed, may be processed later, or never.
Answers == {"ok", "gone", "refused", "timeout"}
NoAnswer == "none"
Statuses == {"none", "pending", "failed", "completed"}
Steps == {"idle", "next", "post", "commit"}

(***************************************************************************)
(* What the code decides.                                                  *)
(***************************************************************************)

\* send_legacy_sync returns True.
Succeeded(a) == a \in {"ok", "gone"}

\* A post that failed is queued, whatever the exception was.  Faulty variant:
\* only a ConnectionError is.
ConnectionErrorsOnly(a) == a = "refused"
Queued(a) == ~Succeeded(a)

Open(v) == outbox[v] \in {"pending", "failed"}

\* The first Limit records that are open and due, in the order of created_at.
Candidates ==
  LET ready == {v \in due : Open(v)}
  IN  {v \in ready : Cardinality({u \in ready : u < v}) < Limit}

\* The second look at the status, under the lock.  Faulty variant: none.
Unchecked(v) == outbox[v] # "none"
Retryable(v) == Open(v)

\* PROCESSING is saved in the transaction that ends with the outcome: nobody
\* sees it.  Faulty variant: it is saved by itself.
ProcessingVisible(status) == "processing"
SeenDuringRetry(status) == status

\* The save in the transaction of the edit waits for the row, which the edit
\* before it holds until it commits.  Faulty variant: without transaction.
NoTransaction(w) == pc[w] = "idle"
RowFree(w) == \A x \in Writer : pc[x] = "idle"

\* The handler of the event reads the row again, inside the transaction: it
\* posts what the edit saved.  Faulty variant: what others see of the row.
PayloadCommitted(w) == row
Payload(w) == item[w]

ItemFree(c, v) ==
  \A d \in Command \ {c} : pc[d] \in {"post", "commit"} => item[d] # v

\* The post of content v is answered, or given up, with a.
Send(v, a) ==
  /\ \/ a = "ok" /\ legacy' = v /\ UNCHANGED network
     \/ a \in {"gone", "refused"} /\ UNCHANGED <<legacy, network>>
     \/ a = "timeout" /\ legacy' = v /\ UNCHANGED network
     \/ a = "timeout" /\ UNCHANGED legacy /\ network' \in {network, network \cup {v}}
  /\ accepted' = IF Succeeded(a) THEN accepted \cup {v} ELSE accepted

Goto(x, step, v, a) ==
  /\ pc' = [pc EXCEPT ![x] = step]
  /\ item' = [item EXCEPT ![x] = v]
  /\ answer' = [answer EXCEPT ![x] = a]

(***************************************************************************)
(* A profile edit: update_user and its event.                              *)
(***************************************************************************)
SaveUser(w) ==
  /\ pc[w] = "idle"
  /\ RowFree(w)
  /\ latest < MaxVersion
  /\ latest' = latest + 1
  /\ Goto(w, "post", latest + 1, NoAnswer)
  /\ UNCHANGED <<row, legacy, outbox, due, network, todo, committed, accepted, disturbed>>

PostUser(w, a) ==
  /\ pc[w] = "post"
  /\ Send(Payload(w), a)
  /\ disturbed' = (disturbed \/ a # "ok")
  /\ Goto(w, "commit", item[w], a)
  /\ UNCHANGED <<row, outbox, due, latest, todo, committed>>

CommitUser(w) ==
  LET v == item[w] IN
  /\ pc[w] = "commit"
  /\ row' = v
  /\ committed' = committed \cup {v}
  /\ IF Queued(answer[w])
     THEN outbox' = [outbox EXCEPT ![v] = "pending"] /\ due' = due \cup {v}
     ELSE UNCHANGED <<outbox, due>>
  /\ Goto(w, "idle", NoItem, NoAnswer)
  /\ UNCHANGED <<legacy, network, latest, todo, accepted, disturbed>>

(***************************************************************************)
(* The retry command.  One without candidates ends at once: no step.       *)
(***************************************************************************)
StartCommand(c) ==
  /\ pc[c] = "idle"
  /\ Candidates # {}
  /\ todo' = [todo EXCEPT ![c] = Candidates]
  /\ Goto(c, "next", NoItem, NoAnswer)
  /\ UNCHANGED <<row, legacy, outbox, due, network, latest, committed, accepted, disturbed>>

\* The record is locked and looked at again.
TakeItem(c, v) ==
  /\ pc[c] = "next"
  /\ v \in todo[c] /\ \A u \in todo[c] : v <= u
  /\ ItemFree(c, v)
  /\ todo' = [todo EXCEPT ![c] = @ \ {v}]
  /\ IF Retryable(v)
     THEN /\ Goto(c, "post", v, NoAnswer)
          /\ outbox' = [outbox EXCEPT ![v] = SeenDuringRetry(@)]
     ELSE UNCHANGED <<outbox, pc, item, answer>>
  /\ UNCHANGED <<row, legacy, due, network, latest, committed, accepted, disturbed>>

PostItem(c, a) ==
  /\ pc[c] = "post"
  /\ Send(item[c], a)
  /\ Goto(c, "commit", item[c], a)
  /\ UNCHANGED <<row, outbox, due, latest, todo, committed, disturbed>>

CommitItem(c) ==
  LET v == item[c] IN
  /\ pc[c] = "commit"
  /\ IF Succeeded(answer[c])
     THEN outbox' = [outbox EXCEPT ![v] = "completed"] /\ UNCHANGED due
     ELSE outbox' = [outbox EXCEPT ![v] = "failed"] /\ due' = due \ {v}
  /\ Goto(c, "next", NoItem, NoAnswer)
  /\ UNCHANGED <<row, legacy, network, latest, todo, committed, accepted, disturbed>>

EndCommand(c) ==
  /\ pc[c] = "next"
  /\ todo[c] = {}
  /\ Goto(c, "idle", NoItem, NoAnswer)
  /\ UNCHANGED <<row, legacy, outbox, due, network, latest, todo, committed, accepted, disturbed>>

(***************************************************************************)
(* The environment: a post arrives after its sender gave it up, the retry  *)
(* delay elapses, a process dies and its transaction is rolled back.       *)
(***************************************************************************)
Arrive(v) ==
  /\ v \in network
  /\ legacy' = v
  /\ network' = network \ {v}
  /\ UNCHANGED <<row, outbox, due, latest, pc, item, answer, todo, committed, accepted, disturbed>>

Elapse(v) ==
  /\ outbox[v] = "failed" /\ v \notin due
  /\ due' = due \cup {v}
  /\ UNCHANGED <<row, legacy, outbox, network, latest, pc, item, answer, todo,
                 committed, accepted, disturbed>>

Crash(x) ==
  /\ pc[x] # "idle"
  /\ Goto(x, "idle", NoItem, NoAnswer)
  /\ todo' = [todo EXCEPT ![x] = {}]
  /\ disturbed' = (disturbed \/ (x \in Writer /\ pc[x] = "commit"))
  /\ UNCHANGED <<row, legacy, outbox, due, network, latest, committed, accepted>>

Init ==
  /\ row = 0 /\ legacy = 0 /\ latest = 0
  /\ outbox = [v \in Version |-> "none"]
  /\ due = {} /\ network = {}
  /\ pc = [x \in Thread |-> "idle"]
  /\ item = [x \in Thread |-> NoItem]
  /\ answer = [x \in Thread |-> NoAnswer]
  /\ todo = [x \in Thread |-> {}]
  /\ committed = {} /\ accepted = {}
  /\ disturbed = FALSE

Next ==
  \/ \E w \in Writer : \/ SaveUser(w)
                       \/ CommitUser(w)
                       \/ \E a \in Answers : PostUser(w, a)
  \/ \E c \in Command : \/ StartCommand(c)
                        \/ CommitItem(c)
                        \/ EndCommand(c)
                        \/ \E v \in Version : TakeItem(c, v)
                        \/ \E a \in Answers : PostItem(c, a)
  \/ \E v \in Version : Arrive(v) \/ Elapse(v)
  \/ \E x \in Thread : Crash(x)

Spec == Init /\ [][Next]_vars

(***************************************************************************)
(* Properties                                                              *)
(***************************************************************************)
TypeOK ==
  /\ {row, legacy, latest} \subseteq 0..MaxVersion
  /\ outbox \in [Version -> Statuses]
  /\ due \subseteq Version /\ network \subseteq Version
  /\ pc \in [Thread -> Steps]
  /\ item \in [Thread -> Version \cup {NoItem}]
  /\ answer \in [Thread -> Answers \cup {NoAnswer}]
  /\ todo \in [Thread -> SUBSET Version]
  /\ committed \subseteq Version /\ accepted \subseteq Version
  /\ disturbed \in BOOLEAN

\* No committed content is forgotten: the legacy system accepted it, or its
\* record is open and will be retried, whatever timed out, crashed or was
\* retried by several commands at once.
NothingLost ==
  \A v \in committed : v \in accepted \/ Open(v)

\* A record is in the hands of one command at a time, and never again once it
\* was completed, although the commands choose their candidates without a lock.
RetriedByOne ==
  \A c \in Command : pc[c] \in {"post", "commit"} =>
    /\ outbox[item[c]] # "completed"
    /\ \A d \in Command \ {c} : pc[d] \in {"post", "commit"} => item[d] # item[c]

\* As long as every post of an edit is answered 2xx and no edit dies between
\* its post and its commit, the legacy system shows the row whenever no edit is
\* under way: concurrent edits are posted in the order they are committed.
LegacyInStep ==
  (~disturbed /\ \A w \in Writer : pc[w] = "idle") => legacy = row

\* The inductive invariant behind them.
ThreadsOK ==
  /\ \A x \in Thread :
       /\ pc[x] \in {"post", "commit"} => item[x] \in Version
       /\ pc[x] = "commit" => /\ answer[x] \in Answers
                              /\ Succeeded(answer[x]) => item[x] \in accepted
  /\ \A w \in Writer : pc[w] # "next"
  /\ \A w \in Writer : pc[w] \in {"post", "commit"} =>
       \A x \in Writer \ {w} : pc[x] = "idle"
  /\ \A c \in Command : pc[c] \in {"post", "commit"} => Open(item[c])

InStep ==
  ~disturbed =>
    /\ network = {}
    /\ \A v \in Version : outbox[v] = "none"
    /\ \A w \in Writer : pc[w] = "post" => legacy = row
    /\ \A w \in Writer : pc[w] = "commit" => legacy = item[w] /\ answer[w] = "ok"

IInv == TypeOK /\ NothingLost /\ RetriedByOne /\ LegacyInStep /\ ThreadsOK /\ InStep
=============================================================================
