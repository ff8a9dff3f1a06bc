--------------------------------- MODULE Tabs ---------------------------------
(***************************************************************************)
(* The queues the HttpStorageAdapter keeps in localStorage                 *)
(* (core/src/core/http-storage-adapter.ts) when several tabs of one origin *)
(* share them and several projects are served, one after the other, on the *)
(* port the tabs talk to.                                                  *)
(*                                                                         *)
(* Every project has a queue of its own; one more takes what is written    *)
(* before any server was seen, and one what an old widget left.  A tab     *)
(* works through its jobs one at a time, and takes the navigator lock of   *)
(* its queue while it replays it.  What a tab does between two requests    *)
(* is one step: a browser runs it without a break.  A request belongs to   *)
(* the server it was opened to and carries the token of that moment, so a  *)
(* server that takes over the port fails the requests of the one before.   *)
(*                                                                         *)
(* Module HttpSync models what a write says, the merge of a conflict, the  *)
(* view of the page and a localStorage that fails; here an operation is    *)
(* its identity, the annotation it is about and whether it clears.         *)
(***************************************************************************)
EXTENDS Outbox, FiniteSets

CONSTANTS
  Null,
  TabNames,    \* tabs of the origin
  Projects,    \* projects that may be served on the port
  Writes,      \* what the widgets write: <<"put", annotation>> or <<"clear", Null>>
  Unknown,     \* namespace of writes made before any server was seen
  Legacy,      \* namespace of what an older widget had buffered
  Locks,       \* whether the browser has navigator.locks
  Buffered,    \* what an older widget may have left: sequences of annotation ids
  MaxCalls,    \* bound: calls of the widget a tab has waiting, before it makes another
  MaxOps,      \* bound: writes of the users
  MaxPairs,    \* bound: tokens given to a tab
  MaxTroubles  \* bound: servers stopped or replaced, tabs closed, requests that break

ASSUME NamespacesApart ==
  /\ Unknown \notin Projects /\ Legacy \notin Projects /\ Unknown # Legacy
  /\ Null \notin Projects

ASSUME NullIsNoTab == Null \notin TabNames

ASSUME BuffersAreLists == \A buffer \in Buffered : buffer \in Seq(Range(buffer))

Namespaces == Projects \cup {Unknown, Legacy}

-----------------------------------------------------------------------------
(* The values of the variables. *)

\* Writes that are not confirmed: what the widgets wrote, and what an old one had buffered.
Kinds == {"put"} \cup {what[1] : what \in Writes}
Ids == {what[2] : what \in Writes} \cup UNION {Range(buffer) : buffer \in Buffered}
Ops == [opId : Nat, kind : Kinds, id : Ids, home : Namespaces]

Disks ==
  [outbox : [Namespaces -> Seq(Ops)], lastProject : Projects \cup {Null}, buffer : Seq(Ids)]

Calls == [kind : {"sync", "adopt"}] \cup [kind : {"write"}, what : Writes]

Phases == {"fetch", "lock", "refetch", "write", "replay"}

Jobs ==
  [ kind : {"sync", "adopt", "write"}, phase : Phases, to : Projects \cup {Null},
    token : Projects \cup {Null}, op : Ops \cup {Null}, todo : Seq(Ops) ]

ASSUME NullIsNoJob == Null \notin Jobs

Counts == [ops : Nat, made : Nat, pairs : Nat, troubles : Nat, torn : Nat]

OpenTabs ==
  [ ns : Namespaces, token : Projects, online : BOOLEAN, refused : BOOLEAN,
    chain : Seq(Calls), job : Jobs \cup {Null},
    overtaken : BOOLEAN ]  \* paired in the middle of a job (history variable)

VARIABLES
  serving, \* the project served on the port, Null when none is
  disk,    \* localStorage: the queues, the last project, the buffer of an older widget
  tab,     \* the tabs; Null when closed
  lock,    \* who holds the lock of each queue
  owed,    \* operations that are to reach a server: queued, not settled (history variable)
  settled, \* operations a server answered, by taking or by refusing them (history variable)
  count    \* writes called, operation ids, pairings, troubles, adoptions cut off

vars == <<serving, disk, tab, lock, owed, settled, count>>

Op(opId, kind, id, home) == [opId |-> opId, kind |-> kind, id |-> id, home |-> home]

OpIds(ops) == {ops[i].opId : i \in DOMAIN ops}

\* What a page starts from.
Namespace(d) == IF d.lastProject # Null THEN d.lastProject ELSE Unknown

\* The owner of the old buffer is not known: it is moved, not replayed.
MigrateLegacyKeys(d, made, left) ==
  LET ops == [i \in DOMAIN d.buffer |-> Op(made + i, "put", d.buffer[i], Legacy)]
  IN  [d EXCEPT !.outbox[Legacy] = @ \o ops, !.buffer = left]

\* The widget of a page loads first.
NewTab(d, token) ==
  [ ns |-> Namespace(d), token |-> token, online |-> TRUE, refused |-> FALSE,
    chain |-> <<[kind |-> "sync"]>>, job |-> Null, overtaken |-> FALSE ]

Init ==
  /\ serving = Null
  /\ \E buffer \in Buffered :
       disk = [outbox |-> [n \in Namespaces |-> <<>>], lastProject |-> Null, buffer |-> buffer]
  /\ tab = [t \in TabNames |-> Null]
  /\ lock = [n \in Namespaces |-> Null]
  /\ owed = {} /\ settled = {}
  /\ count = [ops |-> 0, made |-> 0, pairs |-> 0, troubles |-> 0, torn |-> 0]

-----------------------------------------------------------------------------
(* The queues. *)

Enqueue(ops, op) == Append(WithoutIds(ops, {ops[i].opId : i \in Replaced(ops, op)}), op)

\* Put an operation in the tab's queue: it is owed from now on, what it replaces is not.
Queue(t, op) ==
  LET ops == disk.outbox[tab[t].ns]
  IN  /\ disk' = [disk EXCEPT !.outbox[tab[t].ns] = Enqueue(ops, op)]
      /\ owed' = (owed \ {ops[i].opId : i \in Replaced(ops, op)}) \cup {op.opId}

\* Defect: what was left of the snapshot is written back.
DropFromSnapshot(t) == tab[t].job.todo

\* The queue is read again: other tabs have added to it since it was snapshot.
DropOp(t) == WithoutIds(disk.outbox[tab[t].ns], {tab[t].job.op.opId})

-----------------------------------------------------------------------------
(* Tabs, and what their widgets call. *)

Open(t) == tab[t] # Null

\* A tab starts its next call with the step that made it, or that ended the one before:
\* nothing else happens in between.
AllStarted == \A t \in TabNames : Open(t) => tab[t].job # Null \/ tab[t].chain = <<>>

Trouble == count.troubles < MaxTroubles /\ count' = [count EXCEPT !.troubles = @ + 1]

CanSend(t) == tab[t].online /\ ~tab[t].refused

Call(t, call) ==
  /\ AllStarted
  /\ Len(tab[t].chain) < MaxCalls
  /\ tab' = [tab EXCEPT ![t].chain = Append(@, call)]

\* What an older widget had buffered is queued, and its buffer left as given.
Migrate(left) ==
  /\ disk' = MigrateLegacyKeys(disk, count.made, left)
  /\ owed' = owed \cup (OpIds(disk'.outbox[Legacy]) \ OpIds(disk.outbox[Legacy]))

OpenTab(t) ==
  /\ AllStarted /\ ~Open(t)
  /\ \E token \in Projects : tab' = [tab EXCEPT ![t] = NewTab(disk, token)]
  /\ Migrate(<<>>)
  /\ count' = [count EXCEPT !.made = @ + Len(disk.buffer)]
  /\ UNCHANGED <<serving, lock, settled>>

\* The browser dies after the queue was written and before the buffer is removed: the
\* next tab queues it again, under new identities.
MigrationCutOff(t) ==
  /\ AllStarted /\ ~Open(t) /\ disk.buffer # <<>>
  /\ Migrate(disk.buffer)
  /\ count.troubles < MaxTroubles
  /\ count' = [count EXCEPT !.made = @ + Len(disk.buffer), !.troubles = @ + 1]
  /\ UNCHANGED <<serving, tab, lock, settled>>

Released(t) == [n \in Namespaces |-> IF lock[n] = t THEN Null ELSE lock[n]]

\* The tab is closed or reloaded: its calls and requests are given up, its lock is free.
CloseTab(t) ==
  /\ AllStarted /\ Open(t)
  /\ Trouble
  /\ tab' = [tab EXCEPT ![t] = Null]
  /\ lock' = Released(t)
  /\ UNCHANGED <<serving, disk, owed, settled>>

\* The widget calls save, remove or clear.
Write(t) ==
  /\ Open(t)
  /\ count.ops < MaxOps
  /\ count' = [count EXCEPT !.ops = @ + 1]
  /\ \E what \in Writes : Call(t, [kind |-> "write", what |-> what])
  /\ UNCHANGED <<serving, disk, lock, owed, settled>>

Pending(t, kind) ==
  \/ tab[t].job # Null /\ tab[t].job.kind = kind
  \/ \E i \in DOMAIN tab[t].chain : tab[t].chain[i].kind = kind

Poll(t) ==
  /\ Open(t) /\ ~Pending(t, "sync") /\ ~tab[t].refused
  /\ Call(t, [kind |-> "sync"])
  /\ UNCHANGED <<serving, disk, lock, owed, settled, count>>

\* The page is given a token, whatever the tab is about: it counts from the next
\* request on, of the running job too.
Pair(t) ==
  /\ AllStarted /\ Open(t)
  /\ count.pairs < MaxPairs
  /\ count' = [count EXCEPT !.pairs = @ + 1]
  /\ \E token \in Projects :
       tab' = [tab EXCEPT ![t].token = token, ![t].refused = FALSE,
                          ![t].chain = Append(@, [kind |-> "sync"]),
                          ![t].overtaken = @ \/ (tab[t].job # Null /\ token # tab[t].token)]
  /\ UNCHANGED <<serving, disk, lock, owed, settled>>

\* Queues of no known project, as a tab sees them.
Unsent(t) == {n \in {Unknown, Legacy} \ {tab[t].ns} : disk.outbox[n] # <<>>}

\* The user claims them for the project of the tab.
CallAdopt(t) ==
  /\ Open(t) /\ Unsent(t) # {} /\ ~Pending(t, "adopt")
  /\ Call(t, [kind |-> "adopt"])
  /\ UNCHANGED <<serving, disk, lock, owed, settled, count>>

-----------------------------------------------------------------------------
(* Jobs: a tab runs its calls one at a time. *)

NextCall(t, kind) ==
  Open(t) /\ tab[t].job = Null /\ tab[t].chain # <<>> /\ Head(tab[t].chain).kind = kind

\* A job: the request it waits for - to which server, with which token -, the
\* operation that is on its way, and what is left of the snapshot being replayed.
Job(t, kind, phase, op, todo) ==
  [kind |-> kind, phase |-> phase, to |-> serving, token |-> tab[t].token, op |-> op, todo |-> todo]

\* A job that waits for the lock of its queue.
Locking(kind) == [kind |-> kind, phase |-> "lock", to |-> Null, token |-> Null, op |-> Null, todo |-> <<>>]

StartJob(t, job) == tab' = [tab EXCEPT ![t].chain = Tail(@), ![t].job = job]

NextPhase(t, phase) == tab' = [tab EXCEPT ![t].job = Job(t, @.kind, phase, Null, <<>>)]

EndJob(t, online, refused) ==
  tab' = [tab EXCEPT ![t].job = Null, ![t].online = online, ![t].refused = refused]

\* The operation is queued, or sent from, under the namespace of now: save() reads it
\* when its turn has come.
StartWrite(t) ==
  /\ NextCall(t, "write")
  /\ LET what == Head(tab[t].chain).what
         op   == Op(count.made + 1, what[1], what[2], tab[t].ns)
     IN  /\ count' = [count EXCEPT !.made = @ + 1]
         /\ \/ /\ CanSend(t)
               /\ StartJob(t, Job(t, "write", "write", op, <<>>))
               /\ UNCHANGED <<disk, owed>>
            \/ /\ ~CanSend(t)
               /\ tab' = [tab EXCEPT ![t].chain = Tail(@)]
               /\ Queue(t, op)
  /\ UNCHANGED <<serving, lock, settled>>

StartSync(t) ==
  /\ NextCall(t, "sync")
  /\ StartJob(t, Job(t, "sync", "fetch", Null, <<>>))
  /\ UNCHANGED <<serving, disk, lock, owed, settled, count>>

\* Unsent queues move to the tab's own, whose project owns them from now on: they are
\* appended to it, and removed where they were.
Adopt(t, appended, removed) ==
  LET claimed(ops) == [i \in DOMAIN ops |-> [ops[i] EXCEPT !.home = tab[t].ns]]
      taken(n) == IF n \in appended THEN disk.outbox[n] ELSE <<>>
  IN  disk' = [disk EXCEPT !.outbox = [n \in Namespaces |->
        CASE n = tab[t].ns -> @[n] \o claimed(taken(Unknown)) \o claimed(taken(Legacy))
          [] n \in removed -> <<>>
          [] OTHER -> @[n]]]

StartAdopt(t) ==
  /\ NextCall(t, "adopt")
  /\ Adopt(t, Unsent(t), Unsent(t))
  /\ IF Unsent(t) # {} /\ CanSend(t)
     THEN StartJob(t, Locking("adopt"))
     ELSE tab' = [tab EXCEPT ![t].chain = Tail(@)]
  /\ UNCHANGED <<serving, lock, owed, settled, count>>

\* The browser dies on the way, after a queue was appended or after it was removed too:
\* queues are moved one by one, and each by two writes.
AdoptionCutOff(t) ==
  /\ NextCall(t, "adopt")
  /\ count.troubles < MaxTroubles
  /\ \E n \in Unsent(t) :
       LET moved == (Unsent(t) \cap {Unknown}) \ {n}
       IN  \E removed \in {moved, moved \cup {n}} :
             /\ Adopt(t, moved \cup {n}, removed)
             /\ count' = [count EXCEPT !.troubles = @ + 1,
                                       !.torn = IF n \in removed THEN @ ELSE @ + 1]
  /\ tab' = [tab EXCEPT ![t] = Null]
  /\ UNCHANGED <<serving, lock, owed, settled>>

-----------------------------------------------------------------------------
(* Requests and their answers. *)

Waits(t, phases) == Open(t) /\ tab[t].job # Null /\ tab[t].job.phase \in phases

Answer(t, phases) == AllStarted /\ Waits(t, phases)

\* The server the request was opened to is still there, and takes its token.
Answered(t) == serving # Null /\ tab[t].job.to = serving
Accepted(t) == Answered(t) /\ tab[t].job.token = serving

\* The server does not know the token.
Unauthorized(t) ==
  /\ Answered(t) /\ ~Accepted(t)
  /\ EndJob(t, tab[t].online, TRUE)
  /\ UNCHANGED count

\* The connection is gone with its server, or breaks under an accepted request.
Breaks(t) ==
  \/ ~Answered(t) /\ UNCHANGED count
  \/ Accepted(t) /\ Trouble

\* A request without an answer puts the tab offline.
Unanswered(t) == Breaks(t) /\ EndJob(t, FALSE, tab[t].refused)

\* One for the store does so if /health has no answer either; with one, the tab takes it
\* that the server refuses its origin.
OriginRefused(t) ==
  /\ Breaks(t)
  /\ serving # Null
  /\ EndJob(t, tab[t].online, TRUE)

\* Defect: the tab goes on under the namespace it started with.
AdoptServerNever(t) == [ns |-> tab[t].ns, lastProject |-> serving]

\* The server names its project, and the tab works on that project's queue.
AdoptServer(t) ==
  [ ns |-> serving,
    lastProject |-> IF tab[t].ns # serving THEN serving ELSE disk.lastProject ]

\* load and poll: the store is there, the queue is to be replayed.
FetchAnswered(t) ==
  /\ Answer(t, {"fetch"})
  /\ Accepted(t)
  /\ disk' = [disk EXCEPT !.lastProject = AdoptServer(t).lastProject]
  /\ tab' = [tab EXCEPT ![t].ns = AdoptServer(t).ns, ![t].online = TRUE, ![t].refused = FALSE,
                        ![t].job = Locking("sync"),
                        ![t].overtaken = @ /\ tab[t].job.token # tab[t].token]
  /\ UNCHANGED <<serving, lock, owed, settled, count>>

\* The store is fetched once more when something was replayed.
RefetchAnswered(t) ==
  /\ Answer(t, {"refetch"})
  /\ Accepted(t)
  /\ EndJob(t, TRUE, FALSE)
  /\ UNCHANGED <<serving, disk, lock, owed, settled, count>>

FetchFails(t) ==
  /\ Answer(t, {"fetch", "refetch"})
  /\ Unauthorized(t) \/ Unanswered(t) \/ OriginRefused(t)
  /\ UNCHANGED <<serving, disk, lock, owed, settled>>

\* The server has the operation, or refused it and the journal has it.
WriteAnswered(t) ==
  /\ Answer(t, {"write"})
  /\ Accepted(t)
  /\ settled' = settled \cup {tab[t].job.op.opId}
  /\ EndJob(t, tab[t].online, tab[t].refused)
  /\ UNCHANGED <<serving, disk, lock, owed, count>>

WriteFails(t) ==
  /\ Answer(t, {"write"})
  /\ Unauthorized(t) \/ Unanswered(t)
  /\ Queue(t, tab[t].job.op)
  /\ UNCHANGED <<serving, lock, settled>>

-----------------------------------------------------------------------------
(* The replay of a queue. *)

\* Send the next operation, or end the replay.
Replay(t, todo, sent) ==
  IF todo # <<>>
  THEN /\ tab' = [tab EXCEPT ![t].job = Job(t, @.kind, "replay", Head(todo), Tail(todo))]
       /\ UNCHANGED lock
  ELSE /\ lock' = Released(t)
       /\ IF sent /\ tab[t].job.kind = "sync"
          THEN NextPhase(t, "refetch")
          ELSE EndJob(t, tab[t].online, tab[t].refused)

\* Defect: nobody waits for the lock.
GrantedAlways(t) == TRUE

Granted(t) == Locks => lock[tab[t].ns] = Null

\* withLock: the queue is read once the lock is held.
FlushOutbox(t) ==
  /\ Answer(t, {"lock"})
  /\ Granted(t)
  /\ LET todo == disk.outbox[tab[t].ns]
     IN  IF todo # <<>>
         THEN /\ lock' = IF Locks THEN [lock EXCEPT ![tab[t].ns] = t] ELSE lock
              /\ tab' = [tab EXCEPT ![t].job = Job(t, @.kind, "replay", Head(todo), Tail(todo))]
         ELSE EndJob(t, tab[t].online, tab[t].refused) /\ UNCHANGED lock
  /\ UNCHANGED <<serving, disk, owed, settled, count>>

\* The operation is settled and goes from the queue; the next one follows.
ReplayAnswered(t) ==
  /\ Answer(t, {"replay"})
  /\ Accepted(t)
  /\ settled' = settled \cup {tab[t].job.op.opId}
  /\ owed' = owed \ {tab[t].job.op.opId}
  /\ disk' = [disk EXCEPT !.outbox[tab[t].ns] = DropOp(t)]
  /\ Replay(t, tab[t].job.todo, TRUE)
  /\ UNCHANGED <<serving, count>>

\* The replay stops at the first request that fails; the operation stays queued.
ReplayFails(t) ==
  /\ Answer(t, {"replay"})
  /\ Unauthorized(t) \/ Unanswered(t)
  /\ lock' = Released(t)
  /\ UNCHANGED <<serving, disk, owed, settled>>

-----------------------------------------------------------------------------
(* The port. *)

\* The requests that are under way break with the server that goes.
Broken ==
  [ t \in TabNames |-> IF Open(t) /\ tab[t].job # Null THEN [tab[t] EXCEPT !.job.to = Null]
                       ELSE tab[t] ]

\* A server comes up, goes down, or makes way for that of another project.
Serve ==
  /\ AllStarted
  /\ \/ serving = Null /\ UNCHANGED count
     \/ Trouble
  /\ serving' \in (Projects \cup {Null}) \ {serving}
  /\ tab' = Broken
  /\ UNCHANGED <<disk, lock, owed, settled>>

Next ==
  \/ \E t \in TabNames :
       \/ OpenTab(t) \/ MigrationCutOff(t) \/ CloseTab(t) \/ Write(t) \/ Poll(t) \/ Pair(t) \/ CallAdopt(t)
       \/ StartWrite(t) \/ StartSync(t) \/ StartAdopt(t) \/ AdoptionCutOff(t)
       \/ FetchAnswered(t) \/ RefetchAnswered(t) \/ FetchFails(t)
       \/ WriteAnswered(t) \/ WriteFails(t)
       \/ FlushOutbox(t) \/ ReplayAnswered(t) \/ ReplayFails(t)
  \/ Serve

Spec == Init /\ [][Next]_vars

-----------------------------------------------------------------------------

TypeOK ==
  /\ serving \in Projects \cup {Null}
  /\ disk \in Disks
  /\ tab \in [TabNames -> OpenTabs \cup {Null}]
  /\ \A t \in TabNames : Waits(t, {"write", "replay"}) => tab[t].job.op \in Ops
  /\ lock \in [Namespaces -> TabNames \cup {Null}]
  /\ owed \subseteq Nat /\ settled \subseteq Nat
  /\ count \in Counts

\* A project's server is never handed an operation of another project, nor one of
\* a queue nobody claimed (http-storage-adapter.ts, "a different project served
\* later on the same port never receives another project's queue"), but by a tab
\* that was paired in the middle of a job and has not fetched the store since.  A
\* token of the project is not enough: a tab that is paired may have the queue of
\* the project before.
NoStrays ==
  \A t \in TabNames :
    Waits(t, {"write", "replay"}) /\ Accepted(t) /\ ~tab[t].overtaken =>
      tab[t].job.op.home = serving

\* That comment to the letter, for every tab: pair() changes the token of the requests
\* of a replay that is under way.
NeverStrays ==
  \A t \in TabNames :
    Waits(t, {"replay"}) /\ Accepted(t) => tab[t].job.op.home = serving

\* What waits for a server waits in localStorage, whatever the other tabs do with
\* the same queue, tabs closed and servers switched included.
QueueKept ==
  owed \subseteq UNION {OpIds(disk.outbox[n]) : n \in Namespaces}

\* Under navigator.locks an operation that was answered is not sent once more by
\* another tab that replays the same queue, unless an adoption was cut off between
\* its two writes, which leaves operations in two queues.
SentOnce ==
  \A t \in TabNames :
    Locks /\ count.torn = 0 /\ Waits(t, {"replay"}) =>
      settled \cap ({tab[t].job.op.opId} \cup OpIds(tab[t].job.todo)) = {}
==============================================================================
