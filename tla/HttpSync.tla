------------------------------- MODULE HttpSync -------------------------------
(***************************************************************************)
(* One browser tab kept in step with the MCP server: the local-first       *)
(* HttpStorageAdapter (core/src/core/http-storage-adapter.ts) below the    *)
(* AnnotationStorage the widget shows (core/src/core/storage.ts), against  *)
(* a server that other browsers and agents also write.                     *)
(*                                                                         *)
(* The tab's writes and polls are jobs on one promise chain.  A job runs   *)
(* in steps, one for each request it sends; between two steps the user,    *)
(* other clients, a reload or a full localStorage may come in.  A step     *)
(* sends the request, lets the server serve it and handles the answer: the *)
(* server's part touches nothing of the tab and the tab's nothing of the   *)
(* server, so nothing that could happen between them is lost.  The server  *)
(* serves one request at a time (module FileStore).                        *)
(*                                                                         *)
(* `tab` holds the memory of the page and its view of localStorage,        *)
(* `disk` what localStorage holds.  They differ once localStorage has      *)
(* failed: from then on the view lives in memory only.                     *)
(*                                                                         *)
(* The page has met its project before, so its queue carries the project's *)
(* id from the start.  Not modelled here: several projects on one port and *)
(* adoptUnsent, several tabs, clearParked, the text of the status and the  *)
(* token lookup.  `refused` stands for authFailed, originRefused and       *)
(* incompatible, which stop the tab in the same way until pair(), which    *)
(* may also be called of a page nothing has refused.                       *)
(***************************************************************************)
EXTENDS Merge, Outbox, FiniteSets

CONSTANTS
  Ids,          \* annotation ids
  Pace,         \* when the user acts: "any" time, with the chain "idle", or
                \* when also everything queued is "shown"
  UserMoves,    \* bound: transitions the user makes
  OtherMoves,   \* bound: transitions others make
  MaxUser,      \* bound: actions of the user
  MaxOther,     \* bound: writes of other clients
  MaxFaults,    \* bound: requests that fail
  MaxReloads,   \* bound: page reloads
  MaxPairs,     \* bound: calls of pair()
  MayFill,      \* whether localStorage can fail
  MayRefuse,    \* whether the server can refuse the page (token, origin, protocol)
  InitialServer \* stores the server may hold at first

VARIABLES
  server,    \* the records of the server
  tab,       \* the page: its memory and its view of localStorage
  disk,      \* what localStorage holds
  chain,     \* jobs waiting on the promise chain
  job,       \* the running job, Null when the chain is idle
  intents,   \* what the user last asked of each annotation (history variable)
  landed,    \* values and events of the user the server has taken (history variable)
  lives,     \* how often the server has taken up a record of the id (history variable)
  count      \* bounded counters: user, other, faults, reloads, pairs, ops

vars == <<server, tab, disk, chain, job, intents, landed, lives, count>>

Ops == INSTANCE StoreOps WITH Contents <- {}, EventIds <- {}

Event(type, by, n) == [type |-> type, id |-> <<by, n>>]

Values == {"init", "user", "other"} \X Nat

Events == [type : EventTypes, id : Values]

Copies == [fields : [Fields -> Values], status : Statuses, lifecycle : Seq(Events), rev : Nat]

ASSUME NullIsNoCopy == Null \notin Copies

ASSUME NullIsNoRev == Null \notin Nat

Views == [Ids -> Copies \cup {Null}]

\* The user's values and events in a copy.
UserPart(copy) ==
  IF copy = Null THEN {}
  ELSE {x \in {<<"value", copy.fields[f]>> : f \in Fields}
               \cup {<<"event", copy.lifecycle[i].id>> : i \in DOMAIN copy.lifecycle} :
          x[2][1] = "user"}

ASSUME MovesAreActions == UserMoves \cup OtherMoves \subseteq Actions

\* An annotation has content.
ASSUME FieldsExist == Fields # {}

\* The user has written nothing yet, and the server has given every record a
\* revision when it read its file (mcp/src/file-storage-adapter.ts:49).
ASSUME InitialServerTyped ==
  \A store \in InitialServer :
    store \in Views /\ \A id \in Ids : UserPart(store[id]) = {} /\ (store[id] # Null => store[id].rev # 0)

\* An annotation as the widget creates it; rev 0 is the absent revision.
NewAnnotation(value) ==
  [ fields |-> [f \in Fields |-> value], status |-> "pending", rev |-> 0,
    lifecycle |-> <<Event("created", "user", 0)>> ]

EmptyStore == [id \in Ids |-> Null]

EmptyDisk == [cache |-> Null, outbox |-> <<>>, conflicts |-> {}, parked |-> {}]

\* The page right after it was (re)loaded, its view of localStorage being d.
FreshTab(d) ==
  [ shown |-> EmptyStore, known |-> EmptyStore, online |-> TRUE, refused |-> FALSE,
    memoryOnly |-> FALSE, held |-> {},
    cache |-> d.cache, outbox |-> d.outbox, conflicts |-> d.conflicts, parked |-> d.parked ]

OnDisk(t) == [cache |-> t.cache, outbox |-> t.outbox, conflicts |-> t.conflicts, parked |-> t.parked]

\* Defect: a handler that drops the queued operation before it writes the journals.
BecomeOutboxFirst(t) ==
  \/ /\ tab' = t
     /\ disk' = IF t.memoryOnly THEN disk ELSE OnDisk(t)
  \/ /\ MayFill /\ ~t.memoryOnly
     /\ tab' = [t EXCEPT !.memoryOnly = TRUE]
     /\ disk' = [disk EXCEPT !.outbox = t.outbox]

\* A handler leaves the page in t; localStorage follows while it works.  A handler
\* writes the journals first, then the cache, then the outbox, and localStorage
\* may fail it in between.
Become(t) ==
  \/ /\ tab' = t
     /\ disk' = IF t.memoryOnly THEN disk ELSE OnDisk(t)
  \/ /\ MayFill /\ ~t.memoryOnly
     /\ tab' = [t EXCEPT !.memoryOnly = TRUE]
     /\ \E written \in {{"conflicts", "parked"}, {"conflicts", "parked", "cache"}} :
          disk' = [key \in DOMAIN disk |-> IF key \in written THEN OnDisk(t)[key] ELSE disk[key]]

\* What the user last wrote in an annotation, and the moves made on it since it
\* was last removed; `born` once it has existed.
NothingWanted(born) == [value |-> Null, events |-> {}, born |-> born]

Init ==
  /\ server \in InitialServer
  /\ tab = FreshTab(EmptyDisk)
  /\ disk = EmptyDisk
  /\ chain = <<[kind |-> "init"]>>
  /\ job = Null
  /\ intents = [id \in Ids |-> NothingWanted(server[id] # Null)]
  /\ landed = {}
  /\ lives = [id \in Ids |-> IF server[id] = Null THEN 0 ELSE 1]
  /\ count = [user |-> 0, other |-> 0, faults |-> 0, reloads |-> 0, pairs |-> 0, ops |-> 0]

-----------------------------------------------------------------------------
(* The page's state, as the adapter's private methods change it. *)

CanSend(t) == t.online /\ ~t.refused

CacheUpsert(t, id, copy) ==
  [t EXCEPT !.cache = [(IF @ = Null THEN EmptyStore ELSE @) EXCEPT ![id] = copy]]

CacheRemove(t, id) ==
  [t EXCEPT !.cache = IF @ = Null THEN Null ELSE [@ EXCEPT ![id] = Null]]

\* Server-confirmed copy: remember it, cache it, and show it if it is news.
Confirm(t, id, saved) ==
  [CacheUpsert(t, id, saved) EXCEPT
     !.known[id] = saved,
     !.shown[id] = IF t.known[id] # saved THEN saved ELSE @]

\* Defect: the journal entry is never written.
RecordConflictNowhere(t, record) == t

\* The journal keeps one record for each operation.
RecordConflict(t, record) ==
  [t EXCEPT !.conflicts = {r \in @ : r.opId # record.opId} \cup {record}]

ConflictOf(op, theirs, dropped) ==
  [opId |-> op.opId, id |-> op.id, local |-> op.local, server |-> theirs, dropped |-> dropped]

Journaled(t) == IF t.memoryOnly THEN "held" ELSE "parked"

Park(t, op) == [t EXCEPT !.parked = @ \cup {op}]

DropOp(t, opId) == [t EXCEPT !.outbox = WithoutIds(@, {opId})]

\* Defect: a newer operation is queued behind the one it replaces.
EnqueueBehind(t, op) ==
  IF op.kind = "clear" THEN [t EXCEPT !.outbox = <<op>>] ELSE [t EXCEPT !.outbox = Append(@, op)]

\* A newer operation takes over the base of the one it replaces: neither was
\* confirmed yet.
Rebased(op, replaced) ==
  IF op.kind = "clear" \/ replaced = {} THEN op
  ELSE LET earlier == CHOOSE o \in replaced : TRUE
       IN  [op EXCEPT !.baseRev = earlier.baseRev, !.base = earlier.base]

Enqueue(t, op) ==
  LET replaced == {t.outbox[i] : i \in Replaced(t.outbox, op)}
  IN  [t EXCEPT !.outbox = Append(Without(@, replaced), Rebased(op, replaced))]

\* Defect: the snapshot is remembered before it is compared, so nothing is news.
DiffAndEmitRemembered(t, snapshot) == [t EXCEPT !.known = snapshot, !.cache = snapshot]

\* Tell the widget what is new on the server since the last snapshot.
DiffAndEmit(t, snapshot) ==
  [t EXCEPT !.shown = [id \in Ids |-> IF snapshot[id] # t.known[id] THEN snapshot[id] ELSE @[id]],
            !.known = snapshot,
            !.cache = snapshot]

\* Defect: the dot is green although conflicts wait for review.
StatusWithoutConflicts(t) ==
  IF t.memoryOnly THEN "memory"
  ELSE IF t.refused THEN "unauthorized"
  ELSE IF ~t.online \/ t.outbox # <<>> THEN "queued"
  ELSE IF t.parked # {} THEN "rejected"
  ELSE "synced"

\* What the dot in the toolbar says.
Status(t) ==
  IF t.memoryOnly THEN "memory"
  ELSE IF t.refused THEN "unauthorized"
  ELSE IF ~t.online \/ t.outbox # <<>> THEN "queued"
  ELSE IF t.parked # {} THEN "rejected"
  ELSE IF t.conflicts # {} THEN "conflict"
  ELSE "synced"

-----------------------------------------------------------------------------
(* The user, through AnnotationStorage: the view changes at once, the write *)
(* goes on the chain.                                                      *)

Unwritten(copy) == [copy EXCEPT !.rev = 0]

QueueIsShown ==
  \A i \in DOMAIN tab.outbox :
    LET op == tab.outbox[i]
    IN  CASE op.kind = "save"   -> tab.shown[op.id] # Null
                                     /\ Unwritten(tab.shown[op.id]) = Unwritten(op.local)
          [] op.kind = "remove" -> tab.shown[op.id] = Null
          [] OTHER              -> TRUE

UserMayAct ==
  /\ count.user < MaxUser
  /\ Pace = "any" \/ (chain = <<>> /\ job = Null)
  /\ Pace = "shown" => QueueIsShown

UserWrites(write, shown, wanted) ==
  /\ UserMayAct
  /\ tab' = [tab EXCEPT !.shown = shown]
  /\ chain' = Append(chain, write)
  /\ intents' = wanted
  /\ count' = [count EXCEPT !.user = @ + 1]
  /\ UNCHANGED <<server, disk, job, landed, lives>>

SaveJob(id, copy) == [kind |-> "save", id |-> id, local |-> copy]

UserAdd ==
  \E id \in Ids :
    LET copy == NewAnnotation(<<"user", count.user + 1>>)
    IN  /\ ~intents[id].born
        /\ UserWrites(SaveJob(id, copy), [tab.shown EXCEPT ![id] = copy],
                      [intents EXCEPT ![id] = [NothingWanted(TRUE) EXCEPT !.value = <<"user", count.user + 1>>]])

UserEdit ==
  \E id \in Ids, f \in Fields :
    /\ tab.shown[id] # Null
    /\ LET value == <<"user", count.user + 1>>
           copy  == [tab.shown[id] EXCEPT !.fields[f] = value]
       IN  UserWrites(SaveJob(id, copy), [tab.shown EXCEPT ![id] = copy],
                      [intents EXCEPT ![id].value = value])

UserMove ==
  \E id \in Ids, a \in UserMoves :
    /\ tab.shown[id] # Null
    /\ tab.shown[id].status \in Sources[a]
    /\ LET event == Event(EventOf[a], "user", count.user + 1)
           copy  == [tab.shown[id] EXCEPT !.status = Target[a],
                                          !.lifecycle = Append(@, event)]
       IN  UserWrites(SaveJob(id, copy), [tab.shown EXCEPT ![id] = copy],
                      [intents EXCEPT ![id].events = @ \cup {event.id}])

UserRemove ==
  \E id \in Ids :
    /\ tab.shown[id] # Null
    /\ UserWrites([kind |-> "remove", id |-> id], [tab.shown EXCEPT ![id] = Null],
                  [intents EXCEPT ![id] = NothingWanted(TRUE)])

UserClear ==
  /\ tab.shown # EmptyStore
  /\ UserWrites([kind |-> "clear"], EmptyStore,
                [id \in Ids |-> NothingWanted(intents[id].born)])
-----------------------------------------------------------------------------
(* The jobs of the promise chain.                                          *)

\* A running job: the operation it is sending, the operations of the outbox it
\* still has to send, how many it got rid of, the snapshot it started from, the
\* merged copy it is about to write over `current`, and the outcome if it may.
Job(kind, phase) ==
  [ kind |-> kind, phase |-> phase, op |-> Null, todo |-> <<>>, sent |-> 0,
    first |-> Null, merged |-> Null, current |-> Null, after |-> "sent" ]

Next1(kind) == chain # <<>> /\ job = Null /\ Head(chain).kind = kind

\* Hand over to the next step of the job, or end it (j = Null).
Proceed(t, j) == Become(t) /\ job' = j

Operation(kind, id, local, baseRev, base) ==
  [ opId |-> count.ops + 1, kind |-> kind, id |-> id, local |-> local,
    baseRev |-> baseRev, base |-> base ]

\* Send the operation now, or queue it when the server is not to be reached.
SendOrQueue(t, op) ==
  /\ IF CanSend(t) THEN Proceed(t, [Job("write", "send") EXCEPT !.op = op])
                   ELSE Proceed(Enqueue(t, op), Null)
  /\ chain' = Tail(chain)
  /\ count' = [count EXCEPT !.ops = @ + 1]
  /\ UNCHANGED <<server, intents, landed, lives>>

\* The revision a copy carries, if any: a copy no server has answered for has none.
RevOf(copy) == IF copy = Null \/ copy.rev = 0 THEN Null ELSE copy.rev

\* The base is what is known when the job runs, not when the user acted.
StartSave ==
  /\ Next1("save")
  /\ LET id   == Head(chain).id
         copy == Head(chain).local
         base == tab.known[id]
         baseRev == IF RevOf(base) # Null THEN RevOf(base) ELSE RevOf(copy)
     IN  SendOrQueue(CacheUpsert(tab, id, copy), Operation("save", id, copy, baseRev, base))

StartRemove ==
  /\ Next1("remove")
  /\ LET id   == Head(chain).id
         base == tab.known[id]
     IN  SendOrQueue(CacheRemove(tab, id),
                     Operation("remove", id, Null, RevOf(base), base))

StartClear ==
  /\ Next1("clear")
  /\ SendOrQueue([tab EXCEPT !.cache = EmptyStore], Operation("clear", Null, Null, Null, Null))

StartSync ==
  /\ \E kind \in {"init", "load", "poll"} :
       /\ Next1(kind)
       /\ job' = Job(kind, "fetch")
  /\ chain' = Tail(chain)
  /\ UNCHANGED <<server, tab, disk, intents, landed, lives, count>>

(* The end of a load or a poll. *)

FinishSync(t, snapshot) ==
  CASE job.kind = "poll" -> Proceed(DiffAndEmit(t, snapshot), Null)
    [] job.kind = "load" -> Proceed([t EXCEPT !.known = snapshot, !.cache = snapshot], Null)
    [] OTHER -> Proceed([t EXCEPT !.known = snapshot, !.cache = snapshot, !.shown = snapshot], Null)

\* Without a server the page starts from its cache.
FinishUnsynced(t) ==
  Proceed(IF job.kind = "init" /\ t.cache # Null THEN [t EXCEPT !.shown = t.cache] ELSE t, Null)

EndFlush(t, first, sent) ==
  IF sent > 0 THEN Proceed(t, [Job(job.kind, "refetch") EXCEPT !.first = first])
              ELSE FinishSync(t, first)

SendNext(t, first, todo, sent) ==
  IF todo = <<>> THEN EndFlush(t, first, sent)
  ELSE Proceed(t, [Job(job.kind, "send") EXCEPT !.first = first, !.sent = sent,
                                                !.op = Head(todo), !.todo = Tail(todo)])

\* Defect: a live write that is refused access is not queued.
SettleRefused(t, outcome) ==
  IF job.kind = "write"
  THEN Proceed(IF outcome = "offline" THEN Enqueue(t, job.op) ELSE t, Null)
  ELSE CASE outcome \in {"offline", "unauthorized"} -> EndFlush(t, job.first, job.sent)
         [] OTHER -> SendNext(DropOp(t, job.op.opId), job.first, job.todo, job.sent + 1)

\* Defect: a flush drops the operation whose request failed.
SettleDropping(t, outcome) ==
  IF job.kind = "write"
  THEN Proceed(IF outcome \in {"offline", "unauthorized"} THEN Enqueue(t, job.op) ELSE t, Null)
  ELSE SendNext(DropOp(t, job.op.opId), job.first, job.todo, job.sent + 1)

\* The outcome of an operation: a live write that did not get through is queued,
\* a queued one stays queued and ends the flush.
Settle(t, outcome) ==
  IF job.kind = "write"
  THEN Proceed(IF outcome \in {"offline", "unauthorized"} THEN Enqueue(t, job.op) ELSE t, Null)
  ELSE CASE outcome \in {"offline", "unauthorized"} -> EndFlush(t, job.first, job.sent)
         [] outcome = "held" ->
              SendNext([t EXCEPT !.held = @ \cup {job.op.opId}], job.first, job.todo, job.sent)
         [] OTHER -> SendNext(DropOp(t, job.op.opId), job.first, job.todo, job.sent + 1)

Unsent(t) == WithoutIds(t.outbox, t.held)

Reached(t) == [t EXCEPT !.online = TRUE, !.refused = FALSE]
Offline(t) == [t EXCEPT !.online = FALSE]
Refused(t) == [t EXCEPT !.refused = TRUE]

(* Requests that get an answer. *)

Serve(records) ==
  /\ server' = records
  /\ UNCHANGED <<chain, intents, count>>

\* What the history variables keep of the records the server has now.
Land(records) ==
  /\ landed' = landed \cup UNION {UserPart(records[id]) : id \in Ids}
  /\ lives' = [id \in Ids |-> IF server[id] = Null /\ records[id] # Null THEN lives[id] + 1 ELSE lives[id]]

Fetch ==
  /\ job # Null /\ job.phase = "fetch"
  /\ Serve(server)
  /\ SendNext(Reached(tab), server, Unsent(tab), 0)
  /\ UNCHANGED <<landed, lives>>

Refetch ==
  /\ job # Null /\ job.phase = "refetch"
  /\ Serve(server)
  /\ FinishSync(Reached(tab), server)
  /\ UNCHANGED <<landed, lives>>

\* What the server makes of the operation that is being sent.
PutResult(id, body) == [server EXCEPT ![id] = Ops!Written(server[id], body)]

ServedRecords ==
  IF job.phase = "merge"
  THEN IF Ops!PutOutcome(server[job.op.id], job.current.rev) = "ok"
       THEN PutResult(job.op.id, job.merged) ELSE server
  ELSE CASE job.op.kind = "save"   -> IF Ops!PutOutcome(server[job.op.id], job.op.baseRev) = "ok"
                                      THEN PutResult(job.op.id, job.op.local) ELSE server
         [] job.op.kind = "remove" -> IF Ops!RemoveOutcome(server[job.op.id], job.op.baseRev) = "ok"
                                      THEN [server EXCEPT ![job.op.id] = Null] ELSE server
         [] OTHER                  -> EmptyStore

Sending(kind) == job # Null /\ job.phase = "send" /\ job.op.kind = kind

\* Defect: the local copy is sent again under the server's revision, unmerged.
ResolveConflictByForce(op, current) ==
  IF current = Null
  THEN Settle(CacheRemove(tab, op.id), "parked")
  ELSE Proceed(tab, [job EXCEPT !.phase = "merge", !.merged = op.local, !.current = current,
                                !.after = "sent"])

\* 409 or 428 with the server's copy: merge onto it, or give way to it.
ResolveConflict(op, current) ==
  IF current = Null
  THEN LET t == RecordConflict(tab, ConflictOf(op, Null, "all"))
       IN  Settle([CacheRemove(t, op.id) EXCEPT !.known[op.id] = Null, !.shown[op.id] = Null],
                  Journaled(t))
  ELSE LET merge == MergeAnnotation(op.base, op.local, current)
           kept  == NothingDropped(merge)
           t     == IF kept THEN tab ELSE RecordConflict(tab, ConflictOf(op, current, merge.dropped))
       IN  IF merge.changed
           THEN Proceed(t, [job EXCEPT !.phase = "merge", !.merged = merge.annotation,
                                       !.current = current,
                                       !.after = IF kept THEN "sent" ELSE Journaled(t)])
           ELSE Settle(Confirm(t, op.id, current), IF kept THEN "parked" ELSE Journaled(t))

\* The page learns what became of its save: `saved` of one that was taken, the
\* server's copy of one that was not.
SaveAnswered(saved, current) ==
  LET op == job.op
  IN  IF Ops!PutOutcome(server[op.id], op.baseRev) = "ok"
      THEN Settle(Confirm(tab, op.id, saved), "sent")
      ELSE ResolveConflict(op, current)

SendSave ==
  /\ Sending("save")
  /\ Serve(ServedRecords)
  /\ Land(ServedRecords)
  /\ SaveAnswered(ServedRecords[job.op.id], server[job.op.id])

\* The merged copy is written over the very copy it was merged onto, or not at all.
MergeTaken == Ops!PutOutcome(server[job.op.id], job.current.rev) = "ok"

MergeSettled(saved) == Settle(Confirm(tab, job.op.id, saved), job.after)

MergeGivenUp ==
  Settle(Confirm(RecordConflict(tab, ConflictOf(job.op, job.current, "all")), job.op.id, job.current),
         Journaled(tab))

SendMerged ==
  /\ job # Null /\ job.phase = "merge"
  /\ Serve(ServedRecords)
  /\ Land(ServedRecords)
  /\ IF MergeTaken THEN MergeSettled(ServedRecords[job.op.id]) ELSE MergeGivenUp

\* Defect: the journal names no copy, and reading it back skips the record.
DeletedCopyOfNone(op, current) == op.local

\* The copy a refused delete is journaled with.
DeletedCopy(op, current) == IF op.base = Null THEN current ELSE op.base

\* The record moved since the page decided to delete it: it stays.
RemoveRefused(op, current) ==
  LET copy == DeletedCopy(op, current)
  IN  RecordConflict(tab, ConflictOf([op EXCEPT !.local = copy], current, "delete"))

SendRemove ==
  /\ Sending("remove")
  /\ Serve(ServedRecords)
  /\ UNCHANGED <<landed, lives>>
  /\ LET op == job.op
         current == server[op.id]
     IN  IF Ops!RemoveOutcome(current, op.baseRev) = "ok"
         THEN Settle([tab EXCEPT !.known[op.id] = Null], "sent")
         ELSE Settle(Confirm(RemoveRefused(op, current), op.id, current), Journaled(tab))

SendClear ==
  /\ Sending("clear")
  /\ Serve(ServedRecords)
  /\ UNCHANGED <<landed, lives>>
  /\ Settle([tab EXCEPT !.known = EmptyStore], "sent")

Start == StartSave \/ StartRemove \/ StartClear \/ StartSync

Step == Fetch \/ Refetch \/ SendSave \/ SendMerged \/ SendRemove \/ SendClear

(* Requests that fail. *)

\* A request fails; the handler gives out so many identities of operations.
Fault(records, given) ==
  /\ job # Null
  /\ count.faults < MaxFaults
  /\ count' = [count EXCEPT !.faults = @ + 1, !.ops = @ + given]
  /\ server' = records
  /\ Land(records)
  /\ UNCHANGED <<chain, intents>>

FetchFailed(t) ==
  /\ job.phase \in {"fetch", "refetch"}
  /\ IF job.phase = "refetch" /\ job.kind # "poll" THEN FinishSync(t, job.first)
     ELSE FinishUnsynced(t)

\* The connection breaks, before or after the server has served the request, or
\* the server answers 5xx, or to a GET what cannot be read.  A page whose GET breaks
\* asks /health, which any page may read: it is offline when that breaks as well,
\* and when it is answered takes it that its origin is refused.
ConnectionLost ==
  \E served \in BOOLEAN :
    /\ Fault(IF served /\ job.phase \in {"send", "merge"} THEN ServedRecords ELSE server, 0)
    /\ \/ FetchFailed(Offline(tab))
       \/ FetchFailed(Refused(tab))
       \/ job.phase \in {"send", "merge"} /\ Settle(Offline(tab), "offline")

\* The server has served a write and the body of its answer cannot be read.  The
\* page goes on with the copy it sent, without the new revision, and takes a record
\* it collided with for deleted.  A refused delete without a base is then journaled
\* nowhere: there is no copy to name.
AnswerUnread ==
  /\ job # Null /\ job.phase \in {"send", "merge"}
  /\ Fault(ServedRecords, 0)
  /\ LET op == job.op
     IN  \/ Sending("save") /\ SaveAnswered(op.local, Null)
         \/ job.phase = "merge" /\ MergeTaken /\ MergeSettled(job.merged)
         \/ /\ Sending("remove")
            /\ Ops!RemoveOutcome(server[op.id], op.baseRev) # "ok"
            /\ IF op.base = Null THEN Settle(tab, "parked")
               ELSE Settle(RemoveRefused(op, Null), Journaled(tab))

\* 401 or 403, or a server of another protocol.  A merged write takes every
\* answer but success for a record that moved again.
AccessRefused ==
  /\ MayRefuse
  /\ Fault(server, 0)
  /\ \/ FetchFailed(Refused(tab))
     \/ job.phase = "send" /\ Settle(Refused(tab), "unauthorized")

MergeRefused ==
  /\ Fault(server, 0)
  /\ job.phase = "merge"
  /\ MergeGivenUp

\* What is put aside of an operation the server will not have: not its base, and a
\* removal goes under an identity of its own.
PutAside(op) ==
  IF op.kind = "remove" THEN [op EXCEPT !.base = Null, !.opId = count.ops + 1]
  ELSE [op EXCEPT !.base = Null]

\* Any other 4xx: the operation is put aside and not tried again.
WriteRejected ==
  /\ Fault(server, IF job.op # Null /\ job.op.kind = "remove" THEN 1 ELSE 0)
  /\ job.phase = "send"
  /\ IF job.op.kind = "clear" THEN Settle(Offline(tab), "offline")
     ELSE Settle(Park(tab, PutAside(job.op)), "parked")

-----------------------------------------------------------------------------
(* The rest of the page and of the world. *)

Polling ==
  \/ job # Null /\ job.kind = "poll"
  \/ \E i \in DOMAIN chain : chain[i].kind = "poll"

\* Defect: a page that is offline stops polling.
PollTickOnline ==
  /\ tab.online /\ ~Polling /\ ~tab.refused
  /\ chain' = Append(chain, [kind |-> "poll"])
  /\ UNCHANGED <<server, tab, disk, job, intents, landed, lives, count>>

PollTick ==
  /\ ~Polling
  /\ ~tab.refused
  /\ chain' = Append(chain, [kind |-> "poll"])
  /\ UNCHANGED <<server, tab, disk, job, intents, landed, lives, count>>

\* pair() forgets every refusal and loads the store once the chain is through.
Pair ==
  /\ count.pairs < MaxPairs
  /\ count' = [count EXCEPT !.pairs = @ + 1]
  /\ tab' = [tab EXCEPT !.refused = FALSE]
  /\ chain' = Append(chain, [kind |-> "load"])
  /\ UNCHANGED <<server, disk, job, intents, landed, lives>>

Unsettled(id) ==
  \/ job # Null /\ job.kind = "write" /\ job.op.id \in {id, Null}
  \/ \E i \in DOMAIN chain :
       \/ chain[i].kind \in {"save", "remove"} /\ chain[i].id = id
       \/ chain[i].kind = "clear"

\* The page is reloaded.  What it had not settled, or kept in memory only, is gone:
\* of the latter the dot had said so, of a write still on the chain nothing has.
Reload ==
  /\ count.reloads < MaxReloads
  /\ count' = [count EXCEPT !.reloads = @ + 1]
  /\ tab' = FreshTab(disk)
  /\ chain' = <<[kind |-> "init"]>>
  /\ job' = Null
  /\ intents' = [id \in Ids |-> IF tab.memoryOnly \/ Unsettled(id)
                                THEN NothingWanted(intents[id].born) ELSE intents[id]]
  /\ UNCHANGED <<server, disk, landed, lives>>

\* localStorage throws on a write: quota, or switched off.
FillUp ==
  /\ MayFill
  /\ ~tab.memoryOnly
  /\ tab' = [tab EXCEPT !.memoryOnly = TRUE]
  /\ UNCHANGED <<server, disk, chain, job, intents, landed, lives, count>>

OtherWrites(id, record) ==
  /\ count.other < MaxOther
  /\ server' = [server EXCEPT ![id] = record]
  /\ count' = [count EXCEPT !.other = @ + 1]
  /\ UNCHANGED <<tab, disk, chain, job, intents, landed, lives>>

OtherMove ==
  \E id \in Ids, a \in OtherMoves :
    /\ server[id] # Null
    /\ server[id].status \in Sources[a]
    /\ OtherWrites(id, [server[id] EXCEPT
         !.status = Target[a], !.rev = @ + 1,
         !.lifecycle = Append(@, Event(EventOf[a], "other", count.other + 1))])

OtherEdit ==
  \E id \in Ids, f \in Fields :
    /\ server[id] # Null
    /\ OtherWrites(id, [server[id] EXCEPT !.fields[f] = <<"other", count.other + 1>>, !.rev = @ + 1])

OtherRemove == \E id \in Ids : server[id] # Null /\ OtherWrites(id, Null)

User == UserAdd \/ UserEdit \/ UserMove \/ UserRemove \/ UserClear

Faults == ConnectionLost \/ AnswerUnread \/ AccessRefused \/ MergeRefused \/ WriteRejected

Next ==
  \/ User \/ Start \/ Step \/ Faults
  \/ PollTick \/ Pair \/ Reload \/ FillUp
  \/ OtherMove \/ OtherEdit \/ OtherRemove

Spec == Init /\ [][Next]_vars

\* The event loop runs the chain and the poll timer; answers arrive.
Fairness == WF_vars(Start) /\ WF_vars(Step) /\ WF_vars(PollTick)

FairSpec == Spec /\ Fairness
-----------------------------------------------------------------------------
(* Types. *)

OutboxOps ==
  [ opId : Nat, kind : {"save", "remove", "clear"}, id : Ids \cup {Null},
    local : Copies \cup {Null}, baseRev : Nat \cup {Null}, base : Copies \cup {Null} ]

ASSUME NullIsNoOp == Null \notin OutboxOps

ASSUME NullIsNoId == Null \notin Ids

\* Only a clear is about no annotation; a save carries a copy.
WellFormed(op) ==
  /\ op.id = Null \/ op.kind # "clear"
  /\ op.id \in Ids \/ op.kind = "clear"
  /\ op.kind = "save" => op.local \in Copies

IsRecord(r) ==
  r.opId \in Nat /\ r.id \in Ids /\ r.local \in Copies /\ r.server \in Copies \cup {Null}

\* What localStorage holds, or the page's view of it.
IsStorage(d) ==
  /\ d.cache \in Views \cup {Null}
  /\ d.outbox \in Seq(OutboxOps) /\ \A i \in DOMAIN d.outbox : WellFormed(d.outbox[i])
  /\ d.parked \subseteq OutboxOps
  /\ \A r \in d.conflicts : IsRecord(r)

IsPage(t) ==
  /\ DOMAIN t = DOMAIN FreshTab(EmptyDisk)
  /\ t.shown \in Views /\ t.known \in Views
  /\ t.online \in BOOLEAN /\ t.refused \in BOOLEAN /\ t.memoryOnly \in BOOLEAN
  /\ t.held \subseteq Nat
  /\ IsStorage(t)

Calls ==
  [kind : {"save"}, id : Ids, local : Copies] \cup [kind : {"remove"}, id : Ids]
    \cup [kind : {"clear", "init", "load", "poll"}]

Jobs ==
  [ kind : {"write", "init", "load", "poll"}, phase : {"fetch", "send", "merge", "refetch"},
    op : OutboxOps \cup {Null}, todo : Seq(OutboxOps), sent : Nat, first : Views \cup {Null},
    merged : Copies \cup {Null}, current : Copies \cup {Null},
    after : {"sent", "parked", "held"} ]

ASSUME NullIsNoJob == Null \notin Jobs

Intents == [Ids -> [value : Values \cup {Null}, events : SUBSET Values, born : BOOLEAN]]

TypeOK ==
  /\ server \in Views
  /\ IsPage(tab)
  /\ DOMAIN disk = DOMAIN EmptyDisk /\ IsStorage(disk)
  /\ chain \in Seq(Calls)
  /\ job \in Jobs \cup {Null}
  /\ intents \in Intents
  /\ lives \in [Ids -> Nat]
  /\ count \in [user : Nat, other : Nat, faults : Nat, reloads : Nat, pairs : Nat, ops : Nat]
-----------------------------------------------------------------------------
(* Properties. *)

\* What the contract claims ("never allowed to roll back a newer server status",
\* http-storage-adapter.ts:115-117): while a record lives, no event leaves its history.
HistoryGrows ==
  [][\A id \in Ids :
       server[id] # Null /\ server'[id] # Null
         => IsPrefix(server[id].lifecycle, server'[id].lifecycle)]_vars

\* A save that is sent under a revision whose history its copy does not have: neither
\* the copy nor the base it is said to be made from is of that revision and has all
\* of its history in the copy.
Stale(op) ==
  \A copy \in {op.base, op.local} \ {Null} :
    copy.rev = op.baseRev => ~ IsPrefix(copy.lifecycle, op.local.lifecycle)

\* A record that has lived on since the id was first taken up loses an event.
Rewritten(id) ==
  /\ server[id] # Null /\ server'[id] # Null /\ lives[id] = 1
  /\ ~ IsPrefix(server[id].lifecycle, server'[id].lifecycle)

\* Only a stale save ever takes an event from a record that has lived on: a merge, a
\* retry of it, a queued save that is replayed after a reload, after lost answers or
\* after others wrote, a save on top of an answer that could not be read, never do,
\* because what the page holds at a revision has the history the server had at it.
\* What the page knows of a record that came back under the same id proves nothing.
OnlyStaleSavesRewrite ==
  [][\A id \in Ids : Rewritten(id) => Sending("save") /\ job.op.id = id /\ Stale(job.op)]_vars

\* The copies in which the page still holds something of the user.
OpCopies(op) == IF op.kind = "save" THEN {op.local} ELSE {}

HeldCopies(id) ==
  UNION { {c.local : c \in {chain[i] : i \in {j \in DOMAIN chain : chain[j].kind = "save"
                                                                    /\ chain[j].id = id}}},
          IF job # Null /\ job.op # Null /\ job.op.id = id THEN OpCopies(job.op) ELSE {},
          UNION {OpCopies(tab.outbox[i]) : i \in {j \in DOMAIN tab.outbox : tab.outbox[j].id = id}},
          UNION {OpCopies(op) : op \in {p \in tab.parked : p.id = id}},
          {c.local : c \in {r \in tab.conflicts : r.id = id}} }

Safe(id) == landed \cup UNION {UserPart(copy) : copy \in HeldCopies(id)}

\* What the user has asked of an annotation: the value written last, and every move.
Wanted(id) ==
  {<<"value", v>> : v \in {intents[id].value} \ {Null}}
    \cup {<<"event", e>> : e \in intents[id].events}

\* "It is never silently discarded": what the user wrote last and every move the
\* user made has reached the server, is queued, or is kept for review
\* (http-storage-adapter.ts:111-117).
NothingDiscarded == \A id \in Ids : Wanted(id) \subseteq Safe(id)

Superseded(op, d) ==
  \E i \in DOMAIN d.outbox : d.outbox[i].opId >= op.opId /\ d.outbox[i].id \in {op.id, Null}

TakenByServer(op) ==
  CASE op.kind = "save"   -> UserPart(op.local) \subseteq landed'
    [] op.kind = "remove" -> server'[op.id] = Null
    [] OTHER              -> server' = EmptyStore

\* What an operation put aside is known by.
SameIntent(p, op) == p.kind = op.kind /\ p.id = op.id /\ p.local = op.local

SetAside(d, op) ==
  (\E r \in d.conflicts : r.opId = op.opId) \/ (\E p \in d.parked : SameIntent(p, op))

\* The one operation that no journal has room for: a removal without a base, when
\* its request fails.
Unnamed(op) ==
  job # Null /\ job.op = op /\ op.kind = "remove" /\ op.base = Null /\ count'.faults # count.faults

\* A queued operation leaves localStorage only once the server has taken it, a
\* newer one supersedes it, or its journal record is in localStorage: so a crash
\* or a full quota between two writes replays it rather than losing it
\* (http-storage-adapter.ts:111-118).
QueueIsDurable ==
  [][\A i \in DOMAIN disk.outbox :
       LET op == disk.outbox[i]
       IN  \/ Superseded(op, disk')
           \/ TakenByServer(op)
           \/ SetAside(disk', op)
           \/ Unnamed(op)]_vars

\* The outbox holds at most one operation on an annotation, after a clear if
\* there is one, so replaying it in order is replaying what the user did.
OutboxCoalesced ==
  \A i, j \in DOMAIN tab.outbox :
    /\ tab.outbox[j].kind = "clear" => j = 1
    /\ tab.outbox[i].id = tab.outbox[j].id => i = j

Quiet == job = Null /\ chain = <<>>

\* "synced: the server confirmed the write" (README.md:89): when the dot is green
\* and nothing is on its way, the server has taken all the user asked for.
SyncedIsTrue ==
  Quiet /\ Status(tab) = "synced"
    => \A id \in Ids : Wanted(id) \subseteq landed

\* What the contract claims ("replayed, in order, as soon as the server answers",
\* http-storage-adapter.ts:97-98): however often the connection broke, the queue is
\* empty in the end.
OutboxDrains == <>[](tab.outbox = <<>>)

\* "Queued" is never the last word: however often the connection broke, an answer was
\* lost or the page was reloaded, polling alone ends it, with an empty queue, or with a
\* dot that says access is refused or localStorage has failed, so that the user knows
\* that waiting does not help (http-storage-adapter.ts:258-290, 359).
QueuedEnds == <>[](Status(tab) # "queued")

\* A green dot is not green over an old view: however often the connection broke and
\* the page was reloaded, what the server has of an annotation is shown in the end.
GreenIsCurrent ==
  <>[](Status(tab) = "synced" => \A id \in Ids : server[id] \in {Null, tab.shown[id]})

\* "Polls every 2s for external changes" (core/README.md:134): the page ends up
\* showing what the server has, and nothing else.
Converges == <>[](tab.shown = server \/ tab.refused)
=============================================================================
