------------------------------ MODULE CloudStore ------------------------------
(***************************************************************************)
(* The cloud backend: browser tabs, each with its domain store over a      *)
(* CloudStorageAdapter, and agents of MCP servers, over one table of rows  *)
(* that carry a revision (cloud/src/cloud-storage-adapter.ts,              *)
(* core/src/core/storage.ts).  No client hears of another's changes: a tab *)
(* learns of them when a conditional update matches no row.                *)
(*                                                                         *)
(* A call goes out, its statement executes at the database, a missed one   *)
(* reads the row again, and the answer comes back; every two of these are  *)
(* interleaved.  Of an annotation the model keeps status, history and      *)
(* revision.  The project key and its row policies are left out: all       *)
(* clients are of one project.                                             *)
(***************************************************************************)
EXTENDS Lifecycle, FiniteSets

CONSTANTS
  Ids,          \* annotation ids
  Tabs, Agents, \* clients
  TabMoves,     \* bound: the transitions users make
  AgentMoves,   \* bound: the transitions agents make
  Tables,       \* what the table may hold at first
  ImportFile,   \* what an imported file holds: for some ids a record
  OnError,      \* option onError: "throw" or "memory-fallback"
  OneAtATime,   \* pace: a user waits for a call to be answered before the next gesture
  MaxAttempts,  \* MAX_CAS_ATTEMPTS
  MaxMade,      \* bound: gestures and agent calls
  MaxImports,   \* bound: imports
  MaxFaults,    \* bound: requests and answers lost, pages reloaded
  Null          \* no record, no id

\* `rev` is 0 in a copy that has none.  `life` and `read` tell the rows of one id apart
\* that were inserted one after the other: the row's own number, and that of the copy its
\* last writer had.
Records ==
  [ status : Statuses, events : Seq([type : EventTypes, id : Nat]), rev : Nat,
    life : Nat, read : Nat ]

Nobody == [id \in Ids |-> Null]

ASSUME OptionIsKnown == OnError \in {"throw", "memory-fallback"} /\ OneAtATime \in BOOLEAN
ASSUME SomeAttempt == MaxAttempts \in Nat \ {0}
ASSUME NullIsNothing == Null \notin Records \cup Ids
ASSUME NullIsNoJob == Null \notin [previous : [Ids -> Records \cup {Null}], rest : SUBSET Ids]
ASSUME MovesAreActions == TabMoves \cup AgentMoves \subseteq Actions

\* The rows there are at first were inserted once; what an import reads has lost its revision
\* (storage.ts:142).  Events of that time have the number 0.
ASSUME TablesAreRows ==
  \A table \in Tables :
    /\ table \in [Ids -> Records \cup {Null}]
    /\ \A id \in Ids : table[id] # Null => table[id].rev > 0 /\ table[id].life = 1
ASSUME ImportsHaveNoRev ==
  /\ ImportFile \in [Ids -> Records \cup {Null}]
  /\ \A id \in Ids : ImportFile[id] # Null => ImportFile[id].rev = 0
ASSUME OldEvents ==
  \A shelf \in Tables \cup {ImportFile}, id \in Ids : shelf[id] # Null =>
    \A i \in DOMAIN shelf[id].events : shelf[id].events[i].id = 0

VARIABLES
  rows,      \* the table
  versions,  \* every row the table ever held
  lives,     \* how often each id was inserted
  cache,     \* per tab, the annotations it shows
  calls,     \* per tab, its calls without an answer
  importing, \* per tab, the import that runs, Null when none does
  agent,     \* per agent, its mutate call
  made, imports, faults   \* counters of what is bounded

vars == <<rows, versions, lives, cache, calls, importing, agent, made, imports, faults>>
table == <<rows, versions, lives>>

\* A call: the record it writes, and what a failure puts back (`kept`; a load keeps the
\* rows it has read there).  `gone`: the page that made it was reloaded.
Call(op, id, body, kept) ==
  [ op |-> op, id |-> id, body |-> body, kept |-> kept, step |-> "sent", result |-> "none",
    copy |-> Null, gone |-> FALSE ]

LoadCall == Call("load", Null, Null, Nobody)

\* A mutate call of an agent: `event` is its operation id, `current` the copy it read last,
\* `again` whether it repeats a call made before.
Resting ==
  [ pc |-> "idle", action |-> Null, id |-> Null, event |-> 0, attempt |-> 0, current |-> Null,
    again |-> FALSE ]

Init ==
  /\ rows \in Tables
  /\ versions = {<<id, rows[id]>> : id \in {i \in Ids : rows[i] # Null}}
  /\ lives = [id \in Ids |-> IF rows[id] = Null THEN 0 ELSE 1]
  /\ cache = [t \in Tabs |-> Nobody]
  /\ calls = [t \in Tabs |-> <<LoadCall>>]
  /\ importing = [t \in Tabs |-> Null]
  /\ agent = [a \in Agents |-> Resting]
  /\ made = 0 /\ imports = 0 /\ faults = 0

-----------------------------------------------------------------------------
(* Gestures: the cache changes at once and a call goes out. *)

Idle(t) == OneAtATime => importing[t] = Null /\ \A i \in DOMAIN calls[t] : calls[t][i].gone

Gesture(t, shown, call) ==
  /\ made < MaxMade /\ Idle(t)
  /\ made' = made + 1
  /\ cache' = [cache EXCEPT ![t] = shown]
  /\ calls' = [calls EXCEPT ![t] = Append(@, call)]
  /\ UNCHANGED <<table, importing, agent, imports, faults>>

Event(type) == [type |-> type, id |-> made + 1]

Created == [status |-> "pending", events |-> <<Event("created")>>, rev |-> 0, life |-> 0, read |-> 0]

\* An id is new: nothing was ever stored or shown under it.
Fresh(id) == lives[id] = 0 /\ \A t \in Tabs : /\ cache[t][id] = Null
                                              /\ \A i \in DOMAIN calls[t] : calls[t][i].id # id

Adds(t) ==
  \E id \in Ids : Fresh(id) /\ Gesture(t, [cache[t] EXCEPT ![id] = Created], Call("add", id, Created, Nobody))

Moved(record, action) ==
  [record EXCEPT !.status = Target[action], !.events = Append(@, Event(EventOf[action]))]

Updates(t) ==
  \E id \in Ids, action \in TabMoves :
    LET before == cache[t][id] IN
    /\ before # Null /\ before.status \in Sources[action]
    /\ Gesture(t, [cache[t] EXCEPT ![id] = Moved(before, action)],
               Call("update", id, Moved(before, action), [Nobody EXCEPT ![id] = before]))

Removes(t) ==
  \E id \in Ids : /\ cache[t][id] # Null
                  /\ Gesture(t, [cache[t] EXCEPT ![id] = Null], Call("remove", id, Null, cache[t]))

Clears(t) == cache[t] # Nobody /\ Gesture(t, Nobody, Call("clear", Null, Null, cache[t]))

WithoutRev(record) == [record EXCEPT !.rev = 0]

\* An import clears, then inserts what the file holds; it gives up at the first failure
\* and inserts what was there before.  The code keeps the array that the page shows and not
\* a copy of it (storage.ts:141-155): while no other write of the tab is under way, as
\* under OneAtATime, nothing is put into that array in between.
Imports(t) ==
  /\ imports < MaxImports /\ importing[t] = Null /\ Idle(t)
  /\ imports' = imports + 1
  /\ cache' = [cache EXCEPT ![t] = ImportFile]
  /\ importing' = [importing EXCEPT ![t] =
                     [previous |-> cache[t], rest |-> {id \in Ids : ImportFile[id] # Null}]]
  /\ calls' = [calls EXCEPT ![t] = Append(@, Call("importClear", Null, Null, Nobody))]
  /\ UNCHANGED <<table, agent, made, faults>>

-----------------------------------------------------------------------------
(* The database and the way there and back. *)

Put(id, record) ==
  /\ rows' = [rows EXCEPT ![id] = record]
  /\ versions' = versions \cup {<<id, record>>}

\* Defect: the update is not conditional on the revision.
MatchesAnyRev(id, rev) == rows[id] # Null

\* UPDATE ... WHERE id = ? AND rev = ?
Matches(id, rev) == rows[id] # Null /\ rows[id].rev = rev

Rewritten(id, body) ==
  [body EXCEPT !.rev = @ + 1, !.life = rows[id].life, !.read = body.life]

\* Defect: an inserted row gets the revision of the copy, which has none.
InsertedWithoutRev(id, body) == [body EXCEPT !.life = lives[id] + 1, !.read = lives[id] + 1]

Inserted(id, body) == [body EXCEPT !.rev = 1, !.life = lives[id] + 1, !.read = lives[id] + 1]

Came(call, result, copy) == [call EXCEPT !.step = "back", !.result = result, !.copy = copy]

Answered(t, i, call) ==
  /\ calls' = [calls EXCEPT ![t][i] = call]
  /\ UNCHANGED <<cache, importing, agent, made, imports>>

Execute(t, i) ==
  LET call == calls[t][i]
      id == call.id
  IN
  /\ call.step = "sent"
  /\ UNCHANGED faults
  /\ \/ /\ call.op = "load"
        /\ Answered(t, i, [Came(call, "ok", Null) EXCEPT !.kept = rows])
        /\ UNCHANGED table
     \/ /\ call.op = "remove"
        /\ rows' = [rows EXCEPT ![id] = Null] /\ UNCHANGED <<versions, lives>>
        /\ Answered(t, i, Came(call, "ok", Null))
     \/ /\ call.op \in {"clear", "importClear"}
        /\ rows' = Nobody /\ UNCHANGED <<versions, lives>>
        /\ Answered(t, i, Came(call, "ok", Null))
     \/ /\ call.op \in {"add", "update", "importSave", "restoreSave"} /\ call.body.rev > 0
        /\ Matches(id, call.body.rev)
        /\ Put(id, Rewritten(id, call.body)) /\ UNCHANGED lives
        /\ Answered(t, i, Came(call, "ok", rows'[id]))
     \/ /\ call.op \in {"add", "update", "importSave", "restoreSave"} /\ call.body.rev = 0
        /\ rows[id] = Null
        /\ Put(id, Inserted(id, call.body)) /\ lives' = [lives EXCEPT ![id] = @ + 1]
        /\ Answered(t, i, Came(call, "ok", rows'[id]))
     \/ /\ call.op \in {"add", "update", "importSave", "restoreSave"}
        /\ IF call.body.rev > 0 THEN ~Matches(id, call.body.rev) ELSE rows[id] # Null
        /\ Answered(t, i, [call EXCEPT !.step = "refetch"])
        /\ UNCHANGED table

\* The update matched no row, or the id was taken: the conflict carries the current copy.
Refetch(t, i) ==
  /\ calls[t][i].step = "refetch"
  /\ Answered(t, i, Came(calls[t][i], "conflict", rows[calls[t][i].id]))
  /\ UNCHANGED <<table, faults>>

\* What handleError makes of a request that failed at some step of a call.
Failed(call) ==
  IF OnError = "throw" THEN Came(call, "error", Null)
  ELSE IF call.step = "refetch" THEN Came(call, "conflict", Null)
  ELSE Came([call EXCEPT !.kept = IF call.op = "load" THEN Nobody ELSE @], "void", Null)

\* A request, or the answer to one that was executed, is lost.
Fail(t, i) ==
  /\ faults < MaxFaults /\ calls[t][i].result \in {"none", "ok"}
  /\ faults' = faults + 1
  /\ Answered(t, i, Failed(calls[t][i]))
  /\ UNCHANGED table

-----------------------------------------------------------------------------
(* An answer reaches the domain store. *)

\* Defect: the copy shown optimistically survives the failure of its update.
SettledKeeping(shown, call) ==
  CASE call.op = "load" -> IF call.result \in {"ok", "void"} THEN call.kept ELSE shown
    [] call.result = "ok" /\ call.copy # Null -> [shown EXCEPT ![call.id] = call.copy]
    [] call.op = "add" /\ call.result \in {"error", "conflict"} -> [shown EXCEPT ![call.id] = Null]
    [] call.op = "update" /\ call.result = "conflict" -> [shown EXCEPT ![call.id] = call.copy]
    [] call.op \in {"remove", "clear"} /\ call.result = "error" -> call.kept
    [] OTHER -> shown

\* What a tab shows once a call it made for a gesture is answered.
Settled(shown, call) ==
  CASE call.op = "load" -> IF call.result \in {"ok", "void"} THEN call.kept ELSE shown
    [] call.result = "ok" /\ call.copy # Null -> [shown EXCEPT ![call.id] = call.copy]
    [] call.op = "add" /\ call.result \in {"error", "conflict"} -> [shown EXCEPT ![call.id] = Null]
    [] call.op = "update" /\ call.result = "conflict" -> [shown EXCEPT ![call.id] = call.copy]
    [] call.op = "update" /\ call.result = "error" -> [shown EXCEPT ![call.id] = call.kept[call.id]]
    [] call.op \in {"remove", "clear"} /\ call.result = "error" -> call.kept
    [] OTHER -> shown

Settle(t, i) ==
  LET call == calls[t][i] IN
  /\ call.step = "back" /\ (call.gone \/ call.op \notin {"importClear", "importSave", "restoreSave"})
  /\ calls' = [calls EXCEPT ![t] = RemoveAt(@, i)]
  /\ cache' = IF call.gone THEN cache ELSE [cache EXCEPT ![t] = Settled(@, call)]
  /\ UNCHANGED <<table, importing, agent, made, imports, faults>>

\* Defect: only a conflict ends an import, a lost request does not.
StopsOnConflict(call) == call.result = "conflict"

Stops(call) == call.result \in {"error", "conflict"}

\* The next record of an import or of its undoing is saved; or there is none.
SaveNext(t, i, op, job, source) ==
  \/ /\ job.rest = {}
     /\ calls' = [calls EXCEPT ![t] = RemoveAt(@, i)]
     /\ importing' = [importing EXCEPT ![t] = Null]
  \/ \E id \in job.rest :
       /\ calls' = [calls EXCEPT ![t] = Append(RemoveAt(@, i), Call(op, id, WithoutRev(source[id]), Nobody))]
       /\ importing' = [importing EXCEPT ![t] = [job EXCEPT !.rest = @ \ {id}]]

Shown(t, call) ==
  IF call.result = "ok" /\ call.copy # Null THEN [cache[t] EXCEPT ![call.id] = call.copy] ELSE cache[t]

SettleImport(t, i) ==
  LET call == calls[t][i]
      job == importing[t]
      restore == [job EXCEPT !.rest = {id \in Ids : job.previous[id] # Null}]
  IN
  /\ call.step = "back" /\ ~call.gone
  /\ \/ /\ call.op \in {"importClear", "importSave"} /\ call.result \in {"ok", "void"}
        /\ cache' = [cache EXCEPT ![t] = Shown(t, call)]
        /\ SaveNext(t, i, "importSave", job, ImportFile)
     \/ /\ call.op \in {"importClear", "importSave"} /\ Stops(call)
        /\ cache' = [cache EXCEPT ![t] = job.previous]
        /\ SaveNext(t, i, "restoreSave", restore, job.previous)
     \/ /\ call.op = "restoreSave"
        /\ cache' = [cache EXCEPT ![t] = Shown(t, call)]
        /\ SaveNext(t, i, "restoreSave", job, job.previous)
  /\ UNCHANGED <<table, agent, made, imports, faults>>

\* The page is left and opened again: what was on its way may still execute.
Reload(t) ==
  /\ faults < MaxFaults
  /\ faults' = faults + 1
  /\ cache' = [cache EXCEPT ![t] = Nobody]
  /\ importing' = [importing EXCEPT ![t] = Null]
  /\ calls' = [calls EXCEPT ![t] = Append([i \in DOMAIN @ |-> [@[i] EXCEPT !.gone = TRUE]], LoadCall)]
  /\ UNCHANGED <<table, agent, made, imports>>

-----------------------------------------------------------------------------
(* An agent's transition: read, apply, conditional update, again on a miss. *)

AgentCalls(a) ==
  /\ made < MaxMade /\ agent[a].pc # "read" /\ agent[a].pc # "write"
  /\ made' = made + 1
  /\ \E id \in Ids, action \in AgentMoves :
       agent' = [agent EXCEPT ![a] = [Resting EXCEPT !.pc = "read", !.id = id, !.action = action,
                                                     !.event = made + 1]]
  /\ UNCHANGED <<table, cache, calls, importing, imports, faults>>

\* A call that came to an end is made once more under the same operation id, as an agent
\* does that did not hear the answer.
AgentRepeats(a) ==
  /\ agent[a].pc \notin {"idle", "read", "write"} /\ ~agent[a].again
  /\ agent' = [agent EXCEPT ![a] = [@ EXCEPT !.pc = "read", !.attempt = 0, !.current = Null, !.again = TRUE]]
  /\ UNCHANGED <<table, cache, calls, importing, made, imports, faults>>

\* Defect: a missed update writes the copy it has once more.
MissedNotRead(me) == me

\* Defect: a missed update is taken for a written one.
MissedAsWritten(me) == [me EXCEPT !.pc = "ok"]

\* Another writer was first: read again, a bounded number of times.
Missed(me) ==
  IF me.attempt + 1 < MaxAttempts THEN [me EXCEPT !.pc = "read", !.attempt = @ + 1]
  ELSE [me EXCEPT !.pc = "gave up"]

Carries(copy, event) == \E i \in DOMAIN copy.events : copy.events[i].id = event

\* Defect: an operation id the history carries already is not recognised.
AnswerForgetting(me, row) == IF row.status \in Sources[me.action] THEN "write" ELSE "invalid"

\* What the copy read says of the call: it was made before, it may be written, or another
\* actor moved the annotation first.
AnswerOf(me, row) ==
  IF Carries(row, me.event) THEN "ok"
  ELSE IF row.status \in Sources[me.action] THEN "write" ELSE "invalid"

AgentReads(a) ==
  LET me == agent[a]
      row == rows[me.id]
  IN
  /\ me.pc = "read"
  /\ agent' = [agent EXCEPT ![a] =
                 IF row = Null THEN [me EXCEPT !.pc = "not found"]
                 ELSE [me EXCEPT !.pc = AnswerOf(me, row), !.current = row]]
  /\ UNCHANGED <<table, cache, calls, importing, made, imports, faults>>

\* Defect: the transition leaves no event.
AppliedUnrecorded(me) == [me.current EXCEPT !.status = Target[me.action]]

Applied(me) ==
  [me.current EXCEPT !.status = Target[me.action],
                     !.events = Append(@, [type |-> EventOf[me.action], id |-> me.event])]

AgentWrites(a) ==
  LET me == agent[a] IN
  /\ me.pc = "write"
  /\ IF Matches(me.id, me.current.rev)
     THEN /\ Put(me.id, Rewritten(me.id, Applied(me))) /\ UNCHANGED lives
          /\ agent' = [agent EXCEPT ![a].pc = "ok"]
     ELSE agent' = [agent EXCEPT ![a] = Missed(me)] /\ UNCHANGED table
  /\ UNCHANGED <<cache, calls, importing, made, imports, faults>>

\* A request of the agent's, or its answer, is lost.
AgentFails(a) ==
  LET me == agent[a]
      lost == IF OnError = "throw" THEN "error" ELSE IF me.pc = "read" THEN "not found" ELSE "ok"
  IN
  /\ faults < MaxFaults /\ me.pc \in {"read", "write"}
  /\ faults' = faults + 1
  /\ agent' = [agent EXCEPT ![a].pc = lost]
  /\ \/ UNCHANGED table
     \/ /\ me.pc = "write" /\ Matches(me.id, me.current.rev)
        /\ Put(me.id, Rewritten(me.id, Applied(me))) /\ UNCHANGED lives
  /\ UNCHANGED <<cache, calls, importing, made, imports>>

TabStep(t) ==
  \/ Adds(t) \/ Updates(t) \/ Removes(t) \/ Clears(t) \/ Imports(t) \/ Reload(t)
  \/ \E i \in DOMAIN calls[t] : Fail(t, i)

Answer(t) ==
  \E i \in DOMAIN calls[t] : Execute(t, i) \/ Refetch(t, i) \/ Settle(t, i) \/ SettleImport(t, i)

Next ==
  \/ \E t \in Tabs : TabStep(t) \/ Answer(t)
  \/ \E a \in Agents : AgentCalls(a) \/ AgentRepeats(a) \/ AgentReads(a) \/ AgentWrites(a) \/ AgentFails(a)

\* The database answers and a started agent goes on; users, agents and faults are free.
Spec ==
  /\ Init /\ [][Next]_vars
  /\ \A t \in Tabs : WF_vars(Answer(t))
  /\ \A a \in Agents : WF_vars(AgentReads(a) \/ AgentWrites(a))

-----------------------------------------------------------------------------
(* What is checked. *)

\* Tables, caches and calls hold records; an answer is of its call.
TypeOK ==
  /\ rows \in [Ids -> Records \cup {Null}]
  /\ \A t \in Tabs : cache[t] \in [Ids -> Records \cup {Null}]
  /\ \A t \in Tabs : \A i \in DOMAIN calls[t] :
       /\ calls[t][i].step \in {"sent", "refetch", "back"}
       /\ calls[t][i].step = "back" <=> calls[t][i].result # "none"
  /\ \A id \in Ids : rows[id] # Null => rows[id].rev > 0 /\ rows[id].life = lives[id]

\* "concurrent transitions on one row cannot both succeed" and a stale copy never overwrites
\* a newer history (cloud-storage-adapter.ts:75-78, 86-88), of one and the same row: what is
\* written over a row continues the history it has, whichever clients raced for it.
RowContinues ==
  [][\A id \in Ids :
       rows[id] # Null /\ rows'[id] # Null /\ rows'[id] # rows[id] /\ rows'[id].read = rows[id].life
         => IsPrefix(rows[id].events, rows'[id].events) /\ rows'[id].rev = rows[id].rev + 1]_vars

\* The status of every row there ever was is the one its history leads to.
StatusExplained == \A v \in versions : Explained(v[2].status, v[2].events)

\* "a failed write is never shown as saved" (storage.ts:31-39): with no call under way, a tab
\* shows rows the table holds or has held, whatever failed, collided or was imported.
SettledIsSaved ==
  \A t \in Tabs :
    importing[t] = Null /\ (\A i \in DOMAIN calls[t] : calls[t][i].gone) =>
      \A id \in Ids : cache[t][id] # Null => <<id, cache[t][id]>> \in versions

Recorded(me) == \E v \in versions : v[1] = me.id /\ Carries(v[2], me.event)

\* An operation id stands in a history at most once.
RecordedOnce(record) ==
  \A i, j \in DOMAIN record.events :
    record.events[i].id = record.events[j].id /\ record.events[i].id > 0 => i = j

\* An agent told of success has its transition on record, one told of a refusal or of giving
\* up has not (cloud-storage-adapter.ts:150-163); a lost answer leaves it open.  When a call
\* is repeated, the transition is not recorded a second time, and no agent is told that
\* another was first when the copy it is shown carries its own transition.
AgentsAreToldTheTruth ==
  /\ \A v \in versions : RecordedOnce(v[2])
  /\ OnError = "throw" =>
       \A a \in Agents :
         LET me == agent[a] IN
         /\ me.pc = "ok" => Recorded(me)
         /\ me.pc \in {"not found", "invalid", "gave up"} /\ ~me.again => ~Recorded(me)
         /\ me.pc \in {"invalid", "gave up"} => ~Carries(me.current, me.event)

\* Every call is answered and every import comes to an end.
CallsAreAnswered == \A t \in Tabs : []<>(importing[t] = Null /\ calls[t] = <<>>)

\* However many others write, a mutate call ends (cloud-storage-adapter.ts:151).
MutateEnds == \A a \in Agents : agent[a].pc = "read" ~> agent[a].pc \notin {"read", "write"}

\* "the stale copy never overwrites a newer status or history"
\* (cloud-storage-adapter.ts:77-78).
StaleNeverOverwrites ==
  [][\A id \in Ids : rows[id] # Null /\ rows'[id] # Null =>
       IsPrefix(rows[id].events, rows'[id].events)]_vars
=============================================================================
