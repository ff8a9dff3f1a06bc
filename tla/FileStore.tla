------------------------------ MODULE FileStore ------------------------------
(***************************************************************************)
(* The annotation store of the MCP server (FileStorageAdapter) with its    *)
(* callers: browsers over HTTP and agent tools over MCP.                   *)
(*                                                                         *)
(* The store is one JSON file.  Every operation reads all of it, changes   *)
(* its copy and writes all of it back, so two overlapping operations would *)
(* undo each other; a promise queue runs them one at a time.  Here an      *)
(* operation is a call that is composed from what its caller read, sent,   *)
(* enqueued on arrival, and run in two steps, Load and Finish, between     *)
(* which other callbacks of the process may run.  The file itself is       *)
(* replaced by rename, so a crash leaves the old or the new one.           *)
(*                                                                         *)
(* Not modelled here: the store-wide counter `rev` and the change          *)
(* notification (nothing in the store depends on them), an unreadable      *)
(* file, and the access checks of the HTTP server.                         *)
(***************************************************************************)
EXTENDS StoreOps, FiniteSets

CONSTANTS
  Calls,        \* call slots, each used once
  OpIds,        \* operationIds agents pass
  CallKinds,    \* the kinds of calls callers make
  WidgetMoves,  \* bound: the transitions browsers make
  AgentMoves,   \* bound: the transitions agents make
  Initial,      \* what the file may hold when the server is first started
  Recreate,     \* whether a deleted id can come back: an import of an exported copy,
                \* a retried creation, an edit sent without the revision it was made on
  MaxCrashes    \* bound: crashes of the server

ASSUME CallsAreEvents == Calls \subseteq EventIds /\ OpIds \subseteq EventIds
ASSUME OpIdsAreNoCalls == OpIds \cap Calls = {}   \* an event without operationId has none of them
ASSUME NullIsNoEvent == Null \notin EventIds
ASSUME MovesAreActions ==
  WidgetMoves \subseteq Actions /\ AgentMoves \subseteq {"acknowledge", "claimFix", "dismiss"}
ASSUME SomeId == Ids # {}
ASSUME NullIsNoCall == Null \notin CallRecords
ASSUME InitialAreStores == Initial \subseteq Stores

VARIABLES
  file,      \* the store on disk
  queue,     \* calls waiting for their turn, the head may be running
  loaded,    \* the copy the running call works on, Null when none runs
  call,      \* what a call asks for, Null before it is composed
  stage,     \* "idle", "sent", "arrived", "done", or "lost" in a crash
  answer,    \* what a call is answered once it is done, Null before
  used,      \* ids ever given to an annotation
  crashes

vars == <<file, queue, loaded, call, stage, answer, used, crashes>>
callers == <<file, queue, loaded, answer, crashes>>

Init ==
  /\ file \in Initial
  /\ queue = <<>>
  /\ loaded = Null
  /\ call = [c \in Calls |-> Null]
  /\ stage = [c \in Calls |-> "idle"]
  /\ answer = [c \in Calls |-> Null]
  /\ used = {id \in Ids : file[id] # Null}
  /\ crashes = 0

-----------------------------------------------------------------------------
(* Callers compose a call from the record they have just read. *)

Request(c, kind, id) ==
  [ kind |-> kind, id |-> id, base |-> file[id], body |-> Null, expected |-> Null,
    action |-> "submit", event |-> c, keyed |-> FALSE ]

Send(c, request) ==
  /\ stage[c] = "idle"
  /\ request.kind \in CallKinds
  /\ call' = [call EXCEPT ![c] = request]
  /\ stage' = [stage EXCEPT ![c] = "sent"]
  /\ used' = IF request.kind \in {"put", "save"} THEN used \cup {request.id} ELSE used
  /\ UNCHANGED callers

\* A caller names the revision it read, or none when it knows of no copy.
Expectations(id) == {Null} \cup (IF file[id] = Null THEN {} ELSE {file[id].rev})

NewAnnotation(content, status) ==
  [ content |-> content, status |-> status, rev |-> 0,
    lifecycle |-> <<[type |-> "created", id |-> Null]>> ]

CreateCall(c) ==
  \E id \in Ids, content \in Contents, status \in {"draft", "pending"} :
    /\ id \notin used \/ Recreate
    /\ Send(c, [Request(c, "put", id) EXCEPT !.base = Null,
                                             !.body = NewAnnotation(content, status)])

EditCall(c) ==
  \E id \in Ids, content \in Contents, kind \in {"put", "save"} :
    /\ file[id] # Null
    /\ content # file[id].content
    /\ \E expected \in IF Recreate THEN Expectations(id) ELSE {file[id].rev} :
         Send(c, [Request(c, kind, id) EXCEPT !.body = [file[id] EXCEPT !.content = content],
                                              !.expected = expected])

\* The widget's own transition, written as a whole record.
MoveCall(c) ==
  \E id \in Ids, action \in WidgetMoves :
    /\ file[id] # Null
    /\ file[id].status \in Sources[action]
    /\ Send(c, [Request(c, "put", id) EXCEPT
                  !.body = [file[id] EXCEPT
                              !.status = Target[action],
                              !.lifecycle = Append(@, [type |-> EventOf[action], id |-> c])],
                  !.expected = file[id].rev])

RemoveCall(c) ==
  \E id \in Ids : \E expected \in Expectations(id) :
    Send(c, [Request(c, "remove", id) EXCEPT !.expected = expected])

ClearCall(c) == Send(c, [Request(c, "clear", CHOOSE id \in Ids : TRUE) EXCEPT !.base = Null])

AgentCall(c) ==
  \E id \in Ids, action \in AgentMoves, event \in OpIds \cup {c} :
    Send(c, [Request(c, "mutate", id) EXCEPT !.action = action, !.event = event,
                                             !.keyed = event \in OpIds])

Creates(request) == request.kind = "put" /\ request.base = Null

\* A caller that got no answer sends the call again: the call was lost, or it is
\* done and its answer was lost.  An agent also does so while the first call is
\* still on its way.
RetryCall(c) ==
  \E d \in Calls :
    /\ \/ stage[d] \in {"done", "lost"}
       \/ stage[d] \in {"sent", "arrived"} /\ call[d].kind = "mutate"
    /\ ~Creates(call[d]) \/ Recreate
    /\ Send(c, IF call[d].kind = "mutate" /\ ~call[d].keyed
               THEN [call[d] EXCEPT !.event = c] ELSE call[d])

-----------------------------------------------------------------------------
(* The server. *)

Arrive(c) ==
  /\ stage[c] = "sent"
  /\ queue' = Append(queue, c)
  /\ stage' = [stage EXCEPT ![c] = "arrived"]
  /\ UNCHANGED <<file, loaded, call, answer, used, crashes>>

\* Defect: a failed call rejects the shared chain, and nothing runs after it.
LoadUnlessPoisoned ==
  /\ queue # <<>>
  /\ loaded = Null
  /\ \A c \in Calls : answer[c] # "failed"
  /\ loaded' = file
  /\ UNCHANGED <<file, queue, call, stage, answer, used, crashes>>

\* The head of the queue starts once the call before it has settled.
Load ==
  /\ queue # <<>>
  /\ loaded = Null
  /\ loaded' = file
  /\ UNCHANGED <<file, queue, call, stage, answer, used, crashes>>

\* Defect: the copy a call worked on is kept for the next one.
SettleKeepingCopy(outcome) ==
  /\ answer' = [answer EXCEPT ![Head(queue)] = outcome]
  /\ stage' = [stage EXCEPT ![Head(queue)] = "done"]
  /\ queue' = Tail(queue)
  /\ UNCHANGED <<loaded, call, used, crashes>>

Settle(outcome) ==
  /\ answer' = [answer EXCEPT ![Head(queue)] = outcome]
  /\ stage' = [stage EXCEPT ![Head(queue)] = "done"]
  /\ queue' = Tail(queue)
  /\ loaded' = Null
  /\ UNCHANGED <<call, used, crashes>>

\* Decide on the loaded copy and, when the answer is "ok", persist all of it.
Finish ==
  /\ loaded # Null
  /\ LET request == call[Head(queue)]
         outcome == Outcome(loaded, request)
     IN  /\ file' = IF outcome = "ok" THEN Effect(loaded, request) ELSE file
         /\ Settle(outcome)

\* Defect: the file is replaced although the call is answered with an error.
FailPersistTooLate ==
  /\ loaded # Null
  /\ Outcome(loaded, call[Head(queue)]) = "ok"
  /\ file' = Effect(loaded, call[Head(queue)])
  /\ Settle("failed")

\* Writing the temporary file or renaming it throws: the call is rejected and
\* the queue moves on.
FailPersist ==
  /\ loaded # Null
  /\ Outcome(loaded, call[Head(queue)]) = "ok"
  /\ file' = file
  /\ Settle("failed")

\* The process dies and is started again: only the file survives.
Crash ==
  /\ crashes < MaxCrashes
  /\ crashes' = crashes + 1
  /\ queue' = <<>>
  /\ loaded' = Null
  /\ stage' = [c \in Calls |-> IF stage[c] = "arrived" THEN "lost" ELSE stage[c]]
  /\ UNCHANGED <<file, call, answer, used>>

Compose(c) ==
  \/ CreateCall(c) \/ EditCall(c) \/ MoveCall(c) \/ RemoveCall(c)
  \/ ClearCall(c) \/ AgentCall(c) \/ RetryCall(c)

Next ==
  \/ \E c \in Calls : Compose(c) \/ Arrive(c)
  \/ Load \/ Finish \/ FailPersist
  \/ Crash

Spec == Init /\ [][Next]_vars

\* The event loop of the server runs what is ready; callers and crashes are free.
Fairness == WF_vars(Load) /\ WF_vars(Finish)

FairSpec == Spec /\ Fairness
-----------------------------------------------------------------------------
(* Properties. *)

TypeOK ==
  /\ file \in Stores
  /\ queue \in Seq(Calls)
  /\ loaded \in Stores \cup {Null}
  /\ call \in [Calls -> CallRecords \cup {Null}]
  /\ stage \in [Calls -> {"idle", "sent", "arrived", "done", "lost"}]
  /\ answer \in [Calls -> Outcomes \cup {Null}]
  /\ used \subseteq Ids
  /\ crashes \in Nat

\* The queue keeps operations apart: nothing has changed the file since the
\* running call read it, whatever else the process did in between.
LoadedIsCurrent == loaded # Null => loaded = file

\* Calls take effect one at a time, on the records as they are at that instant
\* (file-storage-adapter.ts:29, transition-tool.ts:11-15).
Abs == INSTANCE AtomicStore WITH records <- file
Linearizable == Abs!AbsSpec

\* One event per operation: however often an agent repeats a call with the same
\* operationId, and whether or not the server crashed in between, the record
\* carries its event once (transition-tool.ts:17-20).
EventOnce ==
  \A id \in Ids :
    file[id] # Null =>
      \A i, j \in DOMAIN file[id].lifecycle :
        /\ file[id].lifecycle[i].id = file[id].lifecycle[j].id
        /\ file[id].lifecycle[i].id # Null
        => i = j

\* The status on disk is the one the history on disk leads to.
StatusExplained ==
  \A id \in Ids : file[id] # Null => Explained(file[id].status, file[id].lifecycle)

\* While a record lives its history only grows and every change of it is the
\* next revision: no write, however late or repeated, takes an event back.
HistoryGrows ==
  [][\A id \in Ids :
       file[id] # Null /\ file'[id] # Null /\ file'[id] # file[id] =>
         /\ IsPrefix(file[id].lifecycle, file'[id].lifecycle)
         /\ file'[id].rev = file[id].rev + 1]_vars

TookEffect(c) == stage[c] = "arrived" /\ stage'[c] = "done" /\ answer'[c] = "ok"

\* "a stale copy can never overwrite a newer status or history": an accepted
\* update was composed from the very record it replaces
\* (file-storage-adapter.ts:66-72).
StaleNeverOverwrites ==
  [][\A c \in Calls :
       TookEffect(c) /\ call[c].kind = "put" /\ ~Creates(call[c])
         => call[c].base = file[call[c].id]]_vars

Won(c) == stage[c] = "done" /\ call[c].kind = "mutate" /\ answer[c] \in {"ok", "replayed"}

\* A transition an agent was told has happened is on record, whatever happened
\* to the server or to other calls since, until the annotation is deleted.
WinIsDurable ==
  \A c \in Calls :
    Won(c) /\ file[call[c].id] # Null => HasEvent(file[call[c].id], call[c].event)

\* Every call that reaches the server is answered unless the server dies; a call
\* that fails does not block the ones behind it (file-storage-adapter.ts:145-159).
EveryCallSettles ==
  \A c \in Calls : stage[c] = "arrived" ~> stage[c] \in {"done", "lost"}
=============================================================================
