------------------------------ MODULE StoreOps ------------------------------
(***************************************************************************)
(* What each operation of the server's annotation store does to the store  *)
(* and what it answers, as if it ran alone (mcp/src/file-storage-adapter.ts*)
(* and the `apply` of mcp/src/tools/transition-tool.ts).                   *)
(*                                                                         *)
(* A store maps every id to its record, or to Null when it has none.  The  *)
(* position of a record in the file and all of an annotation but one       *)
(* editable field, its status and its history are left out.                *)
(*                                                                         *)
(* A call is a record                                                      *)
(*   kind     : "put", "save", "remove", "clear" or "mutate",              *)
(*   id       : the annotation it is about,                                *)
(*   base     : the record its caller read before composing it (Null: none)*)
(*   body     : the record it writes ("put", "save"),                      *)
(*   expected : its If-Match revision, Null without one,                   *)
(*   action   : the transition it asks for ("mutate"),                     *)
(*   event    : the identity of the event it would append ("mutate"),      *)
(*   keyed    : whether that identity is an operationId of the caller.     *)
(***************************************************************************)
EXTENDS Lifecycle

CONSTANTS
  Ids,        \* annotation ids
  Contents,   \* values of the editable part of an annotation
  EventIds,   \* identities of lifecycle events
  Null        \* no record, no revision, no event

ASSUME NullIsNoValue == Null \notin Nat

Events == [type : EventTypes, id : EventIds \cup {Null}]

Records == [content : Contents, status : Statuses, lifecycle : Seq(Events), rev : Nat]

ASSUME NullIsNoRecord == Null \notin Records

Stores == [Ids -> Records \cup {Null}]

Kinds == {"put", "save", "remove", "clear", "mutate"}

CallRecords ==
  [ kind     : Kinds,
    id       : Ids,
    base     : Records \cup {Null},
    body     : Records \cup {Null},
    expected : Nat \cup {Null},
    action   : Actions,
    event    : EventIds,
    keyed    : BOOLEAN ]

\* What a call is answered.  "failed" is a persist that threw.
Outcomes ==
  {"ok", "replayed", "conflict", "precondition_required", "not_found",
   "invalid_transition", "failed"}

\* Defect: any revision updates a record.
PutOutcomeUnchecked(record, expected) ==
  IF record = Null
  THEN IF expected = Null \/ expected = 0 THEN "ok" ELSE "conflict"
  ELSE IF expected = Null THEN "precondition_required" ELSE "ok"

\* An upsert keyed on a revision: creating needs none, updating the right one.
PutOutcome(record, expected) ==
  IF record = Null
  THEN IF expected = Null \/ expected = 0 THEN "ok" ELSE "conflict"
  ELSE IF expected = Null THEN "precondition_required"
       ELSE IF expected = record.rev THEN "ok" ELSE "conflict"

\* Deleting a missing record succeeds; a delete without revision is not checked.
RemoveOutcome(record, expected) ==
  IF record # Null /\ expected # Null /\ expected # record.rev THEN "conflict" ELSE "ok"

HasEvent(record, event) == \E i \in DOMAIN record.lifecycle : record.lifecycle[i].id = event

\* Defect: an operationId is not looked up in the history.
MutateOutcomeUnkeyed(record, call) ==
  IF record = Null THEN "not_found"
  ELSE IF record.status \in Sources[call.action] THEN "ok"
  ELSE "invalid_transition"

\* Defect: the transition is not checked against the status.
MutateOutcomeUnguarded(record, call) ==
  IF record = Null THEN "not_found"
  ELSE IF call.keyed /\ HasEvent(record, call.event) THEN "replayed"
  ELSE "ok"

MutateOutcome(record, call) ==
  IF record = Null THEN "not_found"
  ELSE IF call.keyed /\ HasEvent(record, call.event) THEN "replayed"
  ELSE IF record.status \in Sources[call.action] THEN "ok"
  ELSE "invalid_transition"

Outcome(store, call) ==
  CASE call.kind = "put"    -> PutOutcome(store[call.id], call.expected)
    [] call.kind = "remove" -> RemoveOutcome(store[call.id], call.expected)
    [] call.kind = "mutate" -> MutateOutcome(store[call.id], call)
    [] OTHER                -> "ok"

\* Defect: an update keeps the revision.
NextRevKept(record) == IF record = Null THEN 1 ELSE record.rev

\* Revisions start at 1 and count the accepted writes of a record.
NextRev(record) == IF record = Null THEN 1 ELSE record.rev + 1

Written(record, body) == [body EXCEPT !.rev = NextRev(record)]

\* Defect: the status becomes the name of the action.
TransitionedToAction(record, call) ==
  [ content   |-> record.content,
    status    |-> call.action,
    lifecycle |-> Append(record.lifecycle, [type |-> EventOf[call.action], id |-> call.event]),
    rev       |-> record.rev + 1 ]

Transitioned(record, call) ==
  [ content   |-> record.content,
    status    |-> Target[call.action],
    lifecycle |-> Append(record.lifecycle, [type |-> EventOf[call.action], id |-> call.event]),
    rev       |-> record.rev + 1 ]

\* The store after a call that was answered "ok"; every other answer leaves
\* the store as it was.
Effect(store, call) ==
  CASE call.kind \in {"put", "save"} ->
         [store EXCEPT ![call.id] = Written(store[call.id], call.body)]
    [] call.kind = "remove" -> [store EXCEPT ![call.id] = Null]
    [] call.kind = "mutate" ->
         [store EXCEPT ![call.id] = Transitioned(store[call.id], call)]
    [] OTHER -> [id \in Ids |-> Null]

After(store, call) == IF Outcome(store, call) = "ok" THEN Effect(store, call) ELSE store
=============================================================================
