--------------------------- MODULE FileStoreProofs ---------------------------
(***************************************************************************)
(* Proofs about FileStore: types, the exclusiveness of the queue, and the  *)
(* refinement of AtomicStore, and then what revisions and histories        *)
(* protect.                                                                *)
(*                                                                         *)
(* As long as no id is created twice and every edit names the revision it  *)
(* was made on, no accepted write was composed from another record than    *)
(* the one it replaces, histories only grow, and a transition an agent was *)
(* told of stays on record.  The run FileStoreRecreated shows that the     *)
(* first of these conditions is needed.                                    *)
(*                                                                         *)
(* Whoever calls and whatever ids come back, an event stands once in a     *)
(* history and every status is the one its history leads to; the latter    *)
(* rests on Induction, which unfolds StatusAfter.                          *)
(***************************************************************************)
EXTENDS FileStore, Induction

-----------------------------------------------------------------------------
(* The inductive invariant. *)

\* A call that was sent is known, and a write carries what it writes.
CallsReady ==
  \A c \in Calls :
    /\ stage[c] # "idle" => call[c] # Null
    /\ call[c] # Null /\ call[c].kind \in {"put", "save"} => call[c].body # Null

\* Only calls that arrived and are not answered wait in the queue, each once.
QueueArrived ==
  /\ \A i \in 1..Len(queue) : stage[queue[i]] = "arrived"
  /\ \A i, j \in 1..Len(queue) : queue[i] = queue[j] => i = j

\* A call that has read the file is the first of the queue.
RunningIsFirst == loaded # Null => queue # <<>>

IInv == TypeOK /\ LoadedIsCurrent /\ CallsReady /\ QueueArrived /\ RunningIsFirst
-----------------------------------------------------------------------------

\* Writing a typed record over a typed store gives a typed store.
LEMMA EffectTyped ==
  ASSUME NEW store \in Stores, NEW request \in CallRecords,
         Outcome(store, request) = "ok",
         request.kind \in {"put", "save"} => request.body # Null
  PROVE  Effect(store, request) \in Stores
<1>1. CASE request.kind \in {"put", "save"}
  <2>1. request.body \in Records
    BY <1>1 DEF CallRecords
  <2>2. NextRev(store[request.id]) \in Nat
    BY DEF NextRev, Stores, Records, CallRecords
  <2>3. Written(store[request.id], request.body) \in Records
    BY <2>1, <2>2 DEF Written, Records
  <2> QED
    BY <1>1, <2>3 DEF Effect, Stores, CallRecords
<1>2. CASE request.kind = "remove"
  BY <1>2 DEF Effect, Stores
<1>3. CASE request.kind = "clear"
  BY <1>3 DEF Effect, Stores
<1>4. CASE request.kind = "mutate"
  <2>1. store[request.id] \in Records
    BY <1>4 DEF Outcome, MutateOutcome, Stores, CallRecords
  <2>2. Transitioned(store[request.id], request) \in Records
    BY <2>1 DEF Transitioned, Records, CallRecords, Events, Target, EventOf, Actions,
                Statuses, EventTypes, TransitionEvents
  <2> QED
    BY <1>4, <2>2 DEF Effect, Stores, CallRecords
<1> QED
  BY <1>1, <1>2, <1>3, <1>4 DEF CallRecords, Kinds

LEMMA InitIInv == Init => IInv
BY InitialAreStores
   DEF Init, IInv, TypeOK, LoadedIsCurrent, CallsReady, QueueArrived, RunningIsFirst

\* Composing any well-formed call keeps the invariant.
LEMMA SendIInv ==
  ASSUME IInv, NEW c \in Calls, NEW request \in CallRecords,
         request.kind \in {"put", "save"} => request.body # Null,
         Send(c, request)
  PROVE  IInv'
<1> USE DEF IInv
<1>1. TypeOK'
  BY DEF TypeOK, Send, callers, CallRecords
<1>2. LoadedIsCurrent' /\ RunningIsFirst'
  BY DEF LoadedIsCurrent, RunningIsFirst, Send, callers
<1>3. CallsReady'
  BY NullIsNoCall DEF CallsReady, Send, TypeOK
<1>4. QueueArrived'
  BY DEF QueueArrived, Send, callers, TypeOK
<1> QED
  BY <1>1, <1>2, <1>3, <1>4

LEMMA RequestTyped ==
  ASSUME TypeOK, NEW c \in Calls, NEW kind \in Kinds, NEW id \in Ids
  PROVE  Request(c, kind, id) \in CallRecords
BY CallsAreEvents DEF TypeOK, Request, CallRecords, Stores, Actions

LEMMA ComposeIInv ==
  ASSUME IInv, NEW c \in Calls, Compose(c)
  PROVE  IInv'
<1>0. TypeOK /\ CallsReady
  BY DEF IInv
<1>1. CASE CreateCall(c)
  <2>1. PICK id \in Ids, content \in Contents, status \in {"draft", "pending"} :
          Send(c, [Request(c, "put", id) EXCEPT !.base = Null, !.body = NewAnnotation(content, status)])
    BY <1>1 DEF CreateCall
  <2>2. NewAnnotation(content, status) \in Records
    BY DEF NewAnnotation, Records, Events, Statuses, EventTypes
  <2>3. Request(c, "put", id) \in CallRecords
    BY <1>0, RequestTyped DEF Kinds
  <2>4. [Request(c, "put", id) EXCEPT !.base = Null, !.body = NewAnnotation(content, status)] \in CallRecords
    BY <2>2, <2>3 DEF CallRecords
  <2>5. NewAnnotation(content, status) # Null
    BY <2>2, NullIsNoRecord
  <2> QED
    BY <2>1, <2>4, <2>5, SendIInv DEF Request
<1>2. CASE EditCall(c)
  <2>1. PICK id \in Ids, content \in Contents, kind \in {"put", "save"} :
          /\ file[id] # Null
          /\ \E expected \in IF Recreate THEN Expectations(id) ELSE {file[id].rev} :
               Send(c, [Request(c, kind, id) EXCEPT !.body = [file[id] EXCEPT !.content = content],
                                                    !.expected = expected])
    BY <1>2 DEF EditCall
  <2>2. file[id] \in Records
    BY <1>0, <2>1 DEF TypeOK, Stores
  <2>3. PICK expected \in Nat \cup {Null} :
          Send(c, [Request(c, kind, id) EXCEPT !.body = [file[id] EXCEPT !.content = content],
                                               !.expected = expected])
    BY <2>1, <2>2 DEF Expectations, Records
  <2>4. [file[id] EXCEPT !.content = content] \in Records
    BY <2>2 DEF Records
  <2>5. Request(c, kind, id) \in CallRecords
    BY <1>0, RequestTyped DEF Kinds
  <2>6. [Request(c, kind, id) EXCEPT !.body = [file[id] EXCEPT !.content = content],
                                     !.expected = expected] \in CallRecords
    BY <2>3, <2>4, <2>5 DEF CallRecords
  <2>7. [file[id] EXCEPT !.content = content] # Null
    BY <2>4, NullIsNoRecord
  <2> QED
    BY <2>3, <2>6, <2>7, SendIInv DEF Request
<1>3. CASE MoveCall(c)
  <2>1. PICK id \in Ids, action \in WidgetMoves :
          /\ file[id] # Null
          /\ Send(c, [Request(c, "put", id) EXCEPT
                        !.body = [file[id] EXCEPT
                                    !.status = Target[action],
                                    !.lifecycle = Append(@, [type |-> EventOf[action], id |-> c])],
                        !.expected = file[id].rev])
    BY <1>3 DEF MoveCall
  <2> DEFINE event == [type |-> EventOf[action], id |-> c]
             body  == [file[id] EXCEPT !.status = Target[action],
                                       !.lifecycle = Append(@, event)]
  <2>2. file[id] \in Records
    BY <1>0, <2>1 DEF TypeOK, Stores
  <2>3. action \in Actions
    BY MovesAreActions
  <2>4. event \in Events /\ Target[action] \in Statuses
    BY <2>3, CallsAreEvents
       DEF Events, EventTypes, TransitionEvents, Target, EventOf, Actions, Statuses
  <2>5. body \in Records
    <3> HIDE DEF event
    <3>1. Append(file[id].lifecycle, event) \in Seq(Events)
      BY <2>2, <2>4 DEF Records
    <3>2. body = [file[id] EXCEPT !.status = Target[action],
                                  !.lifecycle = Append(file[id].lifecycle, event)]
      BY <2>2 DEF Records
    <3> QED
      BY <2>2, <2>4, <3>1, <3>2 DEF Records
  <2>6. Request(c, "put", id) \in CallRecords
    BY <1>0, RequestTyped DEF Kinds
  <2>7. [Request(c, "put", id) EXCEPT !.body = body, !.expected = file[id].rev] \in CallRecords
    BY <2>2, <2>5, <2>6 DEF CallRecords, Records
  <2>8. body # Null
    BY <2>5, NullIsNoRecord
  <2> QED
    BY <2>1, <2>7, <2>8, SendIInv DEF Request
<1>4. CASE RemoveCall(c)
  <2>1. PICK id \in Ids :
          \E expected \in Expectations(id) :
            Send(c, [Request(c, "remove", id) EXCEPT !.expected = expected])
    BY <1>4 DEF RemoveCall
  <2>2. PICK expected \in Nat \cup {Null} :
          Send(c, [Request(c, "remove", id) EXCEPT !.expected = expected])
    BY <1>0, <2>1 DEF Expectations, TypeOK, Stores, Records
  <2>3. Request(c, "remove", id) \in CallRecords
    BY <1>0, RequestTyped DEF Kinds
  <2>4. [Request(c, "remove", id) EXCEPT !.expected = expected] \in CallRecords
    BY <2>2, <2>3 DEF CallRecords
  <2> QED
    BY <2>2, <2>4, SendIInv DEF Request
<1>5. CASE ClearCall(c)
  <2> DEFINE id == CHOOSE id \in Ids : TRUE
  <2>1. Send(c, [Request(c, "clear", id) EXCEPT !.base = Null])
    BY <1>5 DEF ClearCall
  <2>2. id \in Ids
    BY SomeId
  <2> HIDE DEF id
  <2>3. Request(c, "clear", id) \in CallRecords
    BY <1>0, <2>2, RequestTyped DEF Kinds
  <2>4. [Request(c, "clear", id) EXCEPT !.base = Null] \in CallRecords
    BY <2>3 DEF CallRecords
  <2> QED
    BY <2>1, <2>4, SendIInv DEF Request
<1>6. CASE AgentCall(c)
  <2>1. PICK id \in Ids, action \in AgentMoves, event \in OpIds \cup {c} :
          Send(c, [Request(c, "mutate", id) EXCEPT !.action = action, !.event = event,
                                                   !.keyed = event \in OpIds])
    BY <1>6 DEF AgentCall
  <2> DEFINE keyed == event \in OpIds
  <2>2. Request(c, "mutate", id) \in CallRecords
    BY <1>0, RequestTyped DEF Kinds
  <2>3. action \in Actions /\ event \in EventIds /\ keyed \in BOOLEAN
    BY MovesAreActions, CallsAreEvents DEF Actions
  <2> HIDE DEF keyed
  <2>4. [Request(c, "mutate", id) EXCEPT !.action = action, !.event = event,
                                         !.keyed = keyed] \in CallRecords
    BY <2>2, <2>3 DEF CallRecords
  <2> QED
    BY <2>1, <2>4, SendIInv DEF Request, keyed
<1>7. CASE RetryCall(c)
  <2>1. PICK d \in Calls :
          /\ stage[d] # "idle"
          /\ Send(c, IF call[d].kind = "mutate" /\ ~call[d].keyed
                     THEN [call[d] EXCEPT !.event = c] ELSE call[d])
    BY <1>7 DEF RetryCall
  <2>2. call[d] \in CallRecords
    BY <1>0, <2>1 DEF TypeOK, CallsReady
  <2>3. CASE call[d].kind = "mutate" /\ ~call[d].keyed
    <3>1. [call[d] EXCEPT !.event = c] \in CallRecords
      BY <2>2, CallsAreEvents DEF CallRecords
    <3>2. [call[d] EXCEPT !.event = c].kind = "mutate"
      BY <2>2, <2>3 DEF CallRecords
    <3> QED
      BY <2>1, <2>3, <3>1, <3>2, SendIInv
  <2>4. CASE ~(call[d].kind = "mutate" /\ ~call[d].keyed)
    <3>1. call[d].kind \in {"put", "save"} => call[d].body # Null
      BY <1>0, <2>1, <2>2, NullIsNoCall DEF CallsReady
    <3>2. Send(c, call[d])
      BY <2>1, <2>4
    <3> QED
      BY <2>2, <3>1, <3>2, SendIInv
  <2> QED
    BY <2>3, <2>4
<1> QED
  BY <1>1, <1>2, <1>3, <1>4, <1>5, <1>6, <1>7 DEF Compose

LEMMA ArriveIInv ==
  ASSUME IInv, NEW c \in Calls, Arrive(c)
  PROVE  IInv'
<1> USE DEF IInv, Arrive
<1>1. TypeOK' /\ LoadedIsCurrent' /\ RunningIsFirst'
  BY DEF TypeOK, LoadedIsCurrent, RunningIsFirst
<1>2. CallsReady'
  BY DEF CallsReady, TypeOK
<1>3. queue \in Seq(Calls) /\ \A i \in 1..Len(queue) : queue[i] # c
  BY DEF QueueArrived, TypeOK
<1>4. QueueArrived'
  BY <1>3 DEF QueueArrived, TypeOK
<1> QED
  BY <1>1, <1>2, <1>4

LEMMA LoadIInv ==
  ASSUME IInv, Load
  PROVE  IInv'
BY DEF IInv, Load, TypeOK, LoadedIsCurrent, CallsReady, QueueArrived, RunningIsFirst

\* The answer of the head of the queue is one of the outcomes.
LEMMA OutcomeTyped ==
  ASSUME NEW store, NEW request
  PROVE  Outcome(store, request) \in Outcomes
BY DEF Outcome, PutOutcome, RemoveOutcome, MutateOutcome, Outcomes

\* Answering the head of the queue keeps the invariant when the file stays typed.
LEMMA SettleIInv ==
  ASSUME IInv, loaded # Null, NEW outcome \in Outcomes, Settle(outcome), file' \in Stores
  PROVE  IInv'
<1> USE DEF IInv, Settle
<1>1. queue \in Seq(Calls) /\ queue # <<>>
  BY DEF TypeOK, RunningIsFirst
<1>2. Head(queue) \in Calls /\ Tail(queue) \in Seq(Calls)
  BY <1>1
<1>3. TypeOK'
  BY <1>2 DEF TypeOK
<1>4. LoadedIsCurrent' /\ RunningIsFirst'
  BY DEF LoadedIsCurrent, RunningIsFirst
<1>5. CallsReady'
  BY <1>1, <1>2 DEF CallsReady, QueueArrived, TypeOK
<1>6. QueueArrived'
  <2>1. \A i \in 1..Len(Tail(queue)) :
          i + 1 \in 1..Len(queue) /\ Tail(queue)[i] = queue[i + 1] /\ queue[i + 1] # Head(queue)
    BY <1>1 DEF QueueArrived
  <2> QED
    BY <1>1, <1>2, <2>1 DEF QueueArrived, TypeOK
<1> QED
  BY <1>3, <1>4, <1>5, <1>6

\* What the running call works on.
LEMMA HeadReady ==
  ASSUME IInv, loaded # Null
  PROVE  /\ loaded = file /\ file \in Stores
         /\ Head(queue) \in Calls /\ stage[Head(queue)] = "arrived"
         /\ call[Head(queue)] \in CallRecords
         /\ call[Head(queue)].kind \in {"put", "save"} => call[Head(queue)].body # Null
<1> USE DEF IInv
<1>1. queue \in Seq(Calls) /\ queue # <<>>
  BY DEF TypeOK, RunningIsFirst
<1>2. Head(queue) \in Calls /\ stage[Head(queue)] = "arrived"
  BY <1>1 DEF QueueArrived
<1>3. call[Head(queue)] # Null
  BY <1>2 DEF CallsReady
<1> QED
  BY <1>2, <1>3 DEF LoadedIsCurrent, TypeOK, CallsReady

LEMMA FinishIInv ==
  ASSUME IInv, Finish
  PROVE  IInv'
<1> DEFINE request == call[Head(queue)]
           outcome == Outcome(loaded, request)
<1>1. /\ loaded # Null
      /\ file' = IF outcome = "ok" THEN Effect(loaded, request) ELSE file
      /\ Settle(outcome)
  BY DEF Finish
<1>2. outcome \in Outcomes
  BY OutcomeTyped
<1>3. file' \in Stores
  BY <1>1, HeadReady, EffectTyped
<1> QED
  BY <1>1, <1>2, <1>3, SettleIInv

LEMMA FailPersistIInv ==
  ASSUME IInv, FailPersist
  PROVE  IInv'
BY HeadReady, SettleIInv DEF FailPersist, Outcomes

LEMMA CrashIInv ==
  ASSUME IInv, Crash
  PROVE  IInv'
BY DEF IInv, Crash, TypeOK, LoadedIsCurrent, CallsReady, QueueArrived, RunningIsFirst

LEMMA StepIInv == IInv /\ [Next]_vars => IInv'
<1> SUFFICES ASSUME IInv, [Next]_vars PROVE IInv'
  OBVIOUS
<1>1. CASE \E c \in Calls : Compose(c)
  BY <1>1, ComposeIInv
<1>2. CASE \E c \in Calls : Arrive(c)
  BY <1>2, ArriveIInv
<1>3. CASE Load
  BY <1>3, LoadIInv
<1>4. CASE Finish
  BY <1>4, FinishIInv
<1>5. CASE FailPersist
  BY <1>5, FailPersistIInv
<1>6. CASE Crash
  BY <1>6, CrashIInv
<1>7. CASE UNCHANGED vars
  BY <1>7 DEF vars, IInv, TypeOK, LoadedIsCurrent, CallsReady, QueueArrived, RunningIsFirst
<1> QED
  BY <1>1, <1>2, <1>3, <1>4, <1>5, <1>6, <1>7 DEF Next

LEMMA Invariance == Spec => []IInv
BY InitIInv, StepIInv, PTL DEF Spec
-----------------------------------------------------------------------------
(* The theorems. *)

\* Every variable keeps its type, for any number of calls, ids and crashes.
THEOREM TypeCorrect == Spec => []TypeOK
<1>1. IInv => TypeOK
  BY DEF IInv
<1> QED
  BY <1>1, Invariance, PTL

\* No call decides on a copy of the file that is out of date: the promise queue
\* keeps read-check-write sections apart whatever the callers do, through failed
\* persists and crashes (file-storage-adapter.ts:16-30, 145-159).
THEOREM QueueExcludes == Spec => []LoadedIsCurrent
<1>1. IInv => LoadedIsCurrent
  BY DEF IInv
<1> QED
  BY <1>1, Invariance, PTL

\* AtomicStore extends StoreOps too: its operations are the same.
LEMMA SameOps ==
  ASSUME NEW store, NEW request
  PROVE  /\ Abs!Stores = Stores
         /\ Abs!CallRecords = CallRecords
         /\ Abs!Outcome(store, request) = Outcome(store, request)
         /\ Abs!After(store, request) = After(store, request)
<1>1. Abs!Events = Events
  BY DEF Abs!Events, Events, Abs!EventTypes, EventTypes, Abs!TransitionEvents, TransitionEvents,
         Abs!EventOf, EventOf, Abs!Actions, Actions
<1>2. Abs!Records = Records
  BY <1>1 DEF Abs!Records, Records, Abs!Statuses, Statuses
<1>3. Abs!Stores = Stores
  BY <1>2 DEF Abs!Stores, Stores
<1>4. Abs!CallRecords = CallRecords
  BY <1>2 DEF Abs!CallRecords, CallRecords, Abs!Kinds, Kinds, Abs!Actions, Actions
<1>5. Abs!Outcome(store, request) = Outcome(store, request)
  BY DEF Abs!Outcome, Outcome, Abs!PutOutcome, PutOutcome, Abs!RemoveOutcome, RemoveOutcome,
         Abs!MutateOutcome, MutateOutcome, Abs!HasEvent, HasEvent
<1>6. Abs!Effect(store, request) = Effect(store, request)
  BY DEF Abs!Effect, Effect, Abs!Written, Written, Abs!NextRev, NextRev,
         Abs!Transitioned, Transitioned
<1> QED
  BY <1>3, <1>4, <1>5, <1>6 DEF Abs!After, After

LEMMA ComposeSends ==
  ASSUME NEW c \in Calls, Compose(c)
  PROVE  \E request : Send(c, request)
<1>1. CASE CreateCall(c)
  BY <1>1 DEF CreateCall
<1>2. CASE EditCall(c)
  BY <1>2 DEF EditCall
<1>3. CASE MoveCall(c)
  BY <1>3 DEF MoveCall
<1>4. CASE RemoveCall(c)
  BY <1>4 DEF RemoveCall
<1>5. CASE ClearCall(c)
  BY <1>5 DEF ClearCall
<1>6. CASE AgentCall(c)
  BY <1>6 DEF AgentCall
<1>7. CASE RetryCall(c)
  BY <1>7 DEF RetryCall
<1> QED
  BY <1>1, <1>2, <1>3, <1>4, <1>5, <1>6, <1>7 DEF Compose

LEMMA ComposeRefines ==
  ASSUME IInv, IInv', NEW c \in Calls, Compose(c)
  PROVE  Abs!AbsCompose(c)
<1>1. PICK request : Send(c, request)
  BY ComposeSends
<1>2. call'[c] \in CallRecords
  BY <1>1 DEF IInv, TypeOK, CallsReady, Send
<1>3. call' = [call EXCEPT ![c] = call'[c]]
  BY <1>1 DEF Send, IInv, TypeOK
<1> QED
  BY <1>1, <1>2, <1>3, SameOps DEF Abs!AbsCompose, Send, callers

LEMMA FinishRefines ==
  ASSUME IInv, Finish
  PROVE  \E c \in Calls : Abs!AbsTakeEffect(c)
<1> DEFINE c == Head(queue)
<1>1. c \in Calls /\ stage[c] = "arrived" /\ loaded = file
  BY HeadReady DEF Finish
<1>2. /\ file' = After(file, call[c])
      /\ Settle(Outcome(file, call[c]))
  BY <1>1 DEF Finish, After
<1>3. Abs!AbsTakeEffect(c)
  BY <1>1, <1>2, SameOps DEF Abs!AbsTakeEffect, Settle
<1> QED
  BY <1>1, <1>3

LEMMA FailPersistRefines ==
  ASSUME IInv, FailPersist
  PROVE  \E c \in Calls : Abs!AbsTakeEffect(c)
<1>1. Head(queue) \in Calls /\ stage[Head(queue)] = "arrived"
  BY HeadReady DEF FailPersist
<1>2. Abs!AbsTakeEffect(Head(queue))
  BY <1>1 DEF Abs!AbsTakeEffect, FailPersist, Settle
<1> QED
  BY <1>1, <1>2

\* The store implements AtomicStore: a call takes effect in the one step that
\* answers it, on the records as they are then.
THEOREM StoreIsAtomic == Spec => Linearizable
<1>1. Init => Abs!AbsInit
  BY InitialAreStores, SameOps DEF Init, Abs!AbsInit
<1>2. IInv /\ IInv' /\ [Next]_vars => [Abs!AbsNext]_Abs!absVars
  <2> SUFFICES ASSUME IInv, IInv', [Next]_vars PROVE [Abs!AbsNext]_Abs!absVars
    OBVIOUS
  <2>1. CASE \E c \in Calls : Compose(c)
    BY <2>1, ComposeRefines DEF Abs!AbsNext
  <2>2. CASE \E c \in Calls : Arrive(c)
    BY <2>2 DEF Arrive, Abs!AbsNext, Abs!AbsArrive
  <2>3. CASE Load
    BY <2>3 DEF Load, Abs!absVars
  <2>4. CASE Finish
    BY <2>4, FinishRefines DEF Abs!AbsNext
  <2>5. CASE FailPersist
    BY <2>5, FailPersistRefines DEF Abs!AbsNext
  <2>6. CASE Crash
    BY <2>6 DEF Crash, Abs!AbsNext, Abs!AbsCrash
  <2>7. CASE UNCHANGED vars
    BY <2>7 DEF vars, Abs!absVars
  <2> QED
    BY <2>1, <2>2, <2>3, <2>4, <2>5, <2>6, <2>7 DEF Next
<1> QED
  BY <1>1, <1>2, Invariance, PTL DEF Spec, Linearizable, Abs!AbsSpec

-----------------------------------------------------------------------------
(* What revisions protect. *)

\* Callers that create an id once, name the revision they edit, and do not use the
\* unconditional save; no file holds a record of revision 0 (load gives it 1).
CarefulCallers ==
  /\ ~Recreate
  /\ "save" \notin CallKinds
  /\ \A store \in Initial, id \in Ids : store[id] # Null => store[id].rev > 0

(* The inductive invariant of what revisions protect. *)

Creation(c) == call[c] # Null /\ call[c].kind = "put" /\ call[c].base = Null
Update(c) == call[c] # Null /\ call[c].kind = "put" /\ call[c].base # Null
Pending(c) == stage[c] \in {"sent", "arrived"}

\* `id` is that of a creation which has not taken effect yet.
Awaited(id) == \E c \in Calls : Creation(c) /\ Pending(c) /\ call[c].id = id

\* Records have positive revisions and their ids count as used.
RecordsAreUsed == \A id \in Ids : file[id] # Null => file[id].rev > 0 /\ id \in used

NoSaves == \A c \in Calls : call[c] # Null => call[c].kind # "save"

\* A request to update names the positive revision of its base and continues its
\* base's history.
Continues(request) ==
  /\ request.expected = request.base.rev
  /\ request.base.rev > 0
  /\ IsPrefix(request.base.lifecycle, request.body.lifecycle)

\* The base of an update is an earlier record than the one on disk, or that one.
Follows(request) ==
  file[request.id] # Null =>
    /\ request.base.rev <= file[request.id].rev
    /\ request.base.rev = file[request.id].rev => request.base = file[request.id]

UpdatesFollow ==
  \A c \in Calls : Update(c) =>
    /\ Continues(call[c])
    /\ Follows(call[c])
    /\ call[c].id \in used
    /\ ~Awaited(call[c].id)

\* A creation that has not taken effect is the only one of its id, which no record has.
CreationsAreFirst ==
  \A c \in Calls : Creation(c) =>
    /\ call[c].id \in used
    /\ Pending(c) =>
         /\ file[call[c].id] = Null
         /\ \A d \in Calls : Creation(d) /\ call[d].id = call[c].id => d = c

HInv == RecordsAreUsed /\ NoSaves /\ UpdatesFollow /\ CreationsAreFirst
-----------------------------------------------------------------------------

LEMMA PrefixRefl ==
  ASSUME NEW S, NEW s \in Seq(S)
  PROVE  IsPrefix(s, s)
BY DEF IsPrefix

LEMMA PrefixAppend ==
  ASSUME NEW S, NEW s \in Seq(S), NEW e \in S
  PROVE  IsPrefix(s, Append(s, e))
<1>1. SubSeq(s, 1, Len(s)) = SubSeq(Append(s, e), 1, Len(s))
  OBVIOUS
<1> QED
  BY <1>1 DEF IsPrefix

LEMMA InitHInv ==
  ASSUME CarefulCallers, Init
  PROVE  HInv
BY DEF CarefulCallers, Init, HInv, RecordsAreUsed, NoSaves, UpdatesFollow, CreationsAreFirst,
       Creation, Update

\* Sending keeps the invariant when what is sent is careful.
LEMMA SendHInv ==
  ASSUME IInv, HInv, NEW c \in Calls, NEW request \in CallRecords, Send(c, request),
         request.kind # "save",
         request.kind = "put" /\ request.base = Null => request.id \notin used,
         request.kind = "put" /\ request.base # Null =>
           Continues(request) /\ Follows(request) /\ request.id \in used /\ ~Awaited(request.id)
  PROVE  HInv'
<1> USE DEF HInv
<1>1. /\ call' = [call EXCEPT ![c] = request]
      /\ stage' = [stage EXCEPT ![c] = "sent"]
      /\ used' = IF request.kind = "put" THEN used \cup {request.id} ELSE used
      /\ file' = file
      /\ call \in [Calls -> CallRecords \cup {Null}]
      /\ stage \in [Calls -> {"idle", "sent", "arrived", "done", "lost"}]
      /\ stage[c] = "idle" /\ request.id \in Ids
  BY DEF Send, callers, IInv, TypeOK, CallRecords, Kinds
<1>2. RecordsAreUsed' /\ NoSaves'
  BY <1>1 DEF RecordsAreUsed, NoSaves
<1>3. \A id \in used : ~Awaited(id) => ~Awaited(id)'
  BY <1>1 DEF Awaited, Creation, Pending
<1>4. UpdatesFollow'
  BY <1>1, <1>3 DEF UpdatesFollow, Update, Continues, Follows
<1>5. CreationsAreFirst'
  BY <1>1 DEF CreationsAreFirst, Creation, Pending, RecordsAreUsed
<1> QED
  BY <1>2, <1>4, <1>5

\* What a caller that reads a record writes back follows that record.
LEMMA EditFollows ==
  ASSUME IInv, HInv, NEW id \in Ids, file[id] # Null,
         NEW body \in Records, IsPrefix(file[id].lifecycle, body.lifecycle),
         NEW request \in CallRecords,
         request.id = id, request.base = file[id], request.body = body,
         request.expected = file[id].rev
  PROVE  Continues(request) /\ Follows(request) /\ request.id \in used /\ ~Awaited(request.id)
BY DEF IInv, TypeOK, Stores, Records, HInv, RecordsAreUsed, CreationsAreFirst, Continues,
       Follows, Awaited, Pending

LEMMA ComposeHInv ==
  ASSUME CarefulCallers, IInv, HInv, NEW c \in Calls, Compose(c)
  PROVE  HInv'
<1>0. TypeOK /\ CallsReady
  BY DEF IInv
<1>1. CASE CreateCall(c)
  <2>1. PICK id \in Ids, content \in Contents, status \in {"draft", "pending"} :
          /\ id \notin used
          /\ Send(c, [Request(c, "put", id) EXCEPT !.base = Null, !.body = NewAnnotation(content, status)])
    BY <1>1 DEF CreateCall, CarefulCallers
  <2> DEFINE request == [Request(c, "put", id) EXCEPT !.base = Null, !.body = NewAnnotation(content, status)]
  <2>2. NewAnnotation(content, status) \in Records
    BY DEF NewAnnotation, Records, Events, Statuses, EventTypes
  <2>3. Request(c, "put", id) \in CallRecords
    BY <1>0, RequestTyped DEF Kinds
  <2>4. request \in CallRecords
    BY <2>2, <2>3 DEF CallRecords
  <2>5. request.kind = "put" /\ request.base = Null /\ request.id = id
    BY DEF Request
  <2> HIDE DEF request
  <2> QED
    BY <2>1, <2>4, <2>5, SendHInv DEF request
<1>2. CASE EditCall(c)
  <2>1. PICK id \in Ids, content \in Contents, kind \in {"put", "save"} :
          /\ file[id] # Null
          /\ Send(c, [Request(c, kind, id) EXCEPT !.body = [file[id] EXCEPT !.content = content],
                                                  !.expected = file[id].rev])
    BY <1>2 DEF EditCall, CarefulCallers
  <2> DEFINE body == [file[id] EXCEPT !.content = content]
             request == [Request(c, kind, id) EXCEPT !.body = body, !.expected = file[id].rev]
  <2>2. file[id] \in Records
    BY <1>0, <2>1 DEF TypeOK, Stores
  <2>3. kind = "put"
    BY <2>1 DEF Send, CarefulCallers, Request
  <2>4. body \in Records /\ body.lifecycle = file[id].lifecycle
    BY <2>2 DEF Records
  <2>5. IsPrefix(file[id].lifecycle, body.lifecycle)
    BY <2>2, <2>4, PrefixRefl DEF Records
  <2>6. request \in CallRecords
    <3>1. Request(c, kind, id) \in CallRecords
      BY <1>0, RequestTyped DEF Kinds
    <3> QED
      BY <2>2, <2>4, <3>1 DEF CallRecords, Records
  <2>7. /\ request.kind = "put" /\ request.id = id /\ request.base = file[id]
        /\ request.body = body /\ request.expected = file[id].rev
    BY <2>3 DEF Request
  <2> HIDE DEF body, request
  <2>8. Continues(request) /\ Follows(request) /\ request.id \in used /\ ~Awaited(request.id)
    BY <2>1, <2>4, <2>5, <2>6, <2>7, EditFollows
  <2>9. Send(c, request)
    BY <2>1 DEF request, body
  <2>10. request.base # Null
    BY <2>1, <2>7
  <2> QED
    BY <2>6, <2>7, <2>8, <2>9, <2>10, SendHInv
<1>3. CASE MoveCall(c)
  <2>1. PICK id \in Ids, action \in WidgetMoves :
          /\ file[id] # Null
          /\ Send(c, [Request(c, "put", id) EXCEPT
                        !.body = [file[id] EXCEPT
                                    !.status = Target[action],
                                    !.lifecycle = Append(@, [type |-> EventOf[action], id |-> c])],
                        !.expected = file[id].rev])
    BY <1>3 DEF MoveCall
  <2> DEFINE event == [type |-> EventOf[action], id |-> c]
             body  == [file[id] EXCEPT !.status = Target[action],
                                       !.lifecycle = Append(@, event)]
             request == [Request(c, "put", id) EXCEPT !.body = body, !.expected = file[id].rev]
  <2>2. file[id] \in Records
    BY <1>0, <2>1 DEF TypeOK, Stores
  <2>3. event \in Events /\ Target[action] \in Statuses
    BY CallsAreEvents, MovesAreActions
       DEF Events, EventTypes, TransitionEvents, Target, EventOf, Actions, Statuses
  <2>4. body.lifecycle = Append(file[id].lifecycle, event)
    BY <2>2 DEF Records
  <2>5. body \in Records
    <3> HIDE DEF event
    <3>1. Append(file[id].lifecycle, event) \in Seq(Events)
      BY <2>2, <2>3 DEF Records
    <3>2. body = [file[id] EXCEPT !.status = Target[action],
                                  !.lifecycle = Append(file[id].lifecycle, event)]
      BY <2>2 DEF Records
    <3> QED
      BY <2>2, <2>3, <3>1, <3>2 DEF Records
  <2>6. IsPrefix(file[id].lifecycle, body.lifecycle)
    <3> HIDE DEF event, body
    <3> QED
      BY <2>2, <2>3, <2>4, PrefixAppend DEF Records
  <2>7. request \in CallRecords
    <3>1. Request(c, "put", id) \in CallRecords
      BY <1>0, RequestTyped DEF Kinds
    <3> HIDE DEF body
    <3> QED
      BY <2>2, <2>5, <3>1 DEF CallRecords, Records
  <2>8. /\ request.kind = "put" /\ request.id = id /\ request.base = file[id]
        /\ request.body = body /\ request.expected = file[id].rev
    BY DEF Request
  <2>9. Send(c, request)
    BY <2>1
  <2> HIDE DEF event, body, request
  <2>10. Continues(request) /\ Follows(request) /\ request.id \in used /\ ~Awaited(request.id)
    BY <2>1, <2>5, <2>6, <2>7, <2>8, EditFollows
  <2> QED
    BY <2>1, <2>7, <2>8, <2>9, <2>10, SendHInv
<1>4. CASE RemoveCall(c) \/ ClearCall(c) \/ AgentCall(c)
  <2>1. PICK request : /\ Send(c, request)
                       /\ request.kind \in {"remove", "clear", "mutate"}
    <3>1. CASE RemoveCall(c)
      <4>1. PICK id \in Ids : \E expected \in Expectations(id) :
              Send(c, [Request(c, "remove", id) EXCEPT !.expected = expected])
        BY <3>1 DEF RemoveCall
      <4>2. PICK expected : Send(c, [Request(c, "remove", id) EXCEPT !.expected = expected])
        BY <4>1
      <4>3. [Request(c, "remove", id) EXCEPT !.expected = expected].kind = "remove"
        BY DEF Request
      <4> QED
        BY <4>2, <4>3
    <3>2. CASE ClearCall(c)
      <4>1. [Request(c, "clear", CHOOSE id \in Ids : TRUE) EXCEPT !.base = Null].kind = "clear"
        BY DEF Request
      <4> QED
        BY <3>2, <4>1 DEF ClearCall
    <3>3. CASE AgentCall(c)
      <4>1. PICK id \in Ids, action \in AgentMoves, event \in OpIds \cup {c} :
              Send(c, [Request(c, "mutate", id) EXCEPT !.action = action, !.event = event,
                                                       !.keyed = event \in OpIds])
        BY <3>3 DEF AgentCall
      <4>2. [Request(c, "mutate", id) EXCEPT !.action = action, !.event = event,
                                             !.keyed = event \in OpIds].kind = "mutate"
        BY DEF Request
      <4> QED
        BY <4>1, <4>2
    <3> QED
      BY <1>4, <3>1, <3>2, <3>3
  <2>2. request \in CallRecords
    <3>1. IInv'
      BY ComposeIInv
    <3> QED
      BY <1>0, <2>1, <3>1 DEF IInv, TypeOK, CallsReady, Send
  <2> QED
    BY <2>1, <2>2, SendHInv
<1>5. CASE RetryCall(c)
  <2>1. PICK d \in Calls :
          /\ stage[d] # "idle"
          /\ ~Creates(call[d])
          /\ Send(c, IF call[d].kind = "mutate" /\ ~call[d].keyed
                     THEN [call[d] EXCEPT !.event = c] ELSE call[d])
    BY <1>5 DEF RetryCall, CarefulCallers
  <2>2. call[d] \in CallRecords /\ call[d] # Null
    BY <1>0, <2>1, NullIsNoCall DEF TypeOK, CallsReady
  <2>3. CASE call[d].kind = "mutate" /\ ~call[d].keyed
    <3>1. [call[d] EXCEPT !.event = c] \in CallRecords
      BY <2>2, CallsAreEvents DEF CallRecords
    <3>2. [call[d] EXCEPT !.event = c].kind = "mutate"
      BY <2>2, <2>3 DEF CallRecords
    <3> QED
      BY <2>1, <2>3, <3>1, <3>2, SendHInv
  <2>4. CASE ~(call[d].kind = "mutate" /\ ~call[d].keyed)
    <3>1. Send(c, call[d])
      BY <2>1, <2>4
    <3>2. call[d].kind # "save"
      BY <2>2 DEF HInv, NoSaves
    <3>3. call[d].kind = "put" => Update(d)
      BY <2>1, <2>2 DEF Creates, Update
    <3>4. call[d].kind = "put" =>
            /\ Continues(call[d]) /\ Follows(call[d])
            /\ call[d].id \in used /\ ~Awaited(call[d].id)
      BY <3>3 DEF HInv, UpdatesFollow
    <3> QED
      BY <2>1, <2>2, <3>1, <3>2, <3>4, SendHInv DEF Creates
  <2> QED
    BY <2>3, <2>4
<1> QED
  BY <1>1, <1>2, <1>3, <1>4, <1>5 DEF Compose

LEMMA ArriveHInv ==
  ASSUME IInv, HInv, NEW c \in Calls, Arrive(c)
  PROVE  HInv'
<1>1. \A id \in Ids : Awaited(id)' => Awaited(id)
  BY DEF Arrive, Awaited, Creation, Pending, IInv, TypeOK
<1>2. UpdatesFollow'
  <2>1. \A d \in Calls : call[d] # Null => call[d].id \in Ids
    BY DEF IInv, TypeOK, CallRecords
  <2> QED
    BY <1>1, <2>1 DEF Arrive, HInv, UpdatesFollow, Update, Follows
<1>3. CreationsAreFirst'
  BY DEF Arrive, HInv, CreationsAreFirst, Creation, Pending, IInv, TypeOK
<1> QED
  BY <1>2, <1>3 DEF Arrive, HInv, RecordsAreUsed, NoSaves

LEMMA IdleHInv ==
  ASSUME HInv, Load \/ UNCHANGED vars
  PROVE  HInv'
BY DEF Load, vars, HInv, RecordsAreUsed, NoSaves, UpdatesFollow, CreationsAreFirst,
       Creation, Update, Pending, Awaited, Follows

LEMMA CrashHInv ==
  ASSUME IInv, HInv, Crash
  PROVE  HInv'
<1>1. \A c \in Calls : Pending(c)' => Pending(c)
  BY DEF Crash, Pending, IInv, TypeOK
<1> QED
  BY <1>1 DEF Crash, HInv, RecordsAreUsed, NoSaves, UpdatesFollow, CreationsAreFirst,
              Creation, Update, Awaited, Follows

\* What the file may become of a record: it stays, it goes, it is created by the
\* running call, or its history continues under the next revision.
Progresses(id) ==
  \/ file'[id] = file[id]
  \/ file'[id] = Null
  \/ /\ file[id] # Null /\ file'[id] # Null
     /\ file'[id].rev = file[id].rev + 1
     /\ IsPrefix(file[id].lifecycle, file'[id].lifecycle)
  \/ /\ file[id] = Null /\ file'[id].rev = 1
     /\ Creation(Head(queue)) /\ call[Head(queue)].id = id

\* The running call settles its file as HInv wants it.
LEMMA SettleHInv ==
  ASSUME IInv, HInv, loaded # Null, NEW outcome \in Outcomes, Settle(outcome), file' \in Stores,
         \A id \in Ids : Progresses(id)
  PROVE  HInv'
<1> DEFINE c == Head(queue)
<1>1. /\ c \in Calls /\ stage[c] = "arrived" /\ call[c] \in CallRecords /\ call[c] # Null
      /\ stage' = [stage EXCEPT ![c] = "done"]
      /\ call' = call /\ used' = used
      /\ \A d \in Calls : Pending(d)' <=> Pending(d) /\ d # c
  BY HeadReady, NullIsNoCall DEF Settle, Pending, IInv, TypeOK
<1>2. \A d \in Calls : call[d] # Null => call[d] \in CallRecords /\ call[d].id \in Ids
  BY DEF IInv, TypeOK, CallRecords
<1>3. RecordsAreUsed'
  <2> SUFFICES ASSUME NEW id \in Ids, file'[id] # Null
               PROVE  file'[id].rev > 0 /\ id \in used
    BY <1>1 DEF RecordsAreUsed
  <2>1. file[id] # Null => file[id].rev \in Nat
    BY DEF IInv, TypeOK, Stores, Records
  <2> QED
    BY <1>1, <2>1 DEF Progresses, HInv, RecordsAreUsed, CreationsAreFirst
<1>4. NoSaves'
  BY <1>1 DEF HInv, NoSaves
<1>5. \A id \in Ids : Awaited(id)' => Awaited(id)
  BY <1>1 DEF Awaited, Creation
<1>6. UpdatesFollow'
  <2> SUFFICES ASSUME NEW d \in Calls, Update(d)
               PROVE  Follows(call[d])'
    BY <1>1, <1>2, <1>5 DEF HInv, UpdatesFollow, Update, Continues
  <2>1. call[d].id \in Ids /\ call[d].base \in Records /\ Follows(call[d]) /\ ~Awaited(call[d].id)
    BY <1>2 DEF HInv, UpdatesFollow, Update, CallRecords
  <2>2. ~(Creation(c) /\ call[c].id = call[d].id)
    BY <1>1, <2>1 DEF Awaited, Pending
  <2>3. file[call[d].id] # Null => file[call[d].id].rev \in Nat
    BY <2>1 DEF IInv, TypeOK, Stores, Records
  <2>4. call[d].base.rev \in Nat
    BY <2>1 DEF Records
  <2> QED
    BY <1>1, <2>1, <2>2, <2>3, <2>4 DEF Progresses, Follows
<1>7. CreationsAreFirst'
  <2> SUFFICES ASSUME NEW d \in Calls, Creation(d), Pending(d)'
               PROVE  file'[call[d].id] = Null
    BY <1>1 DEF HInv, CreationsAreFirst, Creation
  <2>1. /\ Pending(d) /\ d # c /\ call[d].id \in Ids
        /\ file[call[d].id] = Null
        /\ ~(Creation(c) /\ call[c].id = call[d].id)
    BY <1>1, <1>2 DEF HInv, CreationsAreFirst, Creation
  <2> QED
    BY <2>1 DEF Progresses
<1> QED
  BY <1>3, <1>4, <1>6, <1>7 DEF HInv

\* An update that is accepted replaces the very record it was composed from.
LEMMA AcceptedUpdate ==
  ASSUME IInv, HInv, loaded # Null, Update(Head(queue)),
         Outcome(loaded, call[Head(queue)]) = "ok"
  PROVE  /\ file[call[Head(queue)].id] # Null
         /\ call[Head(queue)].base = file[call[Head(queue)].id]
<1> DEFINE request == call[Head(queue)]
<1>1. /\ loaded = file /\ request \in CallRecords /\ Head(queue) \in Calls
      /\ Continues(request) /\ Follows(request) /\ request.kind = "put"
  BY HeadReady DEF HInv, UpdatesFollow, Update
<1>2. PutOutcome(file[request.id], request.expected) = "ok"
  BY <1>1 DEF Outcome
<1>3. request.expected \in Nat /\ request.expected > 0 /\ request.expected # Null
  BY <1>1, NullIsNoValue DEF Continues, CallRecords, Records, Update
<1>4. file[request.id] # Null /\ request.expected = file[request.id].rev
  BY <1>2, <1>3 DEF PutOutcome
<1> QED
  BY <1>1, <1>4 DEF Continues, Follows

LEMMA FinishProgresses ==
  ASSUME IInv, HInv, Finish
  PROVE  \A id \in Ids : Progresses(id)
<1> DEFINE c == Head(queue)
           request == call[c]
<1>1. /\ loaded # Null /\ loaded = file /\ file \in Stores /\ request \in CallRecords
      /\ c \in Calls /\ request # Null /\ stage[c] = "arrived" /\ request.id \in Ids
      /\ request.kind \in {"put", "save"} => request.body # Null
  BY HeadReady, NullIsNoCall DEF Finish, CallRecords
<1>2. file' = IF Outcome(file, request) = "ok" THEN Effect(file, request) ELSE file
  BY <1>1 DEF Finish
<1> SUFFICES ASSUME NEW id \in Ids, Outcome(file, request) = "ok", file' = Effect(file, request)
             PROVE  Progresses(id)
  BY <1>2 DEF Progresses
<1>3. CASE request.kind = "put"
  <2>1. file' = [file EXCEPT ![request.id] = Written(file[request.id], request.body)]
    BY <1>3 DEF Effect
  <2>2. CASE id # request.id
    BY <1>1, <2>1, <2>2 DEF Progresses, Stores
  <2>3. CASE id = request.id /\ Creation(c)
    <3>1. file[id] = Null
      BY <1>1, <2>3 DEF HInv, CreationsAreFirst, Pending
    <3>2. request.body \in Records
      BY <1>1, <1>3 DEF CallRecords
    <3>3. file'[id] = [request.body EXCEPT !.rev = 1]
      BY <1>1, <2>1, <2>3, <3>1 DEF Written, NextRev, Stores
    <3>4. file'[id].rev = 1
      BY <3>2, <3>3 DEF Records
    <3> QED
      BY <2>3, <3>1, <3>4 DEF Progresses
  <2>4. CASE id = request.id /\ ~Creation(c)
    <3>1. Update(c)
      BY <1>1, <1>3, <2>4 DEF Update, Creation
    <3>2. file[id] # Null /\ request.base = file[id]
      BY <1>1, <2>4, <3>1, AcceptedUpdate
    <3>3. request.body \in Records /\ file[id] \in Records
      BY <1>1, <1>3, <3>2 DEF CallRecords, Stores
    <3>4. file'[id] = [request.body EXCEPT !.rev = file[id].rev + 1]
      BY <1>1, <2>1, <2>4, <3>2 DEF Written, NextRev, Stores
    <3>5. file'[id].rev = file[id].rev + 1 /\ file'[id].lifecycle = request.body.lifecycle
      BY <3>3, <3>4 DEF Records
    <3>6. file'[id] \in Records
      BY <3>3, <3>4 DEF Records
    <3>7. IsPrefix(file[id].lifecycle, file'[id].lifecycle)
      BY <1>1, <3>1, <3>2, <3>5 DEF HInv, UpdatesFollow, Continues
    <3> QED
      BY <3>2, <3>5, <3>6, <3>7, NullIsNoRecord DEF Progresses
  <2> QED
    BY <2>2, <2>3, <2>4
<1>4. CASE request.kind = "mutate"
  <2>1. file' = [file EXCEPT ![request.id] = Transitioned(file[request.id], request)]
    BY <1>4 DEF Effect
  <2>2. CASE id # request.id
    BY <1>1, <2>1, <2>2 DEF Progresses, Stores
  <2>3. CASE id = request.id
    <3> DEFINE event == [type |-> EventOf[request.action], id |-> request.event]
    <3>1. file[id] # Null /\ file[id] \in Records
      BY <1>1, <1>4, <2>3 DEF Outcome, MutateOutcome, Stores
    <3>2. event \in Events
      BY <1>1 DEF CallRecords, Events, EventOf, Actions, EventTypes, TransitionEvents
    <3>3. file'[id] = Transitioned(file[id], request)
      BY <1>1, <2>1, <2>3 DEF Stores
    <3>4. /\ file'[id].rev = file[id].rev + 1
          /\ file'[id].lifecycle = Append(file[id].lifecycle, event)
      BY <3>3 DEF Transitioned
    <3>5. file'[id] # Null
      <4>1. IInv'
        BY FinishIInv
      <4>2. Transitioned(file[id], request) \in Records
        BY <1>1, <3>1 DEF Transitioned, Records, CallRecords, Events, Target, EventOf, Actions,
                          Statuses, EventTypes, TransitionEvents
      <4> QED
        BY <3>3, <4>2, NullIsNoRecord
    <3> HIDE DEF event
    <3>6. IsPrefix(file[id].lifecycle, file'[id].lifecycle)
      BY <3>1, <3>2, <3>4, PrefixAppend DEF Records
    <3> QED
      BY <3>1, <3>4, <3>5, <3>6 DEF Progresses
  <2> QED
    BY <2>2, <2>3
<1>5. CASE request.kind \in {"remove", "clear"}
  BY <1>1, <1>5 DEF Effect, Progresses, Stores
<1>6. request.kind # "save"
  BY <1>1 DEF HInv, NoSaves
<1> QED
  BY <1>1, <1>3, <1>4, <1>5, <1>6 DEF CallRecords, Kinds

LEMMA StepHInv ==
  ASSUME CarefulCallers, IInv, HInv, [Next]_vars
  PROVE  HInv'
<1>1. CASE \E c \in Calls : Compose(c)
  BY <1>1, ComposeHInv
<1>2. CASE \E c \in Calls : Arrive(c)
  BY <1>2, ArriveHInv
<1>3. CASE Load \/ UNCHANGED vars
  BY <1>3, IdleHInv
<1>4. CASE Finish
  <2>1. \A id \in Ids : Progresses(id)
    BY <1>4, FinishProgresses
  <2>2. Outcome(loaded, call[Head(queue)]) \in Outcomes
    BY OutcomeTyped
  <2>3. file' \in Stores
    BY <1>4, FinishIInv DEF IInv, TypeOK
  <2> QED
    BY <1>4, <2>1, <2>2, <2>3, SettleHInv DEF Finish
<1>5. CASE FailPersist
  <2>1. \A id \in Ids : Progresses(id)
    BY <1>5 DEF FailPersist, Progresses
  <2> QED
    BY <1>5, <2>1, HeadReady, SettleHInv DEF FailPersist, Outcomes
<1>6. CASE Crash
  BY <1>6, CrashHInv
<1> QED
  BY <1>1, <1>2, <1>3, <1>4, <1>5, <1>6 DEF Next

LEMMA HistoryInvariance ==
  ASSUME CarefulCallers
  PROVE  Spec => [](IInv /\ HInv)
<1>1. Init => HInv
  BY InitHInv
<1>2. IInv /\ HInv /\ [Next]_vars => HInv'
  BY StepHInv
<1> QED
  BY <1>1, <1>2, Invariance, PTL DEF Spec
-----------------------------------------------------------------------------
(* What histories say, whoever calls: an event stands once in a history, and  *)
(* a status is the one its history leads to.                                  *)

\* Before the server was first started it wrote nothing, and what it finds is in order.
Once(events) ==
  \A i, j \in DOMAIN events : events[i].id = events[j].id /\ events[i].id # Null => i = j

OrderlyStart ==
  \A store \in Initial, id \in Ids : store[id] # Null =>
    /\ Once(store[id].lifecycle)
    /\ \A c \in Calls : ~HasEvent(store[id], c)
    /\ Explained(store[id].status, store[id].lifecycle)

\* The calls whose event nobody can have written yet.
Unborn ==
  {c \in Calls : \/ stage[c] = "idle"
                 \/ Pending(c) /\ call[c].kind = "mutate" /\ ~call[c].keyed}

Orderly(record, unborn) ==
  /\ Once(record.lifecycle)
  /\ \A c \in unborn : ~HasEvent(record, c)
  /\ Explained(record.status, record.lifecycle)

OwnEvent(c, request) == IF request.keyed THEN request.event \in OpIds ELSE request.event = c

OInv ==
  /\ \A id \in Ids : file[id] # Null => Orderly(file[id], Unborn)
  /\ \A c \in Calls : call[c] # Null =>
       /\ call[c].kind \in {"put", "save"} => Orderly(call[c].body, Unborn)
       /\ call[c].kind = "mutate" => OwnEvent(c, call[c])

LEMMA InitOInv ==
  ASSUME OrderlyStart, Init
  PROVE  OInv
BY DEF OrderlyStart, Init, OInv, Orderly, Unborn, Pending

LEMMA OnceAppend ==
  ASSUME NEW S, NEW s \in Seq(S), NEW e \in S, Once(s),
         e.id = Null \/ \A i \in DOMAIN s : s[i].id # e.id
  PROVE  Once(Append(s, e))
<1> DEFINE t == Append(s, e)
           n == Len(s)
<1>1. DOMAIN t = DOMAIN s \cup {n + 1} /\ t[n + 1] = e /\ \A i \in DOMAIN s : t[i] = s[i]
  OBVIOUS
<1> HIDE DEF t
<1> SUFFICES ASSUME NEW i \in DOMAIN t, NEW j \in DOMAIN t, t[i].id = t[j].id, t[i].id # Null
             PROVE  i = j
  BY DEF Once, t
<1> QED
  BY <1>1 DEF Once

\* A transition that the table allows continues an orderly record.
LEMMA MoveOrderly ==
  ASSUME NEW record \in Records, NEW unborn, Orderly(record, unborn), NEW action \in Actions,
         record.status \in Sources[action], NEW event \in EventIds,
         ~HasEvent(record, event), NEW moved \in Records,
         moved.status = Target[action],
         moved.lifecycle = Append(record.lifecycle, [type |-> EventOf[action], id |-> event])
  PROVE  /\ Once(moved.lifecycle)
         /\ \A e : HasEvent(moved, e) <=> HasEvent(record, e) \/ e = event
         /\ Explained(moved.status, moved.lifecycle)
<1> DEFINE e == [type |-> EventOf[action], id |-> event]
           s == record.lifecycle
<1>1. s \in Seq(Events) /\ e \in Events
  BY DEF Records, Events, EventTypes, TransitionEvents
<1>2. e.id = event /\ e.type = EventOf[action] /\ moved.lifecycle = Append(s, e)
  OBVIOUS
<1> HIDE DEF e
<1>3. Once(moved.lifecycle)
  BY <1>1, <1>2, OnceAppend DEF Orderly, HasEvent
<1>4. \A x : HasEvent(moved, x) <=> HasEvent(record, x) \/ x = event
  <2>1. /\ DOMAIN moved.lifecycle = DOMAIN s \cup {Len(s) + 1}
        /\ moved.lifecycle[Len(s) + 1] = e
        /\ \A i \in DOMAIN s : moved.lifecycle[i] = s[i]
    BY <1>1, <1>2
  <2> QED
    BY <1>2, <2>1 DEF HasEvent
<1>5. Explained(moved.status, moved.lifecycle)
  <2>1. Explained(record.status, s) /\ moved.status = Target[action]
    BY DEF Orderly
  <2> HIDE DEF s
  <2>2. Explained(Target[action], Append(s, e))
    BY <1>1, <1>2, <2>1, MoveExplained
  <2> QED
    BY <1>2, <2>1, <2>2
<1> QED
  BY <1>3, <1>4, <1>5

LEMMA FewerUnborn ==
  ASSUME NEW record, NEW unborn, Orderly(record, unborn), NEW fewer \in SUBSET unborn
  PROVE  Orderly(record, fewer)
BY DEF Orderly

\* Sending keeps the records in order when what is sent is.
LEMMA SendOInv ==
  ASSUME IInv, OInv, NEW c \in Calls, NEW request \in CallRecords, Send(c, request),
         request.kind \in {"put", "save"} => Orderly(request.body, Unborn \ {c}),
         request.kind = "mutate" => OwnEvent(c, request)
  PROVE  OInv'
<1>1. /\ call' = [call EXCEPT ![c] = request] /\ stage' = [stage EXCEPT ![c] = "sent"]
      /\ file' = file /\ stage[c] = "idle"
      /\ call \in [Calls -> CallRecords \cup {Null}]
      /\ stage \in [Calls -> {"idle", "sent", "arrived", "done", "lost"}]
  BY DEF Send, callers, IInv, TypeOK
<1>2. Unborn' \subseteq Unborn
  BY <1>1 DEF Unborn, Pending
<1>3. request.kind \in {"put", "save"} => Unborn' \subseteq Unborn \ {c}
  BY <1>1, <1>2 DEF Unborn, Pending
<1>4. ASSUME NEW id \in Ids, file'[id] # Null PROVE Orderly(file'[id], Unborn')
  BY <1>1, <1>2, <1>4, FewerUnborn DEF OInv
<1>5. ASSUME NEW d \in Calls, call'[d] # Null
      PROVE  /\ call'[d].kind \in {"put", "save"} => Orderly(call'[d].body, Unborn')
             /\ call'[d].kind = "mutate" => OwnEvent(d, call'[d])
  BY <1>1, <1>2, <1>3, <1>5, FewerUnborn DEF OInv
<1> QED
  BY <1>4, <1>5 DEF OInv

LEMMA EditOrderly ==
  ASSUME NEW record \in Records, NEW unborn, Orderly(record, unborn), NEW content
  PROVE  Orderly([record EXCEPT !.content = content], unborn)
BY DEF Orderly, Records, HasEvent

LEMMA NewOrderly ==
  ASSUME NEW content, NEW status \in {"draft", "pending"}, NEW unborn \in SUBSET Calls
  PROVE  Orderly(NewAnnotation(content, status), unborn)
<1> DEFINE e == [type |-> "created", id |-> Null]
           new == NewAnnotation(content, status)
<1>1. new.status = status /\ new.lifecycle = <<e>>
  BY DEF NewAnnotation
<1>2. Once(new.lifecycle) /\ \A c \in unborn : ~HasEvent(new, c)
  BY <1>1, NullIsNoEvent, CallsAreEvents DEF Once, HasEvent
<1>3. StatusAfter(status, <<e>>) = status
  <2>1. status \in Reachable /\ << >> \in Seq({e}) /\ Append(<< >>, e) = <<e>>
    BY DEF Reachable, Statuses
  <2>2. StatusAfter(status, <<e>>) = Replayed(status, e)
    BY <2>1, StatusAppend, StatusOfNone
  <2> QED
    BY <2>2 DEF Replayed
<1> QED
  BY <1>1, <1>2, <1>3 DEF Orderly, Explained

LEMMA ComposeOInv ==
  ASSUME IInv, OInv, NEW c \in Calls, Compose(c)
  PROVE  OInv'
<1>0. TypeOK /\ CallsReady /\ IInv'
  BY ComposeIInv DEF IInv
<1>a. ASSUME NEW request, Send(c, request) PROVE request \in CallRecords /\ stage[c] = "idle"
  BY <1>0, <1>a DEF Send, TypeOK, CallsReady, IInv
<1>b. c \in Unborn /\ Unborn \subseteq Calls
  <2>1. PICK request : Send(c, request)
    BY ComposeSends
  <2> QED
    BY <2>1 DEF Send, Unborn
<1>1. CASE CreateCall(c)
  <2>1. PICK id \in Ids, content \in Contents, status \in {"draft", "pending"} :
          Send(c, [Request(c, "put", id) EXCEPT !.base = Null, !.body = NewAnnotation(content, status)])
    BY <1>1 DEF CreateCall
  <2> DEFINE request == [Request(c, "put", id) EXCEPT !.base = Null, !.body = NewAnnotation(content, status)]
  <2>2. request.kind = "put" /\ request.body = NewAnnotation(content, status)
    BY DEF Request
  <2>3. Orderly(NewAnnotation(content, status), Unborn \ {c})
    BY <1>b, NewOrderly
  <2> HIDE DEF request
  <2> QED
    BY <1>a, <2>1, <2>2, <2>3, SendOInv DEF request
<1>2. CASE EditCall(c)
  <2>1. PICK id \in Ids, content \in Contents, kind \in {"put", "save"} :
          /\ file[id] # Null
          /\ \E expected \in IF Recreate THEN Expectations(id) ELSE {file[id].rev} :
               Send(c, [Request(c, kind, id) EXCEPT !.body = [file[id] EXCEPT !.content = content],
                                                    !.expected = expected])
    BY <1>2 DEF EditCall
  <2>2. PICK expected : Send(c, [Request(c, kind, id) EXCEPT !.body = [file[id] EXCEPT !.content = content],
                                                             !.expected = expected])
    BY <2>1
  <2> DEFINE body == [file[id] EXCEPT !.content = content]
             request == [Request(c, kind, id) EXCEPT !.body = body, !.expected = expected]
  <2>3. Orderly(body, Unborn \ {c})
    <3>1. file[id] \in Records /\ Orderly(file[id], Unborn)
      BY <1>0, <2>1 DEF TypeOK, Stores, OInv
    <3>2. Orderly(file[id], Unborn \ {c})
      BY <3>1, FewerUnborn
    <3> QED
      BY <3>1, <3>2, EditOrderly
  <2> HIDE DEF body
  <2>4. request.kind \in {"put", "save"} /\ request.body = body
    BY DEF Request
  <2>5. Send(c, request)
    BY <2>2 DEF body
  <2> HIDE DEF request
  <2> QED
    BY <1>a, <2>3, <2>4, <2>5, SendOInv
<1>3. CASE MoveCall(c)
  <2>1. PICK id \in Ids, action \in WidgetMoves :
          /\ file[id] # Null
          /\ file[id].status \in Sources[action]
          /\ Send(c, [Request(c, "put", id) EXCEPT
                        !.body = [file[id] EXCEPT
                                    !.status = Target[action],
                                    !.lifecycle = Append(@, [type |-> EventOf[action], id |-> c])],
                        !.expected = file[id].rev])
    BY <1>3 DEF MoveCall
  <2> DEFINE body == [file[id] EXCEPT
                        !.status = Target[action],
                        !.lifecycle = Append(@, [type |-> EventOf[action], id |-> c])]
             request == [Request(c, "put", id) EXCEPT !.body = body, !.expected = file[id].rev]
  <2>2. file[id] \in Records /\ Orderly(file[id], Unborn) /\ ~HasEvent(file[id], c)
    BY <1>0, <1>b, <2>1 DEF TypeOK, Stores, OInv, Orderly
  <2>3. request.kind = "put" /\ request.body = body
    BY DEF Request
  <2>4. Send(c, request)
    BY <2>1
  <2>5. body \in Records
    <3> HIDE DEF body
    <3>1. request \in CallRecords
      BY <1>a, <2>4
    <3>2. request.body # Null
      BY <1>0, <2>3, <2>4, <3>1, NullIsNoCall DEF Send, IInv, TypeOK, CallsReady
    <3> QED
      BY <2>3, <3>1, <3>2 DEF CallRecords
  <2>6. /\ body.status = Target[action]
        /\ body.lifecycle = Append(file[id].lifecycle, [type |-> EventOf[action], id |-> c])
    BY <2>2 DEF Records
  <2> HIDE DEF body, request
  <2>7. Orderly(body, Unborn \ {c})
    <3>1. action \in Actions /\ c \in EventIds
      BY MovesAreActions, CallsAreEvents
    <3>2. /\ Once(body.lifecycle) /\ Explained(body.status, body.lifecycle)
          /\ \A e : HasEvent(body, e) <=> HasEvent(file[id], e) \/ e = c
      BY <2>1, <2>2, <2>5, <2>6, <3>1, MoveOrderly
    <3> QED
      BY <2>2, <3>2 DEF Orderly
  <2> QED
    BY <1>a, <2>3, <2>4, <2>7, SendOInv
<1>4. CASE RemoveCall(c) \/ ClearCall(c)
  <2>1. PICK request : Send(c, request) /\ request.kind \in {"remove", "clear"}
    <3>1. CASE RemoveCall(c)
      <4>1. PICK id \in Ids : \E expected \in Expectations(id) :
              Send(c, [Request(c, "remove", id) EXCEPT !.expected = expected])
        BY <3>1 DEF RemoveCall
      <4>2. PICK expected : Send(c, [Request(c, "remove", id) EXCEPT !.expected = expected])
        BY <4>1
      <4>3. [Request(c, "remove", id) EXCEPT !.expected = expected].kind = "remove"
        BY DEF Request
      <4> QED
        BY <4>2, <4>3
    <3>2. CASE ClearCall(c)
      <4>1. [Request(c, "clear", CHOOSE id \in Ids : TRUE) EXCEPT !.base = Null].kind = "clear"
        BY DEF Request
      <4> QED
        BY <3>2, <4>1 DEF ClearCall
    <3> QED
      BY <1>4, <3>1, <3>2
  <2> QED
    BY <1>a, <2>1, SendOInv
<1>5. CASE AgentCall(c)
  <2>1. PICK id \in Ids, action \in AgentMoves, event \in OpIds \cup {c} :
          Send(c, [Request(c, "mutate", id) EXCEPT !.action = action, !.event = event,
                                                   !.keyed = event \in OpIds])
    BY <1>5 DEF AgentCall
  <2> DEFINE request == [Request(c, "mutate", id) EXCEPT !.action = action, !.event = event,
                                                         !.keyed = event \in OpIds]
  <2>2. request.kind = "mutate" /\ request.event = event /\ (request.keyed <=> event \in OpIds)
    BY DEF Request
  <2> HIDE DEF request
  <2>3. OwnEvent(c, request)
    BY <2>2 DEF OwnEvent
  <2> QED
    BY <1>a, <2>1, <2>2, <2>3, SendOInv DEF request
<1>6. CASE RetryCall(c)
  <2>1. PICK d \in Calls :
          /\ stage[d] # "idle"
          /\ Send(c, IF call[d].kind = "mutate" /\ ~call[d].keyed
                     THEN [call[d] EXCEPT !.event = c] ELSE call[d])
    BY <1>6 DEF RetryCall
  <2>2. call[d] \in CallRecords /\ call[d] # Null
    BY <1>0, <2>1, NullIsNoCall DEF TypeOK, CallsReady
  <2>3. CASE call[d].kind = "mutate" /\ ~call[d].keyed
    <3> DEFINE request == [call[d] EXCEPT !.event = c]
    <3>1. Send(c, request)
      BY <2>1, <2>3
    <3>2. request.kind = "mutate" /\ ~request.keyed /\ request.event = c
      BY <2>2, <2>3 DEF CallRecords
    <3> HIDE DEF request
    <3> QED
      BY <1>a, <3>1, <3>2, SendOInv DEF OwnEvent
  <2>4. CASE ~(call[d].kind = "mutate" /\ ~call[d].keyed)
    <3>1. Send(c, call[d])
      BY <2>1, <2>4
    <3>2. call[d].kind \in {"put", "save"} => Orderly(call[d].body, Unborn \ {c})
      BY <2>2, FewerUnborn DEF OInv
    <3>3. call[d].kind = "mutate" => OwnEvent(c, call[d])
      BY <2>2, <2>4 DEF OInv, OwnEvent
    <3> QED
      BY <2>2, <3>1, <3>2, <3>3, SendOInv
  <2> QED
    BY <2>3, <2>4
<1> QED
  BY <1>1, <1>2, <1>3, <1>4, <1>5, <1>6 DEF Compose

\* The head of the queue is answered, and the file stays in order.
LEMMA SettleOInv ==
  ASSUME IInv, OInv, loaded # Null, NEW outcome, Settle(outcome),
         \A id \in Ids : file'[id] # Null => Orderly(file'[id], Unborn \ {Head(queue)})
  PROVE  OInv'
<1> DEFINE c == Head(queue)
<1>1. /\ c \in Calls /\ stage' = [stage EXCEPT ![c] = "done"] /\ call' = call
      /\ stage \in [Calls -> {"idle", "sent", "arrived", "done", "lost"}]
  BY HeadReady DEF Settle, IInv, TypeOK
<1>2. Unborn' \subseteq Unborn \ {c}
  BY <1>1 DEF Unborn, Pending
<1>3. \A id \in Ids : file'[id] # Null => Orderly(file'[id], Unborn')
  BY <1>2, FewerUnborn
<1>4. ASSUME NEW d \in Calls, call'[d] # Null
      PROVE  /\ call'[d].kind \in {"put", "save"} => Orderly(call'[d].body, Unborn')
             /\ call'[d].kind = "mutate" => OwnEvent(d, call'[d])
  BY <1>1, <1>2, <1>4, FewerUnborn DEF OInv
<1> QED
  BY <1>3, <1>4 DEF OInv

LEMMA FinishOrderly ==
  ASSUME IInv, OInv, Finish, NEW id \in Ids, file'[id] # Null
  PROVE  Orderly(file'[id], Unborn \ {Head(queue)})
<1> DEFINE c == Head(queue)
           request == call[c]
           others == Unborn \ {c}
<1>1. /\ loaded = file /\ file \in Stores /\ request \in CallRecords
      /\ c \in Calls /\ request # Null /\ stage[c] = "arrived" /\ request.id \in Ids
      /\ request.kind \in {"put", "save"} => request.body # Null
  BY HeadReady, NullIsNoCall DEF Finish, CallRecords
<1>2. file' = IF Outcome(file, request) = "ok" THEN Effect(file, request) ELSE file
  BY <1>1 DEF Finish
<1>3. ASSUME file'[id] = file[id] PROVE Orderly(file'[id], others)
  BY <1>3, FewerUnborn DEF OInv
<1>4. CASE Outcome(file, request) = "ok" /\ request.kind \in {"put", "save"}
  <2>1. file' = [file EXCEPT ![request.id] = Written(file[request.id], request.body)]
    BY <1>2, <1>4 DEF Effect
  <2>2. CASE id = request.id
    <3>1. file'[id] = Written(file[id], request.body) /\ request.body \in Records
      BY <1>1, <1>4, <2>1, <2>2 DEF Stores, CallRecords
    <3>2. Orderly(request.body, others)
      BY <1>1, <1>4, FewerUnborn DEF OInv
    <3>3. /\ file'[id].lifecycle = request.body.lifecycle
          /\ file'[id].status = request.body.status
      BY <3>1 DEF Written, Records
    <3> HIDE DEF request, others
    <3>4. Orderly(file'[id], others)
      BY <3>2, <3>3 DEF Orderly, HasEvent
    <3> QED
      BY <3>4 DEF others
  <2>3. CASE id # request.id
    BY <1>1, <1>3, <2>1, <2>3 DEF Stores
  <2> QED
    BY <2>2, <2>3
<1>5. CASE Outcome(file, request) = "ok" /\ request.kind = "mutate"
  <2>1. file' = [file EXCEPT ![request.id] = Transitioned(file[request.id], request)]
    BY <1>2, <1>5 DEF Effect
  <2>2. CASE id = request.id
    <3> DEFINE action == request.action
               event == request.event
    <3>1. /\ file[id] # Null /\ file[id].status \in Sources[action]
          /\ ~(request.keyed /\ HasEvent(file[id], event))
      BY <1>5, <2>2 DEF Outcome, MutateOutcome
    <3>2. file[id] \in Records /\ Orderly(file[id], Unborn)
      BY <3>1 DEF OInv, IInv, TypeOK, Stores
    <3>3. action \in Actions /\ event \in EventIds /\ OwnEvent(c, request)
      BY <1>1, <1>5 DEF CallRecords, OInv
    <3>4. ~request.keyed => event = c /\ c \in Unborn
      BY <1>1, <1>5, <3>3 DEF OwnEvent, Unborn, Pending
    <3>5. ~HasEvent(file[id], event)
      BY <3>1, <3>2, <3>4 DEF Orderly
    <3>6. /\ file'[id] \in Records
          /\ file'[id].status = Target[action]
          /\ file'[id].lifecycle = Append(file[id].lifecycle, [type |-> EventOf[action], id |-> event])
      <4>1. file'[id] = Transitioned(file[id], request)
        BY <1>1, <2>1, <2>2 DEF Stores
      <4>2. file'[id] \in Records
        BY FinishIInv DEF IInv, TypeOK, Stores
      <4> QED
        BY <4>1, <4>2 DEF Transitioned
    <3>7. event \notin others
      BY <3>3, <3>4, OpIdsAreNoCalls DEF OwnEvent, Unborn
    <3> HIDE DEF request, others, action, event
    <3>8. /\ Once(file'[id].lifecycle)
          /\ \A e : HasEvent(file'[id], e) <=> HasEvent(file[id], e) \/ e = event
          /\ Explained(file'[id].status, file'[id].lifecycle)
      BY <3>1, <3>2, <3>3, <3>5, <3>6, MoveOrderly DEF action, event
    <3>9. \A e \in others : ~HasEvent(file[id], e)
      BY <3>2 DEF Orderly, others
    <3>10. Orderly(file'[id], others)
      BY <3>7, <3>8, <3>9 DEF Orderly
    <3> QED
      BY <3>10 DEF others
  <2>3. CASE id # request.id
    BY <1>1, <1>3, <2>1, <2>3 DEF Stores
  <2> QED
    BY <2>2, <2>3
<1>6. CASE Outcome(file, request) = "ok" /\ request.kind \in {"remove", "clear"}
  <2>1. file'[id] = Null \/ file'[id] = file[id]
    BY <1>1, <1>2, <1>6 DEF Effect, Stores
  <2> QED
    BY <1>3, <2>1
<1>7. CASE Outcome(file, request) # "ok"
  BY <1>2, <1>3, <1>7
<1> QED
  BY <1>1, <1>4, <1>5, <1>6, <1>7 DEF CallRecords, Kinds

LEMMA StepOInv ==
  ASSUME IInv, OInv, [Next]_vars
  PROVE  OInv'
<1>a. ASSUME UNCHANGED <<file, call>>, Unborn' \subseteq Unborn PROVE OInv'
  <2>1. \A id \in Ids : file'[id] # Null => Orderly(file'[id], Unborn')
    BY <1>a, FewerUnborn DEF OInv
  <2>2. \A d \in Calls : call'[d] # Null =>
          /\ call'[d].kind \in {"put", "save"} => Orderly(call'[d].body, Unborn')
          /\ call'[d].kind = "mutate" => OwnEvent(d, call'[d])
    BY <1>a, FewerUnborn DEF OInv
  <2> QED
    BY <2>1, <2>2 DEF OInv
<1>1. CASE \E c \in Calls : Compose(c)
  BY <1>1, ComposeOInv
<1>2. CASE \E c \in Calls : Arrive(c)
  BY <1>2, <1>a DEF Arrive, Unborn, Pending, IInv, TypeOK
<1>3. CASE Load \/ UNCHANGED vars
  BY <1>3, <1>a DEF Load, vars, Unborn, Pending
<1>4. CASE Finish
  BY <1>4, FinishOrderly, SettleOInv DEF Finish
<1>5. CASE FailPersist
  <2>1. \A id \in Ids : file'[id] # Null => Orderly(file'[id], Unborn \ {Head(queue)})
    BY <1>5, FewerUnborn DEF FailPersist, OInv
  <2> QED
    BY <1>5, <2>1, SettleOInv DEF FailPersist
<1>6. CASE Crash
  BY <1>6, <1>a DEF Crash, Unborn, Pending, IInv, TypeOK
<1> QED
  BY <1>1, <1>2, <1>3, <1>4, <1>5, <1>6 DEF Next

LEMMA Orderliness == ASSUME OrderlyStart PROVE Spec => [](IInv /\ OInv)
<1>1. Init => OInv
  BY InitOInv
<1>2. IInv /\ OInv /\ [Next]_vars => OInv'
  BY StepOInv
<1> QED
  BY <1>1, <1>2, Invariance, PTL DEF Spec
-----------------------------------------------------------------------------
(* What an agent was told has happened stays on record. *)

\* The record whose transition was answered with success was created before.
WinsRecorded ==
  \A c \in Calls : Won(c) =>
    /\ call[c].id \in used
    /\ ~Awaited(call[c].id)
    /\ file[call[c].id] # Null => HasEvent(file[call[c].id], call[c].event)

LEMMA ComposeCareful ==
  ASSUME CarefulCallers, NEW c \in Calls, Compose(c)
  PROVE  \E request : /\ Send(c, request)
                      /\ request.kind = "put" /\ request.base = Null => request.id \notin used
<1>1. CASE CreateCall(c)
  <2>1. PICK id \in Ids, content \in Contents, status \in {"draft", "pending"} :
          /\ id \notin used
          /\ Send(c, [Request(c, "put", id) EXCEPT !.base = Null, !.body = NewAnnotation(content, status)])
    BY <1>1 DEF CreateCall, CarefulCallers
  <2>2. [Request(c, "put", id) EXCEPT !.base = Null, !.body = NewAnnotation(content, status)].id = id
    BY DEF Request
  <2> QED
    BY <2>1, <2>2
<1>2. CASE EditCall(c)
  <2>1. PICK id \in Ids, content \in Contents, kind \in {"put", "save"} :
          /\ file[id] # Null
          /\ Send(c, [Request(c, kind, id) EXCEPT !.body = [file[id] EXCEPT !.content = content],
                                                  !.expected = file[id].rev])
    BY <1>2 DEF EditCall, CarefulCallers
  <2>2. [Request(c, kind, id) EXCEPT !.body = [file[id] EXCEPT !.content = content],
                                     !.expected = file[id].rev].base = file[id]
    BY DEF Request
  <2> QED
    BY <2>1, <2>2
<1>3. CASE MoveCall(c)
  <2>0. PICK id \in Ids :
          \E body : /\ file[id] # Null
                    /\ Send(c, [Request(c, "put", id) EXCEPT !.body = body, !.expected = file[id].rev])
    BY <1>3 DEF MoveCall
  <2>1. PICK body :
          /\ file[id] # Null
          /\ Send(c, [Request(c, "put", id) EXCEPT !.body = body, !.expected = file[id].rev])
    BY <2>0
  <2>2. [Request(c, "put", id) EXCEPT !.body = body, !.expected = file[id].rev].base = file[id]
    BY DEF Request
  <2> QED
    BY <2>1, <2>2
<1>4. CASE RemoveCall(c)
  <2>0. PICK id \in Ids : \E expected : Send(c, [Request(c, "remove", id) EXCEPT !.expected = expected])
    BY <1>4 DEF RemoveCall
  <2>1. PICK expected : Send(c, [Request(c, "remove", id) EXCEPT !.expected = expected])
    BY <2>0
  <2>2. [Request(c, "remove", id) EXCEPT !.expected = expected].kind = "remove"
    BY DEF Request
  <2> QED
    BY <2>1, <2>2
<1>5. CASE ClearCall(c)
  <2>1. [Request(c, "clear", CHOOSE id \in Ids : TRUE) EXCEPT !.base = Null].kind = "clear"
    BY DEF Request
  <2> QED
    BY <1>5, <2>1 DEF ClearCall
<1>6. CASE AgentCall(c)
  <2>0. PICK id \in Ids : \E action, event, keyed :
          Send(c, [Request(c, "mutate", id) EXCEPT !.action = action, !.event = event, !.keyed = keyed])
    BY <1>6 DEF AgentCall
  <2>1. PICK action, event, keyed :
          Send(c, [Request(c, "mutate", id) EXCEPT !.action = action, !.event = event, !.keyed = keyed])
    BY <2>0
  <2>2. [Request(c, "mutate", id) EXCEPT !.action = action, !.event = event, !.keyed = keyed].kind = "mutate"
    BY DEF Request
  <2> QED
    BY <2>1, <2>2
<1>7. CASE RetryCall(c)
  <2>1. PICK d \in Calls :
          /\ ~Creates(call[d])
          /\ Send(c, IF call[d].kind = "mutate" /\ ~call[d].keyed
                     THEN [call[d] EXCEPT !.event = c] ELSE call[d])
    BY <1>7 DEF RetryCall, CarefulCallers
  <2>2. [call[d] EXCEPT !.event = c].kind = call[d].kind /\ [call[d] EXCEPT !.event = c].base = call[d].base
    OBVIOUS
  <2> QED
    BY <2>1, <2>2 DEF Creates
<1> QED
  BY <1>1, <1>2, <1>3, <1>4, <1>5, <1>6, <1>7 DEF Compose

\* A prefix keeps the events.
LEMMA PrefixKeepsEvents ==
  ASSUME NEW one \in Records, NEW other \in Records,
         IsPrefix(one.lifecycle, other.lifecycle), NEW event, HasEvent(one, event)
  PROVE  HasEvent(other, event)
<1>1. one.lifecycle \in Seq(Events) /\ other.lifecycle \in Seq(Events)
  BY DEF Records
<1>2. /\ Len(one.lifecycle) <= Len(other.lifecycle)
      /\ SubSeq(one.lifecycle, 1, Len(one.lifecycle)) = SubSeq(other.lifecycle, 1, Len(one.lifecycle))
  BY DEF IsPrefix
<1>3. \A i \in 1..Len(one.lifecycle) : other.lifecycle[i] = one.lifecycle[i]
  BY <1>1, <1>2
<1>4. PICK i \in DOMAIN one.lifecycle : one.lifecycle[i].id = event
  BY DEF HasEvent
<1>5. i \in DOMAIN other.lifecycle /\ other.lifecycle[i].id = event
  BY <1>1, <1>2, <1>3, <1>4
<1> QED
  BY <1>5 DEF HasEvent

\* A transition is recorded.
LEMMA MovedHasEvent ==
  ASSUME NEW record \in Records, NEW request \in CallRecords
  PROVE  HasEvent(Transitioned(record, request), request.event)
<1> DEFINE event == [type |-> EventOf[request.action], id |-> request.event]
           s == record.lifecycle
<1>1. s \in Seq(Events) /\ event \in Events /\ event.id = request.event
  BY DEF Records, CallRecords, Events, EventOf, Actions, EventTypes, TransitionEvents
<1>2. Transitioned(record, request).lifecycle = Append(s, event)
  BY DEF Transitioned
<1> HIDE DEF event, s
<1>3. Len(s) + 1 \in DOMAIN Append(s, event) /\ Append(s, event)[Len(s) + 1] = event
  BY <1>1
<1> QED
  BY <1>1, <1>2, <1>3 DEF HasEvent

\* Sending a careful call takes nothing back.
LEMMA ComposeWins ==
  ASSUME CarefulCallers, IInv, WinsRecorded, NEW c \in Calls, Compose(c)
  PROVE  WinsRecorded'
<1>1. PICK request :
        /\ Send(c, request)
        /\ request.kind = "put" /\ request.base = Null => request.id \notin used
  BY ComposeCareful
<1>2. /\ call' = [call EXCEPT ![c] = request] /\ stage' = [stage EXCEPT ![c] = "sent"]
      /\ used \subseteq used' /\ file' = file /\ answer' = answer
      /\ DOMAIN call = Calls /\ DOMAIN stage = Calls
  BY <1>1 DEF Send, callers, IInv, TypeOK
<1>3. \A id \in used : ~Awaited(id) => ~Awaited(id)'
  BY <1>1, <1>2 DEF Awaited, Creation, Pending
<1>4. \A d \in Calls : Won(d)' => Won(d) /\ call'[d] = call[d]
  BY <1>2 DEF Won
<1> QED
  BY <1>2, <1>3, <1>4 DEF WinsRecorded

\* Nor does a call that is settled, when the file progresses.
LEMMA SettleWins ==
  ASSUME IInv, HInv, WinsRecorded, loaded # Null, NEW outcome \in Outcomes, Settle(outcome),
         file' \in Stores, \A id \in Ids : Progresses(id),
         outcome \in {"ok", "replayed"} /\ call[Head(queue)].kind = "mutate" =>
           /\ file[call[Head(queue)].id] # Null
           /\ HasEvent(file'[call[Head(queue)].id], call[Head(queue)].event)
  PROVE  WinsRecorded'
<1> DEFINE h == Head(queue)
<1>1. /\ h \in Calls /\ stage[h] = "arrived" /\ call[h].id \in Ids
      /\ stage' = [stage EXCEPT ![h] = "done"] /\ answer' = [answer EXCEPT ![h] = outcome]
      /\ call' = call /\ used' = used
      /\ DOMAIN stage = Calls /\ DOMAIN answer = Calls
  BY HeadReady DEF Settle, IInv, TypeOK, CallRecords
<1>2. \A id \in Ids : Awaited(id)' => Awaited(id)
  BY <1>1 DEF Awaited, Creation, Pending
<1> SUFFICES ASSUME NEW c \in Calls, Won(c)'
             PROVE  /\ call[c].id \in used
                    /\ ~Awaited(call[c].id)'
                    /\ file'[call[c].id] # Null => HasEvent(file'[call[c].id], call[c].event)
  BY <1>1 DEF WinsRecorded
<1>3. CASE c = h
  <2>1. file[call[h].id] # Null /\ HasEvent(file'[call[h].id], call[h].event)
    BY <1>1, <1>3 DEF Won
  <2>2. call[h].id \in used
    BY <1>1, <2>1 DEF HInv, RecordsAreUsed
  <2>3. ~Awaited(call[h].id)
    BY <1>1, <2>1 DEF HInv, CreationsAreFirst, Awaited
  <2> QED
    BY <1>1, <1>2, <1>3, <2>1, <2>2, <2>3
<1>4. CASE c # h
  <2> DEFINE id == call[c].id
  <2>1. /\ Won(c) /\ id \in used /\ ~Awaited(id)
        /\ file[id] # Null => HasEvent(file[id], call[c].event)
    BY <1>1, <1>4 DEF Won, WinsRecorded
  <2>2. id \in Ids
    BY <2>1 DEF IInv, TypeOK
  <2>3. ~(Creation(h) /\ call[h].id = id)
    BY <1>1, <2>1 DEF Awaited, Pending
  <2>4. ASSUME file'[id] # Null PROVE HasEvent(file'[id], call[c].event)
    <3>1. Progresses(id)
      BY <2>2
    <3>2. file[id] # Null /\ (file'[id] # file[id] => IsPrefix(file[id].lifecycle, file'[id].lifecycle))
      BY <2>3, <2>4, <3>1 DEF Progresses
    <3>3. file[id] \in Records /\ file'[id] \in Records
      BY <2>2, <2>4, <3>2 DEF IInv, TypeOK, Stores
    <3> QED
      BY <2>1, <3>2, <3>3, PrefixKeepsEvents
  <2> QED
    BY <1>1, <1>2, <2>1, <2>2, <2>4
<1> QED
  BY <1>3, <1>4

LEMMA FinishWins ==
  ASSUME IInv, HInv, WinsRecorded, Finish
  PROVE  WinsRecorded'
<1> DEFINE request == call[Head(queue)]
           outcome == Outcome(loaded, request)
<1>1. /\ loaded # Null /\ loaded = file /\ file \in Stores /\ request.id \in Ids
      /\ request \in CallRecords
  BY HeadReady DEF Finish, CallRecords
<1>2. outcome \in Outcomes /\ file' \in Stores /\ \A id \in Ids : Progresses(id)
  BY OutcomeTyped, FinishIInv, FinishProgresses DEF IInv, TypeOK
<1>3. Settle(outcome) /\ file' = IF outcome = "ok" THEN Effect(loaded, request) ELSE file
  BY DEF Finish
<1>4. ASSUME outcome \in {"ok", "replayed"}, request.kind = "mutate"
      PROVE  file[request.id] # Null /\ HasEvent(file'[request.id], request.event)
  <2>1. outcome = MutateOutcome(file[request.id], request)
    BY <1>1, <1>4 DEF Outcome
  <2>2. file[request.id] # Null
    BY <1>4, <2>1 DEF MutateOutcome
  <2>3. CASE outcome = "replayed"
    BY <1>3, <2>1, <2>2, <2>3 DEF MutateOutcome
  <2>4. CASE outcome = "ok"
    <3>1. file'[request.id] = Transitioned(file[request.id], request)
      BY <1>1, <1>3, <1>4, <2>4 DEF Effect, Stores
    <3>2. file[request.id] \in Records
      BY <1>1, <2>2 DEF Stores
    <3> QED
      BY <1>1, <2>2, <3>1, <3>2, MovedHasEvent
  <2> QED
    BY <1>4, <2>3, <2>4
<1> HIDE DEF outcome
<1> QED
  BY <1>1, <1>2, <1>3, <1>4, SettleWins

LEMMA StepWins ==
  ASSUME CarefulCallers, IInv, HInv, WinsRecorded, [Next]_vars
  PROVE  WinsRecorded'
<1>1. CASE \E c \in Calls : Compose(c)
  BY <1>1, ComposeWins
<1>2. CASE (\E c \in Calls : Arrive(c)) \/ Crash
  <2>1. /\ file' = file /\ call' = call /\ used' = used /\ answer' = answer
        /\ \A c \in Calls : Pending(c)' => Pending(c)
        /\ \A c \in Calls : stage'[c] = "done" => stage[c] = "done"
    BY <1>2 DEF Arrive, Crash, Pending, IInv, TypeOK
  <2> QED
    BY <2>1 DEF WinsRecorded, Won, Awaited, Creation
<1>3. CASE Load \/ UNCHANGED vars
  BY <1>3 DEF Load, vars, WinsRecorded, Won, Awaited, Creation, Pending
<1>4. CASE Finish
  BY <1>4, FinishWins
<1>5. CASE FailPersist
  <2>1. /\ loaded # Null /\ Settle("failed") /\ "failed" \in Outcomes /\ file' \in Stores
        /\ \A id \in Ids : Progresses(id)
    BY <1>5 DEF FailPersist, Outcomes, Progresses, IInv, TypeOK
  <2> QED
    BY <2>1, SettleWins
<1> QED
  BY <1>1, <1>2, <1>3, <1>4, <1>5 DEF Next

LEMMA WinsInvariance == ASSUME CarefulCallers PROVE Spec => [](IInv /\ HInv /\ WinsRecorded)
<1>1. Init => WinsRecorded
  BY DEF Init, WinsRecorded, Won
<1>2. IInv /\ HInv /\ WinsRecorded /\ [Next]_vars => WinsRecorded'
  BY StepWins
<1> QED
  BY <1>1, <1>2, HistoryInvariance, PTL DEF Spec

-----------------------------------------------------------------------------
(* The theorems. *)

\* An accepted update was composed from the very record it replaces: a late, stale or
\* repeated write is refused, for any number of callers, calls and crashes
\* (file-storage-adapter.ts:66-72).
THEOREM StaleIsRefused ==
  ASSUME CarefulCallers
  PROVE  Spec => StaleNeverOverwrites
<1> DEFINE Fresh == \A c \in Calls :
             TookEffect(c) /\ call[c].kind = "put" /\ ~Creates(call[c])
               => call[c].base = file[call[c].id]
<1>1. IInv /\ HInv /\ [Next]_vars => [Fresh]_vars
  <2> SUFFICES ASSUME IInv, HInv, Next, NEW c \in Calls,
                      TookEffect(c), call[c].kind = "put", ~Creates(call[c])
               PROVE  call[c].base = file[call[c].id]
    OBVIOUS
  <2>1. stage[c] = "arrived" /\ stage'[c] = "done" /\ answer'[c] = "ok"
    BY DEF TookEffect
  <2>2. CASE Finish
    <3>1. c = Head(queue) /\ Outcome(loaded, call[c]) = "ok" /\ loaded # Null
      BY <2>1, <2>2, HeadReady DEF Finish, Settle, IInv, TypeOK
    <3>2. Update(c)
      BY <3>1, HeadReady, NullIsNoCall DEF Update, Creates
    <3> QED
      BY <3>1, <3>2, AcceptedUpdate
  <2>3. CASE FailPersist
    BY <2>1, <2>3, HeadReady DEF FailPersist, Settle, IInv, TypeOK
  <2>4. CASE \E d \in Calls : Arrive(d)
    BY <2>1, <2>4 DEF Arrive, IInv, TypeOK
  <2>5. CASE Load
    BY <2>1, <2>5 DEF Load
  <2>6. CASE Crash
    BY <2>1, <2>6 DEF Crash, IInv, TypeOK
  <2>7. CASE \E d \in Calls : Compose(d)
    <3>1. PICK d \in Calls : Compose(d)
      BY <2>7
    <3>2. PICK request : Send(d, request)
      BY <3>1, ComposeSends
    <3> QED
      BY <2>1, <3>2 DEF Send, IInv, TypeOK
  <2> QED
    BY <2>2, <2>3, <2>4, <2>5, <2>6, <2>7 DEF Next
<1> QED
  BY <1>1, HistoryInvariance, PTL DEF Spec, StaleNeverOverwrites

\* While a record lives, every change of it continues its history under the next
\* revision: no event is ever taken back or reordered.
THEOREM HistoriesGrow ==
  ASSUME CarefulCallers
  PROVE  Spec => HistoryGrows
<1> DEFINE Grows == \A id \in Ids :
             file[id] # Null /\ file'[id] # Null /\ file'[id] # file[id] =>
               /\ IsPrefix(file[id].lifecycle, file'[id].lifecycle)
               /\ file'[id].rev = file[id].rev + 1
<1>1. IInv /\ HInv /\ [Next]_vars => [Grows]_vars
  <2> SUFFICES ASSUME IInv, HInv, Next
               PROVE  file' = file \/ Grows
    OBVIOUS
  <2>1. CASE Finish
    BY <2>1, FinishProgresses DEF Progresses
  <2>2. CASE ~Finish
    <3>1. CASE \E c \in Calls : Compose(c)
      <4>1. PICK c \in Calls : Compose(c)
        BY <3>1
      <4>2. PICK request : Send(c, request)
        BY <4>1, ComposeSends
      <4> QED
        BY <4>2 DEF Send, callers
    <3>2. CASE ~\E c \in Calls : Compose(c)
      BY <2>2, <3>2 DEF Next, Arrive, Load, FailPersist, Crash
    <3> QED
      BY <3>1, <3>2
  <2> QED
    BY <2>1, <2>2
<1> QED
  BY <1>1, HistoryInvariance, PTL DEF Spec, HistoryGrows

\* However often an operation is repeated, whoever else calls and whenever the server
\* dies, its event stands in a history once (transition-tool.ts:17-20).
THEOREM EventsAreOnce ==
  ASSUME OrderlyStart
  PROVE  Spec => []EventOnce
<1>1. OInv => EventOnce
  BY DEF OInv, Orderly, Once, EventOnce
<1> QED
  BY <1>1, Orderliness, PTL

\* Reading a record's history from draft or pending leads to its status: an agent's
\* transition, a widget's or an edit never leaves one of the two behind.
THEOREM StatusIsExplained ==
  ASSUME OrderlyStart
  PROVE  Spec => []StatusExplained
<1>1. OInv => StatusExplained
  BY DEF OInv, Orderly, StatusExplained
<1> QED
  BY <1>1, Orderliness, PTL

\* A transition that was answered with success is in the record's history for as long
\* as the record lives, through any later call, failure or crash.
THEOREM WinsLast ==
  ASSUME CarefulCallers
  PROVE  Spec => []WinIsDurable
<1>1. WinsRecorded => WinIsDurable
  BY DEF WinsRecorded, WinIsDurable
<1> QED
  BY <1>1, WinsInvariance, PTL
=============================================================================
