----------------------------- MODULE Divergence -----------------------------
(***************************************************************************)
(* How a browser's copy of an annotation and the server's drift apart, and *)
(* what the merge of module Merge makes of them.                           *)
(*                                                                         *)
(* `baseCopy` is the copy both started from, or Null for a write that was  *)
(* queued without it (a queue of an older widget, or one claimed with      *)
(* adoptUnsent).  The browser edits and moves `localCopy`, other browsers  *)
(* and the agent edit and move `serverCopy`.  WriteBack is a merged write  *)
(* that reached the server although its answer was lost: the browser keeps *)
(* `baseCopy` and `localCopy` and will merge again.                        *)
(***************************************************************************)
EXTENDS Merge

CONSTANTS
  Texts,      \* values of a field
  MaxEvents,   \* bound: events recorded after the base
  MaxRev       \* bound: revisions of the server copy

\* Copies of one annotation.
Entries == [type : EventTypes, id : Nat]

Annotations ==
  [fields : [Fields -> Texts], status : Statuses, lifecycle : Seq(Entries), rev : Nat]

ASSUME NullIsNoAnnotation == Null \notin Annotations

VARIABLES baseCopy, localCopy, serverCopy, eventClock

copies == <<baseCopy, localCopy, serverCopy, eventClock>>

Entry(type, id) == [type |-> type, id |-> id]

\* A new annotation: draft under the submit flow, pending otherwise.
Annotations0 ==
  { [ fields |-> fs, status |-> s, lifecycle |-> <<Entry("created", 0)>>, rev |-> 1 ] :
      fs \in { [f \in Fields |-> v] : v \in Texts }, s \in {"draft", "pending"} }

StartsAlike ==
  /\ serverCopy \in Annotations0
  /\ localCopy = serverCopy
  /\ baseCopy \in {serverCopy, Null}
  /\ eventClock = 0

EditedCopy(copy, f, v) == [copy EXCEPT !.fields[f] = v]

MovedCopy(copy, action) ==
  [copy EXCEPT !.status = NextStatus(copy.status, action),
               !.lifecycle = Append(@, Entry(EventOf[action], eventClock + 1))]

LocalEdit ==
  \E f \in Fields, v \in Texts :
    /\ v # localCopy.fields[f]
    /\ localCopy' = EditedCopy(localCopy, f, v)
    /\ UNCHANGED <<baseCopy, serverCopy, eventClock>>

LocalTransition ==
  \E a \in Actions :
    /\ eventClock < MaxEvents
    /\ localCopy.status \in Sources[a]
    /\ localCopy' = MovedCopy(localCopy, a)
    /\ eventClock' = eventClock + 1
    /\ UNCHANGED <<baseCopy, serverCopy>>

ServerEdit ==
  \E f \in Fields, v \in Texts :
    /\ serverCopy.rev < MaxRev
    /\ v # serverCopy.fields[f]
    /\ serverCopy' = [EditedCopy(serverCopy, f, v) EXCEPT !.rev = @ + 1]
    /\ UNCHANGED <<baseCopy, localCopy, eventClock>>

ServerTransition ==
  \E a \in Actions :
    /\ serverCopy.rev < MaxRev
    /\ eventClock < MaxEvents
    /\ serverCopy.status \in Sources[a]
    /\ serverCopy' = [MovedCopy(serverCopy, a) EXCEPT !.rev = @ + 1]
    /\ eventClock' = eventClock + 1
    /\ UNCHANGED <<baseCopy, localCopy>>

WriteBack ==
  LET result == MergeAnnotation(baseCopy, localCopy, serverCopy)
  IN  /\ serverCopy.rev < MaxRev
      /\ result.changed
      /\ serverCopy' = [result.annotation EXCEPT !.rev = @ + 1]
      /\ UNCHANGED <<baseCopy, localCopy, eventClock>>

Drifts ==
  \/ LocalEdit \/ LocalTransition
  \/ ServerEdit \/ ServerTransition
  \/ WriteBack

DriftSpec == StartsAlike /\ [][Drifts]_copies

-----------------------------------------------------------------------------
Merged == MergeAnnotation(baseCopy, localCopy, serverCopy)

EventIds(events) == {events[i].id : i \in DOMAIN events}

\* The server's history is never truncated or reordered by a merge, and the
\* status a merge writes is the one its history leads to (merge.ts:24-29).
HistoryKept ==
  /\ IsPrefix(serverCopy.lifecycle, Merged.annotation.lifecycle)
  /\ Explained(Merged.annotation.status, Merged.annotation.lifecycle)

\* No local intent disappears: a field the browser changed and an event it
\* recorded is in the merged copy or is reported as dropped (merge.ts:13-17).
NothingLost ==
  /\ \A f \in Fields :
        \/ Merged.annotation.fields[f] = localCopy.fields[f]
        \/ f \in Merged.dropped.fields
        \/ baseCopy # Null /\ localCopy.fields[f] = baseCopy.fields[f]
  /\ EventIds(localCopy.lifecycle) \subseteq
        EventIds(Merged.annotation.lifecycle) \cup EventIds(Merged.dropped.events)

\* What somebody else changed on the server since the base survives a merge.
ServerEditsKept ==
  \A f \in Fields :
    (baseCopy = Null \/ serverCopy.fields[f] # baseCopy.fields[f])
      => Merged.annotation.fields[f] = serverCopy.fields[f]

\* With the base at hand, an event the server already recorded (a retried
\* write) is not recorded twice (merge.ts:61-62).
RetryNotDuplicated == baseCopy # Null => NoDuplicates(Merged.annotation.lifecycle)

\* A browser that lost the answer of a merged write in which everything
\* survived finds nothing left to write when it merges again: the retry is
\* answered without a second revision (http-storage-adapter.ts:614-616).
RetryIsIdle ==
  baseCopy # Null /\ NothingDropped(Merged)
    => ~MergeAnnotation(baseCopy, localCopy, [Merged.annotation EXCEPT !.rev = @ + 1]).changed

\* "A stale local copy can therefore never roll `verified` or `in_progress`
\* back to `pending`" (merge.ts:40-41).
NeverRolledBack ==
  serverCopy.status \in {"verified", "in_progress"} => Merged.annotation.status # "pending"
=============================================================================
