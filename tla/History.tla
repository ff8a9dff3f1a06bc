------------------------------- MODULE History -------------------------------
(***************************************************************************)
(* Histories of one annotation that have gone apart, and how the events of *)
(* one are replayed on top of the other (core/src/core/merge.ts).          *)
(***************************************************************************)
EXTENDS Lifecycle, Lists

\* An event is in a history once.
NoDuplicates(events) == \A i, j \in DOMAIN events : events[i].id = events[j].id => i = j

\* The events of `full` after the prefix it shares with `prefix`.
EventsAfter(prefix, full) ==
  SubSeq(full, Len(LongestCommonPrefix({prefix, full})) + 1, Len(full))

\* Defect: an event that is not allowed any more is recorded all the same.
MergeEventAlways(acc, event) ==
  LET next == ReplayEvent(acc.status, event.type)
  IN  [acc EXCEPT !.status = IF next = NoStatus THEN @ ELSE next, !.lifecycle = Append(@, event)]

\* Defect: an event that is not allowed any more is not reported.
MergeEventSilent(acc, event) ==
  LET next == ReplayEvent(acc.status, event.type)
  IN  IF next = NoStatus THEN acc
      ELSE [acc EXCEPT !.status = next, !.lifecycle = Append(@, event)]

\* One local event on top of the history merged so far.
MergeEvent(acc, event) ==
  LET next == ReplayEvent(acc.status, event.type)
  IN  IF next = NoStatus
      THEN [acc EXCEPT !.dropped = Append(@, event)]
      ELSE [acc EXCEPT !.status = next, !.lifecycle = Append(@, event)]
=============================================================================
