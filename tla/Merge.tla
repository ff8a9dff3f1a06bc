-------------------------------- MODULE Merge --------------------------------
(***************************************************************************)
(* The three-way merge a browser runs when the server refuses its write    *)
(* (core/src/core/merge.ts).                                               *)
(*                                                                         *)
(* An annotation is a record                                               *)
(*   fields    : the mergeable fields (comment, qualityCheck, ...),        *)
(*   status    : a status of module Lifecycle,                             *)
(*   lifecycle : the sequence of its events,                               *)
(*   rev       : the revision the server gave it.                          *)
(* The id, which every copy of one annotation shares, is left out.         *)
(***************************************************************************)
EXTENDS History

CONSTANTS
  Fields,   \* MERGEABLE_FIELDS, as a set
  Null      \* the absent base copy

\* The copy the local edit is compared with: without a base, the server's.
Origin(base, server) == IF base = Null THEN server ELSE base

LocallyChanged(base, local, server) ==
  {f \in Fields : local.fields[f] # Origin(base, server).fields[f]}

\* Defect: without a base nothing counts as changed on the server.
ServerChangedSinceBase(base, server) ==
  IF base = Null THEN {} ELSE {f \in Fields : server.fields[f] # base.fields[f]}

\* Without a base every difference counts as a change on both sides.
ServerChanged(base, server) ==
  IF base = Null THEN Fields ELSE {f \in Fields : server.fields[f] # base.fields[f]}

DroppedFields(base, local, server) ==
  {f \in LocallyChanged(base, local, server) \cap ServerChanged(base, server) :
      local.fields[f] # server.fields[f]}

MergeFields(base, local, server) ==
  [f \in Fields |->
     IF f \in LocallyChanged(base, local, server) \ DroppedFields(base, local, server)
     THEN local.fields[f]
     ELSE server.fields[f]]

\* Defect: what the server already recorded is replayed again.
LocalEventsAll(base, local, server) ==
  EventsAfter(Origin(base, server).lifecycle, local.lifecycle)

\* The local events the server has not recorded itself since the origin.
LocalEvents(base, local, server) ==
  LET origin == Origin(base, server)
      serverExtra == ToSet(EventsAfter(origin.lifecycle, server.lifecycle))
  IN  Without(EventsAfter(origin.lifecycle, local.lifecycle), serverExtra)

MergeLifecycle(base, local, server) ==
  FoldLeft(MergeEvent,
           [status |-> server.status, lifecycle |-> server.lifecycle, dropped |-> <<>>],
           LocalEvents(base, local, server))

MergeAnnotation(base, local, server) ==
  LET history == MergeLifecycle(base, local, server)
      merged  == [ fields    |-> MergeFields(base, local, server),
                   status    |-> history.status,
                   lifecycle |-> history.lifecycle,
                   rev       |-> server.rev ]
  IN  [ annotation |-> merged,
        changed    |-> merged # server,
        dropped    |-> [ fields |-> DroppedFields(base, local, server),
                         events |-> history.dropped ] ]

NothingDropped(result) == result.dropped = [fields |-> {}, events |-> <<>>]
=============================================================================
