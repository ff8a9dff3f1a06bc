-------------------------------- MODULE Outbox --------------------------------
(***************************************************************************)
(* The queue of writes that no server has confirmed, which the             *)
(* HttpStorageAdapter keeps in localStorage                                *)
(* (core/src/core/http-storage-adapter.ts).  A queued operation is a       *)
(* record with at least its identity `opId`, its `kind` and the annotation *)
(* `id` it is about.                                                       *)
(***************************************************************************)
EXTENDS Lists

\* An identity is there once.
Distinct(ops) == \A i, j \in DOMAIN ops : ops[i].opId = ops[j].opId => i = j

LastClear(ops) ==
  LET clears == {i \in DOMAIN ops : ops[i].kind = "clear"}
  IN  IF clears = {} THEN 0 ELSE CHOOSE i \in clears : \A j \in clears : j <= i

\* What a new operation takes the place of: everything before a clear, and the
\* queued operation on the same annotation since the last clear.
Replaced(ops, op) ==
  IF op.kind = "clear" THEN DOMAIN ops
  ELSE LET same == {i \in DOMAIN ops : i > LastClear(ops) /\ ops[i].id = op.id}
       IN  IF same = {} THEN {} ELSE {CHOOSE i \in same : \A j \in same : i <= j}

\* The queue without the operations that have one of these identities.
WithoutIds(ops, opIds) == Without(ops, {o \in ToSet(ops) : o.opId \in opIds})
=============================================================================
