---------------------------- MODULE HttpSyncProofs ----------------------------
(***************************************************************************)
(* Proofs about HttpSync: nothing the user did is silently discarded, and  *)
(* nothing others did is taken back.                                       *)
(*                                                                         *)
(* Where an operation is told of: the chain, the running job, the queue,   *)
(* the two journals, the server.  Every handler of an answer leaves the    *)
(* page in a state that follows from the one before (Follows), whichever   *)
(* way localStorage then goes (Become); what follows keeps the invariants. *)
(*                                                                         *)
(* The second part is about histories.  A copy the page has at a revision  *)
(* has the history the server had at that revision, or is older than the   *)
(* record (PastInv).  A write is accepted at one revision only, so it has  *)
(* all of the history it replaces, unless it says it was made on top of    *)
(* another copy than the page remembers: only such saves rewrite.          *)
(*                                                                         *)
(* The third part is about the merge itself, of the copies that module     *)
(* Divergence drives apart.  What a merge does is stated of any three      *)
(* copies first (the events after a common prefix, those the server has    *)
(* not recorded, their replay), and then used in every state they reach.   *)
(***************************************************************************)
EXTENDS HttpSync, Divergence, Induction

-----------------------------------------------------------------------------
(* The inductive invariant. *)

\* The user's part of an operation.
OpPart(op) == IF op.kind = "save" THEN UserPart(op.local) ELSE {}

\* The server has had the user's part of every copy of a view.
Landed(view, l) == \A id \in Ids : UserPart(view[id]) \subseteq l

\* An operation with one of the n identities given out.
OpOK(op, l, n) == op \in OutboxOps /\ WellFormed(op) /\ op.opId <= n /\ UserPart(op.base) \subseteq l

\* The journal tells no more of an operation than the operation and the server do.
RecordsMatch(records, op, l) ==
  \A r \in records : r.opId = op.opId => r.id = op.id /\ UserPart(r.local) \subseteq l \cup OpPart(op)

\* One operation on an annotation, behind the clear if there is one.
Coalesced(ops) ==
  /\ NoDuplicates(ops)
  /\ \A i \in DOMAIN ops : ops[i].kind = "clear" => i = 1

QueueOK(ops, records, l, n) ==
  /\ Distinct(ops) /\ Coalesced(ops)
  /\ \A i \in DOMAIN ops : OpOK(ops[i], l, n) /\ RecordsMatch(records, ops[i], l)
  /\ \A r \in records : r.opId <= n

\* A live write is newer than all that is queued.
WriteOK(op, t, l) ==
  /\ \A i \in DOMAIN t.outbox : t.outbox[i].opId < op.opId
  /\ RecordsMatch(t.conflicts, op, l)

\* What a flush has still to send is in the queue.
TodoOK(todo, t) ==
  /\ Distinct(todo)
  /\ \A k \in DOMAIN todo : \E i \in DOMAIN t.outbox : todo[k] = t.outbox[i]

FlushOK(op, todo, t) ==
  /\ \E i \in DOMAIN t.outbox : op = t.outbox[i]
  /\ TodoOK(todo, t)
  /\ \A k \in DOMAIN todo : todo[k].opId # op.opId

\* The journal has all of the operation.
Recorded(t, op) ==
  \E r \in t.conflicts : r.opId = op.opId /\ r.id = op.id /\ (op.kind = "save" => r.local = op.local)

\* What is written over a copy is its merge with the operation; what the merge drops is
\* on record.
MergeOK(j, t, l) ==
  LET result == MergeAnnotation(j.op.base, j.op.local, j.current)
  IN  /\ j.op.kind = "save"
      /\ j.current \in Copies /\ UserPart(j.current) \subseteq l
      /\ j.merged = result.annotation
      /\ NothingDropped(result) \/ Recorded(t, j.op)

JobOK(j, t, l, n) ==
  /\ j \in Jobs
  /\ j.kind = "write" => j.phase \in {"send", "merge"}
  /\ j.phase \in {"fetch", "refetch"} => j.op = Null
  /\ j.kind # "write" /\ j.phase # "fetch" => j.first \in Views /\ Landed(j.first, l)
  /\ j.phase \in {"send", "merge"} =>
       /\ OpOK(j.op, l, n)
       /\ j.kind = "write" => WriteOK(j.op, t, l)
       /\ j.kind # "write" => FlushOK(j.op, j.todo, t)
  /\ j.phase = "merge" => MergeOK(j, t, l)

JournalInv ==
  /\ TypeOK
  /\ tab.memoryOnly \/ OnDisk(disk) = OnDisk(tab)
  /\ Landed(server, landed) /\ Landed(tab.known, landed)
  /\ QueueOK(tab.outbox, tab.conflicts, landed, count.ops)
  /\ QueueOK(disk.outbox, disk.conflicts, landed, count.ops)
  /\ job # Null => JobOK(job, tab, landed, count.ops)

-----------------------------------------------------------------------------
(* What the user wants. *)

WriteKinds == {"save", "remove", "clear"}

\* A write that is on its way takes along whatever is wanted of what it replaces.
Covers(w, ops) ==
  /\ w.kind = "save" =>
       \A i \in DOMAIN ops : ops[i].id = w.id => Wanted(w.id) \cap OpPart(ops[i]) \subseteq UserPart(w.local)
  /\ w.kind = "remove" => Wanted(w.id) = {}
  /\ w.kind = "clear" => \A id \in Ids : Wanted(id) = {}

\* A user who waits for the last write to be shown has one on its way at most.
OneWrite ==
  /\ \A i \in DOMAIN chain :
       chain[i].kind \in WriteKinds => i = 1 /\ job = Null /\ Covers(chain[i], tab.outbox)
  /\ job # Null /\ job.kind = "write" => Covers(job.op, tab.outbox)

IntentInv == OneWrite /\ NothingDiscarded

\* Where a user's part x of an annotation is told of.
InChain(x, c, id) ==
  \E i \in DOMAIN c : c[i].kind = "save" /\ c[i].id = id /\ x \in UserPart(c[i].local)

InJob(x, j, id) == j # Null /\ j.op # Null /\ j.op.id = id /\ x \in OpPart(j.op)

InPage(x, t, id) ==
  \/ \E i \in DOMAIN t.outbox : t.outbox[i].id = id /\ x \in OpPart(t.outbox[i])
  \/ \E op \in t.parked : op.id = id /\ x \in OpPart(op)
  \/ \E r \in t.conflicts : r.id = id /\ x \in UserPart(r.local)

LEMMA SafeIs ==
  ASSUME NEW x, NEW id
  PROVE  x \in Safe(id) <=> \/ x \in landed \/ InChain(x, chain, id)
                            \/ InJob(x, job, id) \/ InPage(x, tab, id)
<1> DEFINE A == {c.local : c \in {chain[i] : i \in {j \in DOMAIN chain : chain[j].kind = "save"
                                                                         /\ chain[j].id = id}}}
           B == IF job # Null /\ job.op # Null /\ job.op.id = id THEN OpCopies(job.op) ELSE {}
           C == UNION {OpCopies(tab.outbox[i]) : i \in {j \in DOMAIN tab.outbox : tab.outbox[j].id = id}}
           D == UNION {OpCopies(op) : op \in {p \in tab.parked : p.id = id}}
           E == {c.local : c \in {r \in tab.conflicts : r.id = id}}
<1>1. x \in Safe(id) <=> x \in landed \/ \E copy \in A \cup B \cup C \cup D \cup E : x \in UserPart(copy)
  BY DEF Safe, HeldCopies
<1>2. (\E copy \in A : x \in UserPart(copy)) <=> InChain(x, chain, id)
  BY DEF InChain
<1>3. (\E copy \in B : x \in UserPart(copy)) <=> InJob(x, job, id)
  BY DEF InJob, OpCopies, OpPart
<1>4. \A op : (\E copy \in OpCopies(op) : x \in UserPart(copy)) <=> x \in OpPart(op)
  BY DEF OpCopies, OpPart
<1>5. (\E copy \in C : x \in UserPart(copy))
        <=> \E i \in DOMAIN tab.outbox : tab.outbox[i].id = id /\ x \in OpPart(tab.outbox[i])
  BY <1>4
<1>6. (\E copy \in D : x \in UserPart(copy)) <=> \E op \in tab.parked : op.id = id /\ x \in OpPart(op)
  BY <1>4
<1>7. (\E copy \in E : x \in UserPart(copy)) <=> \E r \in tab.conflicts : r.id = id /\ x \in UserPart(r.local)
  OBVIOUS
<1> HIDE DEF A, B, C, D, E
<1> QED
  BY <1>1, <1>2, <1>3, <1>5, <1>6, <1>7 DEF InPage


-----------------------------------------------------------------------------
(* The user's part of a copy, and what a merge makes of it. *)

\* x is in a copy, whoever wrote it.
Tells(copy, x) ==
  \/ \E f \in Fields : x = <<"value", copy.fields[f]>>
  \/ \E i \in DOMAIN copy.lifecycle : x = <<"event", copy.lifecycle[i].id>>

LEMMA PartIs ==
  ASSUME NEW copy \in Copies, NEW x
  PROVE  x \in UserPart(copy) <=> Tells(copy, x) /\ x[2][1] = "user"
<1>1. copy # Null
  BY NullIsNoCopy
<1> QED
  BY <1>1 DEF UserPart, Tells

\* A move gives one of the statuses and one of the events.
LEMMA MoveIs ==
  ASSUME NEW a \in Actions
  PROVE  Target[a] \in Statuses /\ EventOf[a] \in EventTypes
<1>1. Target[a] \in Statuses
  BY DEF Actions, Target, Statuses
<1>2. EventOf[a] \in EventTypes
  BY DEF EventTypes, TransitionEvents
<1> QED
  BY <1>1, <1>2

\* One more event, or another value, is all that such a copy tells anew.
LEMMA AppendedTells ==
  ASSUME NEW old \in Copies, NEW new \in Copies, NEW e \in Events,
         new.fields = old.fields, new.lifecycle = Append(old.lifecycle, e), NEW x
  PROVE  Tells(new, x) <=> Tells(old, x) \/ x = <<"event", e.id>>
<1>1. /\ old.lifecycle \in Seq(Events) /\ Len(old.lifecycle) \in Nat
      /\ DOMAIN old.lifecycle = 1 .. Len(old.lifecycle)
      /\ DOMAIN new.lifecycle = 1 .. Len(old.lifecycle) + 1
      /\ new.lifecycle[Len(old.lifecycle) + 1] = e
      /\ \A i \in 1 .. Len(old.lifecycle) : new.lifecycle[i] = old.lifecycle[i]
  BY DEF Copies
<1>2. \A i \in DOMAIN new.lifecycle : i \in DOMAIN old.lifecycle \/ i = Len(old.lifecycle) + 1
  BY <1>1
<1>3. Len(old.lifecycle) + 1 \in DOMAIN new.lifecycle /\ DOMAIN old.lifecycle \subseteq DOMAIN new.lifecycle
  BY <1>1
<1> QED
  BY <1>1, <1>2, <1>3 DEF Tells

LEMMA EditedTells ==
  ASSUME NEW old \in Copies, NEW new \in Copies, NEW f \in Fields, NEW value,
         new.fields = [old.fields EXCEPT ![f] = value], new.lifecycle = old.lifecycle, NEW x
  PROVE  /\ Tells(new, x) => Tells(old, x) \/ x = <<"value", value>>
         /\ Tells(new, <<"value", value>>)
BY DEF Tells, Copies

LEMMA EventsStay ==
  ASSUME NEW old, NEW new, new.lifecycle = old.lifecycle, NEW e, Tells(old, <<"event", e>>)
  PROVE  Tells(new, <<"event", e>>)
BY DEF Tells

LEMMA PartOfNull == UserPart(Null) = {}
BY DEF UserPart

\* The user's part does not depend on the revision.
LEMMA PartOfWritten ==
  ASSUME NEW copy \in Copies, NEW n \in Nat
  PROVE  /\ [copy EXCEPT !.rev = n] \in Copies
         /\ UserPart([copy EXCEPT !.rev = n]) = UserPart(copy)
<1> DEFINE other == [copy EXCEPT !.rev = n]
<1>1. other \in Copies /\ other.fields = copy.fields /\ other.lifecycle = copy.lifecycle
  BY DEF Copies
<1> HIDE DEF other
<1>2. other # Null /\ copy # Null
  BY <1>1, NullIsNoCopy
<1>3. UserPart(other) = UserPart(copy)
  BY <1>1, <1>2 DEF UserPart
<1> QED
  BY <1>1, <1>3 DEF other

LEMMA MergeTyped ==
  ASSUME NEW b \in Copies \cup {Null}, NEW l \in Copies, NEW s \in Copies
  PROVE  /\ MergeLifecycle(b, l, s) \in Histories(Events)
         /\ MergeAnnotation(b, l, s).annotation \in Copies
<1> DEFINE o == Origin(b, s)
           first == [status |-> s.status, lifecycle |-> s.lifecycle, dropped |-> << >>]
           events == LocalEvents(b, l, s)
           history == MergeLifecycle(b, l, s)
<1>1. o \in Copies
  BY DEF Origin
<1>2. o.lifecycle \in Seq(Events) /\ l.lifecycle \in Seq(Events) /\ s.lifecycle \in Seq(Events)
  BY <1>1 DEF Copies
<1> HIDE DEF o
<1>3. EventsAfter(o.lifecycle, l.lifecycle) \in Seq(Events)
  BY <1>2, EventsAfterIs DEF Splits
<1>4. events \in Seq(Events)
  <2>1. events = Without(EventsAfter(o.lifecycle, l.lifecycle), ToSet(EventsAfter(o.lifecycle, s.lifecycle)))
    BY DEF LocalEvents, o
  <2> QED
    BY <1>3, <2>1, WithoutIs
<1>5. first \in Histories(Events)
  BY <1>2 DEF Histories, Copies
<1>6. history = FoldLeft(MergeEvent, first, events)
  BY DEF MergeLifecycle
<1> HIDE DEF first, events
<1>7. history \in Histories(Events)
  BY <1>4, <1>5, <1>6, ReplayKeeps DEF IsReplayed
<1> HIDE DEF history
<1>8. MergeFields(b, l, s) \in [Fields -> Values]
  BY DEF MergeFields, Copies
<1>9. MergeAnnotation(b, l, s).annotation \in Copies
  <2>1. history.status \in Statuses /\ history.lifecycle \in Seq(Events) /\ s.rev \in Nat
    BY <1>7 DEF Histories, Copies
  <2>2. MergeAnnotation(b, l, s).annotation
          = [ fields |-> MergeFields(b, l, s), status |-> history.status,
              lifecycle |-> history.lifecycle, rev |-> s.rev ]
    BY DEF MergeAnnotation, history
  <2> QED
    BY <1>8, <2>1, <2>2 DEF Copies
<1> QED
  BY <1>7, <1>9 DEF history

(* A merge that drops nothing keeps every event: it is in the base, in the  *)
(* server's copy or in the merged one.                                      *)
LEMMA EventsAreMerged ==
  ASSUME NEW b \in Copies \cup {Null}, NEW l \in Copies, NEW s \in Copies,
         MergeLifecycle(b, l, s).dropped = << >>, NEW i \in DOMAIN l.lifecycle
  PROVE  \/ \E j \in DOMAIN Origin(b, s).lifecycle : l.lifecycle[i] = Origin(b, s).lifecycle[j]
         \/ \E j \in DOMAIN s.lifecycle : l.lifecycle[i] = s.lifecycle[j]
         \/ \E j \in DOMAIN MergeLifecycle(b, l, s).lifecycle :
              l.lifecycle[i] = MergeLifecycle(b, l, s).lifecycle[j]
<1> DEFINE o == Origin(b, s).lifecycle
           L == l.lifecycle
           S == s.lifecycle
           extra == EventsAfter(o, L)
           theirs == EventsAfter(o, S)
           events == LocalEvents(b, l, s)
           first == [status |-> s.status, lifecycle |-> s.lifecycle, dropped |-> << >>]
           history == MergeLifecycle(b, l, s)
<1>1. o \in Seq(Events) /\ L \in Seq(Events) /\ S \in Seq(Events)
  BY DEF Origin, Copies
<1>2. events = Without(extra, ToSet(theirs))
  BY DEF LocalEvents
<1>3. history = FoldLeft(MergeEvent, first, events)
  BY DEF MergeLifecycle
<1>4. first \in Histories(Events)
  BY <1>1 DEF Histories, Copies
<1>5. history.dropped = << >>
  OBVIOUS
<1>6. extra = EventsAfter(o, L) /\ theirs = EventsAfter(o, S)
  OBVIOUS
<1>7. i \in DOMAIN L
  OBVIOUS
<1> SUFFICES \/ \E j \in DOMAIN o : L[i] = o[j]
             \/ \E j \in DOMAIN S : L[i] = S[j]
             \/ \E j \in DOMAIN history.lifecycle : L[i] = history.lifecycle[j]
  OBVIOUS
<1> HIDE DEF o, L, S, extra, theirs, events, first, history
<1>8. PICK n \in Nat : Splits(n, Events, o, L)
  BY <1>1, EventsAfterIs
<1>9. CASE i <= n
  <2>1. i \in DOMAIN o /\ L[i] = o[i]
    BY <1>1, <1>7, <1>8, <1>9 DEF Splits
  <2> QED
    BY <2>1
<1>10. CASE ~ (i <= n)
  <2>0. i \in 1 .. Len(L) /\ Len(L) \in Nat /\ DOMAIN extra = 1 .. Len(L) - n /\ extra \in Seq(Events)
    BY <1>1, <1>6, <1>7, <1>8 DEF Splits
  <2>1. i - n \in 1 .. (Len(L) - n) /\ n + (i - n) = i
    BY <1>10, <2>0
  <2>2. i - n \in DOMAIN extra /\ extra[i - n] = L[i]
    BY <1>6, <1>8, <2>0, <2>1 DEF Splits
  <2>3. CASE L[i] \in ToSet(theirs)
    <3>1. PICK k \in DOMAIN theirs : theirs[k] = L[i]
      BY <2>3 DEF ToSet
    <3>2. PICK m \in Nat : Splits(m, Events, o, S)
      BY <1>1, EventsAfterIs
    <3>3. theirs \in Seq(Events) /\ Len(theirs) = Len(S) - m /\ Len(S) \in Nat
      BY <1>1, <1>6, <3>2 DEF Splits
    <3>4. k \in 1 .. (Len(S) - m) /\ m + k \in 1 .. Len(S)
      BY <3>1, <3>3
    <3>5. theirs[k] = S[m + k] /\ m + k \in DOMAIN S
      BY <1>1, <1>6, <3>2, <3>4 DEF Splits
    <3> QED
      BY <3>1, <3>5
  <2>4. CASE L[i] \notin ToSet(theirs)
    <3>0. \A q \in DOMAIN extra : extra[q] \notin ToSet(theirs)
                                  => \E k \in DOMAIN events : events[k] = extra[q]
      BY <1>2, <2>0, WithoutIs
    <3>1. PICK k \in DOMAIN events : events[k] = extra[i - n]
      BY <2>2, <2>4, <3>0
    <3>2. events \in Seq(Events)
      BY <1>2, <2>0, WithoutIs
    <3>3. IsReplayed(history, Events, first, events, Len(events))
      BY <1>3, <1>4, <3>2, ReplayKeeps
    <3>4. k \in 1 .. Len(events)
      BY <3>1, <3>2
    <3>5. \/ \E j \in DOMAIN history.lifecycle : history.lifecycle[j] = events[k]
          \/ \E j \in DOMAIN history.dropped : history.dropped[j] = events[k]
      BY <3>3, <3>4 DEF IsReplayed
    <3>6. DOMAIN history.dropped = {}
      BY <1>5
    <3> QED
      BY <2>2, <3>1, <3>5, <3>6
  <2> QED
    BY <2>3, <2>4
<1> QED
  BY <1>9, <1>10

LEMMA MergeTells ==
  ASSUME NEW b \in Copies \cup {Null}, NEW l \in Copies, NEW s \in Copies,
         NothingDropped(MergeAnnotation(b, l, s)), NEW x, Tells(l, x)
  PROVE  (b # Null /\ Tells(b, x)) \/ Tells(s, x) \/ Tells(MergeAnnotation(b, l, s).annotation, x)
<1> DEFINE merged == MergeAnnotation(b, l, s).annotation
           history == MergeLifecycle(b, l, s)
<1>1. merged.fields = MergeFields(b, l, s) /\ merged.lifecycle = history.lifecycle
  BY DEF MergeAnnotation
<1>2. DroppedFields(b, l, s) = {} /\ history.dropped = << >>
  BY DEF MergeAnnotation, NothingDropped
<1>3. (Origin(b, s) = b /\ b # Null) \/ Origin(b, s) = s
  BY DEF Origin
<1> HIDE DEF merged, history
<1>4. CASE \E f \in Fields : x = <<"value", l.fields[f]>>
  <2>1. PICK f \in Fields : x = <<"value", l.fields[f]>>
    BY <1>4
  <2>2. CASE f \in LocallyChanged(b, l, s)
    <3>1. merged.fields[f] = l.fields[f]
      BY <1>1, <1>2, <2>2 DEF MergeFields
    <3> QED
      BY <2>1, <3>1 DEF Tells, merged
  <2>3. CASE f \notin LocallyChanged(b, l, s)
    <3>1. l.fields[f] = Origin(b, s).fields[f]
      BY <2>3 DEF LocallyChanged
    <3> QED
      BY <1>3, <2>1, <3>1 DEF Tells
  <2> QED
    BY <2>2, <2>3
<1>5. CASE \E i \in DOMAIN l.lifecycle : x = <<"event", l.lifecycle[i].id>>
  <2>1. PICK i \in DOMAIN l.lifecycle : x = <<"event", l.lifecycle[i].id>>
    BY <1>5
  <2>2. \/ \E j \in DOMAIN Origin(b, s).lifecycle : l.lifecycle[i] = Origin(b, s).lifecycle[j]
        \/ \E j \in DOMAIN s.lifecycle : l.lifecycle[i] = s.lifecycle[j]
        \/ \E j \in DOMAIN merged.lifecycle : l.lifecycle[i] = merged.lifecycle[j]
    BY <1>1, <1>2, EventsAreMerged DEF history
  <2> QED
    BY <1>3, <2>1, <2>2 DEF Tells, merged
<1> QED
  BY <1>4, <1>5 DEF Tells

(* When a merge drops nothing, what the user did is in what was merged or   *)
(* in the outcome.                                                          *)
LEMMA MergeCovers ==
  ASSUME NEW b \in Copies \cup {Null}, NEW l \in Copies, NEW s \in Copies,
         NothingDropped(MergeAnnotation(b, l, s))
  PROVE  UserPart(l) \subseteq
           UserPart(b) \cup UserPart(s) \cup UserPart(MergeAnnotation(b, l, s).annotation)
<1>1. MergeAnnotation(b, l, s).annotation \in Copies
  BY MergeTyped
<1>2. ASSUME NEW x \in UserPart(l)
      PROVE  x \in UserPart(b) \cup UserPart(s) \cup UserPart(MergeAnnotation(b, l, s).annotation)
  <2>1. Tells(l, x) /\ x[2][1] = "user"
    BY PartIs
  <2>2. (b # Null /\ Tells(b, x)) \/ Tells(s, x) \/ Tells(MergeAnnotation(b, l, s).annotation, x)
    BY <2>1, MergeTells
  <2> QED
    BY <1>1, <2>1, <2>2, PartIs
<1> QED
  BY <1>2


-----------------------------------------------------------------------------
(* The queue and the journal. *)

LEMMA QueueGrows ==
  ASSUME NEW ops, NEW records, NEW l, NEW n \in Nat, NEW k, NEW m \in Nat,
         \A i \in DOMAIN ops : ops[i] \in OutboxOps, \A r \in records : IsRecord(r),
         QueueOK(ops, records, l, n), l \subseteq k, n <= m
  PROVE  QueueOK(ops, records, k, m)
<1>1. Distinct(ops) /\ Coalesced(ops)
  BY DEF QueueOK
<1>2. ASSUME NEW i \in DOMAIN ops PROVE OpOK(ops[i], k, m) /\ RecordsMatch(records, ops[i], k)
  <2>1. OpOK(ops[i], l, n) /\ RecordsMatch(records, ops[i], l)
    BY DEF QueueOK
  <2>2. ops[i].opId \in Nat
    BY DEF OutboxOps
  <2>3. OpOK(ops[i], k, m)
    BY <2>1, <2>2 DEF OpOK
  <2> QED
    BY <2>1, <2>3 DEF RecordsMatch
<1>3. \A r \in records : r.opId <= m
  BY DEF QueueOK, IsRecord
<1> QED
  BY <1>1, <1>2, <1>3 DEF QueueOK

\* What is left of a queue, in which nothing is gone but these operations.
IsRest(kept, ops, gone) ==
  /\ kept \in Seq(OutboxOps)
  /\ \A j \in DOMAIN kept : \E i \in DOMAIN ops : kept[j] = ops[i] /\ ops[i] \notin gone
  /\ \A i \in DOMAIN ops : ops[i] \notin gone => \E j \in DOMAIN kept : kept[j] = ops[i]

(* A queue from which some are gone stays in order.                         *)
LEMMA CoalescedDrops ==
  ASSUME NEW ops \in Seq(OutboxOps), NEW gone, Coalesced(ops)
  PROVE  Coalesced(Without(ops, gone))
<1> DEFINE kept == Without(ops, gone)
<1>1. NoDuplicates(kept)
  BY WithoutDistinct DEF Coalesced
<1>2. IsKept(kept, OutboxOps, ops, Len(ops), gone)
  BY WithoutKeeps
<1> HIDE DEF kept
<1>3. ASSUME NEW j \in DOMAIN kept, kept[j].kind = "clear", j # 1
      PROVE  FALSE
  <2>1. kept \in Seq(OutboxOps)
    BY <1>2 DEF IsKept
  <2>2. 1 \in DOMAIN kept /\ 1 < j
    BY <1>3, <2>1
  <2>3. PICK a \in 1 .. Len(ops), b \in 1 .. Len(ops) : a < b /\ kept[j] = ops[b]
    BY <1>2, <2>2 DEF IsKept
  <2>4. b \in DOMAIN ops /\ ops[b].kind = "clear"
    BY <1>3, <2>3
  <2>5. b = 1
    BY <2>4 DEF Coalesced
  <2> QED
    BY <2>3, <2>5
<1> QED
  BY <1>1, <1>3 DEF Coalesced, kept

(* Some operations leave the queue.                                         *)
LEMMA QueueDrops ==
  ASSUME NEW ops \in Seq(OutboxOps), NEW gone, NEW records, NEW l, NEW n,
         QueueOK(ops, records, l, n)
  PROVE  IsRest(Without(ops, gone), ops, gone) /\ QueueOK(Without(ops, gone), records, l, n)
<1> DEFINE kept == Without(ops, gone)
<1>1. IsRest(kept, ops, gone)
  BY WithoutIs DEF IsRest
<1>2. Distinct(kept) /\ Coalesced(kept)
  BY WithoutDistinct, CoalescedDrops DEF QueueOK
<1> HIDE DEF kept
<1>3. QueueOK(kept, records, l, n)
  BY <1>1, <1>2 DEF QueueOK, IsRest
<1> QED
  BY <1>1, <1>3 DEF kept

\* The operations with other identities are still there.
HasOthers(kept, ops, opIds) ==
  \A i \in DOMAIN ops : ops[i].opId \notin opIds => \E j \in DOMAIN kept : kept[j] = ops[i]

IsPartOf(kept, ops) == \A j \in DOMAIN kept : \E i \in DOMAIN ops : kept[j] = ops[i]

LEMMA QueueDropsIds ==
  ASSUME NEW ops \in Seq(OutboxOps), NEW opIds, NEW records, NEW l, NEW n,
         QueueOK(ops, records, l, n)
  PROVE  /\ WithoutIds(ops, opIds) \in Seq(OutboxOps)
         /\ QueueOK(WithoutIds(ops, opIds), records, l, n)
         /\ HasOthers(WithoutIds(ops, opIds), ops, opIds) /\ IsPartOf(WithoutIds(ops, opIds), ops)
<1> DEFINE gone == {o \in ToSet(ops) : o.opId \in opIds}
<1>1. IsRest(Without(ops, gone), ops, gone) /\ QueueOK(Without(ops, gone), records, l, n)
  BY QueueDrops
<1>2. WithoutIds(ops, opIds) = Without(ops, gone)
  BY DEF WithoutIds
<1>3. \A i \in DOMAIN ops : ops[i] \in gone <=> ops[i].opId \in opIds
  BY DEF ToSet
<1> HIDE DEF gone
<1>4. HasOthers(WithoutIds(ops, opIds), ops, opIds)
  BY <1>1, <1>2, <1>3 DEF IsRest, HasOthers
<1>5. IsPartOf(WithoutIds(ops, opIds), ops)
  BY <1>1, <1>2 DEF IsRest, IsPartOf
<1> QED
  BY <1>1, <1>2, <1>4, <1>5 DEF IsRest

\* The queue that Enqueue leaves.
Enqueued(ops, op) ==
  Append(Without(ops, {ops[i] : i \in Replaced(ops, op)}), Rebased(op, {ops[i] : i \in Replaced(ops, op)}))

LEMMA ReplacedAre ==
  ASSUME NEW ops \in Seq(OutboxOps), NEW op, NEW i \in Replaced(ops, op)
  PROVE  i \in DOMAIN ops /\ (op.kind = "clear" \/ ops[i].id = op.id)
<1>1. CASE op.kind = "clear"
  BY <1>1 DEF Replaced
<1>2. CASE op.kind # "clear"
  <2> DEFINE same == {k \in DOMAIN ops : k > LastClear(ops) /\ ops[k].id = op.id}
  <2>1. same # {} /\ i = CHOOSE k \in same : \A j \in same : k <= j
    BY <1>2 DEF Replaced
  <2>2. same \subseteq Nat
    OBVIOUS
  <2> HIDE DEF same
  <2>3. PICK k \in same : \A j \in same : ~ (j < k)
    BY <2>1, <2>2, LeastNumber
  <2>4. \A j \in same : k <= j
    BY <2>2, <2>3
  <2>5. i \in same
    BY <2>1, <2>3, <2>4
  <2> QED
    BY <2>5 DEF same
<1> QED
  BY <1>1, <1>2

(* In a queue in order, an operation replaces all that is queued on its     *)
(* annotation, and a clear replaces everything.                             *)
LEMMA ReplacesAll ==
  ASSUME NEW ops \in Seq(OutboxOps), Coalesced(ops), \A i \in DOMAIN ops : WellFormed(ops[i]),
         NEW op, WellFormed(op), NEW i \in DOMAIN ops, op.kind = "clear" \/ ops[i].id = op.id
  PROVE  i \in Replaced(ops, op)
<1>1. CASE op.kind = "clear"
  BY <1>1 DEF Replaced
<1>2. CASE op.kind # "clear"
  <2> DEFINE clears == {k \in DOMAIN ops : ops[k].kind = "clear"}
             same == {k \in DOMAIN ops : k > LastClear(ops) /\ ops[k].id = op.id}
  <2>1. ops[i].id = op.id /\ op.id \in Ids
    BY <1>2 DEF WellFormed
  <2>2. ops[i].kind # "clear"
    BY <2>1, NullIsNoId DEF WellFormed
  <2>3. i > LastClear(ops)
    <3>1. CASE clears = {}
      <4>1. LastClear(ops) = 0
        BY <3>1 DEF LastClear
      <4> QED
        BY <4>1
    <3>2. CASE clears # {}
      <4>1. clears = {1}
        BY <3>2 DEF Coalesced
      <4>2. LastClear(ops) = CHOOSE k \in clears : \A j \in clears : j <= k
        BY <3>2 DEF LastClear
      <4> HIDE DEF clears
      <4>3. LastClear(ops) = 1
        BY <4>1, <4>2
      <4>4. i # 1
        BY <2>2, <4>1 DEF clears
      <4> QED
        BY <4>3, <4>4
    <3> QED
      BY <3>1, <3>2
  <2>4. i \in same
    BY <2>1, <2>3
  <2>5. \A k \in same : k = i
    BY <2>1 DEF Coalesced, NoDuplicates
  <2>6. Replaced(ops, op) = IF same = {} THEN {} ELSE {CHOOSE k \in same : \A j \in same : k <= j}
    BY <1>2 DEF Replaced
  <2> HIDE DEF same
  <2>7. same = {i} /\ i \in Nat
    BY <2>4, <2>5
  <2>8. (CHOOSE k \in same : \A j \in same : k <= j) = i
    BY <2>7
  <2> QED
    BY <2>4, <2>6, <2>8
<1> QED
  BY <1>1, <1>2

LEMMA RebasedIs ==
  ASSUME NEW ops \in Seq(OutboxOps), NEW records, NEW op, NEW l, NEW n,
         QueueOK(ops, records, l, n), OpOK(op, l, n), NEW replaced,
         \A o \in replaced : \E i \in DOMAIN ops : o = ops[i]
  PROVE  LET new == Rebased(op, replaced)
         IN  /\ OpOK(new, l, n)
             /\ new.opId = op.opId /\ new.id = op.id /\ new.kind = op.kind /\ new.local = op.local
<1>1. CASE op.kind = "clear" \/ replaced = {}
  BY <1>1 DEF Rebased
<1>2. CASE ~ (op.kind = "clear" \/ replaced = {})
  <2> DEFINE earlier == CHOOSE o \in replaced : TRUE
             new == [op EXCEPT !.baseRev = earlier.baseRev, !.base = earlier.base]
  <2>1. Rebased(op, replaced) = new
    BY <1>2 DEF Rebased
  <2>2. earlier \in replaced
    BY <1>2
  <2> HIDE DEF earlier
  <2>3. PICK i \in DOMAIN ops : earlier = ops[i]
    BY <2>2
  <2>4. earlier \in OutboxOps /\ UserPart(earlier.base) \subseteq l
    BY <2>3 DEF QueueOK, OpOK
  <2>5. op \in OutboxOps
    BY DEF OpOK
  <2>6. /\ DOMAIN new = {"opId", "kind", "id", "local", "baseRev", "base"}
        /\ new = [f \in DOMAIN new |-> new[f]]
    BY <2>5 DEF OutboxOps
  <2>7. /\ new.opId = op.opId /\ new.id = op.id /\ new.kind = op.kind /\ new.local = op.local
        /\ new.baseRev = earlier.baseRev /\ new.base = earlier.base
    BY <2>5 DEF OutboxOps
  <2> HIDE DEF new
  <2>8. new \in OutboxOps
    BY <2>4, <2>5, <2>6, <2>7 DEF OutboxOps
  <2>9. OpOK(new, l, n)
    BY <2>4, <2>7, <2>8 DEF OpOK, WellFormed
  <2> QED
    BY <2>1, <2>7, <2>9
<1> QED
  BY <1>1, <1>2

\* A queue that has taken an operation in, and dropped only what that one replaces.
TakesIn(q, ops, op) ==
  /\ q \in Seq(OutboxOps)
  /\ \E j \in DOMAIN q : q[j].opId = op.opId /\ q[j].id = op.id /\ q[j].kind = op.kind /\ q[j].local = op.local
  /\ \A i \in DOMAIN ops : \/ \E j \in DOMAIN q : q[j] = ops[i]
                           \/ op.kind = "clear" \/ ops[i].id = op.id

(* A live write that did not get through is queued.                         *)
LEMMA QueueAdds ==
  ASSUME NEW ops \in Seq(OutboxOps), NEW records, NEW op, NEW l, NEW n,
         QueueOK(ops, records, l, n), OpOK(op, l, n), RecordsMatch(records, op, l),
         \A i \in DOMAIN ops : ops[i].opId < op.opId
  PROVE  TakesIn(Enqueued(ops, op), ops, op) /\ QueueOK(Enqueued(ops, op), records, l, n)
<1> DEFINE replaced == {ops[i] : i \in Replaced(ops, op)}
           kept == Without(ops, replaced)
           new == Rebased(op, replaced)
           q == Append(kept, new)
<1>1. \A i \in Replaced(ops, op) : i \in DOMAIN ops /\ (op.kind = "clear" \/ ops[i].id = op.id)
  BY ReplacedAre
<1>2. \A o \in replaced : \E i \in DOMAIN ops : o = ops[i] /\ (op.kind = "clear" \/ o.id = op.id)
  BY <1>1
<1>3. Enqueued(ops, op) = q
  BY DEF Enqueued
<1> HIDE DEF replaced
<1>0. IsRest(kept, ops, replaced) /\ QueueOK(kept, records, l, n)
  BY QueueDrops
<1>5. /\ OpOK(new, l, n)
      /\ new.opId = op.opId /\ new.id = op.id /\ new.kind = op.kind /\ new.local = op.local
  BY <1>2, RebasedIs
<1> HIDE DEF kept, new
<1>4. /\ kept \in Seq(OutboxOps)
      /\ QueueOK(kept, records, l, n)
      /\ \A j \in DOMAIN kept : \E i \in DOMAIN ops : kept[j] = ops[i] /\ ops[i] \notin replaced
      /\ \A i \in DOMAIN ops : ops[i] \notin replaced => \E j \in DOMAIN kept : kept[j] = ops[i]
  BY <1>0 DEF IsRest
<1>6. new \in OutboxOps
  BY <1>5 DEF OpOK
<1>7. /\ q \in Seq(OutboxOps) /\ Len(kept) \in Nat
      /\ DOMAIN kept = 1 .. Len(kept) /\ DOMAIN q = 1 .. Len(kept) + 1
      /\ q[Len(kept) + 1] = new
      /\ \A j \in 1 .. Len(kept) : q[j] = kept[j]
  BY <1>4, <1>6
<1> HIDE DEF q
<1>8. /\ Len(kept) + 1 \in DOMAIN q
      /\ \A j \in DOMAIN kept : j \in DOMAIN q /\ q[j] = kept[j] /\ kept[j].opId < op.opId
      /\ \A j \in DOMAIN q : j \in DOMAIN kept \/ j = Len(kept) + 1
  BY <1>4, <1>7
<1>9. Distinct(q)
  <2> SUFFICES ASSUME NEW i \in DOMAIN q, NEW j \in DOMAIN q, q[i].opId = q[j].opId
               PROVE  i = j
    BY DEF Distinct
  <2>1. Distinct(kept)
    BY <1>4 DEF QueueOK
  <2>2. \A k \in DOMAIN kept : kept[k].opId \in Nat /\ kept[k].opId # op.opId
    <3> SUFFICES ASSUME NEW k \in DOMAIN kept PROVE kept[k].opId \in Nat /\ kept[k].opId # op.opId
      OBVIOUS
    <3>1. kept[k] \in OutboxOps /\ op \in OutboxOps
      BY <1>4 DEF OpOK
    <3>2. kept[k].opId \in Nat /\ op.opId \in Nat
      BY <3>1 DEF OutboxOps
    <3> QED
      BY <1>8, <3>2
  <2> QED
    BY <1>5, <1>7, <1>8, <2>1, <2>2 DEF Distinct
<1>10. RecordsMatch(records, new, l)
  BY <1>5 DEF RecordsMatch, OpPart
<1>13. ASSUME NEW j \in DOMAIN kept
       PROVE  op.kind # "clear" /\ kept[j].id # op.id
  <2>1. Coalesced(ops) /\ WellFormed(op) /\ \A i \in DOMAIN ops : WellFormed(ops[i])
    BY DEF QueueOK, OpOK
  <2>2. PICK i \in DOMAIN ops : kept[j] = ops[i] /\ ops[i] \notin replaced
    BY <1>4
  <2>3. i \notin Replaced(ops, op)
    BY <2>2 DEF replaced
  <2> QED
    BY <2>1, <2>2, <2>3, ReplacesAll
<1>14. Coalesced(q)
  <2>1. Coalesced(kept)
    BY <1>4 DEF QueueOK
  <2>2. ASSUME NEW i \in DOMAIN q, NEW j \in DOMAIN q, q[i].id = q[j].id
        PROVE  i = j
    BY <1>5, <1>7, <1>8, <1>13, <2>1, <2>2 DEF Coalesced, NoDuplicates
  <2>3. ASSUME NEW i \in DOMAIN q, q[i].kind = "clear"
        PROVE  i = 1
    <3>1. CASE i \in DOMAIN kept
      BY <1>8, <1>7, <2>1, <2>3, <3>1 DEF Coalesced
    <3>2. CASE i \notin DOMAIN kept
      <4>1. i = Len(kept) + 1 /\ op.kind = "clear"
        BY <1>5, <1>7, <1>8, <2>3, <3>2
      <4>2. DOMAIN kept = {}
        BY <1>13, <4>1
      <4> QED
        BY <1>7, <4>1, <4>2
    <3> QED
      BY <3>1, <3>2
  <2> QED
    BY <2>2, <2>3 DEF Coalesced, NoDuplicates
<1>11. QueueOK(q, records, l, n)
  <2>1. \A j \in DOMAIN q : OpOK(q[j], l, n) /\ RecordsMatch(records, q[j], l)
    BY <1>4, <1>5, <1>7, <1>8, <1>10 DEF QueueOK
  <2> QED
    BY <1>4, <1>9, <1>14, <2>1 DEF QueueOK
<1>12. \A i \in DOMAIN ops : \/ \E j \in DOMAIN q : q[j] = ops[i]
                             \/ op.kind = "clear" \/ ops[i].id = op.id
  BY <1>2, <1>4, <1>8
<1> QED
  BY <1>3, <1>5, <1>7, <1>8, <1>11, <1>12 DEF TakesIn

(* The journal entry of one operation is written again.                     *)
LEMMA QueueRecords ==
  ASSUME NEW ops, NEW records, NEW more, NEW op, NEW l, NEW n,
         QueueOK(ops, records, l, n), op.opId <= n,
         \A i \in DOMAIN ops : ops[i].opId = op.opId => ops[i] = op,
         \A r \in more : \/ r \in records
                         \/ /\ r.opId = op.opId /\ r.id = op.id
                            /\ UserPart(r.local) \subseteq l \cup OpPart(op)
  PROVE  QueueOK(ops, more, l, n)
BY DEF QueueOK, RecordsMatch

(* What a flush sends next.                                                 *)
LEMMA TodoNext ==
  ASSUME NEW todo \in Seq(OutboxOps), todo # << >>, NEW t, TodoOK(todo, t)
  PROVE  /\ Head(todo) \in OutboxOps /\ Tail(todo) \in Seq(OutboxOps)
         /\ FlushOK(Head(todo), Tail(todo), t)
<1> DEFINE rest == Tail(todo)
<1>1. /\ 1 \in DOMAIN todo /\ Head(todo) = todo[1] /\ Head(todo) \in OutboxOps
      /\ rest \in Seq(OutboxOps)
      /\ \A i \in DOMAIN rest : i + 1 \in DOMAIN todo /\ i + 1 # 1 /\ rest[i] = todo[i + 1]
      /\ \A i \in DOMAIN rest : i \in Nat
  OBVIOUS
<1> HIDE DEF rest
<1>2. Distinct(rest)
  <2> SUFFICES ASSUME NEW i \in DOMAIN rest, NEW j \in DOMAIN rest, rest[i].opId = rest[j].opId
               PROVE  i = j
    BY DEF Distinct
  <2>1. i + 1 = j + 1
    BY <1>1 DEF TodoOK, Distinct
  <2> QED
    BY <1>1, <2>1
<1>3. \A i \in DOMAIN rest : rest[i].opId # Head(todo).opId
  BY <1>1 DEF TodoOK, Distinct
<1>4. FlushOK(Head(todo), rest, t)
  BY <1>1, <1>2, <1>3 DEF TodoOK, FlushOK
<1> QED
  BY <1>1, <1>4 DEF rest

-----------------------------------------------------------------------------
(* What the handlers do to the page.                                        *)

\* The two pages have the same queue and the same journals.
SameBooks(u, t) ==
  /\ u.memoryOnly = t.memoryOnly /\ u.outbox = t.outbox
  /\ u.conflicts = t.conflicts /\ u.parked = t.parked

PageFields ==
  {"shown", "known", "online", "refused", "memoryOnly", "held", "cache", "outbox", "conflicts", "parked"}

LEMMA PageIs ==
  ASSUME NEW t, IsPage(t)
  PROVE  DOMAIN t = PageFields
BY DEF IsPage, FreshTab, PageFields

LEMMA Unchecked ==
  ASSUME NEW t, IsPage(t), NEW b \in BOOLEAN
  PROVE  /\ IsPage([t EXCEPT !.online = b]) /\ SameBooks([t EXCEPT !.online = b], t)
         /\ IsPage([t EXCEPT !.refused = b]) /\ SameBooks([t EXCEPT !.refused = b], t)
         /\ [t EXCEPT !.online = b].known = t.known /\ [t EXCEPT !.refused = b].known = t.known
         /\ [t EXCEPT !.online = b].held = t.held /\ [t EXCEPT !.refused = b].held = t.held
BY PageIs DEF IsPage, IsStorage, SameBooks, PageFields

LEMMA UpsertIs ==
  ASSUME NEW t, IsPage(t), NEW id \in Ids, NEW copy \in Copies
  PROVE  /\ IsPage(CacheUpsert(t, id, copy)) /\ SameBooks(CacheUpsert(t, id, copy), t)
         /\ CacheUpsert(t, id, copy).known = t.known /\ CacheUpsert(t, id, copy).shown = t.shown
<1> DEFINE view == [(IF t.cache = Null THEN EmptyStore ELSE t.cache) EXCEPT ![id] = copy]
<1>1. view \in Views
  BY DEF IsPage, IsStorage, Views, EmptyStore
<1>2. CacheUpsert(t, id, copy) = [t EXCEPT !.cache = view]
  BY DEF CacheUpsert
<1> HIDE DEF view
<1> QED
  BY <1>1, <1>2, PageIs DEF IsPage, IsStorage, SameBooks, PageFields

LEMMA UncacheIs ==
  ASSUME NEW t, IsPage(t), NEW id \in Ids
  PROVE  /\ IsPage(CacheRemove(t, id)) /\ SameBooks(CacheRemove(t, id), t)
         /\ CacheRemove(t, id).known = t.known /\ CacheRemove(t, id).shown = t.shown
<1> DEFINE view == IF t.cache = Null THEN Null ELSE [t.cache EXCEPT ![id] = Null]
<1>1. view \in Views \cup {Null}
  BY DEF IsPage, IsStorage, Views
<1>2. CacheRemove(t, id) = [t EXCEPT !.cache = view]
  BY DEF CacheRemove
<1> HIDE DEF view
<1> QED
  BY <1>1, <1>2, PageIs DEF IsPage, IsStorage, SameBooks, PageFields

LEMMA ConfirmIs ==
  ASSUME NEW t, IsPage(t), NEW id \in Ids, NEW saved \in Copies
  PROVE  /\ IsPage(Confirm(t, id, saved)) /\ SameBooks(Confirm(t, id, saved), t)
         /\ Confirm(t, id, saved).known = [t.known EXCEPT ![id] = saved]
<1> DEFINE c == CacheUpsert(t, id, saved)
           news == IF t.known[id] # saved THEN saved ELSE c.shown[id]
           known == [c.known EXCEPT ![id] = saved]
           shown == [c.shown EXCEPT ![id] = news]
<1>1. IsPage(c) /\ SameBooks(c, t) /\ c.known = t.known
  BY UpsertIs
<1>2. Confirm(t, id, saved) = [c EXCEPT !.known = known, !.shown = shown]
  BY DEF Confirm
<1> HIDE DEF c
<1>3. known \in Views /\ shown \in Views /\ known = [t.known EXCEPT ![id] = saved]
  BY <1>1 DEF IsPage, Views
<1> HIDE DEF known, shown
<1>4. IsPage([c EXCEPT !.known = known, !.shown = shown])
  BY <1>1, <1>3, PageIs DEF IsPage, IsStorage, PageFields
<1>5. SameBooks([c EXCEPT !.known = known, !.shown = shown], t)
      /\ [c EXCEPT !.known = known, !.shown = shown].known = known
  BY <1>1, PageIs DEF SameBooks, PageFields
<1> QED
  BY <1>2, <1>3, <1>4, <1>5

LEMMA SeenIs ==
  ASSUME NEW t, IsPage(t), NEW known \in Views, NEW shown \in Views, NEW cache \in Views \cup {Null},
         NEW u, DOMAIN u = PageFields, u.shown = shown, u.known = known, u.cache = cache,
         \A f \in PageFields \ {"shown", "known", "cache"} : u[f] = t[f]
  PROVE  IsPage(u) /\ SameBooks(u, t)
BY PageIs DEF IsPage, IsStorage, SameBooks, PageFields

LEMMA RecordIs ==
  ASSUME NEW t, IsPage(t), NEW record, IsRecord(record)
  PROVE  /\ IsPage(RecordConflict(t, record))
         /\ RecordConflict(t, record).memoryOnly = t.memoryOnly
         /\ RecordConflict(t, record).outbox = t.outbox /\ RecordConflict(t, record).parked = t.parked
         /\ RecordConflict(t, record).known = t.known
         /\ RecordConflict(t, record).conflicts = {r \in t.conflicts : r.opId # record.opId} \cup {record}
<1> DEFINE records == {r \in t.conflicts : r.opId # record.opId} \cup {record}
<1>1. \A r \in records : IsRecord(r)
  BY DEF IsPage, IsStorage
<1>2. RecordConflict(t, record) = [t EXCEPT !.conflicts = records]
  BY DEF RecordConflict
<1> HIDE DEF records
<1>3. IsPage([t EXCEPT !.conflicts = records]) /\ [t EXCEPT !.conflicts = records].conflicts = records
  BY <1>1, PageIs DEF IsPage, IsStorage, PageFields
<1>4. /\ [t EXCEPT !.conflicts = records].memoryOnly = t.memoryOnly
      /\ [t EXCEPT !.conflicts = records].outbox = t.outbox
      /\ [t EXCEPT !.conflicts = records].parked = t.parked
      /\ [t EXCEPT !.conflicts = records].known = t.known
  BY PageIs DEF PageFields
<1> QED
  BY <1>2, <1>3, <1>4 DEF records

LEMMA ParkIs ==
  ASSUME NEW t, IsPage(t), NEW op \in OutboxOps
  PROVE  /\ IsPage(Park(t, op))
         /\ Park(t, op).memoryOnly = t.memoryOnly /\ Park(t, op).outbox = t.outbox
         /\ Park(t, op).conflicts = t.conflicts /\ Park(t, op).known = t.known
         /\ Park(t, op).parked = t.parked \cup {op}
BY PageIs DEF IsPage, IsStorage, PageFields, Park

LEMMA HoldIs ==
  ASSUME NEW t, IsPage(t), NEW opId \in Nat
  PROVE  /\ IsPage([t EXCEPT !.held = @ \cup {opId}]) /\ SameBooks([t EXCEPT !.held = @ \cup {opId}], t)
         /\ [t EXCEPT !.held = @ \cup {opId}].known = t.known
BY PageIs DEF IsPage, IsStorage, SameBooks, PageFields

\* The page's queue becomes q.
LEMMA RequeueIs ==
  ASSUME NEW t, IsPage(t), NEW q \in Seq(OutboxOps), \A i \in DOMAIN q : WellFormed(q[i])
  PROVE  /\ IsPage([t EXCEPT !.outbox = q]) /\ [t EXCEPT !.outbox = q].outbox = q
         /\ [t EXCEPT !.outbox = q].memoryOnly = t.memoryOnly
         /\ [t EXCEPT !.outbox = q].conflicts = t.conflicts
         /\ [t EXCEPT !.outbox = q].parked = t.parked
         /\ [t EXCEPT !.outbox = q].known = t.known
BY PageIs DEF IsPage, IsStorage, PageFields

LEMMA EnqueueIs ==
  ASSUME NEW t, NEW op
  PROVE  Enqueue(t, op) = [t EXCEPT !.outbox = Enqueued(t.outbox, op)]
BY DEF Enqueue, Enqueued

\* localStorage fails.
LEMMA FullIs ==
  ASSUME NEW t, IsPage(t)
  PROVE  /\ IsPage([t EXCEPT !.memoryOnly = TRUE]) /\ [t EXCEPT !.memoryOnly = TRUE].memoryOnly = TRUE
         /\ [t EXCEPT !.memoryOnly = TRUE].outbox = t.outbox
         /\ [t EXCEPT !.memoryOnly = TRUE].conflicts = t.conflicts
         /\ [t EXCEPT !.memoryOnly = TRUE].parked = t.parked
         /\ [t EXCEPT !.memoryOnly = TRUE].known = t.known
         /\ [t EXCEPT !.memoryOnly = TRUE].cache = t.cache
BY PageIs DEF IsPage, IsStorage, PageFields


-----------------------------------------------------------------------------
(* A step of the running job: the page it leads to, and the job.            *)

\* What is queued stays queued, or is where QueueIsDurable wants it.
Durable(u) ==
  \A i \in DOMAIN tab.outbox :
    LET op == tab.outbox[i]
    IN  Superseded(op, u) \/ TakenByServer(op) \/ SetAside(u, op) \/ Unnamed(op)

\* A page that may come after the one before, its localStorage full or not.
Sound(u) ==
  /\ IsPage(u) /\ u.memoryOnly = tab.memoryOnly /\ Landed(u.known, landed')
  /\ QueueOK(u.outbox, u.conflicts, landed', count'.ops)
  /\ QueueOK(tab.outbox, u.conflicts, landed', count'.ops)
  /\ Durable(u)

\* What is wanted and was told of in the page or in the job still is.
Keeps(u, j) ==
  OneWrite =>
    \A id \in Ids : \A x \in Wanted(id) :
      InPage(x, tab, id) \/ InJob(x, job, id)
        => x \in landed' \/ InJob(x, j, id) \/ InPage(x, u, id)

StillCovers(u, j) == OneWrite /\ j # Null /\ j.kind = "write" => Covers(j.op, u.outbox)

Follows(u, j) ==
  /\ Sound(u)
  /\ j # Null => JobOK(j, u, landed', count'.ops)
  /\ Keeps(u, j) /\ StillCovers(u, j)

Counts == [user : Nat, other : Nat, faults : Nat, reloads : Nat, pairs : Nat, ops : Nat]

\* What the step does besides.
World ==
  /\ server' \in Views /\ Landed(server', landed') /\ landed \subseteq landed'
  /\ lives' \in [Ids -> Nat]
  /\ count' \in Counts
  /\ count.ops <= count'.ops
  /\ chain' \in Seq(Calls) /\ intents' \in Intents

LEMMA JobTyped ==
  ASSUME NEW j, NEW u, NEW l, NEW n, j # Null => JobOK(j, u, l, n)
  PROVE  j \in Jobs \cup {Null}
BY DEF JobOK

\* Only the queue and the journal of a page matter to the job.
LEMMA JobElsewhere ==
  ASSUME NEW j, NEW t, NEW u, NEW l, NEW n, JobOK(j, t, l, n),
         u.outbox = t.outbox, u.conflicts = t.conflicts
  PROVE  JobOK(j, u, l, n)
BY DEF JobOK, WriteOK, FlushOK, TodoOK, MergeOK, Recorded

LEMMA DiskIs ==
  ASSUME NEW t
  PROVE  /\ DOMAIN OnDisk(t) = {"cache", "outbox", "conflicts", "parked"}
         /\ OnDisk(t).cache = t.cache /\ OnDisk(t).outbox = t.outbox
         /\ OnDisk(t).conflicts = t.conflicts /\ OnDisk(t).parked = t.parked
BY DEF OnDisk

(* The page may also have filled localStorage up on its way there.          *)
LEMMA BecomeIs ==
  ASSUME JournalInv, NEW u, Become(u), Sound(u)
  PROVE  /\ IsPage(tab') /\ tab'.outbox = u.outbox /\ tab'.conflicts = u.conflicts
         /\ tab'.parked = u.parked /\ tab'.known = u.known
         /\ DOMAIN disk' = DOMAIN EmptyDisk /\ IsStorage(disk')
         /\ tab'.memoryOnly \/ OnDisk(disk') = OnDisk(tab')
         /\ \/ disk'.outbox = disk.outbox /\ disk'.conflicts = disk.conflicts
            \/ disk'.outbox = tab.outbox /\ disk'.conflicts = u.conflicts /\ disk.outbox = tab.outbox
            \/ /\ disk'.outbox = u.outbox /\ disk'.conflicts = u.conflicts /\ disk'.parked = u.parked
               /\ disk.outbox = tab.outbox
<1>0. /\ IsPage(tab) /\ IsPage(u) /\ DOMAIN disk = DOMAIN EmptyDisk /\ IsStorage(disk)
      /\ u.memoryOnly = tab.memoryOnly /\ tab.memoryOnly \in BOOLEAN
      /\ tab.memoryOnly \/ OnDisk(disk) = OnDisk(tab)
  BY DEF JournalInv, TypeOK, Sound, IsPage
<1>1. DOMAIN EmptyDisk = {"cache", "outbox", "conflicts", "parked"}
  BY DEF EmptyDisk
<1>2. IsStorage(u) /\ IsStorage(OnDisk(u))
  BY <1>0, DiskIs DEF IsPage, IsStorage
<1>3. CASE tab' = u /\ disk' = IF u.memoryOnly THEN disk ELSE OnDisk(u)
  <2>1. CASE u.memoryOnly
    BY <1>0, <1>3, <2>1
  <2>2. CASE ~ u.memoryOnly
    <3>1. disk' = OnDisk(u) /\ tab' = u
      BY <1>3, <2>2
    <3>2. OnDisk(disk') = OnDisk(tab')
      BY <3>1 DEF OnDisk
    <3>3. disk.outbox = tab.outbox
      BY <1>0, <2>2, DiskIs
    <3> QED
      BY <1>0, <1>1, <1>2, <3>1, <3>2, <3>3, DiskIs
  <2> QED
    BY <1>0, <2>1, <2>2
<1>4. CASE /\ ~ u.memoryOnly
           /\ tab' = [u EXCEPT !.memoryOnly = TRUE]
           /\ \E written \in {{"conflicts", "parked"}, {"conflicts", "parked", "cache"}} :
                disk' = [key \in DOMAIN disk |-> IF key \in written THEN OnDisk(u)[key] ELSE disk[key]]
  <2>1. PICK written \in {{"conflicts", "parked"}, {"conflicts", "parked", "cache"}} :
          disk' = [key \in DOMAIN disk |-> IF key \in written THEN OnDisk(u)[key] ELSE disk[key]]
    BY <1>4
  <2>2. /\ "conflicts" \in written /\ "parked" \in written /\ "outbox" \notin written
        /\ DOMAIN disk' = DOMAIN EmptyDisk
    BY <1>0, <2>1
  <2>3. /\ disk'.conflicts = u.conflicts /\ disk'.parked = u.parked /\ disk'.outbox = disk.outbox
        /\ disk'.cache = u.cache \/ disk'.cache = disk.cache
    BY <1>0, <1>1, <2>1, <2>2, DiskIs
  <2>4. IsStorage(disk')
    BY <1>0, <1>2, <2>3 DEF IsStorage
  <2>5. disk.outbox = tab.outbox
    BY <1>0, <1>4, DiskIs
  <2>6. /\ IsPage(tab') /\ tab'.memoryOnly /\ tab'.outbox = u.outbox /\ tab'.conflicts = u.conflicts
        /\ tab'.parked = u.parked /\ tab'.known = u.known
    BY <1>0, <1>4, FullIs
  <2> QED
    BY <2>2, <2>3, <2>4, <2>5, <2>6
<1> QED
  BY <1>3, <1>4 DEF Become

\* An operation of the queue is durable in what localStorage holds next.
DurableStep ==
  \A i \in DOMAIN disk.outbox :
    LET op == disk.outbox[i]
    IN  Superseded(op, disk') \/ TakenByServer(op) \/ SetAside(disk', op) \/ Unnamed(op)

LEMMA SupersededBySelf ==
  ASSUME NEW d, IsStorage(d), NEW i \in DOMAIN d.outbox, NEW e, e.outbox = d.outbox
  PROVE  Superseded(d.outbox[i], e)
<1>1. d.outbox[i] \in OutboxOps
  BY DEF IsStorage
<1>2. d.outbox[i].opId \in Nat
  BY <1>1 DEF OutboxOps
<1> QED
  BY <1>2 DEF Superseded

LEMMA Followed ==
  ASSUME JournalInv, NEW u, NEW j, Proceed(u, j), Follows(u, j), World
  PROVE  JournalInv' /\ DurableStep
<1>0. TypeOK /\ Sound(u) /\ Become(u) /\ job' = j
  BY DEF JournalInv, Follows, Proceed
<1>1. /\ IsPage(tab') /\ tab'.outbox = u.outbox /\ tab'.conflicts = u.conflicts
      /\ tab'.parked = u.parked /\ tab'.known = u.known
      /\ DOMAIN disk' = DOMAIN EmptyDisk /\ IsStorage(disk')
      /\ tab'.memoryOnly \/ OnDisk(disk') = OnDisk(tab')
      /\ \/ disk'.outbox = disk.outbox /\ disk'.conflicts = disk.conflicts
         \/ disk'.outbox = tab.outbox /\ disk'.conflicts = u.conflicts /\ disk.outbox = tab.outbox
         \/ /\ disk'.outbox = u.outbox /\ disk'.conflicts = u.conflicts /\ disk'.parked = u.parked
            /\ disk.outbox = tab.outbox
  BY <1>0, BecomeIs
<1>2. job' # Null => JobOK(job', tab', landed', count'.ops)
  <2>1. job' # Null => JobOK(job', u, landed', count'.ops)
    BY <1>0 DEF Follows
  <2> QED
    BY <1>1, <2>1, JobElsewhere
<1>3. TypeOK'
  <2>1. job' \in Jobs \cup {Null}
    BY <1>2, JobTyped
  <2> QED
    BY <1>1, <2>1 DEF TypeOK, World, Counts
<1>4. QueueOK(disk.outbox, disk.conflicts, landed', count'.ops)
  <2>1. /\ \A i \in DOMAIN disk.outbox : disk.outbox[i] \in OutboxOps
        /\ \A r \in disk.conflicts : IsRecord(r)
        /\ count.ops \in Nat /\ count'.ops \in Nat
    BY <1>0 DEF TypeOK, IsStorage, World, Counts
  <2>2. QueueOK(disk.outbox, disk.conflicts, landed, count.ops) /\ landed \subseteq landed'
        /\ count.ops <= count'.ops
    BY DEF JournalInv, World
  <2> QED
    BY <2>1, <2>2, QueueGrows
<1>5. QueueOK(tab'.outbox, tab'.conflicts, landed', count'.ops)
  BY <1>0, <1>1 DEF Sound
<1>6. QueueOK(disk'.outbox, disk'.conflicts, landed', count'.ops)
  <2>1. CASE disk'.outbox = disk.outbox /\ disk'.conflicts = disk.conflicts
    BY <1>4, <2>1
  <2>2. CASE disk'.outbox = tab.outbox /\ disk'.conflicts = u.conflicts
    BY <1>0, <2>2 DEF Sound
  <2>3. CASE disk'.outbox = u.outbox /\ disk'.conflicts = u.conflicts
    BY <1>0, <2>3 DEF Sound
  <2> QED
    BY <1>1, <2>1, <2>2, <2>3
<1>7. Landed(server', landed') /\ Landed(tab'.known, landed')
  BY <1>0, <1>1 DEF World, Sound
<1>8. JournalInv'
  BY <1>1, <1>2, <1>3, <1>5, <1>6, <1>7 DEF JournalInv, OnDisk
<1>9. DurableStep
  <2>1. CASE disk'.outbox = disk.outbox
    BY <1>0, <2>1, SupersededBySelf DEF DurableStep, TypeOK
  <2>2. CASE /\ disk'.outbox = u.outbox /\ disk'.conflicts = u.conflicts /\ disk'.parked = u.parked
             /\ disk.outbox = tab.outbox
    <3>1. Durable(u)
      BY <1>0 DEF Sound
    <3> QED
      BY <2>2, <3>1 DEF Durable, DurableStep, Superseded, SetAside
  <2> QED
    BY <1>1, <2>1, <2>2
<1> QED
  BY <1>8, <1>9


-----------------------------------------------------------------------------
(* What a step of the running job does to what is wanted.                   *)

SafeIsTold ==
  \A x, id : x \in Safe(id) <=> \/ x \in landed \/ InChain(x, chain, id)
                                \/ InJob(x, job, id) \/ InPage(x, tab, id)

LEMMA SafeEverywhere == SafeIsTold
BY SafeIs DEF SafeIsTold

LEMMA SafeNext ==
  \A x, id : (x \in Safe(id))' <=> \/ x \in landed' \/ InChain(x, chain', id)
                                   \/ InJob(x, job', id) \/ InPage(x, tab', id)
<1>1. SafeIsTold'
  BY SafeEverywhere, PTL
<1> QED
  BY <1>1 DEF SafeIsTold, InChain, InJob, InPage

LEMMA FollowedIntent ==
  ASSUME JournalInv, IntentInv, job # Null, NEW u, NEW j, Proceed(u, j), Follows(u, j), World,
         chain' = chain, intents' = intents
  PROVE  IntentInv'
<1>1. /\ tab'.outbox = u.outbox /\ tab'.conflicts = u.conflicts /\ tab'.parked = u.parked
      /\ job' = j
  BY BecomeIs DEF Follows, Proceed
<1>2. \A id : Wanted(id)' = Wanted(id)
  BY DEF Wanted
<1>3. OneWrite'
  <2>1. \A i \in DOMAIN chain' : chain'[i].kind \notin WriteKinds
    BY DEF IntentInv, OneWrite
  <2>2. job' # Null /\ job'.kind = "write" => Covers(job'.op, tab'.outbox)
    BY <1>1 DEF Follows, StillCovers, IntentInv
  <2>3. (job # Null /\ job.kind = "write" => Covers(job.op, tab.outbox))'
    BY <1>2, <2>2 DEF Covers
  <2> QED
    BY <2>1, <2>3 DEF OneWrite
<1>4. ASSUME NEW id \in Ids, NEW x, x \in Wanted(id)'
      PROVE  (x \in Safe(id))'
  <2>1. x \in Wanted(id) /\ x \in Safe(id)
    BY <1>2, <1>4 DEF IntentInv, NothingDiscarded
  <2>2. x \in landed \/ InChain(x, chain, id) \/ InJob(x, job, id) \/ InPage(x, tab, id)
    BY <2>1, SafeIs
  <2>3. InPage(x, tab, id) \/ InJob(x, job, id) => x \in landed' \/ InJob(x, j, id) \/ InPage(x, u, id)
    BY <2>1 DEF Follows, Keeps, IntentInv
  <2>4. x \in landed' \/ InChain(x, chain', id) \/ InJob(x, job', id) \/ InPage(x, tab', id)
    BY <1>1, <2>2, <2>3 DEF World, InPage
  <2> QED
    BY <2>4, SafeNext
<1>5. NothingDiscarded'
  BY <1>4 DEF NothingDiscarded
<1> QED
  BY <1>3, <1>5 DEF IntentInv

-----------------------------------------------------------------------------
(* The end of a handler.                                                    *)

Outcome(u, j) == Proceed(u, j) /\ Follows(u, j)

\* A page with which a job may end.
Ending(t) == Sound(t) /\ Keeps(t, Null)

LEMMA EndingIs ==
  ASSUME NEW t, Ending(t), NEW u, IsPage(u), SameBooks(u, t), Landed(u.known, landed')
  PROVE  Ending(u)
BY DEF Ending, Sound, Keeps, SameBooks, InPage, InJob, Durable, Superseded, SetAside

LEMMA EndsIn ==
  ASSUME NEW t, Ending(t), NEW j, j # Null => JobOK(j, t, landed', count'.ops) /\ j.kind # "write"
  PROVE  Follows(t, j)
BY DEF Follows, Ending, Keeps, StillCovers, InJob

LEMMA SyncFinished ==
  ASSUME NEW t, Ending(t), NEW snapshot \in Views, Landed(snapshot, landed'), FinishSync(t, snapshot)
  PROVE  \E u, j : Outcome(u, j)
<1> DEFINE news == [id \in Ids |-> IF snapshot[id] # t.known[id] THEN snapshot[id] ELSE t.shown[id]]
           seen(shown) == [t EXCEPT !.shown = shown, !.known = snapshot, !.cache = snapshot]
<1>0. IsPage(t) /\ t.shown \in Views
  BY DEF Ending, Sound, IsPage
<1>1. news \in Views
  BY <1>0 DEF Views
<1>2. \E shown \in Views : Proceed(seen(shown), Null)
  <2>1. CASE job.kind = "poll"
    <3>1. DiffAndEmit(t, snapshot) = seen(news)
      BY DEF DiffAndEmit
    <3> QED
      BY <1>1, <2>1, <3>1 DEF FinishSync
  <2>2. CASE job.kind = "load"
    <3>1. [t EXCEPT !.known = snapshot, !.cache = snapshot] = seen(t.shown)
      BY <1>0, PageIs DEF PageFields
    <3> QED
      BY <1>0, <2>2, <3>1 DEF FinishSync
  <2>3. CASE job.kind # "poll" /\ job.kind # "load"
    <3>1. [t EXCEPT !.known = snapshot, !.cache = snapshot, !.shown = snapshot] = seen(snapshot)
      BY <1>0, PageIs DEF PageFields
    <3> QED
      BY <2>3, <3>1 DEF FinishSync
  <2> QED
    BY <2>1, <2>2, <2>3
<1>3. PICK shown \in Views : Proceed(seen(shown), Null)
  BY <1>2
<1>4. PICK u : u = seen(shown)
  OBVIOUS
<1>5. /\ DOMAIN u = PageFields /\ u.shown = shown /\ u.known = snapshot /\ u.cache = snapshot
      /\ \A f \in PageFields \ {"shown", "known", "cache"} : u[f] = t[f]
  BY <1>0, <1>4, PageIs DEF PageFields
<1> HIDE DEF seen
<1>8. IsPage(u) /\ SameBooks(u, t)
  BY <1>0, <1>5, SeenIs
<1>6. Ending(u)
  BY <1>5, <1>8, EndingIs
<1>7. Follows(u, Null)
  BY <1>6, EndsIn
<1> QED
  BY <1>3, <1>4, <1>7 DEF Outcome

LEMMA UnsyncedFinished ==
  ASSUME NEW t, Ending(t), FinishUnsynced(t)
  PROVE  \E u, j : Outcome(u, j)
<1>0. IsPage(t) /\ t.known \in Views /\ t.cache \in Views \cup {Null} /\ Landed(t.known, landed')
  BY DEF Ending, Sound, IsPage, IsStorage
<1>1. CASE job.kind = "init" /\ t.cache # Null
  <2> DEFINE v == [t EXCEPT !.shown = t.cache]
  <2>1. /\ DOMAIN v = PageFields /\ v.shown = t.cache /\ v.known = t.known /\ v.cache = t.cache
        /\ \A f \in PageFields \ {"shown", "known", "cache"} : v[f] = t[f]
    BY <1>0, PageIs DEF PageFields
  <2>2. Proceed(v, Null)
    BY <1>1 DEF FinishUnsynced
  <2> HIDE DEF v
  <2>3. PICK u : u = v
    OBVIOUS
  <2>4. IsPage(u) /\ SameBooks(u, t)
    BY <1>0, <1>1, <2>1, <2>3, SeenIs
  <2>5. Follows(u, Null)
    BY <1>0, <2>1, <2>3, <2>4, EndingIs, EndsIn
  <2> QED
    BY <2>2, <2>3, <2>5 DEF Outcome
<1>2. CASE ~ (job.kind = "init" /\ t.cache # Null)
  <2>1. Proceed(t, Null)
    BY <1>2 DEF FinishUnsynced
  <2>2. Follows(t, Null)
    BY EndsIn
  <2> QED
    BY <2>1, <2>2 DEF Outcome
<1> QED
  BY <1>1, <1>2

Background == {"init", "load", "poll"}

LEMMA FlushEnded ==
  ASSUME NEW t, Ending(t), job.kind \in Background, NEW first \in Views, Landed(first, landed'),
         NEW sent \in Nat, EndFlush(t, first, sent)
  PROVE  \E u, j : Outcome(u, j)
<1>1. CASE sent > 0
  <2> DEFINE k == [Job(job.kind, "refetch") EXCEPT !.first = first]
  <2>1. Proceed(t, k)
    BY <1>1 DEF EndFlush
  <2>2. PICK j : j = k
    OBVIOUS
  <2>3. j \in Jobs /\ j.kind = job.kind /\ j.phase = "refetch" /\ j.first = first /\ j.op = Null
    <3>1. << >> \in Seq(OutboxOps) /\ 0 \in Nat
      OBVIOUS
    <3>2. j = [ kind |-> job.kind, phase |-> "refetch", op |-> Null, todo |-> << >>, sent |-> 0,
                first |-> first, merged |-> Null, current |-> Null, after |-> "sent" ]
      BY <2>2 DEF Job
    <3> HIDE DEF k
    <3>3. j \in Jobs
      BY <3>1, <3>2 DEF Jobs, Background
    <3> QED
      BY <3>2, <3>3
  <2> HIDE DEF k
  <2>5. JobOK(j, t, landed', count'.ops) /\ j.kind # "write"
    BY <2>3 DEF JobOK, Background
  <2>6. Follows(t, j)
    BY <2>5, EndsIn
  <2> QED
    BY <2>1, <2>2, <2>6 DEF Outcome
<1>2. CASE ~ (sent > 0)
  <2>1. FinishSync(t, first)
    BY <1>2 DEF EndFlush
  <2> QED
    BY <2>1, SyncFinished
<1> QED
  BY <1>1, <1>2

LEMMA NextSent ==
  ASSUME NEW t, Ending(t), job.kind \in Background, NEW first \in Views, Landed(first, landed'),
         NEW sent \in Nat, NEW todo \in Seq(OutboxOps), TodoOK(todo, t), SendNext(t, first, todo, sent)
  PROVE  \E u, j : Outcome(u, j)
<1>1. CASE todo = << >>
  <2>1. EndFlush(t, first, sent)
    BY <1>1 DEF SendNext
  <2> QED
    BY <2>1, FlushEnded
<1>2. CASE todo # << >>
  <2> DEFINE k == [Job(job.kind, "send") EXCEPT !.first = first, !.sent = sent,
                                                !.op = Head(todo), !.todo = Tail(todo)]
  <2>1. Head(todo) \in OutboxOps /\ Tail(todo) \in Seq(OutboxOps) /\ FlushOK(Head(todo), Tail(todo), t)
    BY <1>2, TodoNext
  <2>3. Proceed(t, k)
    BY <1>2 DEF SendNext
  <2>4. PICK j : j = k
    OBVIOUS
  <2>2. /\ j \in Jobs /\ j.kind = job.kind /\ j.phase = "send" /\ j.first = first
        /\ j.op = Head(todo) /\ j.todo = Tail(todo)
    BY <2>1, <2>4 DEF Job, Jobs, Background
  <2> HIDE DEF k
  <2>5. OpOK(j.op, landed', count'.ops)
    <3>1. PICK i \in DOMAIN t.outbox : Head(todo) = t.outbox[i]
      BY <2>1 DEF FlushOK
    <3>2. QueueOK(t.outbox, t.conflicts, landed', count'.ops)
      BY DEF Ending, Sound
    <3> QED
      BY <2>2, <3>1, <3>2 DEF QueueOK
  <2>6. JobOK(j, t, landed', count'.ops) /\ j.kind # "write"
    BY <2>1, <2>2, <2>5 DEF JobOK, Background
  <2>7. Follows(t, j)
    BY <2>6, EndsIn
  <2> QED
    BY <2>3, <2>4, <2>7 DEF Outcome
<1> QED
  BY <1>1, <1>2


-----------------------------------------------------------------------------
(* An operation is settled.                                                 *)

Sends == job # Null /\ job.phase \in {"send", "merge"}

\* The page as it is after the answer about the running operation was handled: its
\* queue is untouched, and its journal has changed for this operation only.
Handled(t) ==
  /\ IsPage(t) /\ t.memoryOnly = tab.memoryOnly /\ t.outbox = tab.outbox
  /\ Landed(t.known, landed')
  /\ tab.parked \subseteq t.parked
  /\ \/ t.conflicts = tab.conflicts
     \/ /\ Recorded(t, job.op)
        /\ \A r \in tab.conflicts : r.opId # job.op.opId => r \in t.conflicts
        /\ \A r \in t.conflicts :
             \/ r \in tab.conflicts
             \/ /\ r.opId = job.op.opId /\ r.id = job.op.id
                /\ UserPart(r.local) \subseteq landed' \cup OpPart(job.op)

\* The operation need not be sent again.
Done(t, op) ==
  TakenByServer(op) \/ (\E p \in t.parked : SameIntent(p, op)) \/ Recorded(t, op) \/ Unnamed(op)

LEMMA OpGrows ==
  ASSUME NEW op, NEW l, NEW n \in Nat, OpOK(op, l, n), NEW k, NEW m \in Nat, l \subseteq k, n <= m
  PROVE  OpOK(op, k, m)
<1>1. op.opId \in Nat
  BY DEF OpOK, OutboxOps
<1> QED
  BY <1>1 DEF OpOK

LEMMA HandledIs ==
  ASSUME JournalInv, World, Sends, NEW t, Handled(t)
  PROVE  /\ Sound(t)
         /\ OpOK(job.op, landed', count'.ops) /\ RecordsMatch(t.conflicts, job.op, landed')
         /\ \A x, id : InPage(x, tab, id) => x \in landed' \/ InPage(x, t, id)
<1> DEFINE op == job.op
<1>0. /\ JobOK(job, tab, landed, count.ops) /\ landed \subseteq landed'
      /\ count.ops \in Nat /\ count'.ops \in Nat /\ count.ops <= count'.ops
      /\ IsStorage(tab) /\ QueueOK(tab.outbox, tab.conflicts, landed, count.ops)
  BY DEF JournalInv, TypeOK, World, Counts, Sends, IsPage
<1>1. OpOK(op, landed, count.ops)
  BY <1>0 DEF JobOK, Sends
<1>2. OpOK(op, landed', count'.ops)
  BY <1>0, <1>1, OpGrows
<1>3. \A i \in DOMAIN tab.outbox : tab.outbox[i].opId = op.opId => tab.outbox[i] = op
  <2>1. CASE job.kind = "write"
    <3>1. \A i \in DOMAIN tab.outbox : tab.outbox[i].opId < op.opId /\ tab.outbox[i] \in OutboxOps
      BY <1>0, <2>1 DEF JobOK, Sends, WriteOK, IsStorage
    <3>2. \A i \in DOMAIN tab.outbox : tab.outbox[i].opId < op.opId /\ tab.outbox[i].opId \in Nat
      BY <3>1 DEF OutboxOps
    <3>3. op.opId \in Nat
      BY <1>1 DEF OpOK, OutboxOps
    <3> QED
      BY <3>2, <3>3
  <2>2. CASE job.kind # "write"
    <3>1. \E i \in DOMAIN tab.outbox : op = tab.outbox[i]
      BY <1>0, <2>2 DEF JobOK, Sends, FlushOK
    <3> QED
      BY <1>0, <3>1 DEF QueueOK, Distinct
  <2> QED
    BY <2>1, <2>2
<1>4. RecordsMatch(tab.conflicts, op, landed)
  <2>1. CASE job.kind = "write"
    BY <1>0, <2>1 DEF JobOK, Sends, WriteOK
  <2>2. CASE job.kind # "write"
    <3>1. PICK i \in DOMAIN tab.outbox : op = tab.outbox[i]
      BY <1>0, <2>2 DEF JobOK, Sends, FlushOK
    <3> QED
      BY <1>0, <3>1 DEF QueueOK
  <2> QED
    BY <2>1, <2>2
<1> HIDE DEF op
<1>5. QueueOK(tab.outbox, tab.conflicts, landed', count'.ops)
  BY <1>0, QueueGrows DEF IsStorage
<1>6. \A r \in t.conflicts : \/ r \in tab.conflicts
                             \/ /\ r.opId = op.opId /\ r.id = op.id
                                /\ UserPart(r.local) \subseteq landed' \cup OpPart(op)
  BY DEF Handled, op
<1>7. QueueOK(tab.outbox, t.conflicts, landed', count'.ops)
  <2>1. op.opId <= count'.ops
    BY <1>2 DEF OpOK
  <2> QED
    BY <1>3, <1>5, <1>6, <2>1, QueueRecords
<1>8. RecordsMatch(t.conflicts, op, landed')
  BY <1>0, <1>4, <1>6 DEF RecordsMatch
<1>9. Durable(t)
  BY <1>0, SupersededBySelf DEF Durable, Handled
<1>10. Sound(t)
  BY <1>7, <1>9 DEF Sound, Handled
<1>11. ASSUME NEW x, NEW id, InPage(x, tab, id)
       PROVE  x \in landed' \/ InPage(x, t, id)
  <2>1. t.outbox = tab.outbox /\ tab.parked \subseteq t.parked
    BY DEF Handled
  <2>2. CASE t.conflicts = tab.conflicts
    BY <1>11, <2>1, <2>2 DEF InPage
  <2>3. CASE \E r \in tab.conflicts : r.id = id /\ x \in UserPart(r.local) /\ r \notin t.conflicts
    <3>1. PICK r \in tab.conflicts : r.id = id /\ x \in UserPart(r.local) /\ r \notin t.conflicts
      BY <2>3
    <3>2. r.opId = op.opId /\ Recorded(t, op)
      BY <3>1 DEF Handled, op
    <3>3. r.id = op.id /\ x \in landed \cup OpPart(op)
      BY <1>4, <3>1, <3>2 DEF RecordsMatch
    <3> QED
      BY <1>0, <3>1, <3>2, <3>3 DEF Recorded, OpPart, InPage
  <2> QED
    BY <1>11, <2>1, <2>2, <2>3 DEF InPage
<1> QED
  BY <1>2, <1>8, <1>10, <1>11 DEF op

(* A live write joins the queue; what is wanted of the operation it replaces *)
(* is told of in it.                                                        *)
LEMMA QueuedIs ==
  ASSUME JournalInv, NEW t, Sound(t), t.outbox = tab.outbox,
         NEW op, OpOK(op, landed', count'.ops), RecordsMatch(t.conflicts, op, landed'),
         \A i \in DOMAIN tab.outbox : tab.outbox[i].opId < op.opId,
         NEW u, u = Enqueue(t, op)
  PROVE  /\ Sound(u)
         /\ \A x : x \in OpPart(op) => InPage(x, u, op.id)
         /\ Covers(op, tab.outbox) =>
              \A id \in Ids : \A x \in Wanted(id) : InPage(x, t, id) => InPage(x, u, id)
<1> DEFINE q == Enqueued(tab.outbox, op)
<1>2. QueueOK(tab.outbox, t.conflicts, landed', count'.ops)
  BY DEF Sound
<1>3. TakesIn(q, tab.outbox, op) /\ QueueOK(q, t.conflicts, landed', count'.ops)
  <2>1. tab.outbox \in Seq(OutboxOps)
    BY DEF JournalInv, TypeOK, IsPage, IsStorage
  <2> QED
    BY <1>2, <2>1, QueueAdds
<1>4. IsPage(t)
  BY DEF Sound
<1>6. u = [t EXCEPT !.outbox = q]
  BY EnqueueIs
<1>7. op \in OutboxOps
  BY DEF OpOK
<1> HIDE DEF q
<1>8. q \in Seq(OutboxOps) /\ \A i \in DOMAIN q : WellFormed(q[i])
  BY <1>3 DEF TakesIn, QueueOK, OpOK
<1>9. /\ IsPage(u) /\ u.outbox = q /\ u.memoryOnly = t.memoryOnly /\ u.conflicts = t.conflicts
      /\ u.parked = t.parked /\ u.known = t.known
  BY <1>4, <1>6, <1>8, RequeueIs
<1>10. PICK k \in DOMAIN q : q[k].opId = op.opId /\ q[k].id = op.id /\ q[k].kind = op.kind /\ q[k].local = op.local
  BY <1>3 DEF TakesIn
<1>11. Durable(u)
  <2> SUFFICES ASSUME NEW i \in DOMAIN tab.outbox PROVE Superseded(tab.outbox[i], u)
    BY DEF Durable
  <2>1. tab.outbox[i].opId \in Nat /\ op.opId \in Nat
    <3>1. tab.outbox[i] \in OutboxOps
      BY <1>2 DEF QueueOK, OpOK
    <3> QED
      BY <1>7, <3>1 DEF OutboxOps
  <2>2. CASE \E j \in DOMAIN q : q[j] = tab.outbox[i]
    BY <1>9, <2>1, <2>2 DEF Superseded
  <2>3. CASE op.kind = "clear" \/ tab.outbox[i].id = op.id
    <3>1. op.kind = "clear" => op.id = Null
      BY DEF OpOK, WellFormed
    <3>2. op.opId >= tab.outbox[i].opId
      BY <2>1
    <3> QED
      BY <1>9, <1>10, <2>3, <3>1, <3>2 DEF Superseded
  <2> QED
    BY <1>3, <2>2, <2>3 DEF TakesIn
<1>12. Sound(u)
  BY <1>2, <1>3, <1>9, <1>11 DEF Sound
<1>13. \A x : x \in OpPart(op) => InPage(x, u, op.id)
  BY <1>9, <1>10 DEF InPage, OpPart
<1>14. ASSUME Covers(op, tab.outbox), NEW id \in Ids, NEW x \in Wanted(id), InPage(x, t, id)
       PROVE  InPage(x, u, id)
  <2>1. CASE \E i \in DOMAIN tab.outbox : tab.outbox[i].id = id /\ x \in OpPart(tab.outbox[i])
    <3>1. PICK i \in DOMAIN tab.outbox : tab.outbox[i].id = id /\ x \in OpPart(tab.outbox[i])
      BY <2>1
    <3>2. CASE \E j \in DOMAIN q : q[j] = tab.outbox[i]
      BY <1>9, <3>1, <3>2 DEF InPage
    <3>3. CASE op.kind = "clear" \/ tab.outbox[i].id = op.id
      <4>1. op.kind \in {"save", "remove", "clear"}
        BY <1>7 DEF OutboxOps
      <4>2. CASE op.kind = "save"
        <5>1. x \in UserPart(op.local)
          BY <1>14, <3>1, <3>3, <4>2 DEF Covers
        <5> QED
          BY <1>13, <3>1, <3>3, <4>2, <5>1 DEF OpPart
      <4>3. CASE op.kind # "save"
        BY <1>14, <3>1, <3>3, <4>1, <4>3 DEF Covers
      <4> QED
        BY <4>2, <4>3
    <3> QED
      BY <1>3, <3>2, <3>3 DEF TakesIn
  <2>2. CASE ~ \E i \in DOMAIN tab.outbox : tab.outbox[i].id = id /\ x \in OpPart(tab.outbox[i])
    BY <1>9, <1>14, <2>2 DEF InPage
  <2> QED
    BY <2>1, <2>2
<1> QED
  BY <1>12, <1>13, <1>14

LEMMA WriteQueued ==
  ASSUME JournalInv, World, Sends, job.kind = "write", NEW t, Handled(t),
         Proceed(Enqueue(t, job.op), Null)
  PROVE  \E u, j : Outcome(u, j)
<1>1. /\ Sound(t) /\ OpOK(job.op, landed', count'.ops) /\ RecordsMatch(t.conflicts, job.op, landed')
      /\ \A x, id : InPage(x, tab, id) => x \in landed' \/ InPage(x, t, id)
      /\ t.outbox = tab.outbox
  BY HandledIs DEF Handled
<1>2. \A i \in DOMAIN tab.outbox : tab.outbox[i].opId < job.op.opId
  BY DEF JournalInv, JobOK, Sends, WriteOK
<1>3. PICK op : op = job.op
  OBVIOUS
<1>4. PICK u : u = Enqueue(t, op)
  OBVIOUS
<1>5. /\ Sound(u)
      /\ \A x : x \in OpPart(op) => InPage(x, u, op.id)
      /\ Covers(op, tab.outbox) =>
           \A id \in Ids : \A x \in Wanted(id) : InPage(x, t, id) => InPage(x, u, id)
  BY <1>1, <1>2, <1>3, <1>4, QueuedIs
<1>6. OneWrite => Covers(op, tab.outbox)
  BY <1>3 DEF OneWrite, Sends
<1>7. Keeps(u, Null)
  BY <1>1, <1>3, <1>5, <1>6 DEF Keeps, InJob
<1>8. Proceed(u, Null) /\ Follows(u, Null)
  BY <1>3, <1>4, <1>5, <1>7 DEF Follows, StillCovers
<1> QED
  BY <1>8 DEF Outcome

\* A settled operation that was told of in the job is told of elsewhere.
LEMMA DoneIs ==
  ASSUME Sends, NEW t, Done(t, job.op), NEW x, NEW id, InJob(x, job, id)
  PROVE  x \in landed' \/ \/ \E op \in t.parked : op.id = id /\ x \in OpPart(op)
                          \/ \E r \in t.conflicts : r.id = id /\ x \in UserPart(r.local)
BY DEF Sends, Done, InJob, OpPart, TakenByServer, Recorded, SameIntent, Unnamed

LEMMA WriteDone ==
  ASSUME JournalInv, World, Sends, job.kind = "write", NEW t, Handled(t), Done(t, job.op),
         Proceed(t, Null)
  PROVE  \E u, j : Outcome(u, j)
<1>1. Sound(t) /\ \A x, id : InPage(x, tab, id) => x \in landed' \/ InPage(x, t, id)
  BY HandledIs
<1>2. \A x, id : InJob(x, job, id) => x \in landed' \/ InPage(x, t, id)
  BY DoneIs DEF InPage
<1>3. Follows(t, Null)
  BY <1>1, <1>2 DEF Follows, Keeps, StillCovers
<1> QED
  BY <1>3 DEF Outcome

LEMMA FlushIs ==
  ASSUME JournalInv, World, Sends, job.kind # "write"
  PROVE  /\ job.kind \in Background /\ job.first \in Views /\ Landed(job.first, landed')
         /\ job.sent \in Nat /\ job.todo \in Seq(OutboxOps)
         /\ FlushOK(job.op, job.todo, tab)
<1>1. JobOK(job, tab, landed, count.ops) /\ landed \subseteq landed'
  BY DEF JournalInv, Sends, World
<1>2. job.kind \in Background /\ job.sent \in Nat /\ job.todo \in Seq(OutboxOps)
  BY <1>1 DEF JobOK, Jobs, Background
<1>3. job.first \in Views /\ Landed(job.first, landed)
  BY <1>1 DEF JobOK, Sends
<1>4. FlushOK(job.op, job.todo, tab)
  BY <1>1 DEF JobOK, Sends
<1> QED
  BY <1>1, <1>2, <1>3, <1>4 DEF Landed

\* A page on which a flush may go on or end.
LEMMA FlushHandled ==
  ASSUME JournalInv, World, Sends, job.kind # "write", NEW t, Handled(t)
  PROVE  Ending(t)
<1>1. Sound(t) /\ \A x, id : InPage(x, tab, id) => x \in landed' \/ InPage(x, t, id)
  BY HandledIs
<1>2. PICK i \in DOMAIN tab.outbox : job.op = tab.outbox[i]
  BY FlushIs DEF FlushOK
<1>3. \A x, id : InJob(x, job, id) => InPage(x, tab, id)
  BY <1>2 DEF InJob, InPage
<1> QED
  BY <1>1, <1>3 DEF Ending, Keeps


LEMMA FlushDone ==
  ASSUME JournalInv, World, Sends, job.kind # "write", NEW t, Handled(t), Done(t, job.op),
         SendNext(DropOp(t, job.op.opId), job.first, job.todo, job.sent + 1)
  PROVE  \E u, j : Outcome(u, j)
<1> DEFINE op == job.op
           opIds == {op.opId}
           kept == WithoutIds(tab.outbox, opIds)
<1>0. /\ Sound(t) /\ OpOK(op, landed', count'.ops)
      /\ Ending(t) /\ t.outbox = tab.outbox /\ IsPage(t)
  BY HandledIs, FlushHandled DEF Handled
<1>1. /\ job.kind \in Background /\ job.first \in Views /\ Landed(job.first, landed')
      /\ job.sent \in Nat /\ job.todo \in Seq(OutboxOps)
      /\ FlushOK(op, job.todo, tab)
  BY FlushIs
<1>2. tab.outbox \in Seq(OutboxOps) /\ QueueOK(tab.outbox, t.conflicts, landed', count'.ops)
  BY <1>0 DEF Sound, JournalInv, TypeOK, IsPage, IsStorage
<1>6. PICK u : u = DropOp(t, op.opId)
  OBVIOUS
<1>7. u = [t EXCEPT !.outbox = kept]
  BY <1>0, <1>6 DEF DropOp
<1>15. \A k : k \notin opIds <=> k # op.opId
  OBVIOUS
<1> HIDE DEF opIds
<1>3. kept \in Seq(OutboxOps) /\ QueueOK(kept, t.conflicts, landed', count'.ops)
  BY <1>2, QueueDropsIds
<1>4. \A i \in DOMAIN tab.outbox : tab.outbox[i].opId # op.opId
                                   => \E j \in DOMAIN kept : kept[j] = tab.outbox[i]
  <2>1. HasOthers(kept, tab.outbox, opIds)
    BY <1>2, QueueDropsIds
  <2> HIDE DEF kept
  <2> QED
    BY <1>15, <2>1 DEF HasOthers
<1>5. \A i \in DOMAIN tab.outbox : tab.outbox[i].opId = op.opId => tab.outbox[i] = op
  BY <1>1, <1>2 DEF QueueOK, Distinct, FlushOK
<1> HIDE DEF kept
<1>8. kept \in Seq(OutboxOps) /\ \A i \in DOMAIN kept : WellFormed(kept[i])
  BY <1>3 DEF QueueOK, OpOK
<1>9. /\ IsPage(u) /\ u.outbox = kept /\ u.memoryOnly = t.memoryOnly /\ u.conflicts = t.conflicts
      /\ u.parked = t.parked /\ u.known = t.known
  BY <1>0, <1>7, <1>8, RequeueIs
<1>10. Durable(u)
  <2> SUFFICES ASSUME NEW i \in DOMAIN tab.outbox
               PROVE  \/ Superseded(tab.outbox[i], u) \/ TakenByServer(tab.outbox[i])
                      \/ SetAside(u, tab.outbox[i]) \/ Unnamed(tab.outbox[i])
    BY DEF Durable
  <2>1. CASE tab.outbox[i].opId = op.opId
    BY <1>5, <1>9, <2>1 DEF Done, Recorded, SetAside
  <2>2. CASE tab.outbox[i].opId # op.opId
    <3>1. tab.outbox[i].opId \in Nat
      <4>1. tab.outbox[i] \in OutboxOps
        BY <1>2
      <4> QED
        BY <4>1 DEF OutboxOps
    <3>2. \E j \in DOMAIN kept : kept[j] = tab.outbox[i]
      BY <1>4, <2>2
    <3> QED
      BY <1>9, <3>1, <3>2 DEF Superseded
  <2> QED
    BY <2>1, <2>2
<1>11. Sound(u)
  BY <1>0, <1>2, <1>3, <1>9, <1>10 DEF Sound
<1>12. Keeps(u, Null)
  <2> SUFFICES ASSUME OneWrite, NEW id \in Ids, NEW x \in Wanted(id),
                      InPage(x, tab, id) \/ InJob(x, job, id)
               PROVE  x \in landed' \/ InPage(x, u, id)
    BY DEF Keeps
  <2>1. x \in landed' \/ InPage(x, t, id)
    BY <1>0 DEF Ending, Keeps, InJob
  <2>2. CASE \E i \in DOMAIN tab.outbox : tab.outbox[i].id = id /\ x \in OpPart(tab.outbox[i])
    <3>1. PICK i \in DOMAIN tab.outbox : tab.outbox[i].id = id /\ x \in OpPart(tab.outbox[i])
      BY <2>2
    <3>2. CASE tab.outbox[i].opId = op.opId
      <4>0. op \in OutboxOps
        BY <1>0 DEF OpOK
      <4>1. InJob(x, job, id)
        <5>1. op # Null
          BY <4>0, NullIsNoOp
        <5> QED
          BY <1>5, <3>1, <3>2, <5>1 DEF InJob, Sends
      <4> QED
        BY <1>9, <4>1, DoneIs DEF InPage
    <3>3. CASE tab.outbox[i].opId # op.opId
      BY <1>4, <1>9, <3>1, <3>3 DEF InPage
    <3> QED
      BY <3>2, <3>3
  <2>3. CASE ~ \E i \in DOMAIN tab.outbox : tab.outbox[i].id = id /\ x \in OpPart(tab.outbox[i])
    BY <1>0, <1>9, <2>1, <2>3 DEF InPage
  <2> QED
    BY <2>2, <2>3
<1>13. TodoOK(job.todo, u)
  <2>2. \A k \in DOMAIN job.todo : \E i \in DOMAIN tab.outbox : job.todo[k] = tab.outbox[i]
    BY <1>1 DEF FlushOK, TodoOK
  <2>3. \A k \in DOMAIN job.todo : job.todo[k].opId # op.opId
    BY <1>1 DEF FlushOK
  <2>4. Distinct(job.todo)
    BY <1>1 DEF FlushOK, TodoOK
  <2> QED
    BY <1>4, <1>9, <2>2, <2>3, <2>4 DEF TodoOK
<1>14. job.sent + 1 \in Nat /\ SendNext(u, job.first, job.todo, job.sent + 1) /\ Ending(u)
  BY <1>1, <1>6, <1>11, <1>12 DEF Ending
<1> QED
  BY <1>1, <1>13, <1>14, NextSent

LEMMA FlushHeld ==
  ASSUME JournalInv, World, Sends, job.kind # "write", NEW t, Handled(t),
         SendNext([t EXCEPT !.held = @ \cup {job.op.opId}], job.first, job.todo, job.sent)
  PROVE  \E u, j : Outcome(u, j)
<1>0. Ending(t) /\ t.outbox = tab.outbox /\ IsPage(t) /\ OpOK(job.op, landed', count'.ops)
      /\ Landed(t.known, landed')
  BY HandledIs, FlushHandled DEF Handled
<1>1. job.op.opId \in Nat
  BY <1>0 DEF OpOK, OutboxOps
<1>2. PICK u : u = [t EXCEPT !.held = @ \cup {job.op.opId}]
  OBVIOUS
<1>3. IsPage(u) /\ SameBooks(u, t) /\ u.known = t.known
  BY <1>0, <1>1, <1>2, HoldIs
<1>4. Ending(u)
  BY <1>0, <1>3, EndingIs
<1>5. TodoOK(job.todo, u)
  BY <1>0, <1>3, FlushIs DEF FlushOK, TodoOK, SameBooks
<1>6. SendNext(u, job.first, job.todo, job.sent)
  BY <1>2
<1> QED
  BY <1>4, <1>5, <1>6, FlushIs, NextSent

LEMMA Settled ==
  ASSUME JournalInv, World, Sends, NEW t, Handled(t), NEW outcome, Settle(t, outcome),
         outcome \notin {"offline", "unauthorized"} => Done(t, job.op)
  PROVE  \E u, j : Outcome(u, j)
<1>1. CASE job.kind = "write" /\ outcome \in {"offline", "unauthorized"}
  <2>1. Proceed(Enqueue(t, job.op), Null)
    BY <1>1 DEF Settle
  <2> QED
    BY <1>1, <2>1, WriteQueued
<1>2. CASE job.kind = "write" /\ outcome \notin {"offline", "unauthorized"}
  <2>1. Proceed(t, Null)
    BY <1>2 DEF Settle
  <2> QED
    BY <1>2, <2>1, WriteDone
<1>3. CASE job.kind # "write" /\ outcome \in {"offline", "unauthorized"}
  <2>1. EndFlush(t, job.first, job.sent)
    BY <1>3 DEF Settle
  <2>2. Ending(t)
    BY <1>3, FlushHandled
  <2> QED
    BY <1>3, <2>1, <2>2, FlushIs, FlushEnded
<1>4. CASE job.kind # "write" /\ outcome = "held"
  <2>1. SendNext([t EXCEPT !.held = @ \cup {job.op.opId}], job.first, job.todo, job.sent)
    BY <1>4 DEF Settle
  <2> QED
    BY <1>4, <2>1, FlushHeld
<1>5. CASE job.kind # "write" /\ outcome \notin {"offline", "unauthorized", "held"}
  <2>1. SendNext(DropOp(t, job.op.opId), job.first, job.todo, job.sent + 1)
    BY <1>5 DEF Settle
  <2> QED
    BY <1>5, <2>1, FlushDone
<1> QED
  BY <1>1, <1>2, <1>3, <1>4, <1>5


-----------------------------------------------------------------------------
(* What a handler's step keeps.                                             *)

Moved == JournalInv' /\ DurableStep /\ (IntentInv => IntentInv')

LEMMA JobMoved ==
  ASSUME JournalInv, job # Null, World, chain' = chain, intents' = intents,
         \E u, j : Outcome(u, j)
  PROVE  Moved
<1>1. PICK u, j : Proceed(u, j) /\ Follows(u, j)
  BY DEF Outcome
<1>2. JournalInv' /\ DurableStep
  BY <1>1, Followed
<1>3. IntentInv => IntentInv'
  BY <1>1, FollowedIntent
<1> QED
  BY <1>2, <1>3 DEF Moved

\* A counter goes up.
LEMMA CountIs ==
  ASSUME JournalInv
  PROVE  /\ count \in Counts /\ count.ops \in Nat
         /\ [count EXCEPT !.user = @ + 1] \in Counts /\ [count EXCEPT !.user = @ + 1].ops = count.ops
         /\ [count EXCEPT !.reloads = @ + 1] \in Counts /\ [count EXCEPT !.reloads = @ + 1].ops = count.ops
         /\ \A n \in Nat : LET more == [count EXCEPT !.faults = @ + 1, !.ops = @ + n]
                          IN  more \in Counts /\ more.ops = count.ops + n
<1>1. /\ count = [ user |-> count.user, other |-> count.other, faults |-> count.faults,
                   reloads |-> count.reloads, pairs |-> count.pairs, ops |-> count.ops ]
      /\ count.user \in Nat /\ count.other \in Nat /\ count.faults \in Nat
      /\ count.reloads \in Nat /\ count.pairs \in Nat /\ count.ops \in Nat
  BY DEF JournalInv, TypeOK
<1>2. count \in Counts
  BY DEF JournalInv, TypeOK, Counts
<1>3. /\ [count EXCEPT !.user = @ + 1] \in Counts
      /\ [count EXCEPT !.user = @ + 1].ops = count.ops
  BY <1>1, <1>2 DEF Counts
<1>4. /\ [count EXCEPT !.reloads = @ + 1] \in Counts
      /\ [count EXCEPT !.reloads = @ + 1].ops = count.ops
  BY <1>1, <1>2 DEF Counts
<1>5. ASSUME NEW n \in Nat
      PROVE  /\ [count EXCEPT !.faults = @ + 1, !.ops = @ + n] \in Counts
             /\ [count EXCEPT !.faults = @ + 1, !.ops = @ + n].ops = count.ops + n
  <2>1. count.faults + 1 \in Nat /\ count.ops + n \in Nat
    BY <1>1
  <2>2. [count EXCEPT !.faults = @ + 1, !.ops = @ + n] \in Counts
    BY <1>1, <1>2, <2>1 DEF Counts
  <2>3. [count EXCEPT !.faults = @ + 1, !.ops = @ + n].ops = count.ops + n
    BY <1>1, <2>1
  <2> QED
    BY <2>2, <2>3
<1> QED
  BY <1>1, <1>2, <1>3, <1>4, <1>5

LEMMA WorldIs ==
  ASSUME JournalInv, server' \in Views, Landed(server', landed'), landed \subseteq landed',
         lives' \in [Ids -> Nat], UNCHANGED <<chain, intents>>,
         \/ count' = count
         \/ \E given \in {0, 1} : count' = [count EXCEPT !.faults = @ + 1, !.ops = @ + given]
  PROVE  World
<1>2. /\ count' \in Counts
      /\ count.ops <= count'.ops
  <2>0. count \in Counts /\ count.ops \in Nat
    BY CountIs
  <2>1. CASE count' = count
    <3>1. count.ops <= count.ops
      BY <2>0
    <3> QED
      BY <2>0, <2>1, <3>1
  <2>2. ASSUME NEW given \in {0, 1}, count' = [count EXCEPT !.faults = @ + 1, !.ops = @ + given]
        PROVE  count' \in Counts /\ count.ops <= count'.ops
    <3>1. given \in Nat
      OBVIOUS
    <3>2. count' \in Counts /\ count'.ops = count.ops + given
      BY <2>2, <3>1, CountIs
    <3> QED
      BY <2>0, <3>1, <3>2
  <2> QED
    BY <2>1, <2>2
<1> QED
  BY <1>2 DEF World, JournalInv, TypeOK

LEMMA LandIs ==
  ASSUME JournalInv, NEW records, Land(records)
  PROVE  Landed(records, landed') /\ landed \subseteq landed' /\ lives' \in [Ids -> Nat]
BY DEF Land, Landed, JournalInv, TypeOK

LEMMA LivesTyped ==
  ASSUME JournalInv
  PROVE  lives \in [Ids -> Nat]
BY DEF JournalInv, TypeOK

LEMMA ReachedIs ==
  ASSUME NEW t, IsPage(t)
  PROVE  IsPage(Reached(t)) /\ SameBooks(Reached(t), t) /\ Reached(t).known = t.known
BY PageIs DEF IsPage, IsStorage, SameBooks, PageFields, Reached

(* A job that is not sending anything may end, however the page now looks.  *)
LEMMA QuietEnding ==
  ASSUME JournalInv, World, job # Null, job.phase \in {"fetch", "refetch"},
         NEW t, IsPage(t), SameBooks(t, tab), t.known = tab.known
  PROVE  Ending(t)
<1>0. /\ landed \subseteq landed' /\ count.ops \in Nat /\ count'.ops \in Nat /\ count.ops <= count'.ops
      /\ IsPage(tab) /\ IsStorage(tab) /\ QueueOK(tab.outbox, tab.conflicts, landed, count.ops)
      /\ Landed(tab.known, landed) /\ job.op = Null
  BY DEF JournalInv, TypeOK, World, Counts, IsPage, JobOK
<1>1. QueueOK(tab.outbox, tab.conflicts, landed', count'.ops)
  BY <1>0, QueueGrows DEF IsStorage
<1>2. Landed(t.known, landed')
  BY <1>0 DEF Landed
<1>3. Durable(t)
  BY <1>0, SupersededBySelf DEF Durable, SameBooks
<1>4. Sound(t)
  BY <1>1, <1>2, <1>3 DEF Sound, SameBooks
<1>5. Keeps(t, Null)
  BY <1>0 DEF Keeps, InJob, InPage, SameBooks
<1> QED
  BY <1>4, <1>5 DEF Ending

LEMMA BackgroundIs ==
  ASSUME JournalInv, job # Null, job.phase \in {"fetch", "refetch"}
  PROVE  /\ job.kind \in Background
         /\ job.phase = "refetch" => job.first \in Views /\ Landed(job.first, landed)
BY DEF JournalInv, JobOK, Jobs, Background

LEMMA FetchMoved ==
  ASSUME JournalInv, Fetch
  PROVE  Moved
<1>0. /\ job # Null /\ job.phase = "fetch" /\ UNCHANGED <<server, chain, intents, count, landed, lives>>
      /\ SendNext(Reached(tab), server, Unsent(tab), 0)
  BY DEF Fetch, Serve
<1>1. server \in Views /\ Landed(server, landed) /\ IsPage(tab) /\ tab.outbox \in Seq(OutboxOps)
      /\ QueueOK(tab.outbox, tab.conflicts, landed, count.ops)
  BY DEF JournalInv, TypeOK, IsPage, IsStorage
<1>2. World
  BY <1>0, <1>1, LivesTyped, WorldIs
<1>3. PICK t : t = Reached(tab)
  OBVIOUS
<1>4. IsPage(t) /\ SameBooks(t, tab) /\ t.known = tab.known
  BY <1>1, <1>3, ReachedIs
<1>5. Ending(t)
  BY <1>0, <1>2, <1>4, QuietEnding
<1>6. PICK todo : todo = Unsent(tab)
  OBVIOUS
<1>7. todo \in Seq(OutboxOps) /\ QueueOK(todo, tab.conflicts, landed, count.ops) /\ IsPartOf(todo, tab.outbox)
  BY <1>1, <1>6, QueueDropsIds DEF Unsent
<1>8. TodoOK(todo, t)
  BY <1>4, <1>7 DEF TodoOK, QueueOK, IsPartOf, SameBooks
<1>9. Landed(server, landed') /\ 0 \in Nat /\ job.kind \in Background
  BY <1>0, <1>1, BackgroundIs
<1>10. SendNext(t, server, todo, 0)
  BY <1>0, <1>3, <1>6
<1>11. \E u, j : Outcome(u, j)
  BY <1>1, <1>5, <1>7, <1>8, <1>9, <1>10, NextSent
<1> QED
  BY <1>0, <1>2, <1>11, JobMoved

LEMMA RefetchMoved ==
  ASSUME JournalInv, Refetch
  PROVE  Moved
<1>0. /\ job # Null /\ job.phase = "refetch" /\ UNCHANGED <<server, chain, intents, count, landed, lives>>
      /\ FinishSync(Reached(tab), server)
  BY DEF Refetch, Serve
<1>1. server \in Views /\ Landed(server, landed) /\ IsPage(tab)
  BY DEF JournalInv, TypeOK
<1>2. World
  BY <1>0, <1>1, LivesTyped, WorldIs
<1>3. PICK t : t = Reached(tab)
  OBVIOUS
<1>4. IsPage(t) /\ SameBooks(t, tab) /\ t.known = tab.known
  BY <1>1, <1>3, ReachedIs
<1>5. Ending(t)
  BY <1>0, <1>2, <1>4, QuietEnding
<1>6. \E u, j : Outcome(u, j)
  BY <1>0, <1>1, <1>3, <1>5, SyncFinished
<1> QED
  BY <1>0, <1>2, <1>6, JobMoved

(* A sync whose fetch failed ends with what it has.                         *)
LEMMA FetchFailedIs ==
  ASSUME JournalInv, World, job # Null, NEW t, IsPage(t), SameBooks(t, tab), t.known = tab.known,
         FetchFailed(t)
  PROVE  \E u, j : Outcome(u, j)
<1>0. job.phase \in {"fetch", "refetch"}
  BY DEF FetchFailed
<1>1. Ending(t)
  BY <1>0, QuietEnding
<1>2. CASE job.phase = "refetch" /\ job.kind # "poll"
  <2>1. FinishSync(t, job.first)
    BY <1>2 DEF FetchFailed
  <2>2. job.first \in Views /\ Landed(job.first, landed')
    BY <1>2, BackgroundIs DEF World, Landed
  <2> QED
    BY <1>1, <2>1, <2>2, SyncFinished
<1>3. CASE ~ (job.phase = "refetch" /\ job.kind # "poll")
  <2>1. FinishUnsynced(t)
    BY <1>3 DEF FetchFailed
  <2> QED
    BY <1>1, <2>1, UnsyncedFinished
<1> QED
  BY <1>2, <1>3


-----------------------------------------------------------------------------
(* What the server makes of an operation, and what the page makes of the    *)
(* answer.                                                                  *)

LEMMA OpIs ==
  ASSUME JournalInv, Sends
  PROVE  /\ JobOK(job, tab, landed, count.ops) /\ OpOK(job.op, landed, count.ops)
         /\ job.op \in OutboxOps /\ WellFormed(job.op)
         /\ job.op.kind # "clear" => job.op.id \in Ids
         /\ job.op.kind = "save" => job.op.local \in Copies
BY DEF JournalInv, JobOK, Sends, OpOK, WellFormed

LEMMA WrittenIs ==
  ASSUME NEW record \in Copies \cup {Null}, NEW body \in Copies
  PROVE  Ops!Written(record, body) \in Copies /\ UserPart(Ops!Written(record, body)) = UserPart(body)
<1>1. Ops!NextRev(record) \in Nat
  BY NullIsNoCopy DEF Ops!NextRev, Copies
<1> QED
  BY <1>1, PartOfWritten DEF Ops!Written

LEMMA ServedTyped ==
  ASSUME JournalInv, Sends
  PROVE  ServedRecords \in Views
<1>0. server \in Views /\ JobOK(job, tab, landed, count.ops)
  BY OpIs DEF JournalInv, TypeOK
<1>1. ASSUME NEW id \in Ids, NEW body \in Copies
      PROVE  PutResult(id, body) \in Views
  BY <1>0, WrittenIs DEF PutResult, Views
<1>2. CASE job.phase = "merge"
  <2>1. job.op.id \in Ids /\ job.merged \in Copies
    <3>1. MergeOK(job, tab, landed)
      BY <1>0, <1>2 DEF JobOK
    <3>2. job.op.kind = "save" /\ job.current \in Copies
          /\ job.merged = MergeAnnotation(job.op.base, job.op.local, job.current).annotation
      BY <3>1 DEF MergeOK
    <3>3. job.op.base \in Copies \cup {Null} /\ job.op.local \in Copies /\ job.op.id \in Ids
      BY <3>2, OpIs DEF OutboxOps
    <3> QED
      BY <3>2, <3>3, MergeTyped
  <2>2. ServedRecords = PutResult(job.op.id, job.merged) \/ ServedRecords = server
    BY <1>2 DEF ServedRecords
  <2>3. PutResult(job.op.id, job.merged) \in Views
    BY <1>1, <2>1
  <2> QED
    BY <1>0, <2>2, <2>3
<1>3. CASE job.phase # "merge" /\ job.op.kind = "save"
  BY <1>0, <1>1, <1>3, OpIs DEF ServedRecords
<1>4. CASE job.phase # "merge" /\ job.op.kind = "remove"
  BY <1>0, <1>4, OpIs DEF ServedRecords, Views
<1>5. CASE job.phase # "merge" /\ job.op.kind \notin {"save", "remove"}
  BY <1>5 DEF ServedRecords, Views, EmptyStore
<1> QED
  BY <1>2, <1>3, <1>4, <1>5

\* The page before the answer counts as handled.
LEMMA UntouchedIs ==
  ASSUME JournalInv, World
  PROVE  Handled(tab)
BY DEF JournalInv, World, TypeOK, Handled, Landed

\* What does not touch the books.
LEMMA HandledLike ==
  ASSUME NEW t, Handled(t), NEW u, IsPage(u), SameBooks(u, t), Landed(u.known, landed')
  PROVE  /\ Handled(u)
         /\ Done(t, job.op) => Done(u, job.op)
         /\ Recorded(t, job.op) => Recorded(u, job.op)
BY DEF Handled, SameBooks, Done, Recorded

LEMMA RecordedIs ==
  ASSUME JournalInv, World, NEW record, IsRecord(record),
         record.opId = job.op.opId, record.id = job.op.id,
         job.op.kind = "save" => record.local = job.op.local,
         UserPart(record.local) \subseteq landed' \cup OpPart(job.op),
         NEW t, t = RecordConflict(tab, record)
  PROVE  Handled(t) /\ Recorded(t, job.op)
<1>1. IsPage(tab) /\ Landed(tab.known, landed')
  BY DEF JournalInv, TypeOK, World, Landed
<1>2. /\ IsPage(t) /\ t.memoryOnly = tab.memoryOnly
      /\ t.outbox = tab.outbox /\ t.parked = tab.parked /\ t.known = tab.known
      /\ t.conflicts = {r \in tab.conflicts : r.opId # record.opId} \cup {record}
  BY <1>1, RecordIs
<1>3. Recorded(t, job.op)
  BY <1>2 DEF Recorded
<1>4. Handled(t)
  BY <1>1, <1>2, <1>3 DEF Handled
<1> QED
  BY <1>3, <1>4

(* The record of a conflict over a save has the local copy.                 *)
LEMMA SaveRecorded ==
  ASSUME JournalInv, World, Sends, job.op.kind = "save", NEW theirs \in Copies \cup {Null}, NEW dropped,
         NEW t, t = RecordConflict(tab, ConflictOf(job.op, theirs, dropped))
  PROVE  Handled(t) /\ Recorded(t, job.op)
<1> DEFINE record == ConflictOf(job.op, theirs, dropped)
<1>1. /\ record.opId = job.op.opId /\ record.id = job.op.id /\ record.local = job.op.local
      /\ record.server = theirs
  BY DEF ConflictOf
<1>2. IsRecord(record)
  BY <1>1, OpIs DEF IsRecord, OutboxOps
<1> HIDE DEF record
<1>3. UserPart(record.local) \subseteq landed' \cup OpPart(job.op)
  BY <1>1 DEF OpPart
<1> QED
  BY <1>1, <1>2, <1>3, RecordedIs DEF record

LEMMA ConfirmedIs ==
  ASSUME NEW t, Handled(t), NEW id \in Ids, NEW saved \in Copies, UserPart(saved) \subseteq landed',
         NEW u, u = Confirm(t, id, saved)
  PROVE  /\ Handled(u)
         /\ Done(t, job.op) => Done(u, job.op)
         /\ Recorded(t, job.op) => Recorded(u, job.op)
<1>1. IsPage(t) /\ Landed(t.known, landed') /\ t.known \in Views
  BY DEF Handled, IsPage
<1>2. IsPage(u) /\ SameBooks(u, t) /\ u.known = [t.known EXCEPT ![id] = saved]
  BY <1>1, ConfirmIs
<1>3. Landed(u.known, landed')
  BY <1>1, <1>2 DEF Landed, Views
<1> QED
  BY <1>2, <1>3, HandledLike

\* The page no longer knows of an annotation.
LEMMA ForgottenIs ==
  ASSUME NEW t, Handled(t), NEW u, DOMAIN u = PageFields,
         u.known \in Views, Landed(u.known, landed'), u.shown \in Views,
         \A f \in PageFields \ {"shown", "known"} : u[f] = t[f]
  PROVE  Handled(u) /\ (Recorded(t, job.op) => Recorded(u, job.op))
<1>1. IsPage(t)
  BY DEF Handled
<1>2. IsPage(u) /\ SameBooks(u, t)
  BY <1>1, PageIs DEF IsPage, IsStorage, SameBooks, PageFields
<1> QED
  BY <1>2, HandledLike

\* A journal entry does not mean that the server was not reached.
LEMMA JournaledIs ==
  ASSUME NEW t
  PROVE  Journaled(t) \in {"parked", "held"} /\ Journaled(t) \notin {"offline", "unauthorized"}
BY DEF Journaled

(* What the server has taken of a save, and of a merged one.                *)
LEMMA SaveServed ==
  ASSUME JournalInv, World, Sends, job.phase = "send", job.op.kind = "save",
         Ops!PutOutcome(server[job.op.id], job.op.baseRev) = "ok", server' = ServedRecords
  PROVE  /\ ServedRecords[job.op.id] \in Copies
         /\ UserPart(ServedRecords[job.op.id]) \subseteq landed' /\ UserPart(job.op.local) \subseteq landed'
<1> DEFINE id == job.op.id
           saved == Ops!Written(server[id], job.op.local)
<1>0. job.op.local \in Copies /\ id \in Ids /\ server \in Views
  BY OpIs DEF JournalInv, TypeOK
<1>1. ServedRecords[id] = saved
  BY <1>0 DEF ServedRecords, PutResult, Views
<1>2. saved \in Copies /\ UserPart(saved) = UserPart(job.op.local)
  <2>1. server[id] \in Copies \cup {Null}
    BY <1>0 DEF Views
  <2> QED
    BY <1>0, <2>1, WrittenIs
<1>3. UserPart(saved) \subseteq landed'
  BY <1>0, <1>1 DEF World, Landed
<1> QED
  BY <1>1, <1>2, <1>3

(* The answers to a save: the page goes on with a copy the server has had.  *)
LEMMA SaveAccepted ==
  ASSUME JournalInv, World, Sends, job.op.kind = "save", UserPart(job.op.local) \subseteq landed',
         NEW saved \in Copies, UserPart(saved) \subseteq landed',
         Settle(Confirm(tab, job.op.id, saved), "sent")
  PROVE  \E u, j : Outcome(u, j)
<1>0. job.op.id \in Ids /\ Handled(tab)
  BY OpIs, UntouchedIs
<1>1. PICK t : t = Confirm(tab, job.op.id, saved)
  OBVIOUS
<1>2. Handled(t)
  BY <1>0, <1>1, ConfirmedIs
<1>3. Done(t, job.op)
  BY DEF Done, TakenByServer
<1>4. Settle(t, "sent")
  BY <1>1
<1> QED
  BY <1>2, <1>3, <1>4, Settled

\* The merged copy is about to be written over the current one.
LEMMA MergeStarted ==
  ASSUME JournalInv, World, Sends, job.op.kind = "save", NEW current \in Copies,
         UserPart(current) \subseteq landed',
         NEW t, Handled(t), NEW merge, merge = MergeAnnotation(job.op.base, job.op.local, current),
         NothingDropped(merge) \/ Recorded(t, job.op), NEW after \in {"sent", "parked", "held"},
         Proceed(t, [job EXCEPT !.phase = "merge", !.merged = merge.annotation, !.current = current,
                                !.after = after])
  PROVE  \E u, j : Outcome(u, j)
<1>0. /\ job \in Jobs /\ JobOK(job, tab, landed, count.ops) /\ job.op \in OutboxOps
      /\ job.op.local \in Copies /\ job.op.base \in Copies \cup {Null}
  BY OpIs DEF JobOK, OutboxOps
<1>1. merge.annotation \in Copies
  BY <1>0, MergeTyped
<1>2. PICK j : j = [job EXCEPT !.phase = "merge", !.merged = merge.annotation, !.current = current,
                               !.after = after]
  OBVIOUS
<1>3. /\ j \in Jobs /\ j.kind = job.kind /\ j.phase = "merge" /\ j.op = job.op /\ j.todo = job.todo
      /\ j.first = job.first /\ j.merged = merge.annotation /\ j.current = current
  BY <1>0, <1>1, <1>2 DEF Jobs
<1>4. /\ Sound(t) /\ OpOK(job.op, landed', count'.ops) /\ RecordsMatch(t.conflicts, job.op, landed')
      /\ \A x, id : InPage(x, tab, id) => x \in landed' \/ InPage(x, t, id)
      /\ t.outbox = tab.outbox
  BY HandledIs DEF Handled
<1>5. MergeOK(j, t, landed')
  BY <1>3 DEF MergeOK
<1>6. JobOK(j, t, landed', count'.ops)
  <2>1. CASE job.kind = "write"
    <3>1. WriteOK(job.op, t, landed')
      BY <1>0, <1>4, <2>1 DEF JobOK, WriteOK, Sends
    <3> QED
      BY <1>3, <1>4, <1>5, <2>1, <3>1 DEF JobOK
  <2>2. CASE job.kind # "write"
    <3>1. FlushOK(job.op, job.todo, t)
      BY <1>4, <2>2, FlushIs DEF FlushOK, TodoOK
    <3>2. job.first \in Views /\ Landed(job.first, landed')
      BY <2>2, FlushIs
    <3> QED
      BY <1>3, <1>4, <1>5, <2>2, <3>1, <3>2 DEF JobOK
  <2> QED
    BY <2>1, <2>2
<1>7. Keeps(t, j)
  <2>1. j # Null
    BY <1>3, NullIsNoJob
  <2> QED
    BY <1>3, <1>4, <2>1 DEF Keeps, InJob
<1>8. StillCovers(t, j)
  BY <1>3, <1>4 DEF StillCovers, OneWrite, Sends
<1>9. Proceed(t, j) /\ Follows(t, j)
  BY <1>2, <1>4, <1>6, <1>7, <1>8 DEF Follows
<1> QED
  BY <1>9 DEF Outcome

(* What a merge that drops nothing does not have, the server has.           *)
LEMMA MergeLanded ==
  ASSUME JournalInv, World, Sends, job.op.kind = "save", NEW current \in Copies,
         UserPart(current) \subseteq landed',
         NothingDropped(MergeAnnotation(job.op.base, job.op.local, current)),
         UserPart(MergeAnnotation(job.op.base, job.op.local, current).annotation) \subseteq landed'
  PROVE  UserPart(job.op.local) \subseteq landed'
<1>1. /\ job.op.local \in Copies /\ job.op.base \in Copies \cup {Null}
      /\ UserPart(job.op.base) \subseteq landed'
  BY OpIs DEF OutboxOps, OpOK, World
<1> QED
  BY <1>1, MergeCovers

(* 409 or 428.                                                              *)
LEMMA SaveRefused ==
  ASSUME JournalInv, World, Sends, job.op.kind = "save",
         NEW current \in Copies \cup {Null}, UserPart(current) \subseteq landed',
         ResolveConflict(job.op, current)
  PROVE  \E u, j : Outcome(u, j)
<1> DEFINE op == job.op
<1>0. op.id \in Ids /\ op.local \in Copies /\ Handled(tab)
  BY OpIs, UntouchedIs
<1>1. CASE current = Null
  <2>1. PICK t : t = RecordConflict(tab, ConflictOf(op, Null, "all"))
    OBVIOUS
  <2>2. Handled(t) /\ Recorded(t, op)
    BY <2>1, SaveRecorded
  <2>3. PICK v : v = CacheRemove(t, op.id)
    OBVIOUS
  <2>4. IsPage(t) /\ Landed(t.known, landed')
    BY <2>2 DEF Handled
  <2>5. IsPage(v) /\ SameBooks(v, t) /\ v.known = t.known
    BY <1>0, <2>3, <2>4, UncacheIs
  <2>6. Handled(v) /\ Recorded(v, op)
    BY <2>2, <2>4, <2>5, HandledLike
  <2>7. PICK u : u = [v EXCEPT !.known[op.id] = Null, !.shown[op.id] = Null]
    OBVIOUS
  <2>8. /\ DOMAIN u = PageFields /\ \A f \in PageFields \ {"shown", "known"} : u[f] = v[f]
        /\ u.known = [v.known EXCEPT ![op.id] = Null] /\ u.shown = [v.shown EXCEPT ![op.id] = Null]
    BY <2>5, <2>7, PageIs DEF PageFields
  <2>9. u.known \in Views /\ u.shown \in Views /\ Landed(u.known, landed')
    <3>1. v.known \in Views /\ v.shown \in Views /\ Landed(v.known, landed')
      BY <2>4, <2>5 DEF IsPage
    <3> QED
      BY <1>0, <2>8, <3>1, PartOfNull DEF Views, Landed
  <2>10. Handled(u) /\ Recorded(u, op)
    BY <2>6, <2>8, <2>9, ForgottenIs
  <2>11. Settle(u, Journaled(t))
    BY <1>1, <2>1, <2>3, <2>7 DEF ResolveConflict
  <2> QED
    BY <2>10, <2>11, JournaledIs, Settled DEF Done
<1>2. CASE current # Null
  <2>1. PICK merge : merge = MergeAnnotation(op.base, op.local, current)
    OBVIOUS
  <2>2. PICK t : t = IF NothingDropped(merge) THEN tab
                     ELSE RecordConflict(tab, ConflictOf(op, current, merge.dropped))
    OBVIOUS
  <2>3. Handled(t) /\ (NothingDropped(merge) \/ Recorded(t, op))
    BY <1>0, <2>2, SaveRecorded
  <2>4. CASE merge.changed
    <3>1. PICK after : after = IF NothingDropped(merge) THEN "sent" ELSE Journaled(t)
      OBVIOUS
    <3>2. Proceed(t, [job EXCEPT !.phase = "merge", !.merged = merge.annotation, !.current = current,
                                 !.after = after])
      BY <1>2, <2>1, <2>2, <2>4, <3>1 DEF ResolveConflict
    <3>3. after \in {"sent", "parked", "held"}
      BY <3>1, JournaledIs
    <3> QED
      BY <1>0, <1>2, <2>1, <2>3, <3>2, <3>3, MergeStarted
  <2>5. CASE ~ merge.changed
    <3>1. Settle(Confirm(t, op.id, current), IF NothingDropped(merge) THEN "parked" ELSE Journaled(t))
      BY <1>2, <2>1, <2>2, <2>5 DEF ResolveConflict
    <3>2. PICK u : u = Confirm(t, op.id, current)
      OBVIOUS
    <3>3. Handled(u) /\ (Recorded(t, op) => Recorded(u, op))
      BY <1>0, <1>2, <2>3, <3>2, ConfirmedIs
    <3>4. Done(u, op)
      <4>1. CASE NothingDropped(merge)
        <5>1. merge.annotation = current
          BY <2>1, <2>5 DEF MergeAnnotation
        <5>2. UserPart(op.local) \subseteq landed'
          BY <1>0, <1>2, <2>1, <4>1, <5>1, MergeLanded
        <5> QED
          BY <5>2 DEF Done, TakenByServer
      <4>2. CASE ~ NothingDropped(merge)
        BY <2>3, <3>3, <4>2 DEF Done
      <4> QED
        BY <4>1, <4>2
    <3>5. PICK outcome : outcome = IF NothingDropped(merge) THEN "parked" ELSE Journaled(t)
      OBVIOUS
    <3>6. Settle(u, outcome)
      BY <3>1, <3>2, <3>5
    <3> QED
      BY <3>3, <3>4, <3>6, Settled
  <2> QED
    BY <2>4, <2>5
<1> QED
  BY <1>1, <1>2


(* Whatever the page learns of what became of its save.                     *)
LEMMA SaveEnded ==
  ASSUME JournalInv, World, Sending("save"), server' = ServedRecords,
         NEW saved, saved \in {job.op.local, ServedRecords[job.op.id]},
         NEW current, current \in {Null, server[job.op.id]}, SaveAnswered(saved, current)
  PROVE  \E u, j : Outcome(u, j)
<1>0. Sends /\ job.phase = "send" /\ job.op.kind = "save"
  BY DEF Sending, Sends
<1>1. CASE Ops!PutOutcome(server[job.op.id], job.op.baseRev) = "ok"
  <2>1. Settle(Confirm(tab, job.op.id, saved), "sent")
    BY <1>1 DEF SaveAnswered
  <2>2. saved \in Copies /\ UserPart(saved) \subseteq landed' /\ UserPart(job.op.local) \subseteq landed'
    BY <1>0, <1>1, SaveServed, OpIs
  <2> QED
    BY <1>0, <2>1, <2>2, SaveAccepted
<1>2. CASE Ops!PutOutcome(server[job.op.id], job.op.baseRev) # "ok"
  <2>1. ResolveConflict(job.op, current)
    BY <1>2 DEF SaveAnswered
  <2>2. current \in Copies \cup {Null} /\ UserPart(current) \subseteq landed'
    <3>1. server \in Views /\ Landed(server, landed) /\ landed \subseteq landed' /\ job.op.id \in Ids
      BY <1>0, OpIs DEF JournalInv, TypeOK, World
    <3> QED
      BY <3>1, PartOfNull DEF Views, Landed
  <2> QED
    BY <1>0, <2>1, <2>2, SaveRefused
<1> QED
  BY <1>1, <1>2

LEMMA SendSaveMoved ==
  ASSUME JournalInv, SendSave
  PROVE  Moved
<1>0. /\ Sends /\ Sending("save")
      /\ server' = ServedRecords /\ UNCHANGED <<chain, intents, count>> /\ Land(ServedRecords)
      /\ SaveAnswered(ServedRecords[job.op.id], server[job.op.id])
  BY DEF SendSave, Sending, Serve, Sends
<1>1. World
  BY <1>0, ServedTyped, LandIs, WorldIs
<1>2. \E u, j : Outcome(u, j)
  BY <1>0, <1>1, SaveEnded
<1> QED
  BY <1>0, <1>1, <1>2, JobMoved DEF Sends

LEMMA MergeJobIs ==
  ASSUME JournalInv, job # Null, job.phase = "merge"
  PROVE  /\ Sends /\ job.op.kind = "save" /\ job.op.id \in Ids /\ job.op.local \in Copies
         /\ job.current \in Copies /\ UserPart(job.current) \subseteq landed
         /\ job.merged \in Copies
         /\ job.merged = MergeAnnotation(job.op.base, job.op.local, job.current).annotation
         /\ \/ NothingDropped(MergeAnnotation(job.op.base, job.op.local, job.current))
            \/ Recorded(tab, job.op)
<1>1. Sends /\ MergeOK(job, tab, landed)
  BY DEF JournalInv, JobOK, Sends
<1>2. /\ job.op.kind = "save" /\ job.current \in Copies /\ UserPart(job.current) \subseteq landed
      /\ job.merged = MergeAnnotation(job.op.base, job.op.local, job.current).annotation
      /\ \/ NothingDropped(MergeAnnotation(job.op.base, job.op.local, job.current))
         \/ Recorded(tab, job.op)
  BY <1>1 DEF MergeOK
<1>3. job.op.id \in Ids /\ job.op.local \in Copies /\ job.op.base \in Copies \cup {Null}
  BY <1>1, <1>2, OpIs DEF OutboxOps
<1>4. job.merged \in Copies
  BY <1>2, <1>3, MergeTyped
<1> QED
  BY <1>1, <1>2, <1>3, <1>4

(* The merged copy was not accepted: the local copy goes to the journal and *)
(* the page shows the server's.                                             *)
LEMMA GivenUp ==
  ASSUME JournalInv, World, job # Null, job.phase = "merge", MergeGivenUp
  PROVE  \E u, j : Outcome(u, j)
<1>1. PICK t : t = RecordConflict(tab, ConflictOf(job.op, job.current, "all"))
  OBVIOUS
<1>2. Handled(t) /\ Recorded(t, job.op)
  BY <1>1, MergeJobIs, SaveRecorded
<1>3. PICK u : u = Confirm(t, job.op.id, job.current)
  OBVIOUS
<1>4. Handled(u) /\ Recorded(u, job.op)
  BY <1>2, <1>3, MergeJobIs, ConfirmedIs DEF World
<1>5. Settle(u, Journaled(tab))
  BY <1>1, <1>3 DEF MergeGivenUp
<1> QED
  BY <1>4, <1>5, JournaledIs, MergeJobIs, Settled DEF Done

LEMMA MergeServed ==
  ASSUME JournalInv, World, job # Null, job.phase = "merge", MergeTaken, server' = ServedRecords
  PROVE  /\ ServedRecords[job.op.id] \in Copies
         /\ UserPart(ServedRecords[job.op.id]) \subseteq landed' /\ UserPart(job.merged) \subseteq landed'
<1> DEFINE id == job.op.id
           saved == Ops!Written(server[id], job.merged)
<1>0. id \in Ids /\ server \in Views /\ job.merged \in Copies
  BY MergeJobIs DEF JournalInv, TypeOK
<1>1. ServedRecords[id] = saved
  BY <1>0 DEF ServedRecords, PutResult, Views, MergeTaken
<1>2. saved \in Copies /\ UserPart(saved) = UserPart(job.merged)
  <2>1. server[id] \in Copies \cup {Null}
    BY <1>0 DEF Views
  <2> QED
    BY <1>0, <2>1, WrittenIs
<1>3. UserPart(saved) \subseteq landed'
  BY <1>0, <1>1 DEF World, Landed
<1> QED
  BY <1>1, <1>2, <1>3

LEMMA MergeAccepted ==
  ASSUME JournalInv, World, job # Null, job.phase = "merge", MergeTaken, server' = ServedRecords,
         NEW saved, saved \in {job.merged, ServedRecords[job.op.id]}, MergeSettled(saved)
  PROVE  \E u, j : Outcome(u, j)
<1>0. /\ Sends /\ job.op.id \in Ids /\ job.merged \in Copies /\ Handled(tab) /\ job.op.kind = "save"
      /\ job.after \notin {"offline", "unauthorized"}
  BY MergeJobIs, UntouchedIs DEF JournalInv, TypeOK, Jobs
<1>1. saved \in Copies /\ UserPart(saved) \subseteq landed' /\ UserPart(job.merged) \subseteq landed'
  BY <1>0, MergeServed
<1>2. PICK t : t = Confirm(tab, job.op.id, saved)
  OBVIOUS
<1>3. Handled(t) /\ (Recorded(tab, job.op) => Recorded(t, job.op))
  BY <1>0, <1>1, <1>2, ConfirmedIs
<1>4. Done(t, job.op)
  <2>1. CASE NothingDropped(MergeAnnotation(job.op.base, job.op.local, job.current))
    <3>1. UserPart(job.op.local) \subseteq landed'
      BY <1>0, <1>1, <2>1, MergeJobIs, MergeLanded DEF World
    <3> QED
      BY <1>0, <3>1 DEF Done, TakenByServer
  <2>2. CASE Recorded(tab, job.op)
    BY <1>3, <2>2 DEF Done
  <2> QED
    BY <2>1, <2>2, MergeJobIs
<1>5. Settle(t, job.after)
  BY <1>2 DEF MergeSettled
<1> QED
  BY <1>0, <1>3, <1>4, <1>5, Settled

LEMMA SendMergedMoved ==
  ASSUME JournalInv, SendMerged
  PROVE  Moved
<1>0. /\ job # Null /\ job.phase = "merge" /\ Sends
      /\ server' = ServedRecords /\ UNCHANGED <<chain, intents, count>> /\ Land(ServedRecords)
      /\ IF MergeTaken THEN MergeSettled(ServedRecords[job.op.id]) ELSE MergeGivenUp
  BY MergeJobIs DEF SendMerged, Serve
<1>1. World
  BY <1>0, ServedTyped, LandIs, WorldIs
<1>2. \E u, j : Outcome(u, j)
  BY <1>0, <1>1, MergeAccepted, GivenUp
<1> QED
  BY <1>0, <1>1, <1>2, JobMoved

(* A refused delete is on record when there is a copy to name.              *)
LEMMA RemoveRecorded ==
  ASSUME JournalInv, World, Sends, job.op.kind = "remove",
         NEW current \in Copies \cup {Null}, UserPart(current) \subseteq landed',
         DeletedCopy(job.op, current) # Null, NEW t, t = RemoveRefused(job.op, current)
  PROVE  Handled(t) /\ Recorded(t, job.op)
<1> DEFINE op == job.op
           copy == DeletedCopy(op, current)
           removed == [op EXCEPT !.local = copy]
           record == ConflictOf(removed, current, "delete")
<1>1. op.id \in Ids /\ op \in OutboxOps /\ op.kind = "remove" /\ OpOK(op, landed, count.ops)
  BY OpIs
<1>2. copy \in Copies /\ UserPart(copy) \subseteq landed'
  BY <1>1 DEF DeletedCopy, OutboxOps, OpOK, World
<1>3. t = RecordConflict(tab, record)
  BY DEF RemoveRefused
<1> HIDE DEF copy
<1>4. removed.opId = op.opId /\ removed.id = op.id /\ removed.local = copy
  BY <1>1 DEF OutboxOps
<1> HIDE DEF removed
<1>5. record.opId = op.opId /\ record.id = op.id /\ record.local = copy /\ record.server = current
  BY <1>4 DEF ConflictOf
<1>6. IsRecord(record)
  BY <1>1, <1>2, <1>5 DEF IsRecord, OutboxOps
<1> HIDE DEF record
<1> QED
  BY <1>1, <1>2, <1>3, <1>5, <1>6, RecordedIs

LEMMA SendRemoveMoved ==
  ASSUME JournalInv, SendRemove
  PROVE  Moved
<1> DEFINE op == job.op
           current == server[op.id]
<1>0. /\ Sends /\ job.phase = "send" /\ op.kind = "remove" /\ op.id \in Ids /\ op \in OutboxOps
      /\ server' = ServedRecords /\ UNCHANGED <<chain, intents, count, landed, lives>>
  BY OpIs DEF SendRemove, Sending, Serve, Sends
<1>1. /\ server \in Views /\ Landed(server, landed) /\ IsPage(tab)
      /\ tab.known \in Views /\ tab.shown \in Views /\ Landed(tab.known, landed)
  BY DEF JournalInv, TypeOK, IsPage
<1>2. World
  <2>1. ServedRecords = [server EXCEPT ![op.id] = Null] \/ ServedRecords = server
    BY <1>0 DEF ServedRecords
  <2>2. Landed(ServedRecords, landed)
    BY <1>0, <1>1, <2>1, PartOfNull DEF Landed, Views
  <2> QED
    BY <1>0, <2>2, ServedTyped, LivesTyped, WorldIs
<1>3. Handled(tab)
  BY <1>2, UntouchedIs
<1>4. CASE Ops!RemoveOutcome(current, op.baseRev) = "ok"
  <2>1. PICK u : u = [tab EXCEPT !.known[op.id] = Null]
    OBVIOUS
  <2>2. /\ DOMAIN u = PageFields /\ \A f \in PageFields \ {"shown", "known"} : u[f] = tab[f]
        /\ u.known = [tab.known EXCEPT ![op.id] = Null] /\ u.shown = tab.shown
    BY <1>1, <2>1, PageIs DEF PageFields
  <2>3. u.known \in Views /\ u.shown \in Views /\ Landed(u.known, landed')
    BY <1>0, <1>1, <2>2, PartOfNull DEF Views, Landed
  <2>4. Handled(u)
    BY <1>3, <2>2, <2>3, ForgottenIs
  <2>5. Done(u, op)
    <3>1. ServedRecords = [server EXCEPT ![op.id] = Null]
      BY <1>0, <1>4 DEF ServedRecords
    <3>2. server'[op.id] = Null
      BY <1>0, <1>1, <3>1 DEF Views
    <3> QED
      BY <1>0, <3>2 DEF Done, TakenByServer
  <2>6. Settle(u, "sent")
    BY <1>4, <2>1 DEF SendRemove
  <2> QED
    BY <1>0, <1>2, <2>4, <2>5, <2>6, Settled, JobMoved DEF Sends
<1>5. CASE Ops!RemoveOutcome(current, op.baseRev) # "ok"
  <2>1. current # Null /\ current \in Copies
    BY <1>0, <1>1, <1>5 DEF Ops!RemoveOutcome, Views
  <2>2. DeletedCopy(op, current) # Null /\ UserPart(current) \subseteq landed'
    BY <1>0, <1>1, <2>1 DEF DeletedCopy, Landed
  <2>6. PICK t : t = RemoveRefused(op, current)
    OBVIOUS
  <2>7. Handled(t) /\ Recorded(t, op)
    BY <1>0, <1>2, <2>1, <2>2, <2>6, RemoveRecorded
  <2>8. PICK u : u = Confirm(t, op.id, current)
    OBVIOUS
  <2>9. Handled(u) /\ Recorded(u, op)
    BY <1>0, <1>1, <2>1, <2>7, <2>8, ConfirmedIs DEF Landed
  <2>10. Settle(u, Journaled(tab))
    BY <1>5, <2>6, <2>8 DEF SendRemove
  <2>11. \E v, j : Outcome(v, j)
    BY <1>0, <1>2, <2>9, <2>10, JournaledIs, Settled DEF Done
  <2> QED
    BY <1>0, <1>2, <2>11, JobMoved DEF Sends
<1> QED
  BY <1>4, <1>5

LEMMA SendClearMoved ==
  ASSUME JournalInv, SendClear
  PROVE  Moved
<1>0. /\ Sends /\ job.phase = "send" /\ job.op.kind = "clear"
      /\ server' = ServedRecords /\ UNCHANGED <<chain, intents, count, landed, lives>>
      /\ Settle([tab EXCEPT !.known = EmptyStore], "sent")
  BY DEF SendClear, Sending, Serve, Sends
<1>1. IsPage(tab) /\ tab.shown \in Views /\ EmptyStore \in Views /\ \A l : Landed(EmptyStore, l)
  BY PartOfNull DEF JournalInv, TypeOK, IsPage, Views, EmptyStore, Landed
<1>2. server' = EmptyStore
  BY <1>0 DEF ServedRecords
<1>3. World
  BY <1>0, <1>1, <1>2, LivesTyped, WorldIs
<1>4. PICK u : u = [tab EXCEPT !.known = EmptyStore]
  OBVIOUS
<1>5. /\ DOMAIN u = PageFields /\ \A f \in PageFields \ {"shown", "known"} : u[f] = tab[f]
      /\ u.known = EmptyStore /\ u.shown = tab.shown
  BY <1>1, <1>4, PageIs DEF PageFields
<1>6. Handled(u)
  BY <1>1, <1>3, <1>5, UntouchedIs, ForgottenIs
<1>7. Done(u, job.op)
  BY <1>0, <1>2 DEF Done, TakenByServer
<1>8. \E v, j : Outcome(v, j)
  BY <1>0, <1>3, <1>4, <1>6, <1>7, Settled
<1> QED
  BY <1>0, <1>3, <1>8, JobMoved DEF Sends


-----------------------------------------------------------------------------
(* Requests that fail.                                                      *)

LEMMA FaultIs ==
  ASSUME JournalInv, NEW records \in Views, NEW given \in {0, 1}, Fault(records, given)
  PROVE  /\ World /\ job # Null /\ server' = records /\ chain' = chain /\ intents' = intents
         /\ count'.faults # count.faults
<1>1. Landed(records, landed') /\ landed \subseteq landed' /\ lives' \in [Ids -> Nat]
  BY LandIs DEF Fault
<1>2. count' = [count EXCEPT !.faults = @ + 1, !.ops = @ + given] /\ count \in Counts
  BY DEF Fault, JournalInv, TypeOK, Counts
<1>3. count'.faults # count.faults
  BY <1>2 DEF Counts
<1> QED
  BY <1>1, <1>2, <1>3, WorldIs DEF Fault

\* The page has learned how it stands with the server, no more.
LEMMA NoticedIs ==
  ASSUME JournalInv, World, NEW t, t = Offline(tab) \/ t = Refused(tab)
  PROVE  IsPage(t) /\ SameBooks(t, tab) /\ t.known = tab.known /\ Handled(t)
<1>0. IsPage(tab) /\ Landed(tab.known, landed') /\ Handled(tab)
  BY UntouchedIs DEF JournalInv, TypeOK, World, Landed
<1>1. IsPage(t) /\ SameBooks(t, tab) /\ t.known = tab.known
  BY <1>0, Unchecked DEF Offline, Refused
<1> QED
  BY <1>0, <1>1, HandledLike

LEMMA NoticedMoved ==
  ASSUME JournalInv, World, job # Null, chain' = chain, intents' = intents,
         NEW t, t = Offline(tab) \/ t = Refused(tab),
         NEW outcome \in {"offline", "unauthorized"},
         \/ FetchFailed(t)
         \/ Sends /\ Settle(t, outcome)
  PROVE  Moved
<1>1. IsPage(t) /\ SameBooks(t, tab) /\ t.known = tab.known /\ Handled(t)
  BY NoticedIs
<1>2. CASE FetchFailed(t)
  <2>1. \E u, j : Outcome(u, j)
    BY <1>1, <1>2, FetchFailedIs
  <2> QED
    BY <2>1, JobMoved
<1>3. CASE Sends /\ Settle(t, outcome)
  <2>1. \E u, j : Outcome(u, j)
    BY <1>1, <1>3, Settled
  <2> QED
    BY <2>1, JobMoved
<1> QED
  BY <1>2, <1>3

LEMMA ConnectionLostMoved ==
  ASSUME JournalInv, ConnectionLost
  PROVE  Moved
<1>1. PICK served \in BOOLEAN :
        /\ Fault(IF served /\ job.phase \in {"send", "merge"} THEN ServedRecords ELSE server, 0)
        /\ \/ FetchFailed(Offline(tab))
           \/ FetchFailed(Refused(tab))
           \/ job.phase \in {"send", "merge"} /\ Settle(Offline(tab), "offline")
  BY DEF ConnectionLost
<1>2. job # Null
  BY <1>1 DEF Fault
<1>3. PICK records : records = IF served /\ job.phase \in {"send", "merge"} THEN ServedRecords ELSE server
  OBVIOUS
<1>4. records \in Views
  BY <1>2, <1>3, ServedTyped DEF JournalInv, TypeOK, Sends
<1>5. World /\ chain' = chain /\ intents' = intents
  BY <1>1, <1>3, <1>4, FaultIs
<1>6. PICK t : t \in {Offline(tab), Refused(tab)} /\ (FetchFailed(t) \/ (Sends /\ Settle(t, "offline")))
  BY <1>1, <1>2 DEF Sends
<1> QED
  BY <1>2, <1>5, <1>6, NoticedMoved

LEMMA AnswerUnreadMoved ==
  ASSUME JournalInv, AnswerUnread
  PROVE  Moved
<1> DEFINE op == job.op
<1>0. Sends /\ Fault(ServedRecords, 0)
  BY DEF AnswerUnread, Sends
<1>1. /\ World /\ job # Null /\ server' = ServedRecords /\ chain' = chain /\ intents' = intents
      /\ count'.faults # count.faults
  BY <1>0, ServedTyped, FaultIs
<1>2. CASE Sending("save") /\ SaveAnswered(op.local, Null)
  <2>1. \E u, j : Outcome(u, j)
    BY <1>1, <1>2, SaveEnded
  <2> QED
    BY <1>1, <2>1, JobMoved
<1>3. CASE job.phase = "merge" /\ MergeTaken /\ MergeSettled(job.merged)
  <2>1. \E u, j : Outcome(u, j)
    BY <1>1, <1>3, MergeAccepted
  <2> QED
    BY <1>1, <2>1, JobMoved
<1>4. CASE Sending("remove") /\ op.base = Null /\ Settle(tab, "parked")
  <2>1. Done(tab, op)
    BY <1>1, <1>4 DEF Done, Unnamed, Sending
  <2>2. Handled(tab)
    BY <1>1, UntouchedIs
  <2>3. \E u, j : Outcome(u, j)
    BY <1>0, <1>1, <1>4, <2>1, <2>2, Settled
  <2> QED
    BY <1>1, <2>3, JobMoved
<1>5. CASE Sending("remove") /\ op.base # Null /\ Settle(RemoveRefused(op, Null), Journaled(tab))
  <2>1. PICK t : t = RemoveRefused(op, Null)
    OBVIOUS
  <2>2. op.kind = "remove" /\ DeletedCopy(op, Null) # Null
    BY <1>5 DEF Sending, DeletedCopy
  <2>3. Handled(t) /\ Recorded(t, op)
    BY <1>0, <1>1, <2>1, <2>2, PartOfNull, RemoveRecorded
  <2>4. Settle(t, Journaled(tab))
    BY <1>5, <2>1
  <2>5. \E u, j : Outcome(u, j)
    BY <1>0, <1>1, <2>3, <2>4, JournaledIs, Settled DEF Done
  <2> QED
    BY <1>1, <2>5, JobMoved
<1> QED
  BY <1>2, <1>3, <1>4, <1>5 DEF AnswerUnread

LEMMA AccessRefusedMoved ==
  ASSUME JournalInv, AccessRefused
  PROVE  Moved
<1>1. /\ Fault(server, 0)
      /\ \/ FetchFailed(Refused(tab))
         \/ job.phase = "send" /\ Settle(Refused(tab), "unauthorized")
  BY DEF AccessRefused
<1>2. server \in Views
  BY DEF JournalInv, TypeOK
<1>3. World /\ job # Null /\ chain' = chain /\ intents' = intents
  BY <1>1, <1>2, FaultIs
<1>4. PICK t : t = Refused(tab)
  OBVIOUS
<1>5. FetchFailed(t) \/ (Sends /\ Settle(t, "unauthorized"))
  BY <1>1, <1>3, <1>4 DEF Sends
<1> QED
  BY <1>3, <1>4, <1>5, NoticedMoved

LEMMA MergeRefusedMoved ==
  ASSUME JournalInv, MergeRefused
  PROVE  Moved
<1>1. Fault(server, 0) /\ job.phase = "merge" /\ MergeGivenUp
  BY DEF MergeRefused
<1>2. server \in Views
  BY DEF JournalInv, TypeOK
<1>3. World /\ job # Null /\ chain' = chain /\ intents' = intents
  BY <1>1, <1>2, FaultIs
<1>4. \E u, j : Outcome(u, j)
  BY <1>1, <1>3, GivenUp
<1> QED
  BY <1>3, <1>4, JobMoved

LEMMA WriteRejectedMoved ==
  ASSUME JournalInv, WriteRejected
  PROVE  Moved
<1>1. PICK given \in {0, 1} : Fault(server, given) /\ job.phase = "send"
  BY DEF WriteRejected
<1>2. server \in Views
  BY DEF JournalInv, TypeOK
<1>3. World /\ job # Null /\ Sends /\ chain' = chain /\ intents' = intents
  BY <1>1, <1>2, FaultIs DEF Sends
<1>4. CASE job.op.kind = "clear"
  <2>1. PICK t : t = Offline(tab)
    OBVIOUS
  <2>2. Settle(t, "offline")
    BY <1>4, <2>1 DEF WriteRejected
  <2> QED
    BY <1>3, <2>1, <2>2, NoticedMoved
<1>5. CASE job.op.kind # "clear"
  <2>0. PICK p : p = PutAside(job.op)
    OBVIOUS
  <2>1. PICK t : t = Park(tab, p)
    OBVIOUS
  <2>2. Handled(tab) /\ IsPage(tab)
    BY <1>3, UntouchedIs DEF Handled
  <2>6. p \in OutboxOps /\ SameIntent(p, job.op)
    <3>1. job.op \in OutboxOps /\ count.ops + 1 \in Nat
      BY <1>3, OpIs DEF JournalInv, TypeOK
    <3> QED
      BY <2>0, <3>1 DEF PutAside, OutboxOps, SameIntent
  <2>3. Handled(t) /\ Done(t, job.op)
    BY <2>1, <2>2, <2>6, ParkIs DEF Handled, Done
  <2>4. Settle(t, "parked")
    BY <1>5, <2>0, <2>1 DEF WriteRejected
  <2>5. \E u, j : Outcome(u, j)
    BY <1>3, <2>3, <2>4, Settled
  <2> QED
    BY <1>3, <2>5, JobMoved
<1> QED
  BY <1>4, <1>5


-----------------------------------------------------------------------------
(* A write is taken from the chain.                                         *)

Started(op) == [Job("write", "send") EXCEPT !.op = op]

\* The operation is what the user asked for.
AsCalled(op) ==
  LET call == Head(chain)
  IN  /\ op.kind = call.kind
      /\ op.kind # "clear" => op.id = call.id
      /\ op.kind = "save" => op.local = call.local

LEMMA HeadIs ==
  ASSUME JournalInv, chain # << >>
  PROVE  /\ 1 \in DOMAIN chain /\ Head(chain) = chain[1] /\ Head(chain) \in Calls
         /\ Tail(chain) \in Seq(Calls)
         /\ \A i \in DOMAIN Tail(chain) : i + 1 \in DOMAIN chain /\ i + 1 # 1 /\ Tail(chain)[i] = chain[i + 1]
BY DEF JournalInv, TypeOK

LEMMA StartedIs ==
  ASSUME NEW op \in OutboxOps, NEW j, j = Started(op)
  PROVE  j \in Jobs /\ j # Null /\ j.kind = "write" /\ j.phase = "send" /\ j.op = op
<1>1. << >> \in Seq(OutboxOps) /\ 0 \in Nat
  OBVIOUS
<1>2. j = [ kind |-> "write", phase |-> "send", op |-> op, todo |-> << >>, sent |-> 0,
            first |-> Null, merged |-> Null, current |-> Null, after |-> "sent" ]
  BY DEF Started, Job
<1>3. j \in Jobs
  BY <1>1, <1>2 DEF Jobs
<1> QED
  BY <1>2, <1>3, NullIsNoJob

LEMMA TakenIntent ==
  ASSUME JournalInv, IntentInv, chain # << >>, job = Null, NEW op, AsCalled(op),
         NEW u, NEW j, Proceed(u, j), Follows(u, j), World,
         chain' = Tail(chain), intents' = intents,
         \A x : x \in OpPart(op) => InJob(x, j, op.id) \/ InPage(x, u, op.id)
  PROVE  IntentInv'
<1>1. /\ tab'.outbox = u.outbox /\ tab'.conflicts = u.conflicts /\ tab'.parked = u.parked
      /\ job' = j
  BY BecomeIs DEF Follows, Proceed
<1>2. \A id : Wanted(id)' = Wanted(id)
  BY DEF Wanted
<1>3. OneWrite'
  <2>1. \A i \in DOMAIN chain' : chain'[i].kind \notin WriteKinds
    BY HeadIs DEF IntentInv, OneWrite
  <2>2. job' # Null /\ job'.kind = "write" => Covers(job'.op, tab'.outbox)
    BY <1>1 DEF Follows, StillCovers, IntentInv
  <2>3. (job # Null /\ job.kind = "write" => Covers(job.op, tab.outbox))'
    BY <1>2, <2>2 DEF Covers
  <2> QED
    BY <2>1, <2>3 DEF OneWrite
<1>4. ASSUME NEW id \in Ids, NEW x, x \in Wanted(id)'
      PROVE  (x \in Safe(id))'
  <2>1. x \in Wanted(id) /\ x \in Safe(id)
    BY <1>2, <1>4 DEF IntentInv, NothingDiscarded
  <2>2. x \in landed \/ InChain(x, chain, id) \/ InJob(x, job, id) \/ InPage(x, tab, id)
    BY <2>1, SafeIs
  <2>3. CASE InChain(x, chain, id)
    <3>1. PICK i \in DOMAIN chain : chain[i].kind = "save" /\ chain[i].id = id /\ x \in UserPart(chain[i].local)
      BY <2>3 DEF InChain
    <3>2. i = 1
      BY <3>1 DEF IntentInv, OneWrite, WriteKinds
    <3>3. op.kind = "save" /\ op.id = id /\ x \in OpPart(op)
      BY <3>1, <3>2, HeadIs DEF AsCalled, OpPart
    <3>4. InJob(x, job', id) \/ InPage(x, tab', id)
      BY <1>1, <3>3 DEF InPage
    <3> QED
      BY <3>4, SafeNext
  <2>4. CASE InPage(x, tab, id)
    <3>1. x \in landed' \/ InJob(x, j, id) \/ InPage(x, u, id)
      BY <2>1, <2>4 DEF Follows, Keeps, IntentInv
    <3>2. x \in landed' \/ InJob(x, job', id) \/ InPage(x, tab', id)
      BY <1>1, <3>1 DEF InPage
    <3> QED
      BY <3>2, SafeNext
  <2>5. CASE x \in landed
    BY <2>5, SafeNext DEF World
  <2> QED
    BY <2>2, <2>3, <2>4, <2>5 DEF InJob
<1>5. NothingDiscarded'
  BY <1>4 DEF NothingDiscarded
<1> QED
  BY <1>3, <1>5 DEF IntentInv

LEMMA SentOrQueued ==
  ASSUME JournalInv, chain # << >>, job = Null,
         NEW t, IsPage(t), SameBooks(t, tab), t.known = tab.known,
         NEW op \in OutboxOps, WellFormed(op), UserPart(op.base) \subseteq landed,
         op.opId = count.ops + 1, AsCalled(op), SendOrQueue(t, op)
  PROVE  Moved
<1>0. /\ UNCHANGED <<server, intents, landed, lives>> /\ chain' = Tail(chain)
      /\ count' = [count EXCEPT !.ops = @ + 1]
      /\ \/ Proceed(t, Started(op))
         \/ Proceed(Enqueue(t, op), Null)
  BY DEF SendOrQueue, Started
<1>1. /\ count \in Counts
      /\ server \in Views /\ Landed(server, landed) /\ Landed(tab.known, landed) /\ intents \in Intents
      /\ IsPage(tab) /\ IsStorage(tab) /\ QueueOK(tab.outbox, tab.conflicts, landed, count.ops)
  BY DEF JournalInv, TypeOK, IsPage, Counts
<1>2. /\ count' \in Counts
      /\ count'.ops = count.ops + 1 /\ count.ops \in Nat /\ count'.ops \in Nat /\ count.ops <= count'.ops
  BY <1>0, <1>1 DEF Counts
<1>3. World
  BY <1>0, <1>1, <1>2, HeadIs, LivesTyped DEF World
<1>4. QueueOK(tab.outbox, tab.conflicts, landed', count'.ops)
  BY <1>0, <1>1, <1>2, QueueGrows DEF IsStorage
<1>5. Durable(t)
  BY <1>1, SupersededBySelf DEF Durable, SameBooks
<1>6. Sound(t)
  BY <1>0, <1>1, <1>4, <1>5 DEF Sound, SameBooks
<1>7. OpOK(op, landed', count'.ops)
  BY <1>0, <1>2 DEF OpOK
<1>8. \A i \in DOMAIN tab.outbox : tab.outbox[i].opId < op.opId
  <2> SUFFICES ASSUME NEW i \in DOMAIN tab.outbox PROVE tab.outbox[i].opId < op.opId
    OBVIOUS
  <2>1. tab.outbox[i] \in OutboxOps /\ tab.outbox[i].opId <= count.ops
    BY <1>1 DEF QueueOK, OpOK
  <2>2. tab.outbox[i].opId \in Nat
    BY <2>1 DEF OutboxOps
  <2> QED
    BY <1>2, <2>1, <2>2
<1>9. RecordsMatch(t.conflicts, op, landed')
  <2> SUFFICES ASSUME NEW r \in tab.conflicts PROVE r.opId # op.opId
    BY DEF RecordsMatch, SameBooks
  <2>1. r.opId \in Nat /\ r.opId <= count.ops
    BY <1>1 DEF QueueOK, IsStorage, IsRecord
  <2> QED
    BY <1>2, <2>1
<1>10. t.outbox = tab.outbox /\ t.conflicts = tab.conflicts /\ t.parked = tab.parked
  BY DEF SameBooks
<1>11. OneWrite => Covers(op, tab.outbox)
  <2> SUFFICES ASSUME OneWrite PROVE Covers(op, tab.outbox)
    OBVIOUS
  <2>1. op.kind \in WriteKinds
    BY DEF OutboxOps, WriteKinds
  <2>2. chain[1].kind = op.kind
    BY HeadIs DEF AsCalled
  <2>3. Covers(chain[1], tab.outbox)
    BY <2>1, <2>2, HeadIs DEF OneWrite
  <2> QED
    BY <2>3, HeadIs DEF Covers, AsCalled
<1>12. CASE Proceed(t, Started(op))
  <2>1. PICK j : j = Started(op)
    OBVIOUS
  <2>2. j \in Jobs /\ j # Null /\ j.kind = "write" /\ j.phase = "send" /\ j.op = op
    BY <2>1, StartedIs
  <2>3. JobOK(j, t, landed', count'.ops)
    BY <1>7, <1>8, <1>9, <1>10, <2>2 DEF JobOK, WriteOK
  <2>4. Follows(t, j)
    BY <1>6, <1>10, <1>11, <2>2, <2>3 DEF Follows, Keeps, StillCovers, InPage, InJob
  <2>5. Proceed(t, j)
    BY <1>12, <2>1
  <2>6. \A x : x \in OpPart(op) => InJob(x, j, op.id)
    BY <2>2, NullIsNoOp DEF InJob
  <2>7. IntentInv => IntentInv'
    BY <1>0, <1>3, <2>4, <2>5, <2>6, TakenIntent
  <2> QED
    BY <1>3, <2>4, <2>5, <2>7, Followed DEF Moved
<1>13. CASE Proceed(Enqueue(t, op), Null)
  <2>1. PICK u : u = Enqueue(t, op)
    OBVIOUS
  <2>2. /\ Sound(u)
        /\ \A x : x \in OpPart(op) => InPage(x, u, op.id)
        /\ Covers(op, tab.outbox) =>
             \A id \in Ids : \A x \in Wanted(id) : InPage(x, t, id) => InPage(x, u, id)
    BY <1>6, <1>7, <1>8, <1>9, <1>10, <2>1, QueuedIs
  <2>3. Follows(u, Null)
    BY <1>10, <1>11, <2>2 DEF Follows, Keeps, StillCovers, InPage, InJob
  <2>4. Proceed(u, Null)
    BY <1>13, <2>1
  <2>5. IntentInv => IntentInv'
    BY <1>0, <1>3, <2>2, <2>3, <2>4, TakenIntent
  <2> QED
    BY <1>3, <2>3, <2>4, <2>5, Followed DEF Moved
<1> QED
  BY <1>0, <1>12, <1>13

\* What the page knows of an annotation.
LEMMA KnownIs ==
  ASSUME JournalInv, NEW id \in Ids
  PROVE  /\ tab.known[id] \in Copies \cup {Null} /\ UserPart(tab.known[id]) \subseteq landed
BY DEF JournalInv, TypeOK, IsPage, Views, Landed

LEMMA RevOfIs ==
  ASSUME NEW copy \in Copies \cup {Null}
  PROVE  RevOf(copy) \in Nat \cup {Null}
BY DEF RevOf, Copies

LEMMA StartSaveMoved ==
  ASSUME JournalInv, StartSave
  PROVE  Moved
<1>0. chain # << >> /\ job = Null /\ Head(chain).kind = "save"
  BY DEF StartSave, Next1
<1>1. Head(chain).id \in Ids /\ Head(chain).local \in Copies
  BY <1>0, HeadIs DEF Calls
<1>2. PICK id \in Ids, copy \in Copies : id = Head(chain).id /\ copy = Head(chain).local
  BY <1>1
<1>3. PICK base : base = tab.known[id]
  OBVIOUS
<1>4. base \in Copies \cup {Null} /\ UserPart(base) \subseteq landed
  BY <1>3, KnownIs
<1>5. PICK rev \in Nat \cup {Null} : rev = IF RevOf(base) # Null THEN RevOf(base) ELSE RevOf(copy)
  BY <1>4, RevOfIs
<1>6. PICK op : op = Operation("save", id, copy, rev, base)
  OBVIOUS
<1>7. /\ op \in OutboxOps /\ op.opId = count.ops + 1
      /\ op.kind = "save" /\ op.id = id /\ op.local = copy /\ op.base = base
  <2>1. count.ops + 1 \in Nat
    BY DEF JournalInv, TypeOK
  <2> QED
    BY <1>4, <1>6, <2>1 DEF Operation, OutboxOps
<1>8. WellFormed(op) /\ AsCalled(op)
  BY <1>0, <1>2, <1>7 DEF WellFormed, AsCalled
<1>9. PICK t : t = CacheUpsert(tab, id, copy)
  OBVIOUS
<1>10. IsPage(t) /\ SameBooks(t, tab) /\ t.known = tab.known
  BY <1>9, UpsertIs DEF JournalInv, TypeOK
<1>11. SendOrQueue(t, op)
  BY <1>2, <1>3, <1>5, <1>6, <1>9 DEF StartSave
<1> QED
  BY <1>0, <1>4, <1>7, <1>8, <1>10, <1>11, SentOrQueued

LEMMA StartRemoveMoved ==
  ASSUME JournalInv, StartRemove
  PROVE  Moved
<1>0. chain # << >> /\ job = Null /\ Head(chain).kind = "remove"
  BY DEF StartRemove, Next1
<1>1. Head(chain).id \in Ids
  BY <1>0, HeadIs DEF Calls
<1>2. PICK id \in Ids : id = Head(chain).id
  BY <1>1
<1>3. PICK base : base = tab.known[id]
  OBVIOUS
<1>4. base \in Copies \cup {Null} /\ UserPart(base) \subseteq landed
  BY <1>3, KnownIs
<1>5. PICK rev \in Nat \cup {Null} : rev = RevOf(base)
  BY <1>4, RevOfIs
<1>6. PICK op : op = Operation("remove", id, Null, rev, base)
  OBVIOUS
<1>7. /\ op \in OutboxOps /\ op.opId = count.ops + 1
      /\ op.kind = "remove" /\ op.id = id /\ op.base = base
  <2>1. count.ops + 1 \in Nat
    BY DEF JournalInv, TypeOK
  <2> QED
    BY <1>4, <1>6, <2>1 DEF Operation, OutboxOps
<1>8. WellFormed(op) /\ AsCalled(op)
  BY <1>0, <1>2, <1>7 DEF WellFormed, AsCalled
<1>9. PICK t : t = CacheRemove(tab, id)
  OBVIOUS
<1>10. IsPage(t) /\ SameBooks(t, tab) /\ t.known = tab.known
  BY <1>9, UncacheIs DEF JournalInv, TypeOK
<1>11. SendOrQueue(t, op)
  BY <1>2, <1>3, <1>5, <1>6, <1>9 DEF StartRemove
<1> QED
  BY <1>0, <1>4, <1>7, <1>8, <1>10, <1>11, SentOrQueued

LEMMA StartClearMoved ==
  ASSUME JournalInv, StartClear
  PROVE  Moved
<1>0. chain # << >> /\ job = Null /\ Head(chain).kind = "clear"
  BY DEF StartClear, Next1
<1>1. PICK op : op = Operation("clear", Null, Null, Null, Null)
  OBVIOUS
<1>2. /\ op \in OutboxOps /\ op.opId = count.ops + 1
      /\ op.kind = "clear" /\ op.id = Null /\ op.base = Null
  <2>1. count.ops + 1 \in Nat
    BY DEF JournalInv, TypeOK
  <2> QED
    BY <1>1, <2>1 DEF Operation, OutboxOps
<1>3. WellFormed(op) /\ AsCalled(op) /\ UserPart(op.base) \subseteq landed
  BY <1>0, <1>2, PartOfNull DEF WellFormed, AsCalled
<1>4. PICK t : t = [tab EXCEPT !.cache = EmptyStore]
  OBVIOUS
<1>5. IsPage(tab) /\ tab.shown \in Views /\ tab.known \in Views /\ EmptyStore \in Views
  BY DEF JournalInv, TypeOK, IsPage, EmptyStore, Views
<1>6. /\ DOMAIN t = PageFields /\ t.shown = tab.shown /\ t.known = tab.known /\ t.cache = EmptyStore
      /\ \A f \in PageFields \ {"shown", "known", "cache"} : t[f] = tab[f]
  BY <1>4, <1>5, PageIs DEF PageFields
<1>7. IsPage(t) /\ SameBooks(t, tab)
  BY <1>5, <1>6, SeenIs
<1>8. SendOrQueue(t, op)
  BY <1>1, <1>4 DEF StartClear
<1> QED
  BY <1>0, <1>2, <1>3, <1>6, <1>7, <1>8, SentOrQueued

-----------------------------------------------------------------------------
(* Steps that leave the queue, the journals and localStorage alone.         *)

\* The page's queue and journals, the job and localStorage are as they were.
Untouched ==
  /\ IsPage(tab') /\ (tab.memoryOnly => tab'.memoryOnly)
  /\ tab'.outbox = tab.outbox /\ tab'.conflicts = tab.conflicts /\ tab'.parked = tab.parked
  /\ tab'.cache = tab.cache /\ tab'.known = tab.known
  /\ disk' = disk /\ landed' = landed /\ lives' = lives
  /\ server' \in Views /\ Landed(server', landed)
  /\ count' \in Counts
  /\ count'.ops = count.ops
  /\ chain' \in Seq(Calls) /\ intents' \in Intents

LEMMA DiskStays ==
  ASSUME JournalInv, disk' = disk
  PROVE  DurableStep
BY SupersededBySelf DEF JournalInv, TypeOK, DurableStep

LEMMA UntouchedKeeps ==
  ASSUME JournalInv, Untouched, job' # Null => JobOK(job', tab, landed, count.ops)
  PROVE  JournalInv' /\ DurableStep
<1>1. job' # Null => JobOK(job', tab', landed', count'.ops)
  BY JobElsewhere DEF Untouched
<1>2. job' \in Jobs \cup {Null}
  BY <1>1, JobTyped
<1>3. TypeOK'
  BY <1>2 DEF Untouched, JournalInv, TypeOK, Counts
<1>4. tab'.memoryOnly \/ OnDisk(disk') = OnDisk(tab')
  BY DEF Untouched, JournalInv, OnDisk
<1>5. JournalInv'
  BY <1>1, <1>3, <1>4 DEF Untouched, JournalInv
<1> QED
  BY <1>5, DiskStays DEF Untouched

\* Only calls for a load or a poll come and go.
SameWrites ==
  /\ \A i \in DOMAIN chain' : chain'[i].kind \in WriteKinds =>
       i \in DOMAIN chain /\ chain'[i] = chain[i] /\ (job = Null => job' = Null)
  /\ \A i \in DOMAIN chain : chain[i].kind \in WriteKinds => i \in DOMAIN chain' /\ chain'[i] = chain[i]

LEMMA UntouchedIntent ==
  ASSUME JournalInv, IntentInv, Untouched, SameWrites, intents' = intents,
         job' = job \/ (job' # Null /\ job'.kind # "write" /\ job = Null)
  PROVE  IntentInv'
<1>0. /\ tab'.outbox = tab.outbox /\ tab'.conflicts = tab.conflicts /\ tab'.parked = tab.parked
      /\ landed' = landed
  BY DEF Untouched
<1>1. \A id : Wanted(id)' = Wanted(id)
  BY DEF Wanted
<1>2. OneWrite'
  <2>1. ASSUME NEW i \in DOMAIN chain', chain'[i].kind \in WriteKinds
        PROVE  i = 1 /\ job' = Null /\ Covers(chain[i], tab.outbox) /\ chain'[i] = chain[i]
    BY <2>1 DEF SameWrites, IntentInv, OneWrite
  <2>2. job' # Null /\ job'.kind = "write" => job' = job /\ Covers(job.op, tab.outbox)
    BY DEF IntentInv, OneWrite
  <2> QED
    BY <1>0, <1>1, <2>1, <2>2 DEF OneWrite, Covers
<1>3. ASSUME NEW id \in Ids, NEW x, x \in Wanted(id)'
      PROVE  (x \in Safe(id))'
  <2>1. x \in landed \/ InChain(x, chain, id) \/ InJob(x, job, id) \/ InPage(x, tab, id)
    BY <1>1, <1>3, SafeIs DEF IntentInv, NothingDiscarded
  <2>2. InChain(x, chain, id) => InChain(x, chain', id)
    BY DEF InChain, SameWrites, WriteKinds
  <2>3. InJob(x, job, id) => InJob(x, job', id)
    BY DEF InJob
  <2> QED
    BY <1>0, <2>1, <2>2, <2>3, SafeNext DEF InPage
<1>4. NothingDiscarded'
  BY <1>3 DEF NothingDiscarded
<1> QED
  BY <1>2, <1>4 DEF IntentInv

LEMMA UntouchedMoved ==
  ASSUME JournalInv, Untouched, SameWrites, intents' = intents, job' = job
  PROVE  Moved
<1>1. job' # Null => JobOK(job', tab, landed, count.ops)
  BY DEF JournalInv
<1> QED
  BY <1>1, UntouchedKeeps, UntouchedIntent DEF Moved

LEMMA StartSyncMoved ==
  ASSUME JournalInv, StartSync
  PROVE  Moved
<1>1. PICK kind \in Background : Next1(kind) /\ job' = Job(kind, "fetch")
  BY DEF StartSync, Background
<1>2. /\ chain # << >> /\ job = Null /\ Head(chain).kind = kind /\ chain' = Tail(chain)
      /\ UNCHANGED <<server, tab, disk, intents, landed, lives, count>>
  BY <1>1 DEF StartSync, Next1
<1>3. job' \in Jobs /\ job' # Null /\ job'.kind = kind /\ job'.phase = "fetch" /\ job'.op = Null
  <2>1. << >> \in Seq(OutboxOps) /\ 0 \in Nat
    OBVIOUS
  <2>2. job' = [ kind |-> kind, phase |-> "fetch", op |-> Null, todo |-> << >>, sent |-> 0,
                 first |-> Null, merged |-> Null, current |-> Null, after |-> "sent" ]
    BY <1>1 DEF Job
  <2>3. job' \in Jobs
    BY <2>1, <2>2 DEF Jobs, Background
  <2> QED
    BY <2>2, <2>3, NullIsNoJob
<1>4. JobOK(job', tab, landed, count.ops)
  BY <1>3 DEF JobOK, Background
<1>5. Untouched
  BY <1>2, HeadIs DEF Untouched, JournalInv, TypeOK, Counts
<1>6. JournalInv' /\ DurableStep
  BY <1>4, <1>5, UntouchedKeeps
<1>7. ASSUME IntentInv PROVE IntentInv'
  <2>1. kind \notin WriteKinds /\ kind # "write"
    BY DEF Background, WriteKinds
  <2>2. \A i \in DOMAIN chain : chain[i].kind \notin WriteKinds
    BY <1>2, <1>7, <2>1, HeadIs DEF IntentInv, OneWrite
  <2>3. SameWrites
    BY <1>2, <2>2, HeadIs DEF SameWrites
  <2> QED
    BY <1>2, <1>3, <1>5, <1>7, <2>1, <2>3, UntouchedIntent
<1> QED
  BY <1>6, <1>7 DEF Moved

\* A call goes to the end of the chain.
LEMMA CallIs ==
  ASSUME JournalInv, NEW call \in Calls, chain' = Append(chain, call)
  PROVE  /\ chain' \in Seq(Calls) /\ Len(chain) + 1 \in DOMAIN chain' /\ chain'[Len(chain) + 1] = call
         /\ \A i \in DOMAIN chain : i \in DOMAIN chain' /\ chain'[i] = chain[i]
         /\ \A i \in DOMAIN chain' : i = Len(chain) + 1 \/ (i \in DOMAIN chain /\ chain'[i] = chain[i])
BY DEF JournalInv, TypeOK

LEMMA PollTickMoved ==
  ASSUME JournalInv, PollTick
  PROVE  Moved
<1>1. /\ chain' = Append(chain, [kind |-> "poll"])
      /\ UNCHANGED <<server, tab, disk, job, intents, landed, lives, count>>
  BY DEF PollTick
<1>2. [kind |-> "poll"] \in Calls /\ "poll" \notin WriteKinds
  BY DEF Calls, WriteKinds
<1>3. Untouched
  BY <1>1, <1>2, CallIs DEF Untouched, JournalInv, TypeOK, Counts
<1>4. SameWrites
  BY <1>1, <1>2, CallIs DEF SameWrites
<1> QED
  BY <1>1, <1>3, <1>4, UntouchedMoved

LEMMA PairMoved ==
  ASSUME JournalInv, Pair
  PROVE  Moved
<1>1. /\ tab' = [tab EXCEPT !.refused = FALSE] /\ chain' = Append(chain, [kind |-> "load"])
      /\ count' = [count EXCEPT !.pairs = @ + 1]
      /\ UNCHANGED <<server, disk, job, intents, landed, lives>>
  BY DEF Pair
<1>2. [kind |-> "load"] \in Calls /\ "load" \notin WriteKinds
  BY DEF Calls, WriteKinds
<1>3. IsPage(tab)
  BY DEF JournalInv, TypeOK
<1>4. IsPage(tab') /\ SameBooks(tab', tab) /\ tab'.known = tab.known
  BY <1>1, <1>3, Unchecked
<1>5. tab'.cache = tab.cache
  BY <1>1, <1>3, PageIs DEF PageFields
<1>8. count' \in Counts /\ count'.ops = count.ops
  BY <1>1 DEF JournalInv, TypeOK, Counts
<1>6. Untouched
  BY <1>1, <1>2, <1>4, <1>5, <1>8, CallIs DEF Untouched, SameBooks, JournalInv, TypeOK
<1>7. SameWrites
  BY <1>1, <1>2, CallIs DEF SameWrites
<1> QED
  BY <1>1, <1>6, <1>7, UntouchedMoved

LEMMA FillUpMoved ==
  ASSUME JournalInv, FillUp
  PROVE  Moved
<1>1. /\ tab' = [tab EXCEPT !.memoryOnly = TRUE]
      /\ UNCHANGED <<server, disk, chain, job, intents, landed, lives, count>>
  BY DEF FillUp
<1>2. IsPage(tab)
  BY DEF JournalInv, TypeOK
<1>3. Untouched
  BY <1>1, <1>2, FullIs DEF Untouched, JournalInv, TypeOK, Counts
<1>4. SameWrites
  BY <1>1 DEF SameWrites
<1> QED
  BY <1>1, <1>3, <1>4, UntouchedMoved

LEMMA OthersMoved ==
  ASSUME JournalInv, NEW id \in Ids, NEW record \in Copies \cup {Null},
         UserPart(record) \subseteq landed, OtherWrites(id, record)
  PROVE  Moved
<1>1. /\ server' = [server EXCEPT ![id] = record] /\ count' = [count EXCEPT !.other = @ + 1]
      /\ UNCHANGED <<tab, disk, chain, job, intents, landed, lives>>
  BY DEF OtherWrites
<1>2. server \in Views /\ Landed(server, landed)
  BY DEF JournalInv, TypeOK
<1>3. server' \in Views /\ Landed(server', landed)
  BY <1>1, <1>2 DEF Views, Landed
<1>4. /\ count' \in Counts
      /\ count'.ops = count.ops
  BY <1>1 DEF JournalInv, TypeOK, Counts
<1>5. Untouched
  BY <1>1, <1>3, <1>4 DEF Untouched, JournalInv, TypeOK
<1>6. SameWrites
  BY <1>1 DEF SameWrites
<1> QED
  BY <1>1, <1>5, <1>6, UntouchedMoved

LEMMA OtherMoveMoved ==
  ASSUME JournalInv, OtherMove
  PROVE  Moved
<1>1. PICK id \in Ids, a \in OtherMoves :
        /\ server[id] # Null
        /\ OtherWrites(id, [server[id] EXCEPT
             !.status = Target[a], !.rev = @ + 1,
             !.lifecycle = Append(@, Event(EventOf[a], "other", count.other + 1))])
  BY DEF OtherMove
<1>2. PICK copy \in Copies : copy = server[id] /\ UserPart(copy) \subseteq landed
  BY <1>1 DEF JournalInv, TypeOK, Views, Landed
<1>3. PICK e : e = Event(EventOf[a], "other", count.other + 1)
  OBVIOUS
<1>4. e \in Events /\ e.id[1] = "other"
  <2>1. count.other + 1 \in Nat
    BY DEF JournalInv, TypeOK
  <2>2. EventOf[a] \in EventTypes /\ e.type = EventOf[a] /\ e.id = <<"other", count.other + 1>>
    BY <1>3, MovesAreActions, MoveIs DEF Event
  <2> QED
    BY <1>3, <2>1, <2>2 DEF Events, Values, Event
<1>5. PICK record : record = [copy EXCEPT !.status = Target[a], !.rev = @ + 1, !.lifecycle = Append(@, e)]
  OBVIOUS
<1>6. /\ record \in Copies /\ record.fields = copy.fields
      /\ record.lifecycle = Append(copy.lifecycle, e)
  <2>1. Target[a] \in Statuses
    BY MovesAreActions, MoveIs
  <2>2. copy.lifecycle \in Seq(Events) /\ Append(copy.lifecycle, e) \in Seq(Events)
        /\ copy.fields \in [Fields -> Values] /\ copy.rev + 1 \in Nat
    BY <1>4 DEF Copies
  <2>3. record = [ fields |-> copy.fields, status |-> Target[a],
                   lifecycle |-> Append(copy.lifecycle, e), rev |-> copy.rev + 1 ]
    BY <1>5 DEF Copies
  <2> QED
    BY <2>1, <2>2, <2>3 DEF Copies
<1>7. UserPart(record) \subseteq landed
  <2> SUFFICES ASSUME NEW x, x \in UserPart(record) PROVE x \in UserPart(copy)
    BY <1>2
  <2>1. Tells(record, x) /\ x[2][1] = "user"
    BY <1>6, PartIs
  <2>2. Tells(copy, x)
    BY <1>4, <1>6, <2>1, AppendedTells
  <2> QED
    BY <2>1, <2>2, PartIs
<1>8. OtherWrites(id, record)
  BY <1>1, <1>2, <1>3, <1>5
<1> QED
  BY <1>6, <1>7, <1>8, OthersMoved

LEMMA OtherEditMoved ==
  ASSUME JournalInv, OtherEdit
  PROVE  Moved
<1>1. PICK id \in Ids, f \in Fields :
        /\ server[id] # Null
        /\ OtherWrites(id, [server[id] EXCEPT !.fields[f] = <<"other", count.other + 1>>, !.rev = @ + 1])
  BY DEF OtherEdit
<1>2. PICK copy \in Copies : copy = server[id] /\ UserPart(copy) \subseteq landed
  BY <1>1 DEF JournalInv, TypeOK, Views, Landed
<1>3. PICK value \in Values : value = <<"other", count.other + 1>>
  <2>1. count.other + 1 \in Nat
    BY DEF JournalInv, TypeOK
  <2> QED
    BY <2>1 DEF Values
<1>4. PICK record : record = [copy EXCEPT !.fields[f] = value, !.rev = @ + 1]
  OBVIOUS
<1>5. /\ record \in Copies /\ record.fields = [copy.fields EXCEPT ![f] = value]
      /\ record.lifecycle = copy.lifecycle
  <2>1. /\ copy.fields \in [Fields -> Values] /\ copy.rev + 1 \in Nat
        /\ [copy.fields EXCEPT ![f] = value] \in [Fields -> Values]
    BY DEF Copies
  <2>2. record = [ fields |-> [copy.fields EXCEPT ![f] = value], status |-> copy.status,
                   lifecycle |-> copy.lifecycle, rev |-> copy.rev + 1 ]
    BY <1>4 DEF Copies
  <2> QED
    BY <2>1, <2>2 DEF Copies
<1>6. UserPart(record) \subseteq landed
  <2> SUFFICES ASSUME NEW x, x \in UserPart(record) PROVE x \in UserPart(copy)
    BY <1>2
  <2>1. Tells(record, x) /\ x[2][1] = "user"
    BY <1>5, PartIs
  <2>2. value[1] = "other"
    BY <1>3
  <2>3. x # <<"value", value>>
    BY <2>1, <2>2
  <2>4. Tells(copy, x)
    BY <1>2, <1>5, <2>1, <2>3, EditedTells
  <2> QED
    BY <2>1, <2>4, PartIs
<1>7. OtherWrites(id, record)
  BY <1>1, <1>2, <1>3, <1>4
<1> QED
  BY <1>5, <1>6, <1>7, OthersMoved

LEMMA OtherRemoveMoved ==
  ASSUME JournalInv, OtherRemove
  PROVE  Moved
BY PartOfNull, OthersMoved DEF OtherRemove

-----------------------------------------------------------------------------
(* The page is reloaded.                                                    *)

LEMMA ReloadMoved ==
  ASSUME JournalInv, Reload
  PROVE  Moved
<1>0. /\ tab' = FreshTab(disk) /\ chain' = <<[kind |-> "init"]>> /\ job' = Null
      /\ intents' = [id \in Ids |-> IF tab.memoryOnly \/ Unsettled(id)
                                    THEN NothingWanted(intents[id].born) ELSE intents[id]]
      /\ count' = [count EXCEPT !.reloads = @ + 1] /\ UNCHANGED <<server, disk, landed, lives>>
  BY DEF Reload
<1>1. /\ TypeOK /\ DOMAIN disk = DOMAIN EmptyDisk /\ IsStorage(disk)
      /\ QueueOK(disk.outbox, disk.conflicts, landed, count.ops) /\ Landed(server, landed)
  BY DEF JournalInv, TypeOK
<1>2. /\ DOMAIN tab' = DOMAIN FreshTab(EmptyDisk)
      /\ tab'.shown = EmptyStore /\ tab'.known = EmptyStore /\ tab'.memoryOnly = FALSE
      /\ tab'.online = TRUE /\ tab'.refused = FALSE /\ tab'.held = {}
      /\ tab'.cache = disk.cache /\ tab'.outbox = disk.outbox
      /\ tab'.conflicts = disk.conflicts /\ tab'.parked = disk.parked
  BY <1>0 DEF FreshTab
<1>3. EmptyStore \in Views /\ Landed(EmptyStore, landed)
  BY PartOfNull DEF EmptyStore, Views, Landed
<1>4. IsPage(tab')
  BY <1>1, <1>2, <1>3 DEF IsPage, IsStorage
<1>5. TypeOK'
  <2>1. chain' \in Seq(Calls)
    BY <1>0 DEF Calls
  <2>2. intents' \in Intents
    BY <1>0, <1>1 DEF TypeOK, Intents, NothingWanted
  <2>3. count' \in Counts
    BY <1>0, CountIs
  <2> QED
    BY <1>0, <1>1, <1>4, <2>1, <2>2, <2>3 DEF TypeOK, Counts
<1>6. JournalInv'
  <2>1. OnDisk(disk') = OnDisk(tab') /\ count'.ops = count.ops
    BY <1>0, <1>1, <1>2 DEF OnDisk, TypeOK
  <2>2. Landed(tab'.known, landed')
    BY <1>0, <1>2, <1>3
  <2> QED
    BY <1>0, <1>1, <1>2, <1>5, <2>1, <2>2 DEF JournalInv, OnDisk
<1>7. DurableStep
  BY <1>0, DiskStays
<1>8. ASSUME IntentInv PROVE IntentInv'
  <2>1. OneWrite'
    <3>1. \A i \in DOMAIN chain' : chain'[i].kind \notin WriteKinds
      BY <1>0 DEF WriteKinds
    <3> QED
      BY <1>0, <3>1 DEF OneWrite
  <2>2. ASSUME NEW id \in Ids, NEW x, x \in Wanted(id)'
        PROVE  (x \in Safe(id))'
    <3>1. ~ tab.memoryOnly /\ ~ Unsettled(id) /\ intents'[id] = intents[id]
      BY <1>0, <2>2 DEF Wanted, NothingWanted
    <3>2. x \in Wanted(id)
      BY <2>2, <3>1 DEF Wanted
    <3>3. x \in landed \/ InChain(x, chain, id) \/ InJob(x, job, id) \/ InPage(x, tab, id)
      BY <1>8, <3>2, SafeIs DEF IntentInv, NothingDiscarded
    <3>4. ~ InChain(x, chain, id)
      BY <3>1 DEF InChain, Unsettled
    <3>5. InJob(x, job, id) => InPage(x, tab, id)
      <4> SUFFICES ASSUME InJob(x, job, id) PROVE InPage(x, tab, id)
        OBVIOUS
      <4>1. job # Null /\ job.op # Null /\ job.op.id = id /\ x \in OpPart(job.op) /\ job.kind # "write"
        BY <3>1 DEF InJob, Unsettled
      <4>2. JobOK(job, tab, landed, count.ops)
        BY <4>1 DEF JournalInv
      <4>3. FlushOK(job.op, job.todo, tab)
        BY <4>1, <4>2 DEF JobOK, Jobs
      <4> QED
        BY <4>1, <4>3 DEF FlushOK, InPage
    <3>6. OnDisk(disk) = OnDisk(tab)
      BY <3>1 DEF JournalInv
    <3>7. disk.outbox = tab.outbox /\ disk.conflicts = tab.conflicts /\ disk.parked = tab.parked
      BY <3>6, DiskIs
    <3>8. x \in landed' \/ InPage(x, tab', id)
      BY <1>0, <1>2, <3>3, <3>4, <3>5, <3>7 DEF InPage
    <3> QED
      BY <3>8, SafeNext
  <2>3. NothingDiscarded'
    BY <2>2 DEF NothingDiscarded
  <2> QED
    BY <2>1, <2>3 DEF IntentInv
<1> QED
  BY <1>6, <1>7, <1>8 DEF Moved

-----------------------------------------------------------------------------
(* The user writes.                                                         *)

\* What is wanted of an annotation of which this has been asked.
WantedOf(intent) ==
  {<<"value", v>> : v \in {intent.value} \ {Null}} \cup {<<"event", e>> : e \in intent.events}

\* The call takes along what is wanted of all it will replace in the queue, and
\* asks for nothing it does not bring.
Asked(w, wanted) ==
  /\ w.kind = "save" =>
       \A i \in DOMAIN tab.outbox : tab.outbox[i].id = w.id =>
         WantedOf(wanted[w.id]) \cap OpPart(tab.outbox[i]) \subseteq UserPart(w.local)
  /\ w.kind = "remove" => WantedOf(wanted[w.id]) = {}
  /\ w.kind = "clear" => \A id \in Ids : WantedOf(wanted[id]) = {}
  /\ \A id \in Ids : \A x \in WantedOf(wanted[id]) :
       x \in Wanted(id) \/ (w.kind = "save" /\ w.id = id /\ x \in UserPart(w.local))

\* What a step keeps when the user waits for each write to be shown.
Acted == JournalInv' /\ DurableStep /\ (Pace = "shown" /\ IntentInv => IntentInv')

LEMMA UserMoved ==
  ASSUME JournalInv, NEW write \in Calls, NEW shown \in Views, NEW wanted \in Intents,
         UserWrites(write, shown, wanted), Pace = "shown" => Asked(write, wanted)
  PROVE  Acted
<1>0. /\ UserMayAct /\ tab' = [tab EXCEPT !.shown = shown] /\ chain' = Append(chain, write)
      /\ intents' = wanted /\ count' = [count EXCEPT !.user = @ + 1]
      /\ UNCHANGED <<server, disk, job, landed, lives>>
  BY DEF UserWrites
<1>1. IsPage(tab) /\ tab.known \in Views /\ tab.cache \in Views \cup {Null}
  BY DEF JournalInv, TypeOK, IsPage, IsStorage
<1>2. /\ DOMAIN tab' = PageFields /\ tab'.shown = shown /\ tab'.known = tab.known /\ tab'.cache = tab.cache
      /\ \A f \in PageFields \ {"shown", "known", "cache"} : tab'[f] = tab[f]
  BY <1>0, <1>1, PageIs DEF PageFields
<1>3. IsPage(tab') /\ SameBooks(tab', tab)
  BY <1>1, <1>2, SeenIs
<1>4. /\ count' \in Counts
      /\ count'.ops = count.ops
  BY <1>0, CountIs
<1>5. Untouched
  BY <1>0, <1>2, <1>3, <1>4, CallIs DEF Untouched, SameBooks, JournalInv, TypeOK
<1>6. JournalInv' /\ DurableStep
  BY <1>0, <1>5, UntouchedKeeps DEF JournalInv
<1>7. ASSUME Pace = "shown", IntentInv PROVE IntentInv'
  <2>0. chain = << >> /\ job = Null /\ Asked(write, wanted)
    BY <1>0, <1>7 DEF UserMayAct
  <2>1. DOMAIN chain' = {1} /\ chain'[1] = write /\ job' = Null
    BY <1>0, <2>0
  <2>2. \A id : Wanted(id)' = WantedOf(wanted[id])
    BY <1>0 DEF Wanted, WantedOf
  <2>3. OneWrite'
    BY <1>5, <2>0, <2>1, <2>2 DEF OneWrite, Covers, Asked, Untouched
  <2>4. ASSUME NEW id \in Ids, NEW x, x \in Wanted(id)'
        PROVE  (x \in Safe(id))'
    <3>1. x \in WantedOf(wanted[id])
      BY <2>2, <2>4
    <3>2. CASE write.kind = "save" /\ write.id = id /\ x \in UserPart(write.local)
      <4>1. InChain(x, chain', id)
        BY <2>1, <3>2 DEF InChain
      <4> QED
        BY <4>1, SafeNext
    <3>3. CASE x \in Wanted(id)
      <4>1. x \in landed \/ InChain(x, chain, id) \/ InJob(x, job, id) \/ InPage(x, tab, id)
        BY <1>7, <3>3, SafeIs DEF IntentInv, NothingDiscarded
      <4>2. x \in landed' \/ InPage(x, tab', id)
        BY <1>5, <2>0, <4>1 DEF InChain, InJob, InPage, Untouched
      <4> QED
        BY <4>2, SafeNext
    <3> QED
      BY <2>0, <3>1, <3>2, <3>3 DEF Asked
  <2>5. NothingDiscarded'
    BY <2>4 DEF NothingDiscarded
  <2> QED
    BY <2>3, <2>5 DEF IntentInv
<1> QED
  BY <1>6, <1>7 DEF Acted

\* A value or an event of the user.
LEMMA MineIs ==
  ASSUME JournalInv, NEW v, v = <<"user", count.user + 1>>
  PROVE  v \in Values /\ v[1] = "user"
<1>1. count.user + 1 \in Nat
  BY DEF JournalInv, TypeOK
<1> QED
  BY <1>1 DEF Values

LEMMA ShownIs ==
  ASSUME JournalInv, NEW id \in Ids, NEW copy \in Copies \cup {Null}
  PROVE  /\ tab.shown[id] \in Copies \cup {Null} /\ [tab.shown EXCEPT ![id] = copy] \in Views
         /\ intents \in Intents /\ EmptyStore \in Views
BY DEF JournalInv, TypeOK, IsPage, Views, EmptyStore

(* What was queued of an annotation is in what the page shows of it.        *)
LEMMA QueuedIsShown ==
  ASSUME JournalInv, QueueIsShown, NEW i \in DOMAIN tab.outbox, NEW copy \in Copies,
         copy = tab.shown[tab.outbox[i].id], NEW x, x \in OpPart(tab.outbox[i])
  PROVE  Tells(copy, x) /\ x[2][1] = "user"
<1>1. tab.outbox[i] \in OutboxOps /\ WellFormed(tab.outbox[i])
  BY DEF JournalInv, TypeOK, IsPage, IsStorage
<1>2. PICK op \in OutboxOps : op = tab.outbox[i] /\ WellFormed(op)
  BY <1>1
<1>3. op.kind = "save" /\ x \in UserPart(op.local) /\ op.local \in Copies
  BY <1>2 DEF OpPart, WellFormed
<1>4. Unwritten(copy) = Unwritten(op.local)
  BY <1>2, <1>3 DEF QueueIsShown
<1>5. copy.fields = op.local.fields /\ copy.lifecycle = op.local.lifecycle
  <2>1. /\ Unwritten(copy).fields = copy.fields /\ Unwritten(copy).lifecycle = copy.lifecycle
        /\ Unwritten(op.local).fields = op.local.fields /\ Unwritten(op.local).lifecycle = op.local.lifecycle
    BY <1>3 DEF Unwritten, Copies
  <2> QED
    BY <1>4, <2>1
<1>6. Tells(op.local, x) /\ x[2][1] = "user"
  BY <1>3, PartIs
<1> QED
  BY <1>5, <1>6 DEF Tells

\* A call to save, about which no more is asked than what it brings.
LEMMA SaveAsked ==
  ASSUME JournalInv, NEW id \in Ids, NEW copy \in Copies, NEW shown \in Views, NEW wanted \in Intents,
         UserWrites(SaveJob(id, copy), shown, wanted),
         \A k \in Ids : k # id => wanted[k] = intents[k],
         Pace = "shown" =>
           \A x \in WantedOf(wanted[id]) :
             \/ x \in UserPart(copy)
             \/ /\ x \in Wanted(id)
                /\ \A i \in DOMAIN tab.outbox :
                     tab.outbox[i].id = id => x \notin OpPart(tab.outbox[i])
  PROVE  Acted
<1>1. PICK call : call = SaveJob(id, copy)
  OBVIOUS
<1>2. call \in Calls /\ call.kind = "save" /\ call.id = id /\ call.local = copy
  BY <1>1 DEF SaveJob, Calls
<1>3. \A k : Wanted(k) = WantedOf(intents[k])
  BY DEF Wanted, WantedOf
<1>4. Pace = "shown" => Asked(call, wanted)
  BY <1>2, <1>3 DEF Asked
<1> QED
  BY <1>1, <1>2, <1>4, UserMoved

LEMMA UserAddMoved ==
  ASSUME JournalInv, UserAdd
  PROVE  Acted
<1>1. PICK id \in Ids :
        LET copy == NewAnnotation(<<"user", count.user + 1>>)
        IN  UserWrites(SaveJob(id, copy), [tab.shown EXCEPT ![id] = copy],
                       [intents EXCEPT ![id] = [NothingWanted(TRUE) EXCEPT !.value = <<"user", count.user + 1>>]])
  BY DEF UserAdd
<1>2. PICK v : v = <<"user", count.user + 1>>
  OBVIOUS
<1>3. v \in Values /\ v[1] = "user"
  BY <1>2, MineIs
<1>4. PICK copy : copy = NewAnnotation(v)
  OBVIOUS
<1>5. copy \in Copies /\ \A f \in Fields : copy.fields[f] = v
  <2>1. Event("created", "user", 0) \in Events
    BY DEF Event, Events, EventTypes, Values
  <2>2. copy = [ fields |-> [f \in Fields |-> v], status |-> "pending", rev |-> 0,
                 lifecycle |-> <<Event("created", "user", 0)>> ]
    BY <1>4 DEF NewAnnotation
  <2>3. [f \in Fields |-> v] \in [Fields -> Values] /\ 0 \in Nat /\ "pending" \in Statuses
    BY <1>3 DEF Statuses
  <2>4. <<Event("created", "user", 0)>> \in Seq(Events)
    BY <2>1
  <2>5. copy \in Copies
    BY <2>2, <2>3, <2>4 DEF Copies
  <2> QED
    BY <2>2, <2>5
<1>6. PICK wanted : wanted = [intents EXCEPT ![id] = [NothingWanted(TRUE) EXCEPT !.value = v]]
  OBVIOUS
<1>7. /\ wanted \in Intents /\ \A k \in Ids : k # id => wanted[k] = intents[k]
      /\ wanted[id].value = v /\ wanted[id].events = {}
  BY <1>3, <1>5, <1>6, ShownIs DEF Intents, NothingWanted
<1>8. \A x \in WantedOf(wanted[id]) : x \in UserPart(copy)
  <2>1. \A x \in WantedOf(wanted[id]) : x = <<"value", v>>
    BY <1>7 DEF WantedOf
  <2>2. Tells(copy, <<"value", v>>)
    BY <1>5, FieldsExist DEF Tells
  <2> QED
    BY <1>3, <1>5, <2>1, <2>2, PartIs
<1>9. PICK shown : shown = [tab.shown EXCEPT ![id] = copy]
  OBVIOUS
<1>10. shown \in Views
  BY <1>5, <1>9, ShownIs
<1>11. UserWrites(SaveJob(id, copy), shown, wanted)
  BY <1>1, <1>2, <1>4, <1>6, <1>9
<1> QED
  BY <1>5, <1>7, <1>8, <1>10, <1>11, SaveAsked

LEMMA UserEditMoved ==
  ASSUME JournalInv, UserEdit
  PROVE  Acted
<1>1. PICK id \in Ids, f \in Fields :
        /\ tab.shown[id] # Null
        /\ LET value == <<"user", count.user + 1>>
               copy  == [tab.shown[id] EXCEPT !.fields[f] = value]
           IN  UserWrites(SaveJob(id, copy), [tab.shown EXCEPT ![id] = copy],
                          [intents EXCEPT ![id].value = value])
  BY DEF UserEdit
<1>2. PICK v : v = <<"user", count.user + 1>>
  OBVIOUS
<1>3. v \in Values /\ v[1] = "user"
  BY <1>2, MineIs
<1>4. PICK old : old = tab.shown[id]
  OBVIOUS
<1>5. old \in Copies
  BY <1>1, <1>4, NullIsNoCopy, ShownIs
<1>6. PICK copy : copy = [old EXCEPT !.fields[f] = v]
  OBVIOUS
<1>7. /\ copy \in Copies /\ copy.fields = [old.fields EXCEPT ![f] = v]
      /\ copy.lifecycle = old.lifecycle
  <2>1. old.fields \in [Fields -> Values] /\ [old.fields EXCEPT ![f] = v] \in [Fields -> Values]
    BY <1>3, <1>5 DEF Copies
  <2>2. copy = [ fields |-> [old.fields EXCEPT ![f] = v], status |-> old.status,
                 lifecycle |-> old.lifecycle, rev |-> old.rev ]
    BY <1>5, <1>6 DEF Copies
  <2> QED
    BY <1>5, <2>1, <2>2 DEF Copies
<1>8. PICK wanted : wanted = [intents EXCEPT ![id].value = v]
  OBVIOUS
<1>9. /\ wanted \in Intents /\ \A k \in Ids : k # id => wanted[k] = intents[k]
      /\ wanted[id].value = v /\ wanted[id].events = intents[id].events
  BY <1>3, <1>7, <1>8, ShownIs DEF Intents
<1>10. ASSUME Pace = "shown", NEW x \in WantedOf(wanted[id]), x \notin UserPart(copy)
       PROVE  /\ x \in Wanted(id)
              /\ \A i \in DOMAIN tab.outbox : tab.outbox[i].id = id => x \notin OpPart(tab.outbox[i])
  <2>1. x # <<"value", v>>
    BY <1>3, <1>5, <1>7, <1>10, EditedTells, PartIs
  <2>2. PICK e \in intents[id].events : x = <<"event", e>>
    BY <1>9, <1>10, <2>1 DEF WantedOf
  <2>3. x \in Wanted(id)
    BY <2>2 DEF Wanted
  <2>4. ASSUME NEW i \in DOMAIN tab.outbox, tab.outbox[i].id = id, x \in OpPart(tab.outbox[i])
        PROVE  FALSE
    <3>1. QueueIsShown
      BY <1>1, <1>10 DEF UserWrites, UserMayAct
    <3>2. Tells(old, x) /\ x[2][1] = "user"
      BY <1>4, <1>5, <2>4, <3>1, QueuedIsShown
    <3>3. Tells(copy, x)
      BY <1>7, <2>2, <3>2, EventsStay
    <3> QED
      BY <1>7, <1>10, <3>2, <3>3, PartIs
  <2> QED
    BY <2>3, <2>4
<1>11. PICK shown : shown = [tab.shown EXCEPT ![id] = copy]
  OBVIOUS
<1>12. shown \in Views
  BY <1>7, <1>11, ShownIs
<1>13. UserWrites(SaveJob(id, copy), shown, wanted)
  BY <1>1, <1>2, <1>4, <1>6, <1>8, <1>11
<1> QED
  BY <1>7, <1>9, <1>10, <1>12, <1>13, SaveAsked

LEMMA UserMoveMoved ==
  ASSUME JournalInv, UserMove
  PROVE  Acted
<1>1. PICK id \in Ids, a \in UserMoves :
        /\ tab.shown[id] # Null
        /\ LET event == Event(EventOf[a], "user", count.user + 1)
               copy  == [tab.shown[id] EXCEPT !.status = Target[a], !.lifecycle = Append(@, event)]
           IN  UserWrites(SaveJob(id, copy), [tab.shown EXCEPT ![id] = copy],
                          [intents EXCEPT ![id].events = @ \cup {event.id}])
  BY DEF UserMove
<1>2. PICK e : e = Event(EventOf[a], "user", count.user + 1)
  OBVIOUS
<1>3. e \in Events /\ e.id \in Values /\ e.id[1] = "user"
  <2>1. <<"user", count.user + 1>> \in Values
    BY MineIs
  <2>2. EventOf[a] \in EventTypes
    BY MovesAreActions, MoveIs
  <2> QED
    BY <1>2, <2>1, <2>2 DEF Event, Events
<1>4. PICK old : old = tab.shown[id]
  OBVIOUS
<1>5. old \in Copies
  BY <1>1, <1>4, NullIsNoCopy, ShownIs
<1>6. PICK copy : copy = [old EXCEPT !.status = Target[a], !.lifecycle = Append(@, e)]
  OBVIOUS
<1>7. /\ copy \in Copies /\ copy.fields = old.fields
      /\ copy.lifecycle = Append(old.lifecycle, e)
  <2>1. Target[a] \in Statuses
    BY MovesAreActions, MoveIs
  <2>2. Append(old.lifecycle, e) \in Seq(Events)
    BY <1>3, <1>5 DEF Copies
  <2>3. copy = [ fields |-> old.fields, status |-> Target[a],
                 lifecycle |-> Append(old.lifecycle, e), rev |-> old.rev ]
    BY <1>5, <1>6 DEF Copies
  <2> QED
    BY <1>5, <2>1, <2>2, <2>3 DEF Copies
<1>8. PICK wanted : wanted = [intents EXCEPT ![id].events = @ \cup {e.id}]
  OBVIOUS
<1>9. /\ wanted \in Intents /\ \A k \in Ids : k # id => wanted[k] = intents[k]
      /\ wanted[id].value = intents[id].value /\ wanted[id].events = intents[id].events \cup {e.id}
  BY <1>3, <1>7, <1>8, ShownIs DEF Intents
<1>10. ASSUME Pace = "shown", NEW x \in WantedOf(wanted[id]), x \notin UserPart(copy)
       PROVE  /\ x \in Wanted(id)
              /\ \A i \in DOMAIN tab.outbox : tab.outbox[i].id = id => x \notin OpPart(tab.outbox[i])
  <2>1. x # <<"event", e.id>>
    <3>1. Tells(copy, <<"event", e.id>>)
      BY <1>3, <1>5, <1>7, AppendedTells
    <3> QED
      BY <1>3, <1>7, <1>10, <3>1, PartIs
  <2>2. x \in Wanted(id)
    BY <1>9, <1>10, <2>1 DEF WantedOf, Wanted
  <2>3. ASSUME NEW i \in DOMAIN tab.outbox, tab.outbox[i].id = id, x \in OpPart(tab.outbox[i])
        PROVE  FALSE
    <3>1. QueueIsShown
      BY <1>1, <1>10 DEF UserWrites, UserMayAct
    <3>2. Tells(old, x) /\ x[2][1] = "user"
      BY <1>4, <1>5, <2>3, <3>1, QueuedIsShown
    <3>3. Tells(copy, x)
      BY <1>3, <1>5, <1>7, <3>2, AppendedTells
    <3> QED
      BY <1>7, <1>10, <3>2, <3>3, PartIs
  <2> QED
    BY <2>2, <2>3
<1>11. PICK shown : shown = [tab.shown EXCEPT ![id] = copy]
  OBVIOUS
<1>12. shown \in Views
  BY <1>7, <1>11, ShownIs
<1>13. UserWrites(SaveJob(id, copy), shown, wanted)
  BY <1>1, <1>2, <1>4, <1>6, <1>8, <1>11
<1> QED
  BY <1>7, <1>9, <1>10, <1>12, <1>13, SaveAsked

\* Nothing is wanted of an annotation that was removed.
LEMMA NothingIs ==
  ASSUME NEW born \in BOOLEAN
  PROVE  /\ WantedOf(NothingWanted(born)) = {}
         /\ NothingWanted(born) \in [value : Values \cup {Null}, events : SUBSET Values, born : BOOLEAN]
BY DEF WantedOf, NothingWanted

LEMMA UserRemoveMoved ==
  ASSUME JournalInv, UserRemove
  PROVE  Acted
<1>1. PICK id \in Ids :
        UserWrites([kind |-> "remove", id |-> id], [tab.shown EXCEPT ![id] = Null],
                   [intents EXCEPT ![id] = NothingWanted(TRUE)])
  BY DEF UserRemove
<1>2. PICK call : call = [kind |-> "remove", id |-> id]
  OBVIOUS
<1>3. call \in Calls /\ call.kind = "remove" /\ call.id = id
  BY <1>2 DEF Calls
<1>4. PICK wanted : wanted = [intents EXCEPT ![id] = NothingWanted(TRUE)]
  OBVIOUS
<1>5. /\ wanted \in Intents /\ wanted[id] = NothingWanted(TRUE)
      /\ \A k \in Ids : k # id => wanted[k] = intents[k]
  BY <1>4, NothingIs DEF JournalInv, TypeOK, Intents
<1>6. WantedOf(wanted[id]) = {} /\ \A k \in Ids : WantedOf(wanted[k]) \subseteq Wanted(k)
  BY <1>5, NothingIs DEF Wanted, WantedOf
<1>7. Asked(call, wanted)
  BY <1>3, <1>6 DEF Asked
<1>8. PICK shown : shown = [tab.shown EXCEPT ![id] = Null]
  OBVIOUS
<1>9. shown \in Views
  BY <1>8, ShownIs
<1>10. UserWrites(call, shown, wanted)
  BY <1>1, <1>2, <1>4, <1>8
<1> QED
  BY <1>3, <1>5, <1>7, <1>9, <1>10, UserMoved

LEMMA UserClearMoved ==
  ASSUME JournalInv, UserClear
  PROVE  Acted
<1>1. UserWrites([kind |-> "clear"], EmptyStore, [id \in Ids |-> NothingWanted(intents[id].born)])
  BY DEF UserClear
<1>2. PICK call : call = [kind |-> "clear"]
  OBVIOUS
<1>3. call \in Calls /\ call.kind = "clear"
  BY <1>2 DEF Calls
<1>4. PICK wanted : wanted = [id \in Ids |-> NothingWanted(intents[id].born)]
  OBVIOUS
<1>5. \A id \in Ids : intents[id].born \in BOOLEAN
  BY DEF JournalInv, TypeOK, Intents
<1>6. wanted \in Intents /\ \A id \in Ids : WantedOf(wanted[id]) = {}
  BY <1>4, <1>5, NothingIs DEF Intents
<1>7. Asked(call, wanted)
  BY <1>3, <1>6 DEF Asked
<1>8. PICK shown \in Views : shown = EmptyStore
  BY DEF EmptyStore, Views
<1>9. UserWrites(call, shown, wanted)
  BY <1>1, <1>2, <1>4, <1>8
<1> QED
  BY <1>3, <1>6, <1>7, <1>9, UserMoved

-----------------------------------------------------------------------------
(* The theorems.                                                            *)

LEMMA Started0 ==
  ASSUME Init
  PROVE  JournalInv /\ IntentInv
<1>1. /\ server \in InitialServer /\ tab = FreshTab(EmptyDisk) /\ disk = EmptyDisk
      /\ chain = <<[kind |-> "init"]>> /\ job = Null /\ landed = {}
      /\ intents = [id \in Ids |-> NothingWanted(server[id] # Null)]
      /\ lives = [id \in Ids |-> IF server[id] = Null THEN 0 ELSE 1]
      /\ count = [user |-> 0, other |-> 0, faults |-> 0, reloads |-> 0, pairs |-> 0, ops |-> 0]
  BY DEF Init
<1>2. server \in Views /\ Landed(server, landed)
  BY <1>1, InitialServerTyped DEF Landed
<1>3. EmptyStore \in Views /\ Landed(EmptyStore, landed)
  BY PartOfNull DEF EmptyStore, Views, Landed
<1>4. << >> \in Seq(OutboxOps)
  OBVIOUS
<1>5. DOMAIN disk = DOMAIN EmptyDisk /\ IsStorage(disk) /\ disk.outbox = << >> /\ disk.conflicts = {}
  BY <1>1, <1>4 DEF EmptyDisk, IsStorage
<1>6. /\ tab.shown = EmptyStore /\ tab.known = EmptyStore /\ tab.memoryOnly = FALSE
      /\ tab.online = TRUE /\ tab.refused = FALSE /\ tab.held = {}
      /\ tab.cache = disk.cache /\ tab.outbox = << >> /\ tab.outbox = disk.outbox
      /\ tab.conflicts = disk.conflicts /\ tab.parked = disk.parked
  BY <1>1 DEF FreshTab, EmptyDisk
<1>7. IsPage(tab)
  BY <1>1, <1>3, <1>5, <1>6 DEF IsPage, IsStorage
<1>8. chain \in Seq(Calls) /\ \A i \in DOMAIN chain : chain[i].kind \notin WriteKinds
  BY <1>1 DEF Calls, WriteKinds
<1>9. intents \in Intents /\ \A id \in Ids : Wanted(id) = {}
  <2>1. \A id \in Ids : Wanted(id) = WantedOf(intents[id])
    BY DEF Wanted, WantedOf
  <2> QED
    BY <1>1, <2>1, NothingIs DEF Intents
<1>10. count \in Counts /\ lives \in [Ids -> Nat]
  BY <1>1 DEF Counts
<1>11. TypeOK
  BY <1>1, <1>2, <1>5, <1>7, <1>8, <1>9, <1>10 DEF TypeOK, Counts
<1>12. QueueOK(<< >>, {}, landed, count.ops)
  BY DEF QueueOK, Distinct, Coalesced, NoDuplicates
<1>13. JournalInv
  BY <1>1, <1>2, <1>3, <1>5, <1>6, <1>11, <1>12 DEF JournalInv, OnDisk
<1>14. IntentInv
  BY <1>1, <1>8, <1>9 DEF IntentInv, OneWrite, NothingDiscarded
<1> QED
  BY <1>13, <1>14

LEMMA Stepped ==
  ASSUME JournalInv, [Next]_vars
  PROVE  Acted
<1>1. CASE User
  BY <1>1, UserAddMoved, UserEditMoved, UserMoveMoved, UserRemoveMoved, UserClearMoved DEF User
<1>2. CASE Start
  BY <1>2, StartSaveMoved, StartRemoveMoved, StartClearMoved, StartSyncMoved DEF Start, Moved, Acted
<1>3. CASE Step
  BY <1>3, FetchMoved, RefetchMoved, SendSaveMoved, SendMergedMoved, SendRemoveMoved, SendClearMoved
  DEF Step, Moved, Acted
<1>4. CASE Faults
  BY <1>4, ConnectionLostMoved, AnswerUnreadMoved, AccessRefusedMoved, MergeRefusedMoved, WriteRejectedMoved
  DEF Faults, Moved, Acted
<1>5. CASE PollTick \/ Pair \/ Reload \/ FillUp
  BY <1>5, PollTickMoved, PairMoved, ReloadMoved, FillUpMoved DEF Moved, Acted
<1>6. CASE OtherMove \/ OtherEdit \/ OtherRemove
  BY <1>6, OtherMoveMoved, OtherEditMoved, OtherRemoveMoved DEF Moved, Acted
<1>7. CASE UNCHANGED vars
  <2>1. UNCHANGED <<server, tab, disk, chain, job, intents, landed, lives, count>>
    BY <1>7 DEF vars
  <2>2. Untouched
    BY <2>1 DEF Untouched, JournalInv, TypeOK, Counts
  <2>3. SameWrites
    BY <2>1 DEF SameWrites
  <2> QED
    BY <2>1, <2>2, <2>3, UntouchedMoved DEF Moved, Acted
<1> QED
  BY <1>1, <1>2, <1>3, <1>4, <1>5, <1>6, <1>7 DEF Next

LEMMA JournalAlways == Spec => []JournalInv
<1>1. Init => JournalInv
  BY Started0
<1>2. JournalInv /\ [Next]_vars => JournalInv'
  BY Stepped DEF Acted
<1> QED
  BY <1>1, <1>2, PTL DEF Spec

(* The state is well formed, whatever the user, the other clients, the      *)
(* connection and localStorage do.                                          *)
THEOREM TypeCorrect == Spec => []TypeOK
<1>1. JournalInv => TypeOK
  BY DEF JournalInv
<1> QED
  BY <1>1, JournalAlways, PTL

(* A queued operation leaves localStorage only once the server has taken    *)
(* it, a newer one supersedes it or a journal in localStorage has it: in    *)
(* whatever order answers, reloads and failing writes come, and at whatever *)
(* pace the user acts.  The one exception is what QueueIsDurable excepts, a *)
(* removal without a base whose request fails.                              *)
THEOREM QueueSurvives == Spec => QueueIsDurable
<1>1. JournalInv /\ [Next]_vars => DurableStep
  BY Stepped DEF Acted
<1>2. DurableStep =>
        [\A i \in DOMAIN disk.outbox :
           LET op == disk.outbox[i]
           IN  \/ Superseded(op, disk')
               \/ TakenByServer(op)
               \/ SetAside(disk', op)
               \/ Unnamed(op)]_vars
  BY DEF DurableStep
<1> QED
  BY <1>1, <1>2, JournalAlways, PTL DEF Spec, QueueIsDurable

(* Whatever is queued, flushed, dropped and reloaded, the outbox holds one  *)
(* operation on an annotation, behind the clear if there is one: replaying  *)
(* it in order replays what the user did.                                   *)
THEOREM OutboxStaysCoalesced == Spec => []OutboxCoalesced
<1>1. JournalInv => OutboxCoalesced
  BY DEF JournalInv, QueueOK, Coalesced, NoDuplicates, OutboxCoalesced
<1> QED
  BY <1>1, JournalAlways, PTL

LEMMA IntentAlways ==
  ASSUME Pace = "shown"
  PROVE  Spec => []IntentInv
<1>1. Init => IntentInv
  BY Started0
<1>2. JournalInv /\ IntentInv /\ [Next]_vars => IntentInv'
  BY Stepped DEF Acted
<1> QED
  BY <1>1, <1>2, JournalAlways, PTL DEF Spec

(* What a user who waits for each write to be shown wrote last, and every   *)
(* move the user made, has reached the server, is on its way to it, or is   *)
(* kept for review.                                                         *)
THEOREM IntentIsKept ==
  ASSUME Pace = "shown"
  PROVE  Spec => []NothingDiscarded
<1>1. IntentInv => NothingDiscarded
  BY DEF IntentInv
<1> QED
  BY <1>1, IntentAlways, PTL

(* When the dot is green and nothing is on its way, the server has taken    *)
(* all that such a user asked for.                                          *)
THEOREM GreenIsTrue ==
  ASSUME Pace = "shown"
  PROVE  Spec => []SyncedIsTrue
<1>1. IntentInv => SyncedIsTrue
  <2> SUFFICES ASSUME IntentInv, Quiet, Status(tab) = "synced", NEW id \in Ids, NEW x \in Wanted(id)
               PROVE  x \in landed
    BY DEF SyncedIsTrue
  <2>1. tab.outbox = << >> /\ tab.parked = {} /\ tab.conflicts = {}
    BY DEF Status
  <2>2. chain = << >> /\ job = Null
    BY DEF Quiet
  <2>3. x \in landed \/ InChain(x, chain, id) \/ InJob(x, job, id) \/ InPage(x, tab, id)
    BY SafeIs DEF IntentInv, NothingDiscarded
  <2> QED
    BY <2>1, <2>2, <2>3 DEF InChain, InJob, InPage
<1> QED
  BY <1>1, IntentAlways, PTL

-----------------------------------------------------------------------------
(* What the page remembers is a past of what the server has.                *)

\* A copy with this revision and history is older than the record, or has all of its
\* history.
Continues(history, rev, record) ==
  record # Null => rev <= record.rev /\ (rev = record.rev => Begins(record.lifecycle, history))

\* So is a copy whose revision a server has given.
HasBeen(copy, record) == copy # Null /\ copy.rev # 0 => Continues(copy.lifecycle, copy.rev, record)

Unborn == NewAnnotation(<<"init", 0>>)

\* What the first life of every annotation has come to: before it a record older than
\* any copy of it, then the record, nothing once it was removed.
Lived(s, n) == [id \in Ids |-> IF n[id] = 0 THEN Unborn ELSE IF n[id] = 1 THEN s[id] ELSE Null]

ViewPast(view, v) == \A id \in Ids : HasBeen(view[id], v[id])

OpPast(op, v) == op.kind # "clear" => HasBeen(op.base, v[op.id]) /\ HasBeen(op.local, v[op.id])

OpsPast(ops, v) == \A i \in DOMAIN ops : OpPast(ops[i], v)

DiskPast(d, v) == (d.cache # Null => ViewPast(d.cache, v)) /\ OpsPast(d.outbox, v)

PagePast(t, v) == ViewPast(t.shown, v) /\ ViewPast(t.known, v) /\ DiskPast(t, v)

JobPast(j, v) ==
  /\ j.kind = "write" => OpPast(j.op, v)
  /\ j.kind # "write" /\ j.phase # "fetch" => ViewPast(j.first, v)
  /\ j.phase = "merge" => HasBeen(j.current, v[j.op.id])

CallPast(c, v) == c.kind = "save" => HasBeen(c.local, v[c.id])

\* Every record has a revision and a life.
Revised(s, n) == \A id \in Ids : s[id] # Null => s[id].rev # 0 /\ n[id] # 0

PastInv ==
  /\ Revised(server, lives)
  /\ PagePast(tab, Lived(server, lives)) /\ DiskPast(disk, Lived(server, lives))
  /\ job # Null => JobPast(job, Lived(server, lives))
  /\ \A i \in DOMAIN chain : CallPast(chain[i], Lived(server, lives))

\* A record goes, stays, or gets a later revision.
MovesOn(record, next) ==
  next = Null \/ next = record \/ (record # Null /\ record.rev < next.rev)

Grows(v, w) == \A id \in Ids : MovesOn(v[id], w[id])

\* Both lives, of which the second comes after the first.
After(v, w) == v \in Views /\ w \in Views /\ Grows(v, w)

LEMMA BeginsTwice ==
  ASSUME NEW E, NEW r \in Seq(E), NEW s \in Seq(E), NEW t \in Seq(E), Begins(r, s), Begins(s, t)
  PROVE  Begins(r, t)
<1>1. Len(r) \in Nat /\ Len(s) \in Nat /\ Len(t) \in Nat /\ Len(r) <= Len(s) /\ Len(s) <= Len(t)
  BY DEF Begins
<1>2. ASSUME NEW i \in 1 .. Len(r) PROVE t[i] = r[i]
  <2>1. i \in 1 .. Len(s)
    BY <1>1
  <2> QED
    BY <2>1 DEF Begins
<1> QED
  BY <1>1, <1>2 DEF Begins

LEMMA BeginsItself ==
  ASSUME NEW E, NEW s \in Seq(E)
  PROVE  Begins(s, s)
BY DEF Begins

LEMMA BeginsAppended ==
  ASSUME NEW E, NEW s \in Seq(E), NEW e \in E
  PROVE  Begins(s, Append(s, e))
BY DEF Begins

(* A merge keeps the whole history of the server's copy.                    *)
LEMMA MergeBegins ==
  ASSUME NEW b \in Copies \cup {Null}, NEW l \in Copies, NEW s \in Copies
  PROVE  /\ Begins(s.lifecycle, MergeAnnotation(b, l, s).annotation.lifecycle)
         /\ MergeAnnotation(b, l, s).annotation.rev = s.rev
<1> DEFINE o == Origin(b, s)
           first == [status |-> s.status, lifecycle |-> s.lifecycle, dropped |-> << >>]
           events == LocalEvents(b, l, s)
           history == MergeLifecycle(b, l, s)
<1>1. o \in Copies
  BY DEF Origin
<1>2. o.lifecycle \in Seq(Events) /\ l.lifecycle \in Seq(Events) /\ s.lifecycle \in Seq(Events)
  BY <1>1 DEF Copies
<1> HIDE DEF o
<1>3. EventsAfter(o.lifecycle, l.lifecycle) \in Seq(Events)
  BY <1>2, EventsAfterIs DEF Splits
<1>4. events \in Seq(Events)
  <2>1. events = Without(EventsAfter(o.lifecycle, l.lifecycle), ToSet(EventsAfter(o.lifecycle, s.lifecycle)))
    BY DEF LocalEvents, o
  <2> QED
    BY <1>3, <2>1, WithoutIs
<1>5. first \in Histories(Events) /\ first.lifecycle = s.lifecycle
  BY <1>2 DEF Histories, Copies
<1>6. history = FoldLeft(MergeEvent, first, events)
  BY DEF MergeLifecycle
<1> HIDE DEF first, events
<1>7. Begins(s.lifecycle, history.lifecycle)
  BY <1>4, <1>5, <1>6, ReplayKeeps DEF IsReplayed
<1>8. MergeAnnotation(b, l, s).annotation.lifecycle = history.lifecycle
  BY DEF MergeAnnotation
<1>9. MergeAnnotation(b, l, s).annotation.rev = s.rev
  BY DEF MergeAnnotation
<1> QED
  BY <1>7, <1>8, <1>9

LEMMA StillContinues ==
  ASSUME NEW history, NEW rev \in Nat, NEW record \in Copies \cup {Null}, NEW next \in Copies \cup {Null},
         Continues(history, rev, record), MovesOn(record, next)
  PROVE  Continues(history, rev, next)
<1>1. record # Null => record.rev \in Nat
  BY DEF Copies
<1>2. next # Null => next.rev \in Nat
  BY DEF Copies
<1>3. CASE next = Null \/ next = record
  BY <1>3 DEF Continues
<1>4. CASE next # Null /\ record # Null /\ record.rev < next.rev
  <2>1. rev <= record.rev
    BY <1>4 DEF Continues
  <2>2. rev < next.rev
    BY <1>1, <1>2, <1>4, <2>1
  <2> QED
    BY <1>2, <2>2 DEF Continues
<1> QED
  BY <1>3, <1>4 DEF MovesOn

LEMMA StillBeen ==
  ASSUME NEW v, NEW w, After(v, w), NEW id \in Ids, NEW copy \in Copies \cup {Null}, HasBeen(copy, v[id])
  PROVE  HasBeen(copy, w[id])
<1>1. v[id] \in Copies \cup {Null} /\ w[id] \in Copies \cup {Null} /\ MovesOn(v[id], w[id])
  BY DEF After, Views, Grows
<1>2. copy # Null => copy.rev \in Nat
  BY DEF Copies
<1> QED
  BY <1>1, <1>2, StillContinues DEF HasBeen

LEMMA StillViewed ==
  ASSUME NEW v, NEW w, After(v, w), NEW view \in Views, ViewPast(view, v)
  PROVE  ViewPast(view, w)
<1>1. \A id \in Ids : view[id] \in Copies \cup {Null}
  BY DEF Views
<1> QED
  BY <1>1, StillBeen DEF ViewPast

LEMMA StillOp ==
  ASSUME NEW v, NEW w, After(v, w), NEW op \in OutboxOps, WellFormed(op), OpPast(op, v)
  PROVE  OpPast(op, w)
<1> SUFFICES ASSUME op.kind # "clear" PROVE OpPast(op, w)
  BY DEF OpPast
<1>1. op.id \in Ids /\ op.base \in Copies \cup {Null} /\ op.local \in Copies \cup {Null}
  BY DEF OutboxOps, WellFormed
<1>2. HasBeen(op.base, v[op.id]) /\ HasBeen(op.local, v[op.id])
  BY DEF OpPast
<1>3. HasBeen(op.base, w[op.id]) /\ HasBeen(op.local, w[op.id])
  BY <1>1, <1>2, StillBeen
<1> QED
  BY <1>3 DEF OpPast

LEMMA StillQueued ==
  ASSUME NEW v, NEW w, After(v, w), NEW ops \in Seq(OutboxOps),
         \A i \in DOMAIN ops : WellFormed(ops[i]), OpsPast(ops, v)
  PROVE  OpsPast(ops, w)
<1>1. \A i \in DOMAIN ops : ops[i] \in OutboxOps
  OBVIOUS
<1> QED
  BY <1>1, StillOp DEF OpsPast

LEMMA StillDisk ==
  ASSUME NEW v, NEW w, After(v, w), NEW d, IsStorage(d), DiskPast(d, v)
  PROVE  DiskPast(d, w)
<1>1. /\ d.cache \in Views \cup {Null}
      /\ d.outbox \in Seq(OutboxOps) /\ \A i \in DOMAIN d.outbox : WellFormed(d.outbox[i])
  BY DEF IsStorage
<1> QED
  BY <1>1, StillViewed, StillQueued DEF DiskPast

LEMMA StillPage ==
  ASSUME NEW v, NEW w, After(v, w), NEW t, IsPage(t), PagePast(t, v)
  PROVE  PagePast(t, w)
<1>1. t.shown \in Views /\ t.known \in Views /\ IsStorage(t)
  BY DEF IsPage
<1> QED
  BY <1>1, StillViewed, StillDisk DEF PagePast

LEMMA UnbornIs == Unborn \in Copies /\ Unborn.rev = 0
<1>1. Event("created", "user", 0) \in Events /\ <<"init", 0>> \in Values
  BY DEF Event, Events, EventTypes, Values
<1>2. Unborn = [ fields |-> [f \in Fields |-> <<"init", 0>>], status |-> "pending", rev |-> 0,
                 lifecycle |-> <<Event("created", "user", 0)>> ]
  BY DEF Unborn, NewAnnotation
<1>3. [f \in Fields |-> <<"init", 0>>] \in [Fields -> Values] /\ 0 \in Nat /\ "pending" \in Statuses
  BY <1>1 DEF Statuses
<1>4. <<Event("created", "user", 0)>> \in Seq(Events)
  BY <1>1
<1> QED
  BY <1>2, <1>3, <1>4 DEF Copies

LEMMA LivedIs ==
  ASSUME NEW s \in Views, NEW n \in [Ids -> Nat]
  PROVE  Lived(s, n) \in Views
BY UnbornIs DEF Lived, Views

\* What the server has is of this life, or of a later one, of which no copy is asked.
LEMMA RecordHasBeen ==
  ASSUME NEW s \in Views, NEW n \in [Ids -> Nat], Revised(s, n), NEW id \in Ids
  PROVE  HasBeen(s[id], Lived(s, n)[id])
<1> SUFFICES ASSUME s[id] # Null PROVE HasBeen(s[id], Lived(s, n)[id])
  BY DEF HasBeen
<1>1. s[id].rev \in Nat /\ s[id].lifecycle \in Seq(Events) /\ n[id] # 0
  BY DEF Views, Copies, Revised
<1>2. Lived(s, n)[id] \in {s[id], Null}
  BY <1>1 DEF Lived
<1>3. Begins(s[id].lifecycle, s[id].lifecycle)
  BY <1>1, BeginsItself
<1> QED
  BY <1>1, <1>2, <1>3 DEF HasBeen, Continues

LEMMA StoreHasBeen ==
  ASSUME NEW s \in Views, NEW n \in [Ids -> Nat], Revised(s, n)
  PROVE  ViewPast(s, Lived(s, n))
BY RecordHasBeen DEF ViewPast

-----------------------------------------------------------------------------
(* Whatever the step, the lives of the annotations go on.                   *)

\* A record goes, stays, or gets a later revision.
GoesOn(record, next) ==
  \/ next \in {record, Null}
  \/ next # Null /\ next.rev # 0 /\ (record # Null => record.rev < next.rev)

\* A life is counted when a record comes.
Steady ==
  \A id \in Ids :
    /\ GoesOn(server[id], server'[id])
    /\ lives'[id] = IF server[id] = Null /\ server'[id] # Null THEN lives[id] + 1 ELSE lives[id]

LEMMA SteadyAfter ==
  ASSUME JournalInv, JournalInv', Revised(server, lives), Steady
  PROVE  /\ After(Lived(server, lives), Lived(server', lives')) /\ Revised(server', lives')
         /\ server' \in Views /\ lives' \in [Ids -> Nat]
<1>0. server \in Views /\ server' \in Views /\ lives \in [Ids -> Nat] /\ lives' \in [Ids -> Nat]
  BY DEF JournalInv, TypeOK
<1>1. ASSUME NEW id \in Ids
      PROVE  /\ MovesOn(Lived(server, lives)[id], Lived(server', lives')[id])
             /\ server'[id] # Null => server'[id].rev # 0 /\ lives'[id] # 0
  <2>0. /\ lives[id] \in Nat /\ lives'[id] \in Nat
        /\ server[id] # Null => server[id].rev # 0 /\ server[id].rev \in Nat /\ lives[id] # 0
        /\ server'[id] # Null => server'[id].rev \in Nat
        /\ GoesOn(server[id], server'[id])
        /\ lives'[id] = IF server[id] = Null /\ server'[id] # Null THEN lives[id] + 1 ELSE lives[id]
    BY <1>0 DEF Views, Copies, Revised, Steady
  <2>1. /\ Lived(server, lives)[id] = IF lives[id] = 0 THEN Unborn
                                      ELSE IF lives[id] = 1 THEN server[id] ELSE Null
        /\ Lived(server', lives')[id] = IF lives'[id] = 0 THEN Unborn
                                        ELSE IF lives'[id] = 1 THEN server'[id] ELSE Null
    BY DEF Lived
  <2>2. server'[id] # Null => server'[id].rev # 0 /\ lives'[id] # 0
    BY <2>0 DEF GoesOn
  <2>3. Unborn # Null /\ Unborn.rev = 0
    BY UnbornIs, NullIsNoCopy
  <2>4. CASE lives[id] = 0
    <3>1. server[id] = Null
      BY <2>0, <2>4
    <3>2. CASE server'[id] = Null
      BY <2>0, <2>1, <2>4, <3>1, <3>2 DEF MovesOn
    <3>3. CASE server'[id] # Null
      <4>1. lives'[id] = 1 /\ 0 < server'[id].rev
        BY <2>0, <2>2, <2>4, <3>1, <3>3
      <4> QED
        BY <2>1, <2>3, <2>4, <4>1 DEF MovesOn
    <3> QED
      BY <3>2, <3>3
  <2>5. CASE lives[id] = 1
    <3>1. CASE server[id] = Null
      <4>1. Lived(server', lives')[id] = Null
        BY <2>0, <2>1, <2>5, <3>1
      <4> QED
        BY <2>2, <4>1 DEF MovesOn
    <3>2. CASE server[id] # Null
      <4>1. lives'[id] = 1
        BY <2>0, <2>5, <3>2
      <4> QED
        BY <2>0, <2>1, <2>5, <3>2, <4>1 DEF MovesOn, GoesOn
    <3> QED
      BY <3>1, <3>2
  <2>6. CASE lives[id] \notin {0, 1}
    <3>1. lives'[id] \notin {0, 1}
      BY <2>0, <2>6
    <3> QED
      BY <2>1, <2>2, <3>1 DEF MovesOn
  <2> QED
    BY <2>2, <2>4, <2>5, <2>6
<1> QED
  BY <1>0, <1>1, LivedIs DEF After, Grows, Revised

(* What the server makes of a request.                                      *)
LEMMA ServedIs ==
  ASSUME JournalInv, Sends, NEW id \in Ids
  PROVE  GoesOn(server[id], ServedRecords[id])
<1>0. server \in Views /\ server[id] \in Copies \cup {Null}
  BY DEF JournalInv, TypeOK, Views
<1>1. ASSUME NEW k \in Ids, NEW body \in Copies
      PROVE  GoesOn(server[id], PutResult(k, body)[id])
  <2>1. PutResult(k, body)[id] = IF id = k THEN Ops!Written(server[k], body) ELSE server[id]
    BY <1>0 DEF PutResult, Views
  <2>2. CASE id # k
    BY <2>1, <2>2 DEF GoesOn
  <2>3. CASE id = k
    <3>1. Ops!Written(server[id], body) \in Copies
      BY <1>0, WrittenIs
    <3>2. Ops!Written(server[id], body).rev = IF server[id] = Null THEN 1 ELSE server[id].rev + 1
      BY DEF Ops!Written, Ops!NextRev, Copies
    <3>3. server[id] # Null => server[id].rev \in Nat
      BY <1>0 DEF Copies
    <3> QED
      BY <2>1, <2>3, <3>1, <3>2, <3>3, NullIsNoCopy DEF GoesOn
  <2> QED
    BY <2>2, <2>3
<1>2. CASE job.phase = "merge"
  <2>1. job.op.id \in Ids /\ job.merged \in Copies
    BY <1>2, MergeJobIs DEF Sends
  <2>2. ServedRecords = PutResult(job.op.id, job.merged) \/ ServedRecords = server
    BY <1>2 DEF ServedRecords
  <2> QED
    BY <1>1, <2>1, <2>2 DEF GoesOn
<1>3. CASE job.phase # "merge" /\ job.op.kind = "save"
  <2>1. job.op.id \in Ids /\ job.op.local \in Copies
    BY <1>3, OpIs
  <2>2. ServedRecords = PutResult(job.op.id, job.op.local) \/ ServedRecords = server
    BY <1>3 DEF ServedRecords
  <2> QED
    BY <1>1, <2>1, <2>2 DEF GoesOn
<1>4. CASE job.phase # "merge" /\ job.op.kind # "save"
  <2>1. ServedRecords \in {server, [server EXCEPT ![job.op.id] = Null], EmptyStore}
    BY <1>4 DEF ServedRecords
  <2>2. ServedRecords[id] \in {server[id], Null}
    BY <1>0, <2>1 DEF Views, EmptyStore
  <2> QED
    BY <2>2 DEF GoesOn
<1> QED
  BY <1>2, <1>3, <1>4

LEMMA LandSteady ==
  ASSUME \A id \in Ids : GoesOn(server[id], server'[id]), Land(server')
  PROVE  Steady
BY DEF Land, Steady

LEMMA UnchangedSteady ==
  ASSUME server' = server, lives' = lives
  PROVE  Steady
BY DEF Steady, GoesOn

\* Records go, none comes.
LEMMA LessSteady ==
  ASSUME \A id \in Ids : server'[id] \in {server[id], Null}, lives' = lives
  PROVE  Steady
BY DEF Steady, GoesOn

LEMMA OthersSteady ==
  ASSUME JournalInv, NEW id \in Ids, server[id] # Null, NEW record \in Copies \cup {Null},
         record # Null => record.rev # 0 /\ server[id].rev < record.rev,
         OtherWrites(id, record)
  PROVE  Steady
<1>1. server' = [server EXCEPT ![id] = record] /\ lives' = lives /\ server \in Views
  BY DEF OtherWrites, JournalInv, TypeOK
<1>2. \A k \in Ids : server'[k] = IF k = id THEN record ELSE server[k]
  BY <1>1 DEF Views
<1> QED
  BY <1>1, <1>2 DEF Steady, GoesOn

\* Another client's write takes nothing from a history.
Appends == \A id \in Ids : server'[id] # Null => server[id] # Null
                                                 /\ Begins(server[id].lifecycle, server'[id].lifecycle)

LEMMA OthersAppend ==
  ASSUME JournalInv, NEW id \in Ids, NEW record \in Copies \cup {Null},
         record # Null => server[id] # Null /\ Begins(server[id].lifecycle, record.lifecycle),
         OtherWrites(id, record)
  PROVE  Appends
<1>1. server' = [server EXCEPT ![id] = record] /\ server \in Views
  BY DEF OtherWrites, JournalInv, TypeOK
<1>2. \A k \in Ids : server'[k] = IF k = id THEN record ELSE server[k]
  BY <1>1 DEF Views
<1>3. ASSUME NEW k \in Ids, server'[k] # Null
      PROVE  server[k] # Null /\ Begins(server[k].lifecycle, server'[k].lifecycle)
  <2>1. CASE k = id
    BY <1>2, <1>3, <2>1
  <2>2. CASE k # id
    <3>1. server'[k] = server[k] /\ server[k].lifecycle \in Seq(Events)
      BY <1>1, <1>2, <1>3, <2>2 DEF Views, Copies
    <3> QED
      BY <1>3, <3>1, BeginsItself
  <2> QED
    BY <2>1, <2>2
<1> QED
  BY <1>3 DEF Appends

LEMMA OtherMoveSteady ==
  ASSUME JournalInv, OtherMove
  PROVE  Steady /\ Appends
<1>1. PICK id \in Ids, a \in OtherMoves :
        /\ server[id] # Null
        /\ OtherWrites(id, [server[id] EXCEPT
             !.status = Target[a], !.rev = @ + 1,
             !.lifecycle = Append(@, Event(EventOf[a], "other", count.other + 1))])
  BY DEF OtherMove
<1>2. PICK copy \in Copies : copy = server[id]
  BY <1>1 DEF JournalInv, TypeOK, Views
<1>3. PICK e : e = Event(EventOf[a], "other", count.other + 1)
  OBVIOUS
<1>4. e \in Events
  <2>1. count.other + 1 \in Nat
    BY DEF JournalInv, TypeOK
  <2>2. EventOf[a] \in EventTypes
    BY MovesAreActions, MoveIs
  <2> QED
    BY <1>3, <2>1, <2>2 DEF Events, Values, Event
<1>5. PICK record : record = [copy EXCEPT !.status = Target[a], !.rev = @ + 1, !.lifecycle = Append(@, e)]
  OBVIOUS
<1>6. /\ record \in Copies /\ record.rev = copy.rev + 1 /\ copy.rev \in Nat
      /\ record.lifecycle = Append(copy.lifecycle, e) /\ copy.lifecycle \in Seq(Events)
  <2>1. Target[a] \in Statuses
    BY MovesAreActions, MoveIs
  <2>2. copy.lifecycle \in Seq(Events) /\ Append(copy.lifecycle, e) \in Seq(Events)
        /\ copy.fields \in [Fields -> Values] /\ copy.rev + 1 \in Nat /\ copy.rev \in Nat
    BY <1>4 DEF Copies
  <2>3. record = [ fields |-> copy.fields, status |-> Target[a],
                   lifecycle |-> Append(copy.lifecycle, e), rev |-> copy.rev + 1 ]
    BY <1>5 DEF Copies
  <2> QED
    BY <2>1, <2>2, <2>3 DEF Copies
<1>7. Begins(copy.lifecycle, record.lifecycle) /\ copy.rev < record.rev /\ record.rev # 0
  BY <1>4, <1>6, BeginsAppended
<1>8. OtherWrites(id, record)
  BY <1>1, <1>2, <1>3, <1>5
<1> QED
  BY <1>1, <1>2, <1>6, <1>7, <1>8, OthersSteady, OthersAppend

LEMMA OtherEditSteady ==
  ASSUME JournalInv, OtherEdit
  PROVE  Steady /\ Appends
<1>1. PICK id \in Ids, f \in Fields :
        /\ server[id] # Null
        /\ OtherWrites(id, [server[id] EXCEPT !.fields[f] = <<"other", count.other + 1>>, !.rev = @ + 1])
  BY DEF OtherEdit
<1>2. PICK copy \in Copies : copy = server[id]
  BY <1>1 DEF JournalInv, TypeOK, Views
<1>3. PICK value \in Values : value = <<"other", count.other + 1>>
  <2>1. count.other + 1 \in Nat
    BY DEF JournalInv, TypeOK
  <2> QED
    BY <2>1 DEF Values
<1>4. PICK record : record = [copy EXCEPT !.fields[f] = value, !.rev = @ + 1]
  OBVIOUS
<1>5. record \in Copies /\ record.rev = copy.rev + 1 /\ copy.rev \in Nat /\ record.lifecycle = copy.lifecycle
  <2>1. /\ copy.fields \in [Fields -> Values] /\ copy.rev + 1 \in Nat /\ copy.rev \in Nat
        /\ [copy.fields EXCEPT ![f] = value] \in [Fields -> Values]
    BY DEF Copies
  <2>2. record = [ fields |-> [copy.fields EXCEPT ![f] = value], status |-> copy.status,
                   lifecycle |-> copy.lifecycle, rev |-> copy.rev + 1 ]
    BY <1>4 DEF Copies
  <2> QED
    BY <2>1, <2>2 DEF Copies
<1>6. Begins(copy.lifecycle, record.lifecycle) /\ copy.rev < record.rev /\ record.rev # 0
  BY <1>5, BeginsItself DEF Copies
<1>8. OtherWrites(id, record)
  BY <1>1, <1>2, <1>3, <1>4
<1> QED
  BY <1>1, <1>2, <1>5, <1>6, <1>8, OthersSteady, OthersAppend

LEMMA OtherRemoveSteady ==
  ASSUME JournalInv, OtherRemove
  PROVE  Steady /\ Appends
<1>1. PICK id \in Ids : server[id] # Null /\ OtherWrites(id, Null)
  BY DEF OtherRemove
<1> QED
  BY <1>1, OthersSteady, OthersAppend

LEMMA EveryStepSteady ==
  ASSUME JournalInv, [Next]_vars
  PROVE  Steady
<1>1. CASE User
  <2>1. server' = server /\ lives' = lives
    BY <1>1 DEF User, UserAdd, UserEdit, UserMove, UserRemove, UserClear, UserWrites
  <2> QED
    BY <2>1, UnchangedSteady
<1>2. CASE Start
  <2>1. server' = server /\ lives' = lives
    BY <1>2 DEF Start, StartSave, StartRemove, StartClear, StartSync, SendOrQueue
  <2> QED
    BY <2>1, UnchangedSteady
<1>3. CASE Fetch \/ Refetch
  <2>1. server' = server /\ lives' = lives
    BY <1>3 DEF Fetch, Refetch, Serve
  <2> QED
    BY <2>1, UnchangedSteady
<1>4. CASE SendSave \/ SendMerged
  <2>1. Sends /\ server' = ServedRecords /\ Land(ServedRecords)
    BY <1>4 DEF SendSave, SendMerged, Serve, Sending, Sends
  <2> QED
    BY <2>1, ServedIs, LandSteady
<1>5. CASE SendRemove \/ SendClear
  <2>1. Sends /\ server' = ServedRecords /\ lives' = lives /\ job.phase = "send" /\ job.op.kind # "save"
    BY <1>5 DEF SendRemove, SendClear, Serve, Sending, Sends
  <2>2. server' \in {server, [server EXCEPT ![job.op.id] = Null], EmptyStore} /\ server \in Views
    BY <2>1 DEF ServedRecords, JournalInv, TypeOK
  <2>3. \A id \in Ids : server'[id] \in {server[id], Null}
    BY <2>2 DEF Views, EmptyStore
  <2> QED
    BY <2>1, <2>3, LessSteady
<1>6. CASE Faults
  <2>1. \/ server' = server
        \/ Sends /\ server' = ServedRecords
    BY <1>6 DEF Faults, ConnectionLost, AnswerUnread, AccessRefused, MergeRefused, WriteRejected, Fault, Sends
  <2>2. Land(server')
    BY <1>6 DEF Faults, ConnectionLost, AnswerUnread, AccessRefused, MergeRefused, WriteRejected, Fault
  <2>3. \A id \in Ids : GoesOn(server[id], server'[id])
    BY <2>1, ServedIs DEF GoesOn
  <2> QED
    BY <2>2, <2>3, LandSteady
<1>7. CASE PollTick \/ Pair \/ Reload \/ FillUp \/ UNCHANGED vars
  <2>1. server' = server /\ lives' = lives
    BY <1>7 DEF PollTick, Pair, Reload, FillUp, vars
  <2> QED
    BY <2>1, UnchangedSteady
<1>8. CASE OtherMove
  BY <1>8, OtherMoveSteady
<1>9. CASE OtherEdit
  BY <1>9, OtherEditSteady
<1>10. CASE OtherRemove
  BY <1>10, OtherRemoveSteady
<1> QED
  BY <1>1, <1>2, <1>3, <1>4, <1>5, <1>6, <1>7, <1>8, <1>9, <1>10 DEF Next, Step

-----------------------------------------------------------------------------
(* What the handlers do to a page that remembers a past.                    *)

\* A page that may come next, v being what its copies are a past of.
Past(t, v) == IsPage(t) /\ PagePast(t, v)

\* The server a step leads to, and what its copies are then a past of.
Later == Lived(server', lives')

LEMMA BecomePast ==
  ASSUME NEW v, NEW u, Past(u, v), Become(u), DiskPast(disk, v),
         DOMAIN disk = {"cache", "outbox", "conflicts", "parked"}
  PROVE  PagePast(tab', v) /\ DiskPast(disk', v)
<1>0. DiskPast(u, v) /\ DiskPast(OnDisk(u), v)
  BY DiskIs DEF Past, PagePast, DiskPast
<1>1. CASE tab' = u /\ disk' = IF u.memoryOnly THEN disk ELSE OnDisk(u)
  BY <1>0, <1>1 DEF Past
<1>2. CASE /\ ~ u.memoryOnly
           /\ tab' = [u EXCEPT !.memoryOnly = TRUE]
           /\ \E written \in {{"conflicts", "parked"}, {"conflicts", "parked", "cache"}} :
                disk' = [key \in DOMAIN disk |-> IF key \in written THEN OnDisk(u)[key] ELSE disk[key]]
  <2>1. PICK written \in {{"conflicts", "parked"}, {"conflicts", "parked", "cache"}} :
          disk' = [key \in DOMAIN disk |-> IF key \in written THEN OnDisk(u)[key] ELSE disk[key]]
    BY <1>2
  <2>2. /\ disk'.outbox = disk.outbox
        /\ disk'.cache = u.cache \/ disk'.cache = disk.cache
    BY <2>1, DiskIs
  <2>3. DiskPast(disk', v)
    BY <1>0, <2>2 DEF DiskPast
  <2>4. \A f \in PageFields \ {"memoryOnly"} : tab'[f] = u[f]
    BY <1>2, PageIs DEF Past
  <2>5. /\ tab'.shown = u.shown /\ tab'.known = u.known /\ tab'.cache = u.cache
        /\ tab'.outbox = u.outbox
    BY <2>4 DEF PageFields
  <2> QED
    BY <2>3, <2>5 DEF Past, PagePast, DiskPast
<1> QED
  BY <1>1, <1>2 DEF Become

\* A step of the running job after which the page still remembers a past.
Recalls(u, j) == Proceed(u, j) /\ Past(u, Later) /\ (j # Null => JobPast(j, Later))

\* Before a step, and what every step does.
Turn ==
  /\ JournalInv /\ PastInv /\ server' \in Views /\ lives' \in [Ids -> Nat]
  /\ After(Lived(server, lives), Later) /\ Revised(server', lives')

\* A call that is still on the chain is of the past.
LEMMA CalledPast ==
  ASSUME Turn, NEW i \in DOMAIN chain
  PROVE  CallPast(chain[i], Later)
<1>0. chain[i] \in Calls /\ CallPast(chain[i], Lived(server, lives))
  BY DEF Turn, JournalInv, TypeOK, PastInv
<1>1. CASE chain[i].kind # "save"
  BY <1>1 DEF CallPast
<1>2. CASE chain[i].kind = "save"
  <2>1. chain[i].id \in Ids /\ chain[i].local \in Copies
    BY <1>0, <1>2 DEF Calls
  <2>2. HasBeen(chain[i].local, Later[chain[i].id])
    BY <1>0, <1>2, <2>1, StillBeen DEF CallPast, Turn
  <2> QED
    BY <2>2 DEF CallPast
<1> QED
  BY <1>1, <1>2

LEMMA Recalled ==
  ASSUME Turn, \E u, j : Recalls(u, j),
         \A i \in DOMAIN chain' : \E k \in DOMAIN chain : chain'[i] = chain[k]
  PROVE  PastInv'
<1>1. PICK u, j : Proceed(u, j) /\ Past(u, Later) /\ (j # Null => JobPast(j, Later))
  BY DEF Recalls
<1>2. DiskPast(disk, Later) /\ DOMAIN disk = {"cache", "outbox", "conflicts", "parked"}
  BY StillDisk DEF Turn, PastInv, JournalInv, TypeOK, EmptyDisk
<1>3. PagePast(tab', Later) /\ DiskPast(disk', Later)
  BY <1>1, <1>2, BecomePast DEF Proceed
<1>4. job' # Null => JobPast(job', Later)
  BY <1>1 DEF Proceed
<1>5. \A i \in DOMAIN chain' : CallPast(chain'[i], Later)
  BY CalledPast
<1> QED
  BY <1>3, <1>4, <1>5 DEF Turn, PastInv, Later

LEMMA ConfirmPast ==
  ASSUME NEW v, NEW t, Past(t, v), NEW id \in Ids, NEW saved \in Copies, HasBeen(saved, v[id]),
         NEW u, u = Confirm(t, id, saved)
  PROVE  Past(u, v)
<1> DEFINE view == [(IF t.cache = Null THEN EmptyStore ELSE t.cache) EXCEPT ![id] = saved]
<1>0. IsPage(t) /\ t.shown \in Views /\ t.known \in Views /\ t.cache \in Views \cup {Null}
  BY DEF Past, IsPage, IsStorage
<1>1. IsPage(u) /\ SameBooks(u, t)
  BY <1>0, ConfirmIs
<1>2. u = [[t EXCEPT !.cache = view]
             EXCEPT !.known[id] = saved,
                    !.shown[id] = IF t.known[id] # saved THEN saved ELSE @]
  BY DEF Confirm, CacheUpsert
<1>3. /\ u.known = [t.known EXCEPT ![id] = saved] /\ u.cache = view
      /\ u.shown = [t.shown EXCEPT ![id] = IF t.known[id] # saved THEN saved ELSE t.shown[id]]
  BY <1>0, <1>2, PageIs DEF PageFields
<1>4. ViewPast(view, v)
  BY <1>0 DEF Past, PagePast, DiskPast, ViewPast, Views, EmptyStore, HasBeen
<1> HIDE DEF view
<1>5. ViewPast(u.known, v) /\ ViewPast(u.shown, v) /\ ViewPast(u.cache, v)
  BY <1>0, <1>3, <1>4 DEF Past, PagePast, ViewPast, Views
<1> QED
  BY <1>1, <1>5 DEF Past, PagePast, DiskPast, SameBooks

\* A page that shows, knows and caches the same and queues no more.
LEMMA LikePast ==
  ASSUME NEW v, NEW t, Past(t, v), NEW u, IsPage(u),
         u.shown = t.shown, u.known = t.known, u.cache = t.cache, IsPartOf(u.outbox, t.outbox)
  PROVE  Past(u, v)
<1>1. OpsPast(u.outbox, v)
  BY DEF Past, PagePast, DiskPast, OpsPast, IsPartOf
<1> QED
  BY <1>1 DEF Past, PagePast, DiskPast

\* A page that forgets, shows or caches no more of an annotation.
LEMMA LessPast ==
  ASSUME NEW v, NEW t, Past(t, v), NEW u, IsPage(u), u.outbox = t.outbox,
         \A id \in Ids : u.shown[id] \in {t.shown[id], Null} /\ u.known[id] \in {t.known[id], Null},
         \/ u.cache = t.cache
         \/ u.cache = Null
         \/ u.cache # Null /\ t.cache # Null /\ \A id \in Ids : u.cache[id] \in {t.cache[id], Null}
  PROVE  Past(u, v)
<1>1. ViewPast(u.shown, v) /\ ViewPast(u.known, v)
  BY DEF Past, PagePast, ViewPast, HasBeen
<1>2. u.cache # Null => ViewPast(u.cache, v)
  BY DEF Past, PagePast, DiskPast, ViewPast, HasBeen
<1> QED
  BY <1>1, <1>2 DEF Past, PagePast, DiskPast

LEMMA RecordPast ==
  ASSUME NEW v, NEW t, Past(t, v), NEW record, IsRecord(record), NEW u, u = RecordConflict(t, record)
  PROVE  Past(u, v)
<1>0. IsPage(t)
  BY DEF Past
<1>1. IsPage(u) /\ u.outbox = t.outbox
  BY <1>0, RecordIs
<1>2. u.shown = t.shown /\ u.known = t.known /\ u.cache = t.cache
  BY <1>0, PageIs DEF RecordConflict, PageFields
<1> QED
  BY <1>1, <1>2, LikePast DEF IsPartOf

\* The page has learned how it stands with the server, no more.
LEMMA NoticedPast ==
  ASSUME NEW v, NEW t, Past(t, v), NEW u, u \in {Reached(t), Offline(t), Refused(t)}
  PROVE  Past(u, v)
<1>0. IsPage(t)
  BY DEF Past
<1>1. IsPage(u) /\ SameBooks(u, t)
  BY <1>0, ReachedIs, Unchecked DEF Offline, Refused
<1>2. u.shown = t.shown /\ u.known = t.known /\ u.cache = t.cache
  BY <1>0, PageIs DEF Reached, Offline, Refused, PageFields
<1> QED
  BY <1>1, <1>2, LikePast DEF SameBooks, IsPartOf

\* The queued operation a new one replaces is no clear.
LEMMA ReplacedIsWrite ==
  ASSUME NEW ops \in Seq(OutboxOps), NEW op, op.kind # "clear", NEW i \in Replaced(ops, op)
  PROVE  i \in DOMAIN ops /\ ops[i].id = op.id /\ ops[i].kind # "clear"
<1> DEFINE same == {k \in DOMAIN ops : k > LastClear(ops) /\ ops[k].id = op.id}
           clears == {k \in DOMAIN ops : ops[k].kind = "clear"}
<1>1. same # {} /\ i = CHOOSE k \in same : \A j \in same : k <= j
  BY DEF Replaced
<1>2. same \subseteq Nat
  OBVIOUS
<1>3. i \in same
  <2> HIDE DEF same
  <2>1. PICK k \in same : \A j \in same : ~ (j < k)
    BY <1>1, <1>2, LeastNumber
  <2>2. \A j \in same : k <= j
    BY <1>2, <2>1
  <2> QED
    BY <1>1, <2>1, <2>2
<1>4. clears # {} => LastClear(ops) \in clears /\ \A k \in clears : k <= LastClear(ops)
  <2> SUFFICES ASSUME clears # {} PROVE LastClear(ops) \in clears /\ \A k \in clears : k <= LastClear(ops)
    OBVIOUS
  <2>1. clears \in SUBSET (1 .. Len(ops)) /\ Len(ops) \in Nat
    OBVIOUS
  <2>2. LastClear(ops) = CHOOSE k \in clears : \A j \in clears : j <= k
    BY DEF LastClear
  <2> HIDE DEF clears
  <2>3. \E k \in clears : \A j \in clears : j <= k
    BY <2>1, GreatestNumber
  <2> QED
    BY <2>2, <2>3
<1>5. i > LastClear(ops) /\ i \in DOMAIN ops /\ ops[i].id = op.id /\ i \in Nat
  BY <1>3
<1>6. CASE ops[i].kind = "clear"
  <2>1. i \in clears
    BY <1>5, <1>6
  <2>2. LastClear(ops) \in Nat /\ i <= LastClear(ops)
    BY <1>4, <2>1
  <2> QED
    BY <1>5, <2>2
<1> QED
  BY <1>5, <1>6

LEMMA RebasedPast ==
  ASSUME NEW v, NEW ops \in Seq(OutboxOps), OpsPast(ops, v), NEW op \in OutboxOps, WellFormed(op),
         \A i \in DOMAIN ops : WellFormed(ops[i]), OpPast(op, v),
         NEW new, new = Rebased(op, {ops[i] : i \in Replaced(ops, op)})
  PROVE  new \in OutboxOps /\ WellFormed(new) /\ OpPast(new, v)
<1> DEFINE replaced == {ops[i] : i \in Replaced(ops, op)}
<1>1. CASE op.kind = "clear" \/ replaced = {}
  BY <1>1 DEF Rebased
<1>2. CASE ~ (op.kind = "clear" \/ replaced = {})
  <2>1. PICK earlier \in replaced : new = [op EXCEPT !.baseRev = earlier.baseRev, !.base = earlier.base]
    BY <1>2 DEF Rebased
  <2>2. PICK i \in Replaced(ops, op) : earlier = ops[i]
    OBVIOUS
  <2> HIDE DEF replaced
  <2>3. i \in DOMAIN ops /\ earlier.id = op.id /\ earlier.kind # "clear"
    BY <1>2, <2>2, ReplacedIsWrite
  <2>4. earlier \in OutboxOps /\ OpPast(earlier, v)
    BY <2>2, <2>3 DEF OpsPast
  <2>5. /\ new.kind = op.kind /\ new.id = op.id /\ new.local = op.local /\ new.opId = op.opId
        /\ new.baseRev = earlier.baseRev /\ new.base = earlier.base
        /\ new = [ opId |-> new.opId, kind |-> new.kind, id |-> new.id, local |-> new.local,
                   baseRev |-> new.baseRev, base |-> new.base ]
    BY <2>1 DEF OutboxOps
  <2>6. new \in OutboxOps /\ WellFormed(new)
    BY <2>4, <2>5 DEF OutboxOps, WellFormed
  <2>7. OpPast(new, v)
    BY <1>2, <2>3, <2>4, <2>5 DEF OpPast
  <2> QED
    BY <2>6, <2>7
<1> QED
  BY <1>1, <1>2

LEMMA EnqueuePast ==
  ASSUME NEW v, NEW t, Past(t, v), NEW op \in OutboxOps, WellFormed(op), OpPast(op, v),
         NEW u, u = Enqueue(t, op)
  PROVE  Past(u, v)
<1> DEFINE ops == t.outbox
           gone == {ops[i] : i \in Replaced(ops, op)}
           kept == Without(ops, gone)
           q == Append(kept, Rebased(op, gone))
<1>0. /\ IsPage(t) /\ ops \in Seq(OutboxOps) /\ \A i \in DOMAIN ops : WellFormed(ops[i])
      /\ OpsPast(ops, v)
  BY DEF Past, PagePast, DiskPast, IsPage, IsStorage
<1>1. PICK new : new = Rebased(op, gone)
  OBVIOUS
<1>2. new \in OutboxOps /\ WellFormed(new) /\ OpPast(new, v)
  BY <1>0, <1>1, RebasedPast
<1>3. u = [t EXCEPT !.outbox = q]
  BY DEF Enqueue
<1> HIDE DEF gone
<1>4. kept \in Seq(OutboxOps) /\ \A j \in DOMAIN kept : \E i \in DOMAIN ops : kept[j] = ops[i]
  BY <1>0, WithoutIs
<1>5. kept \in Seq(OutboxOps) /\ \A j \in DOMAIN kept : WellFormed(kept[j]) /\ OpPast(kept[j], v)
  BY <1>0, <1>4 DEF OpsPast
<1> HIDE DEF kept, ops
<1>6. q \in Seq(OutboxOps) /\ \A j \in DOMAIN q : WellFormed(q[j]) /\ OpPast(q[j], v)
  BY <1>1, <1>2, <1>5
<1> HIDE DEF q
<1>7. IsPage(u) /\ u.outbox = q /\ u.known = t.known
  BY <1>0, <1>3, <1>6, RequeueIs
<1>8. u.shown = t.shown /\ u.cache = t.cache
  BY <1>0, <1>3, PageIs DEF PageFields
<1> QED
  BY <1>6, <1>7, <1>8 DEF Past, PagePast, DiskPast, OpsPast

-----------------------------------------------------------------------------
(* The ways a job goes on or ends.                                          *)

LEMMA SyncPast ==
  ASSUME NEW t, Past(t, Later), NEW snapshot \in Views, ViewPast(snapshot, Later),
         FinishSync(t, snapshot)
  PROVE  \E u, j : Recalls(u, j)
<1> DEFINE news == [id \in Ids |-> IF snapshot[id] # t.known[id] THEN snapshot[id] ELSE t.shown[id]]
           seen(shown) == [t EXCEPT !.shown = shown, !.known = snapshot, !.cache = snapshot]
<1>0. IsPage(t) /\ t.shown \in Views /\ ViewPast(t.shown, Later)
  BY DEF Past, PagePast, IsPage
<1>1. news \in Views /\ ViewPast(news, Later)
  <2>1. news \in Views
    BY <1>0 DEF Views
  <2>2. \A id \in Ids : news[id] = snapshot[id] \/ news[id] = t.shown[id]
    OBVIOUS
  <2> HIDE DEF news
  <2>3. ViewPast(news, Later)
    BY <1>0, <2>2 DEF ViewPast
  <2> QED
    BY <2>1, <2>3
<1> HIDE DEF news
<1>2. \E shown \in {news, snapshot, t.shown} : Proceed(seen(shown), Null)
  <2>1. CASE job.kind = "poll"
    <3>1. DiffAndEmit(t, snapshot) = seen(news)
      BY DEF DiffAndEmit, news
    <3> QED
      BY <2>1, <3>1 DEF FinishSync
  <2>2. CASE job.kind = "load"
    <3>1. [t EXCEPT !.known = snapshot, !.cache = snapshot] = seen(t.shown)
      BY <1>0, PageIs DEF PageFields
    <3> QED
      BY <2>2, <3>1 DEF FinishSync
  <2>3. CASE job.kind # "poll" /\ job.kind # "load"
    <3>1. [t EXCEPT !.known = snapshot, !.cache = snapshot, !.shown = snapshot] = seen(snapshot)
      BY <1>0, PageIs DEF PageFields
    <3> QED
      BY <2>3, <3>1 DEF FinishSync
  <2> QED
    BY <2>1, <2>2, <2>3
<1>3. PICK shown \in {news, snapshot, t.shown} : Proceed(seen(shown), Null)
  BY <1>2
<1>4. PICK u : u = seen(shown)
  OBVIOUS
<1>5. /\ DOMAIN u = PageFields /\ u.shown = shown /\ u.known = snapshot /\ u.cache = snapshot
      /\ \A f \in PageFields \ {"shown", "known", "cache"} : u[f] = t[f]
  BY <1>0, <1>4, PageIs DEF PageFields
<1> HIDE DEF seen
<1>6. IsPage(u) /\ SameBooks(u, t)
  BY <1>0, <1>1, <1>5, SeenIs
<1>7. Past(u, Later)
  BY <1>0, <1>1, <1>5, <1>6 DEF Past, PagePast, DiskPast, SameBooks
<1> QED
  BY <1>3, <1>4, <1>7 DEF Recalls

LEMMA UnsyncedPast ==
  ASSUME NEW t, Past(t, Later), FinishUnsynced(t)
  PROVE  \E u, j : Recalls(u, j)
<1>0. IsPage(t) /\ t.cache \in Views \cup {Null} /\ t.known \in Views
  BY DEF Past, IsPage, IsStorage
<1>1. CASE job.kind = "init" /\ t.cache # Null
  <2> DEFINE w == [t EXCEPT !.shown = t.cache]
  <2>1. Proceed(w, Null)
    BY <1>1 DEF FinishUnsynced
  <2>2. PICK u : u = w
    OBVIOUS
  <2>3. /\ DOMAIN u = PageFields /\ u.shown = t.cache /\ u.known = t.known /\ u.cache = t.cache
        /\ \A f \in PageFields \ {"shown", "known", "cache"} : u[f] = t[f]
    BY <1>0, <2>2, PageIs DEF PageFields
  <2> HIDE DEF w
  <2>4. IsPage(u) /\ SameBooks(u, t)
    BY <1>0, <1>1, <2>3, SeenIs
  <2>5. Past(u, Later)
    BY <1>1, <2>3, <2>4 DEF Past, PagePast, DiskPast, SameBooks
  <2> QED
    BY <2>1, <2>2, <2>5 DEF Recalls
<1>2. CASE ~ (job.kind = "init" /\ t.cache # Null)
  BY <1>2 DEF FinishUnsynced, Recalls
<1> QED
  BY <1>1, <1>2

LEMMA FlushPast ==
  ASSUME job.kind \in Background, NEW t, Past(t, Later),
         NEW first \in Views, ViewPast(first, Later), NEW sent, EndFlush(t, first, sent)
  PROVE  \E u, j : Recalls(u, j)
<1>1. CASE sent > 0
  <2>1. PICK j : j = [Job(job.kind, "refetch") EXCEPT !.first = first]
    OBVIOUS
  <2>2. Proceed(t, j)
    BY <1>1, <2>1 DEF EndFlush
  <2>3. j.kind = job.kind /\ j.phase = "refetch" /\ j.first = first
    BY <2>1 DEF Job
  <2>4. JobPast(j, Later)
    BY <2>3 DEF JobPast, Background
  <2> QED
    BY <2>2, <2>4 DEF Recalls
<1>2. CASE ~ (sent > 0)
  BY <1>2, SyncPast DEF EndFlush
<1> QED
  BY <1>1, <1>2

LEMMA NextPast ==
  ASSUME job.kind \in Background, NEW t, Past(t, Later),
         NEW first \in Views, ViewPast(first, Later), NEW sent, NEW todo, SendNext(t, first, todo, sent)
  PROVE  \E u, j : Recalls(u, j)
<1>1. CASE todo = << >>
  BY <1>1, FlushPast DEF SendNext
<1>2. CASE todo # << >>
  <2>1. PICK j : j = [Job(job.kind, "send") EXCEPT !.first = first, !.sent = sent,
                                                   !.op = Head(todo), !.todo = Tail(todo)]
    OBVIOUS
  <2>2. Proceed(t, j)
    BY <1>2, <2>1 DEF SendNext
  <2>3. j.kind = job.kind /\ j.phase = "send" /\ j.first = first
    BY <2>1 DEF Job
  <2>4. JobPast(j, Later)
    BY <2>3 DEF JobPast, Background
  <2> QED
    BY <2>2, <2>4 DEF Recalls
<1> QED
  BY <1>1, <1>2

LEMMA SettlePast ==
  ASSUME JournalInv, Sends, JobPast(job, Later), NEW t, Past(t, Later), NEW outcome, Settle(t, outcome)
  PROVE  \E u, j : Recalls(u, j)
<1>0. /\ job.op \in OutboxOps /\ WellFormed(job.op) /\ JobOK(job, tab, landed, count.ops)
      /\ IsPage(t) /\ t.outbox \in Seq(OutboxOps)
  BY OpIs DEF Past, IsPage, IsStorage
<1>1. CASE job.kind = "write" /\ outcome \in {"offline", "unauthorized"}
  <2>1. PICK u : u = Enqueue(t, job.op)
    OBVIOUS
  <2>2. Past(u, Later)
    BY <1>0, <1>1, <2>1, EnqueuePast DEF JobPast
  <2> QED
    BY <1>1, <2>1, <2>2 DEF Settle, Recalls
<1>2. CASE job.kind = "write" /\ outcome \notin {"offline", "unauthorized"}
  BY <1>2 DEF Settle, Recalls
<1>3. CASE job.kind # "write"
  <2>1. job.kind \in Background /\ job.first \in Views /\ ViewPast(job.first, Later)
    BY <1>0, <1>3 DEF JobOK, Jobs, JobPast, Background, Sends
  <2>2. CASE outcome \in {"offline", "unauthorized"}
    BY <1>3, <2>1, <2>2, FlushPast DEF Settle
  <2>3. CASE outcome = "held"
    <3>1. PICK u : u = [t EXCEPT !.held = @ \cup {job.op.opId}]
      OBVIOUS
    <3>2. IsPage(u) /\ SameBooks(u, t)
      BY <1>0, <3>1, HoldIs DEF OutboxOps
    <3>3. u.shown = t.shown /\ u.known = t.known /\ u.cache = t.cache
      BY <1>0, <3>1, PageIs DEF PageFields
    <3>4. Past(u, Later)
      BY <3>2, <3>3, LikePast DEF SameBooks, IsPartOf
    <3> QED
      BY <1>3, <2>1, <2>3, <3>1, <3>4, NextPast DEF Settle
  <2>4. CASE outcome \notin {"offline", "unauthorized", "held"}
    <3>1. PICK u : u = DropOp(t, job.op.opId)
      OBVIOUS
    <3>2. IsPage(u) /\ IsPartOf(u.outbox, t.outbox)
      <4>1. PICK kept : kept = WithoutIds(t.outbox, {job.op.opId})
        OBVIOUS
      <4>2. kept \in Seq(OutboxOps) /\ IsPartOf(kept, t.outbox)
        <5> DEFINE gone == {o \in ToSet(t.outbox) : o.opId \in {job.op.opId}}
        <5>1. kept = Without(t.outbox, gone)
          BY <4>1 DEF WithoutIds
        <5> HIDE DEF gone
        <5>2. /\ kept \in Seq(OutboxOps)
              /\ \A j \in DOMAIN kept : \E i \in DOMAIN t.outbox : kept[j] = t.outbox[i]
          BY <1>0, <5>1, WithoutIs
        <5> QED
          BY <5>2 DEF IsPartOf
      <4>3. \A i \in DOMAIN kept : WellFormed(kept[i])
        BY <1>0, <4>2 DEF IsPartOf, IsPage, IsStorage
      <4>4. u = [t EXCEPT !.outbox = kept]
        BY <3>1, <4>1 DEF DropOp
      <4> QED
        BY <1>0, <4>2, <4>3, <4>4, RequeueIs
    <3>3. u.shown = t.shown /\ u.known = t.known /\ u.cache = t.cache
      BY <1>0, <3>1, PageIs DEF PageFields, DropOp
    <3>4. Past(u, Later)
      BY <3>2, <3>3, LikePast
    <3> QED
      BY <1>3, <2>1, <2>4, <3>1, <3>4, NextPast DEF Settle
  <2> QED
    BY <2>2, <2>3, <2>4
<1> QED
  BY <1>1, <1>2, <1>3

\* The page takes an annotation out of its view.
Removed(t, id) == [CacheRemove(t, id) EXCEPT !.known[id] = Null, !.shown[id] = Null]

LEMMA UncachedPast ==
  ASSUME NEW v, NEW t, Past(t, v), NEW id \in Ids, NEW u, u = CacheRemove(t, id)
  PROVE  Past(u, v)
<1>0. IsPage(t) /\ t.cache \in Views \cup {Null} /\ t.known \in Views /\ t.shown \in Views
  BY DEF Past, IsPage, IsStorage
<1>1. IsPage(u) /\ SameBooks(u, t) /\ u.known = t.known /\ u.shown = t.shown
  BY <1>0, UncacheIs
<1>2. u.cache = IF t.cache = Null THEN Null ELSE [t.cache EXCEPT ![id] = Null]
  BY <1>0, PageIs DEF CacheRemove, PageFields
<1>3. \/ u.cache = Null
      \/ u.cache # Null /\ t.cache # Null /\ \A k \in Ids : u.cache[k] \in {t.cache[k], Null}
  BY <1>0, <1>2 DEF Views
<1> QED
  BY <1>1, <1>3, LessPast DEF SameBooks

LEMMA RemovedPast ==
  ASSUME NEW v, NEW t, Past(t, v), NEW id \in Ids, NEW u, u = Removed(t, id)
  PROVE  Past(u, v)
<1>1. PICK w : w = CacheRemove(t, id)
  OBVIOUS
<1>2. Past(w, v)
  BY <1>1, UncachedPast
<1>3. IsPage(w) /\ w.known \in Views /\ w.shown \in Views
  BY <1>2 DEF Past, IsPage
<1>4. /\ DOMAIN u = PageFields /\ \A f \in PageFields \ {"shown", "known"} : u[f] = w[f]
      /\ u.known = [w.known EXCEPT ![id] = Null] /\ u.shown = [w.shown EXCEPT ![id] = Null]
  BY <1>1, <1>3, PageIs DEF PageFields, Removed
<1>5. u.known \in Views /\ u.shown \in Views
  BY <1>3, <1>4 DEF Views
<1>6. IsPage(u) /\ SameBooks(u, w)
  BY <1>3, <1>4, <1>5, PageIs DEF IsPage, IsStorage, SameBooks, PageFields
<1>7. \A k \in Ids : u.shown[k] \in {w.shown[k], Null} /\ u.known[k] \in {w.known[k], Null}
  BY <1>3, <1>4 DEF Views
<1>8. u.cache = w.cache /\ u.outbox = w.outbox
  BY <1>4 DEF PageFields
<1> QED
  BY <1>2, <1>6, <1>7, <1>8, LessPast

\* The page forgets what it knows of some annotations.
LEMMA ForgottenPast ==
  ASSUME NEW v, NEW t, Past(t, v), NEW known \in Views, \A id \in Ids : known[id] \in {t.known[id], Null},
         NEW u, u = [t EXCEPT !.known = known]
  PROVE  Past(u, v)
<1>1. IsPage(t) /\ t.shown \in Views
  BY DEF Past, IsPage
<1>2. /\ DOMAIN u = PageFields /\ \A f \in PageFields \ {"known"} : u[f] = t[f]
      /\ u.known = known
  BY <1>1, PageIs DEF PageFields
<1>3. u.shown = t.shown /\ u.cache = t.cache /\ u.outbox = t.outbox
  BY <1>2 DEF PageFields
<1>4. IsPage(u)
  BY <1>1, <1>2, PageIs DEF IsPage, IsStorage, PageFields
<1> QED
  BY <1>2, <1>3, <1>4, LessPast

-----------------------------------------------------------------------------
(* The answers and the failures.                                            *)

\* The page before the step, and what it is a past of after it.
LEMMA Carried ==
  ASSUME Turn
  PROVE  Past(tab, Later) /\ (job # Null => JobPast(job, Later))
<1>0. JournalInv /\ PastInv /\ After(Lived(server, lives), Later) /\ IsPage(tab)
  BY DEF Turn, JournalInv, TypeOK
<1>1. Past(tab, Later)
  BY <1>0, StillPage DEF PastInv, Past
<1>2. ASSUME job # Null
      PROVE  JobPast(job, Later)
  <2>0. JobPast(job, Lived(server, lives)) /\ JobOK(job, tab, landed, count.ops)
    BY <1>0, <1>2 DEF PastInv, JournalInv
  <2>1. ASSUME job.kind = "write" PROVE OpPast(job.op, Later)
    <3>1. job.op \in OutboxOps /\ WellFormed(job.op)
      BY <2>0, <2>1 DEF JobOK, OpOK
    <3> QED
      BY <1>0, <2>0, <2>1, <3>1, StillOp DEF JobPast
  <2>2. ASSUME job.kind # "write", job.phase # "fetch" PROVE ViewPast(job.first, Later)
    <3>1. job.first \in Views
      BY <2>0, <2>2 DEF JobOK
    <3> QED
      BY <1>0, <2>0, <2>2, <3>1, StillViewed DEF JobPast
  <2>3. ASSUME job.phase = "merge" PROVE HasBeen(job.current, Later[job.op.id])
    <3>1. job.op.id \in Ids /\ job.current \in Copies
      BY <1>0, <1>2, <2>3, MergeJobIs
    <3> QED
      BY <1>0, <2>0, <2>3, <3>1, StillBeen DEF JobPast
  <2> QED
    BY <2>1, <2>2, <2>3 DEF JobPast
<1> QED
  BY <1>1, <1>2

LEMMA SettledPast ==
  ASSUME Turn, Sends, chain' = chain, NEW t, Past(t, Later), NEW outcome, Settle(t, outcome)
  PROVE  PastInv'
<1>1. JournalInv /\ JobPast(job, Later)
  BY Carried DEF Turn, Sends
<1>2. \E u, j : Recalls(u, j)
  BY <1>1, SettlePast
<1> QED
  BY <1>2, Recalled

LEMMA FetchPast ==
  ASSUME Turn, Fetch
  PROVE  PastInv'
<1>0. /\ job # Null /\ job.phase = "fetch" /\ UNCHANGED <<server, chain, lives>>
      /\ SendNext(Reached(tab), server, Unsent(tab), 0)
  BY DEF Fetch, Serve
<1>1. JournalInv /\ server' \in Views /\ lives' \in [Ids -> Nat] /\ Revised(server', lives') /\ Past(tab, Later)
  BY Carried DEF Turn
<1>2. job.kind \in Background /\ server \in Views /\ ViewPast(server, Later)
  BY <1>0, <1>1, BackgroundIs, StoreHasBeen DEF Later
<1>3. PICK t : t = Reached(tab)
  OBVIOUS
<1>4. Past(t, Later)
  BY <1>1, <1>3, NoticedPast
<1>5. \E u, j : Recalls(u, j)
  BY <1>0, <1>2, <1>3, <1>4, NextPast
<1> QED
  BY <1>0, <1>5, Recalled

LEMMA RefetchPast ==
  ASSUME Turn, Refetch
  PROVE  PastInv'
<1>0. /\ UNCHANGED <<server, chain, lives>> /\ FinishSync(Reached(tab), server)
  BY DEF Refetch, Serve
<1>1. server' \in Views /\ lives' \in [Ids -> Nat] /\ Revised(server', lives') /\ Past(tab, Later)
  BY Carried DEF Turn
<1>2. server \in Views /\ ViewPast(server, Later)
  BY <1>0, <1>1, StoreHasBeen DEF Later
<1>3. PICK t : t = Reached(tab)
  OBVIOUS
<1>4. Past(t, Later)
  BY <1>1, <1>3, NoticedPast
<1>5. \E u, j : Recalls(u, j)
  BY <1>0, <1>2, <1>3, <1>4, SyncPast
<1> QED
  BY <1>0, <1>5, Recalled

\* What the server had, and what it has, is of the past.
LEMMA ServerPast ==
  ASSUME Turn, NEW id \in Ids
  PROVE  /\ server[id] \in Copies \cup {Null} /\ HasBeen(server[id], Later[id])
         /\ server'[id] \in Copies \cup {Null} /\ HasBeen(server'[id], Later[id])
<1>1. server \in Views /\ lives \in [Ids -> Nat] /\ Revised(server, lives)
  BY DEF Turn, JournalInv, TypeOK, PastInv
<1>2. server[id] \in Copies \cup {Null} /\ server'[id] \in Copies \cup {Null}
  BY <1>1 DEF Turn, Views
<1>3. HasBeen(server[id], Lived(server, lives)[id])
  BY <1>1, RecordHasBeen
<1>4. HasBeen(server[id], Later[id])
  BY <1>2, <1>3, StillBeen DEF Turn
<1>5. HasBeen(server'[id], Later[id])
  BY RecordHasBeen DEF Turn, Later
<1> QED
  BY <1>2, <1>4, <1>5

\* The operation being sent is one of the page's past.
LEMMA SentPast ==
  ASSUME JournalInv, PastInv, Sends
  PROVE  OpPast(job.op, Lived(server, lives))
<1>1. JobOK(job, tab, landed, count.ops) /\ JobPast(job, Lived(server, lives))
  BY OpIs DEF PastInv, Sends
<1>2. CASE job.kind = "write"
  BY <1>1, <1>2 DEF JobPast
<1>3. CASE job.kind # "write"
  <2>1. PICK i \in DOMAIN tab.outbox : job.op = tab.outbox[i]
    BY <1>1, <1>3 DEF JobOK, FlushOK, Sends
  <2> QED
    BY <2>1 DEF PastInv, PagePast, DiskPast, OpsPast
<1> QED
  BY <1>2, <1>3

LEMMA SaveAnsweredPast ==
  ASSUME Turn, Sending("save"), chain' = chain,
         NEW saved, Ops!PutOutcome(server[job.op.id], job.op.baseRev) = "ok"
                      => saved \in Copies /\ HasBeen(saved, Later[job.op.id]),
         NEW current \in Copies \cup {Null}, HasBeen(current, Later[job.op.id]),
         SaveAnswered(saved, current)
  PROVE  PastInv'
<1> DEFINE op == job.op
<1>0. /\ Sends /\ JournalInv /\ job.phase = "send" /\ op.kind = "save" /\ job # Null
      /\ op.id \in Ids /\ op.local \in Copies /\ op \in OutboxOps
  BY OpIs DEF Sending, Sends, Turn
<1>1. Past(tab, Later) /\ JobPast(job, Later)
  BY <1>0, Carried
<1>2. CASE Ops!PutOutcome(server[op.id], op.baseRev) = "ok"
  <2>1. PICK u : u = Confirm(tab, op.id, saved)
    OBVIOUS
  <2>2. Past(u, Later)
    BY <1>0, <1>1, <1>2, <2>1, ConfirmPast
  <2>3. Settle(u, "sent")
    BY <1>2, <2>1 DEF SaveAnswered
  <2> QED
    BY <1>0, <2>2, <2>3, SettledPast
<1>3. CASE Ops!PutOutcome(server[op.id], op.baseRev) # "ok" /\ current = Null
  <2> DEFINE record == ConflictOf(op, Null, "all")
  <2>1. IsRecord(record)
    BY <1>0 DEF ConflictOf, IsRecord, OutboxOps
  <2> HIDE DEF record
  <2>2. PICK t : t = RecordConflict(tab, record)
    OBVIOUS
  <2>3. Past(t, Later)
    BY <1>1, <2>1, <2>2, RecordPast
  <2>4. PICK id \in Ids : id = op.id
    BY <1>0
  <2>5. PICK u : u = Removed(t, id)
    OBVIOUS
  <2>6. Past(u, Later)
    BY <2>3, <2>5, RemovedPast
  <2>7. Settle(u, Journaled(t))
    BY <1>3, <2>2, <2>4, <2>5 DEF SaveAnswered, ResolveConflict, record, Removed
  <2> QED
    BY <1>0, <2>6, <2>7, SettledPast
<1>4. CASE Ops!PutOutcome(server[op.id], op.baseRev) # "ok" /\ current # Null
  <2>1. PICK merge : merge = MergeAnnotation(op.base, op.local, current)
    OBVIOUS
  <2>2. PICK t : t = IF NothingDropped(merge) THEN tab
                     ELSE RecordConflict(tab, ConflictOf(op, current, merge.dropped))
    OBVIOUS
  <2>3. IsRecord(ConflictOf(op, current, merge.dropped)) /\ current \in Copies
    BY <1>0, <1>4 DEF ConflictOf, IsRecord, OutboxOps
  <2>4. Past(t, Later)
    BY <1>1, <2>2, <2>3, RecordPast
  <2>5. CASE merge.changed
    <3>1. PICK after : after = IF NothingDropped(merge) THEN "sent" ELSE Journaled(t)
      OBVIOUS
    <3>2. PICK j : j = [job EXCEPT !.phase = "merge", !.merged = merge.annotation, !.current = current,
                                   !.after = after]
      OBVIOUS
    <3>3. Proceed(t, j)
      BY <1>4, <2>1, <2>2, <2>5, <3>1, <3>2 DEF SaveAnswered, ResolveConflict
    <3>4. job \in Jobs
      BY <1>0, OpIs DEF JobOK
    <3>5. /\ j.kind = job.kind /\ j.phase = "merge" /\ j.op = op /\ j.first = job.first
          /\ j.current = current
      BY <3>2, <3>4 DEF Jobs
    <3>6. JobPast(j, Later)
      BY <1>0, <1>1, <3>5 DEF JobPast
    <3> QED
      BY <2>4, <3>3, <3>6, Recalled DEF Recalls
  <2>6. CASE ~ merge.changed
    <3>1. PICK u : u = Confirm(t, op.id, current)
      OBVIOUS
    <3>2. Past(u, Later)
      BY <1>0, <2>3, <2>4, <3>1, ConfirmPast
    <3>3. PICK outcome : outcome = IF NothingDropped(merge) THEN "parked" ELSE Journaled(t)
      OBVIOUS
    <3>4. Settle(u, outcome)
      BY <1>4, <2>1, <2>2, <2>6, <3>1, <3>3 DEF SaveAnswered, ResolveConflict
    <3> QED
      BY <1>0, <3>2, <3>4, SettledPast
  <2> QED
    BY <2>5, <2>6
<1> QED
  BY <1>2, <1>3, <1>4

LEMMA SendSavePast ==
  ASSUME Turn, SendSave
  PROVE  PastInv'
<1>1. /\ Sending("save") /\ chain' = chain /\ server' = ServedRecords
      /\ SaveAnswered(ServedRecords[job.op.id], server[job.op.id])
  BY DEF SendSave, Serve
<1>2. Sends /\ JournalInv /\ job.op.id \in Ids /\ job.op.local \in Copies /\ job.phase = "send"
      /\ job.op.kind = "save"
  BY <1>1, OpIs DEF Sending, Sends, Turn
<1>3. ASSUME Ops!PutOutcome(server[job.op.id], job.op.baseRev) = "ok"
      PROVE  ServedRecords[job.op.id] \in Copies /\ HasBeen(ServedRecords[job.op.id], Later[job.op.id])
  <2>1. ServedRecords[job.op.id] = Ops!Written(server[job.op.id], job.op.local)
    BY <1>2, <1>3 DEF ServedRecords, PutResult, Views, JournalInv, TypeOK
  <2>2. ServedRecords[job.op.id] \in Copies
    BY <1>2, <2>1, WrittenIs, ServerPast
  <2> QED
    BY <1>1, <1>2, <2>2, ServerPast
<1> QED
  BY <1>1, <1>2, <1>3, ServerPast, SaveAnsweredPast

LEMMA MergeSettledPast ==
  ASSUME Turn, job # Null, job.phase = "merge", chain' = chain,
         NEW saved \in Copies, HasBeen(saved, Later[job.op.id]), MergeSettled(saved)
  PROVE  PastInv'
<1>1. Sends /\ job.op.id \in Ids /\ Past(tab, Later)
  BY MergeJobIs, Carried DEF Turn
<1>2. PICK u : u = Confirm(tab, job.op.id, saved)
  OBVIOUS
<1>3. Past(u, Later)
  BY <1>1, <1>2, ConfirmPast
<1>4. Settle(u, job.after)
  BY <1>2 DEF MergeSettled
<1> QED
  BY <1>1, <1>3, <1>4, SettledPast

LEMMA GivenUpPast ==
  ASSUME Turn, job # Null, job.phase = "merge", chain' = chain, MergeGivenUp
  PROVE  PastInv'
<1> DEFINE record == ConflictOf(job.op, job.current, "all")
<1>0. /\ Sends /\ job.op.id \in Ids /\ job.op.local \in Copies /\ job.current \in Copies
      /\ job.op \in OutboxOps
  BY MergeJobIs, OpIs DEF Turn
<1>1. Past(tab, Later) /\ HasBeen(job.current, Later[job.op.id])
  BY Carried DEF JobPast
<1>2. IsRecord(record)
  BY <1>0 DEF ConflictOf, IsRecord, OutboxOps
<1> HIDE DEF record
<1>3. PICK t : t = RecordConflict(tab, record)
  OBVIOUS
<1>4. Past(t, Later)
  BY <1>1, <1>2, <1>3, RecordPast
<1>5. PICK u : u = Confirm(t, job.op.id, job.current)
  OBVIOUS
<1>6. Past(u, Later)
  BY <1>0, <1>1, <1>4, <1>5, ConfirmPast
<1>7. Settle(u, Journaled(tab))
  BY <1>3, <1>5 DEF record, MergeGivenUp
<1> QED
  BY <1>0, <1>6, <1>7, SettledPast

LEMMA SendMergedPast ==
  ASSUME Turn, SendMerged
  PROVE  PastInv'
<1>0. /\ job # Null /\ job.phase = "merge" /\ chain' = chain /\ server' = ServedRecords
      /\ IF MergeTaken THEN MergeSettled(ServedRecords[job.op.id]) ELSE MergeGivenUp
  BY DEF SendMerged, Serve
<1>1. JournalInv /\ job.op.id \in Ids /\ job.merged \in Copies /\ server \in Views
  BY <1>0, MergeJobIs DEF Turn, JournalInv, TypeOK
<1>2. CASE MergeTaken
  <2>1. ServedRecords[job.op.id] = Ops!Written(server[job.op.id], job.merged)
    BY <1>0, <1>1, <1>2 DEF MergeTaken, ServedRecords, PutResult, Views
  <2>2. ServedRecords[job.op.id] \in Copies
    BY <1>1, <2>1, WrittenIs, ServerPast
  <2>3. HasBeen(ServedRecords[job.op.id], Later[job.op.id])
    BY <1>0, <1>1, ServerPast
  <2> QED
    BY <1>0, <1>2, <2>2, <2>3, MergeSettledPast
<1>3. CASE ~ MergeTaken
  BY <1>0, <1>3, GivenUpPast
<1> QED
  BY <1>2, <1>3

LEMMA RefusedPast ==
  ASSUME Turn, Sending("remove"), NEW current \in Copies \cup {Null}, DeletedCopy(job.op, current) # Null,
         NEW t, t = RemoveRefused(job.op, current)
  PROVE  Past(t, Later)
<1> DEFINE op == job.op
           copy == DeletedCopy(op, current)
           removed == [op EXCEPT !.local = copy]
           record == ConflictOf(removed, current, "delete")
<1>0. op.kind = "remove" /\ op.id \in Ids /\ op \in OutboxOps /\ Past(tab, Later)
  BY OpIs, Carried DEF Sending, Sends, Turn
<1>1. copy \in Copies
  BY <1>0 DEF DeletedCopy, OutboxOps
<1>2. t = RecordConflict(tab, record)
  BY DEF RemoveRefused
<1> HIDE DEF copy
<1>3. removed.opId = op.opId /\ removed.id = op.id /\ removed.local = copy
  BY <1>0 DEF OutboxOps
<1> HIDE DEF removed
<1>4. IsRecord(record)
  BY <1>0, <1>1, <1>3 DEF ConflictOf, IsRecord, OutboxOps
<1> QED
  BY <1>0, <1>2, <1>4, RecordPast

LEMMA SendRemovePast ==
  ASSUME Turn, SendRemove
  PROVE  PastInv'
<1> DEFINE op == job.op
           current == server[op.id]
<1>0. /\ Sending("remove") /\ Sends /\ op.kind = "remove" /\ op.id \in Ids /\ chain' = chain
      /\ Past(tab, Later) /\ tab.known \in Views /\ JournalInv
  BY OpIs, Carried DEF SendRemove, Sending, Serve, Sends, Turn, JournalInv, TypeOK, IsPage
<1>1. CASE Ops!RemoveOutcome(current, op.baseRev) = "ok"
  <2>1. PICK known : known = [tab.known EXCEPT ![op.id] = Null]
    OBVIOUS
  <2>2. known \in Views /\ \A id \in Ids : known[id] \in {tab.known[id], Null}
    BY <1>0, <2>1 DEF Views
  <2>3. PICK u : u = [tab EXCEPT !.known = known]
    OBVIOUS
  <2>4. Past(u, Later)
    BY <1>0, <2>2, <2>3, ForgottenPast
  <2>5. Settle(u, "sent")
    BY <1>1, <2>1, <2>3 DEF SendRemove
  <2> QED
    BY <1>0, <2>4, <2>5, SettledPast
<1>2. CASE Ops!RemoveOutcome(current, op.baseRev) # "ok"
  <2>1. current # Null /\ current \in Copies /\ HasBeen(current, Later[op.id])
    BY <1>0, <1>2, ServerPast DEF Ops!RemoveOutcome
  <2>2. DeletedCopy(op, current) # Null
    BY <2>1 DEF DeletedCopy
  <2>3. PICK t : t = RemoveRefused(op, current)
    OBVIOUS
  <2>4. Past(t, Later)
    BY <1>0, <2>1, <2>2, <2>3, RefusedPast
  <2>5. PICK u : u = Confirm(t, op.id, current)
    OBVIOUS
  <2>6. Past(u, Later)
    BY <1>0, <2>1, <2>4, <2>5, ConfirmPast
  <2>7. Settle(u, Journaled(tab))
    BY <1>2, <2>3, <2>5 DEF SendRemove
  <2> QED
    BY <1>0, <2>6, <2>7, SettledPast
<1> QED
  BY <1>1, <1>2

LEMMA SendClearPast ==
  ASSUME Turn, SendClear
  PROVE  PastInv'
<1>0. Sends /\ chain' = chain /\ Settle([tab EXCEPT !.known = EmptyStore], "sent") /\ Past(tab, Later)
  BY Carried DEF SendClear, Sending, Serve, Sends
<1>1. PICK known \in Views : known = EmptyStore
  BY DEF EmptyStore, Views
<1>2. \A id \in Ids : known[id] \in {tab.known[id], Null}
  BY <1>1 DEF EmptyStore
<1>3. PICK u : u = [tab EXCEPT !.known = known]
  OBVIOUS
<1>4. Past(u, Later)
  BY <1>0, <1>2, <1>3, ForgottenPast
<1>5. Settle(u, "sent")
  BY <1>0, <1>1, <1>3
<1> QED
  BY <1>0, <1>4, <1>5, SettledPast

(* A sync whose fetch failed.                                               *)
LEMMA FetchFailedPast ==
  ASSUME Turn, job # Null, chain' = chain, NEW t, Past(t, Later), FetchFailed(t)
  PROVE  PastInv'
<1>0. job.phase \in {"fetch", "refetch"} /\ JobPast(job, Later) /\ JournalInv
  BY Carried DEF FetchFailed, Turn
<1>1. CASE job.phase = "refetch" /\ job.kind # "poll"
  <2>1. FinishSync(t, job.first)
    BY <1>1 DEF FetchFailed
  <2>2. job.first \in Views /\ job.kind # "write"
    BY <1>0, <1>1, BackgroundIs DEF Background
  <2>3. ViewPast(job.first, Later)
    BY <1>0, <1>1, <2>2 DEF JobPast
  <2>4. \E u, j : Recalls(u, j)
    BY <2>1, <2>2, <2>3, SyncPast
  <2> QED
    BY <2>4, Recalled
<1>2. CASE ~ (job.phase = "refetch" /\ job.kind # "poll")
  <2>1. FinishUnsynced(t)
    BY <1>2 DEF FetchFailed
  <2>2. \E u, j : Recalls(u, j)
    BY <2>1, UnsyncedPast
  <2> QED
    BY <2>2, Recalled
<1> QED
  BY <1>1, <1>2

LEMMA ConnectionLostPast ==
  ASSUME Turn, ConnectionLost
  PROVE  PastInv'
<1>1. /\ job # Null /\ chain' = chain
      /\ \E t \in {Offline(tab), Refused(tab)} : FetchFailed(t) \/ (Sends /\ Settle(t, "offline"))
  BY DEF ConnectionLost, Fault, Sends
<1>2. PICK t \in {Offline(tab), Refused(tab)} : FetchFailed(t) \/ (Sends /\ Settle(t, "offline"))
  BY <1>1
<1>3. Past(t, Later)
  BY Carried, NoticedPast
<1> QED
  BY <1>1, <1>2, <1>3, FetchFailedPast, SettledPast

LEMMA AccessRefusedPast ==
  ASSUME Turn, AccessRefused
  PROVE  PastInv'
<1>1. /\ job # Null /\ chain' = chain
      /\ FetchFailed(Refused(tab)) \/ (Sends /\ Settle(Refused(tab), "unauthorized"))
  BY DEF AccessRefused, Fault, Sends
<1>2. PICK t : t = Refused(tab)
  OBVIOUS
<1>3. Past(t, Later)
  BY <1>2, Carried, NoticedPast
<1> QED
  BY <1>1, <1>2, <1>3, FetchFailedPast, SettledPast

(* An answer that cannot be read: the page goes on with its own copies.     *)
LEMMA AnswerUnreadPast ==
  ASSUME Turn, AnswerUnread
  PROVE  PastInv'
<1> DEFINE op == job.op
<1>0. Sends /\ chain' = chain /\ JournalInv /\ PastInv /\ job # Null /\ Past(tab, Later)
      /\ After(Lived(server, lives), Later)
  BY Carried DEF AnswerUnread, Fault, Sends, Turn
<1>1. CASE Sending("save") /\ SaveAnswered(op.local, Null)
  <2>1. op.id \in Ids /\ op.local \in Copies /\ op.kind = "save"
    BY <1>0, <1>1, OpIs DEF Sending
  <2>2. HasBeen(op.local, Lived(server, lives)[op.id])
    BY <1>0, <2>1, SentPast DEF OpPast
  <2>3. HasBeen(op.local, Later[op.id]) /\ HasBeen(Null, Later[op.id])
    BY <1>0, <2>1, <2>2, StillBeen DEF HasBeen
  <2> QED
    BY <1>0, <1>1, <2>1, <2>3, SaveAnsweredPast
<1>2. CASE job.phase = "merge" /\ MergeTaken /\ MergeSettled(job.merged)
  <2>1. /\ op.id \in Ids /\ job.current \in Copies /\ job.merged \in Copies
        /\ job.merged = MergeAnnotation(op.base, op.local, job.current).annotation
        /\ op.local \in Copies /\ op.base \in Copies \cup {Null}
    BY <1>0, <1>2, MergeJobIs, OpIs DEF OutboxOps
  <2>2. /\ Begins(job.current.lifecycle, job.merged.lifecycle) /\ job.merged.rev = job.current.rev
        /\ job.current.lifecycle \in Seq(Events) /\ job.merged.lifecycle \in Seq(Events)
    <3>1. /\ Begins(job.current.lifecycle, job.merged.lifecycle)
          /\ job.merged.rev = job.current.rev
      BY <2>1, MergeBegins
    <3>2. job.current.lifecycle \in Seq(Events) /\ job.merged.lifecycle \in Seq(Events)
      BY <2>1 DEF Copies
    <3> QED
      BY <3>1, <3>2
  <2>3. HasBeen(job.current, Later[op.id])
    BY <1>0, <1>2, Carried DEF JobPast
  <2>4. Later[op.id] # Null => Later[op.id].lifecycle \in Seq(Events)
    BY <1>0, <2>1 DEF After, Views, Copies
  <2>5. HasBeen(job.merged, Later[op.id])
    <3> SUFFICES ASSUME job.merged.rev # 0 PROVE HasBeen(job.merged, Later[op.id])
      BY DEF HasBeen
    <3>1. Continues(job.current.lifecycle, job.current.rev, Later[op.id])
      BY <2>1, <2>2, <2>3, NullIsNoCopy DEF HasBeen
    <3>2. Continues(job.merged.lifecycle, job.merged.rev, Later[op.id])
      BY <2>2, <2>4, <3>1, BeginsTwice DEF Continues
    <3> QED
      BY <3>2 DEF HasBeen
  <2> QED
    BY <1>0, <1>2, <2>1, <2>5, MergeSettledPast
<1>3. CASE Sending("remove") /\ op.base = Null /\ Settle(tab, "parked")
  BY <1>0, <1>3, SettledPast
<1>4. CASE Sending("remove") /\ op.base # Null /\ Settle(RemoveRefused(op, Null), Journaled(tab))
  <2>1. PICK t : t = RemoveRefused(op, Null)
    OBVIOUS
  <2>2. DeletedCopy(op, Null) # Null
    BY <1>4 DEF DeletedCopy
  <2>3. Past(t, Later)
    BY <1>4, <2>1, <2>2, RefusedPast
  <2> QED
    BY <1>0, <1>4, <2>1, <2>3, SettledPast
<1> QED
  BY <1>1, <1>2, <1>3, <1>4 DEF AnswerUnread

LEMMA MergeRefusedPast ==
  ASSUME Turn, MergeRefused
  PROVE  PastInv'
BY GivenUpPast DEF MergeRefused, Fault

LEMMA WriteRejectedPast ==
  ASSUME Turn, WriteRejected
  PROVE  PastInv'
<1>1. Sends /\ chain' = chain /\ Past(tab, Later) /\ JournalInv
  BY Carried DEF WriteRejected, Fault, Sends, Turn
<1>2. CASE job.op.kind = "clear"
  <2>1. PICK t : t = Offline(tab)
    OBVIOUS
  <2>2. Past(t, Later)
    BY <1>1, <2>1, NoticedPast
  <2>3. Settle(t, "offline")
    BY <1>2, <2>1 DEF WriteRejected
  <2> QED
    BY <1>1, <2>2, <2>3, SettledPast
<1>3. CASE job.op.kind # "clear"
  <2>1. PICK p : p = PutAside(job.op)
    OBVIOUS
  <2>2. p \in OutboxOps
    <3>1. job.op \in OutboxOps /\ count.ops + 1 \in Nat
      BY <1>1, OpIs DEF JournalInv, TypeOK
    <3> QED
      BY <2>1, <3>1 DEF PutAside, OutboxOps
  <2>3. PICK t : t = Park(tab, p)
    OBVIOUS
  <2>4. IsPage(tab) /\ IsPage(t) /\ t.outbox = tab.outbox
    BY <1>1, <2>2, <2>3, ParkIs DEF Past
  <2>5. t.shown = tab.shown /\ t.known = tab.known /\ t.cache = tab.cache
    BY <2>3, <2>4, PageIs DEF Park, PageFields
  <2>6. Past(t, Later)
    BY <1>1, <2>4, <2>5, LikePast DEF IsPartOf
  <2>7. Settle(t, "parked")
    BY <1>3, <2>1, <2>3 DEF WriteRejected
  <2> QED
    BY <1>1, <2>6, <2>7, SettledPast
<1> QED
  BY <1>2, <1>3

-----------------------------------------------------------------------------
(* A call is taken from the chain.                                          *)

LEMMA TailIs ==
  ASSUME JournalInv, chain # << >>, chain' = Tail(chain)
  PROVE  \A i \in DOMAIN chain' : \E k \in DOMAIN chain : chain'[i] = chain[k]
BY HeadIs

LEMMA SentOrQueuedPast ==
  ASSUME Turn, chain # << >>, NEW t, Past(t, Later), NEW op \in OutboxOps, WellFormed(op),
         OpPast(op, Later), SendOrQueue(t, op)
  PROVE  PastInv'
<1>0. /\ JournalInv /\ chain' = Tail(chain)
      /\ \/ Proceed(t, Started(op))
         \/ Proceed(Enqueue(t, op), Null)
  BY DEF SendOrQueue, Started, Turn
<1>1. CASE Proceed(t, Started(op))
  <2>1. PICK j : j = Started(op)
    OBVIOUS
  <2>2. j.kind = "write" /\ j.phase = "send" /\ j.op = op
    BY <2>1, StartedIs
  <2>3. JobPast(j, Later)
    BY <2>2 DEF JobPast
  <2>4. Recalls(t, j)
    BY <1>1, <2>1, <2>3 DEF Recalls
  <2> QED
    BY <1>0, <2>4, TailIs, Recalled
<1>2. CASE Proceed(Enqueue(t, op), Null)
  <2>1. PICK u : u = Enqueue(t, op)
    OBVIOUS
  <2>2. Past(u, Later)
    BY <2>1, EnqueuePast
  <2>3. Recalls(u, Null)
    BY <1>2, <2>1, <2>2 DEF Recalls
  <2> QED
    BY <1>0, <2>3, TailIs, Recalled
<1> QED
  BY <1>0, <1>1, <1>2

\* What is known of an annotation is of the past.
LEMMA KnownPast ==
  ASSUME Turn, NEW id \in Ids
  PROVE  tab.known[id] \in Copies \cup {Null} /\ HasBeen(tab.known[id], Later[id])
BY Carried, KnownIs DEF Turn, Past, PagePast, ViewPast

LEMMA StartSavePast ==
  ASSUME Turn, StartSave
  PROVE  PastInv'
<1>0. chain # << >> /\ Head(chain).kind = "save" /\ JournalInv /\ Past(tab, Later)
  BY Carried DEF StartSave, Next1, Turn
<1>1. /\ Head(chain).id \in Ids /\ Head(chain).local \in Copies
      /\ HasBeen(Head(chain).local, Later[Head(chain).id])
  <2>1. 1 \in DOMAIN chain /\ Head(chain) = chain[1] /\ Head(chain) \in Calls
    BY <1>0, HeadIs
  <2>2. CallPast(chain[1], Later)
    BY <2>1, CalledPast
  <2> QED
    BY <1>0, <2>1, <2>2 DEF Calls, CallPast
<1>2. PICK id \in Ids, copy \in Copies : id = Head(chain).id /\ copy = Head(chain).local
  BY <1>1
<1>3. PICK base : base = tab.known[id]
  OBVIOUS
<1>4. base \in Copies \cup {Null} /\ HasBeen(base, Later[id]) /\ HasBeen(copy, Later[id])
  BY <1>1, <1>2, <1>3, KnownPast
<1>5. PICK rev : rev = IF RevOf(base) # Null THEN RevOf(base) ELSE RevOf(copy)
  OBVIOUS
<1>6. rev \in Nat \cup {Null}
  BY <1>4, <1>5, RevOfIs
<1>7. PICK op : op = Operation("save", id, copy, rev, base)
  OBVIOUS
<1>8. /\ op \in OutboxOps /\ op.kind = "save" /\ op.id = id /\ op.local = copy /\ op.base = base
  <2>1. count.ops + 1 \in Nat
    BY <1>0 DEF JournalInv, TypeOK
  <2> QED
    BY <1>4, <1>6, <1>7, <2>1 DEF Operation, OutboxOps
<1>9. WellFormed(op) /\ OpPast(op, Later)
  BY <1>4, <1>8 DEF WellFormed, OpPast
<1>10. PICK t : t = CacheUpsert(tab, id, copy)
  OBVIOUS
<1>11. Past(t, Later)
  <2>1. IsPage(tab) /\ tab.cache \in Views \cup {Null}
    BY <1>0 DEF Past, IsPage, IsStorage
  <2>2. IsPage(t) /\ SameBooks(t, tab) /\ t.known = tab.known /\ t.shown = tab.shown
    BY <1>10, <2>1, UpsertIs
  <2>3. t.cache = [(IF tab.cache = Null THEN EmptyStore ELSE tab.cache) EXCEPT ![id] = copy]
    BY <1>10, <2>1, PageIs DEF CacheUpsert, PageFields
  <2>4. ViewPast(t.cache, Later)
    BY <1>0, <1>4, <2>1, <2>3 DEF Past, PagePast, DiskPast, ViewPast, Views, EmptyStore, HasBeen
  <2> QED
    BY <1>0, <2>2, <2>4 DEF Past, PagePast, DiskPast, SameBooks
<1>12. SendOrQueue(t, op)
  BY <1>2, <1>3, <1>5, <1>7, <1>10 DEF StartSave
<1> QED
  BY <1>0, <1>8, <1>9, <1>11, <1>12, SentOrQueuedPast

LEMMA StartRemovePast ==
  ASSUME Turn, StartRemove
  PROVE  PastInv'
<1>0. chain # << >> /\ Head(chain).kind = "remove" /\ JournalInv /\ Past(tab, Later)
  BY Carried DEF StartRemove, Next1, Turn
<1>1. PICK id \in Ids : id = Head(chain).id
  BY <1>0, HeadIs DEF Calls
<1>2. PICK base : base = tab.known[id]
  OBVIOUS
<1>3. base \in Copies \cup {Null} /\ HasBeen(base, Later[id])
  BY <1>2, KnownPast
<1>4. PICK rev : rev = RevOf(base)
  OBVIOUS
<1>5. rev \in Nat \cup {Null}
  BY <1>3, <1>4, RevOfIs
<1>6. PICK op : op = Operation("remove", id, Null, rev, base)
  OBVIOUS
<1>7. op \in OutboxOps /\ op.kind = "remove" /\ op.id = id /\ op.base = base /\ op.local = Null
  <2>1. count.ops + 1 \in Nat
    BY <1>0 DEF JournalInv, TypeOK
  <2> QED
    BY <1>3, <1>5, <1>6, <2>1 DEF Operation, OutboxOps
<1>8. WellFormed(op) /\ OpPast(op, Later)
  BY <1>3, <1>7 DEF WellFormed, OpPast, HasBeen
<1>9. PICK t : t = CacheRemove(tab, id)
  OBVIOUS
<1>10. Past(t, Later)
  BY <1>0, <1>9, UncachedPast
<1>11. SendOrQueue(t, op)
  BY <1>1, <1>2, <1>4, <1>6, <1>9 DEF StartRemove
<1> QED
  BY <1>0, <1>7, <1>8, <1>10, <1>11, SentOrQueuedPast

LEMMA StartClearPast ==
  ASSUME Turn, StartClear
  PROVE  PastInv'
<1>0. chain # << >> /\ JournalInv /\ Past(tab, Later)
  BY Carried DEF StartClear, Next1, Turn
<1>1. PICK op : op = Operation("clear", Null, Null, Null, Null)
  OBVIOUS
<1>2. op \in OutboxOps /\ op.kind = "clear" /\ op.id = Null
  <2>1. count.ops + 1 \in Nat
    BY <1>0 DEF JournalInv, TypeOK
  <2> QED
    BY <1>1, <2>1 DEF Operation, OutboxOps
<1>3. WellFormed(op) /\ OpPast(op, Later)
  BY <1>2 DEF WellFormed, OpPast
<1>4. PICK t : t = [tab EXCEPT !.cache = EmptyStore]
  OBVIOUS
<1>5. IsPage(tab) /\ tab.shown \in Views /\ tab.known \in Views /\ EmptyStore \in Views
  BY <1>0 DEF Past, IsPage, EmptyStore, Views
<1>6. /\ DOMAIN t = PageFields /\ t.shown = tab.shown /\ t.known = tab.known /\ t.cache = EmptyStore
      /\ \A f \in PageFields \ {"shown", "known", "cache"} : t[f] = tab[f]
  BY <1>4, <1>5, PageIs DEF PageFields
<1>7. IsPage(t) /\ SameBooks(t, tab)
  BY <1>5, <1>6, SeenIs
<1>8. ViewPast(EmptyStore, Later)
  BY DEF ViewPast, EmptyStore, HasBeen
<1>9. Past(t, Later)
  BY <1>0, <1>6, <1>7, <1>8 DEF Past, PagePast, DiskPast, SameBooks
<1>10. SendOrQueue(t, op)
  BY <1>1, <1>4 DEF StartClear
<1> QED
  BY <1>0, <1>2, <1>3, <1>9, <1>10, SentOrQueuedPast

\* What a step leaves as it was is still of the past.
LEMMA LeftPast ==
  ASSUME Turn
  PROVE  /\ DiskPast(disk, Later) /\ PagePast(tab, Later) /\ (job # Null => JobPast(job, Later))
         /\ \A i \in DOMAIN chain : CallPast(chain[i], Later)
BY Carried, CalledPast, StillDisk DEF Turn, PastInv, JournalInv, TypeOK, Past

LEMMA StartSyncPast ==
  ASSUME Turn, StartSync
  PROVE  PastInv'
<1>1. PICK kind \in Background : Next1(kind) /\ job' = Job(kind, "fetch")
  BY DEF StartSync, Background
<1>2. chain # << >> /\ chain' = Tail(chain) /\ UNCHANGED <<tab, disk>> /\ JournalInv
  BY <1>1 DEF StartSync, Next1, Turn
<1>3. job'.kind = kind /\ job'.phase = "fetch"
  BY <1>1 DEF Job
<1>4. JobPast(job', Later)
  BY <1>3 DEF JobPast, Background
<1>5. \A i \in DOMAIN chain' : CallPast(chain'[i], Later)
  BY <1>2, TailIs, LeftPast
<1> QED
  BY <1>2, <1>4, <1>5, LeftPast DEF Turn, PastInv, Later

-----------------------------------------------------------------------------
(* The user.                                                                *)

LEMMA UserPast ==
  ASSUME Turn, NEW write \in Calls, NEW shown \in Views, NEW wanted, UserWrites(write, shown, wanted),
         CallPast(write, Later), ViewPast(shown, Later)
  PROVE  PastInv'
<1>0. /\ tab' = [tab EXCEPT !.shown = shown] /\ chain' = Append(chain, write)
      /\ UNCHANGED <<disk, job>> /\ JournalInv /\ IsPage(tab)
  BY DEF UserWrites, Turn, JournalInv, TypeOK
<1>1. /\ tab'.shown = shown /\ tab'.known = tab.known /\ tab'.cache = tab.cache
      /\ tab'.outbox = tab.outbox
  BY <1>0, PageIs DEF PageFields
<1>2. PagePast(tab', Later)
  BY <1>1, LeftPast DEF PagePast, DiskPast
<1>3. \A i \in DOMAIN chain' : chain'[i] = write \/ (i \in DOMAIN chain /\ chain'[i] = chain[i])
  BY <1>0, CallIs
<1>4. \A i \in DOMAIN chain' : CallPast(chain'[i], Later)
  BY <1>3, LeftPast
<1> QED
  BY <1>0, <1>2, <1>4, LeftPast DEF Turn, PastInv, Later

\* What is shown of an annotation is of the past.
LEMMA ShownPast ==
  ASSUME Turn, NEW id \in Ids
  PROVE  tab.shown[id] \in Copies \cup {Null} /\ HasBeen(tab.shown[id], Later[id])
BY Carried, ShownIs DEF Turn, Past, PagePast, ViewPast

LEMMA SaveCallPast ==
  ASSUME Turn, NEW id \in Ids, NEW copy \in Copies, HasBeen(copy, Later[id]), NEW wanted,
         UserWrites(SaveJob(id, copy), [tab.shown EXCEPT ![id] = copy], wanted)
  PROVE  PastInv'
<1>1. PICK call : call = SaveJob(id, copy)
  OBVIOUS
<1>2. call \in Calls /\ CallPast(call, Later)
  BY <1>1 DEF SaveJob, Calls, CallPast
<1>3. PICK shown : shown = [tab.shown EXCEPT ![id] = copy]
  OBVIOUS
<1>4. shown \in Views /\ ViewPast(tab.shown, Later) /\ tab.shown \in Views
  BY <1>3, Carried, ShownIs DEF Turn, Past, PagePast, IsPage
<1>5. \A k \in Ids : shown[k] = IF k = id THEN copy ELSE tab.shown[k]
  BY <1>3, <1>4 DEF Views
<1>6. ViewPast(shown, Later)
  BY <1>4, <1>5 DEF ViewPast
<1>7. UserWrites(call, shown, wanted)
  BY <1>1, <1>3
<1> QED
  BY <1>2, <1>4, <1>6, <1>7, UserPast

\* An edit of what is shown goes on with its history, under its revision.
LEMMA EditedPast ==
  ASSUME Turn, NEW id \in Ids, NEW old \in Copies, HasBeen(old, Later[id]), NEW copy \in Copies,
         copy.rev = old.rev, Begins(old.lifecycle, copy.lifecycle)
  PROVE  HasBeen(copy, Later[id])
<1>1. /\ Later[id] # Null => Later[id].lifecycle \in Seq(Events)
      /\ old.lifecycle \in Seq(Events) /\ copy.lifecycle \in Seq(Events) /\ old # Null
  BY NullIsNoCopy DEF Turn, After, Views, Copies
<1> SUFFICES ASSUME copy.rev # 0 PROVE HasBeen(copy, Later[id])
  BY DEF HasBeen
<1>2. Continues(old.lifecycle, old.rev, Later[id])
  BY <1>1 DEF HasBeen
<1>3. Continues(copy.lifecycle, copy.rev, Later[id])
  BY <1>1, <1>2, BeginsTwice DEF Continues
<1> QED
  BY <1>3 DEF HasBeen

LEMMA UserAddPast ==
  ASSUME Turn, UserAdd
  PROVE  PastInv'
<1>1. PICK id \in Ids :
        LET copy == NewAnnotation(<<"user", count.user + 1>>)
        IN  UserWrites(SaveJob(id, copy), [tab.shown EXCEPT ![id] = copy],
                       [intents EXCEPT ![id] = [NothingWanted(TRUE) EXCEPT !.value = <<"user", count.user + 1>>]])
  BY DEF UserAdd
<1>2. PICK v : v = <<"user", count.user + 1>>
  OBVIOUS
<1>3. v \in Values
  BY <1>2, MineIs DEF Turn
<1>4. PICK copy : copy = NewAnnotation(v)
  OBVIOUS
<1>5. copy \in Copies /\ copy.rev = 0
  <2>1. Event("created", "user", 0) \in Events
    BY DEF Event, Events, EventTypes, Values
  <2>2. copy = [ fields |-> [f \in Fields |-> v], status |-> "pending", rev |-> 0,
                 lifecycle |-> <<Event("created", "user", 0)>> ]
    BY <1>4 DEF NewAnnotation
  <2>3. [f \in Fields |-> v] \in [Fields -> Values] /\ 0 \in Nat /\ "pending" \in Statuses
    BY <1>3 DEF Statuses
  <2>4. <<Event("created", "user", 0)>> \in Seq(Events)
    BY <2>1
  <2> QED
    BY <2>2, <2>3, <2>4 DEF Copies
<1>6. HasBeen(copy, Later[id])
  BY <1>5 DEF HasBeen
<1>7. PICK wanted : wanted = [intents EXCEPT ![id] = [NothingWanted(TRUE) EXCEPT !.value = v]]
  OBVIOUS
<1>8. UserWrites(SaveJob(id, copy), [tab.shown EXCEPT ![id] = copy], wanted)
  BY <1>1, <1>2, <1>4, <1>7
<1> QED
  BY <1>5, <1>6, <1>8, SaveCallPast

LEMMA UserEditPast ==
  ASSUME Turn, UserEdit
  PROVE  PastInv'
<1>1. PICK id \in Ids, f \in Fields :
        /\ tab.shown[id] # Null
        /\ LET value == <<"user", count.user + 1>>
               copy  == [tab.shown[id] EXCEPT !.fields[f] = value]
           IN  UserWrites(SaveJob(id, copy), [tab.shown EXCEPT ![id] = copy],
                          [intents EXCEPT ![id].value = value])
  BY DEF UserEdit
<1>2. PICK v : v = <<"user", count.user + 1>>
  OBVIOUS
<1>3. v \in Values
  BY <1>2, MineIs DEF Turn
<1>4. PICK old \in Copies : old = tab.shown[id]
  BY <1>1, ShownPast
<1>5. HasBeen(old, Later[id])
  BY <1>4, ShownPast
<1>6. PICK copy : copy = [old EXCEPT !.fields[f] = v]
  OBVIOUS
<1>7. copy \in Copies /\ copy.rev = old.rev /\ Begins(old.lifecycle, copy.lifecycle)
  <2>1. old.fields \in [Fields -> Values] /\ [old.fields EXCEPT ![f] = v] \in [Fields -> Values]
    BY <1>3 DEF Copies
  <2>2. copy = [ fields |-> [old.fields EXCEPT ![f] = v], status |-> old.status,
                 lifecycle |-> old.lifecycle, rev |-> old.rev ]
    BY <1>6 DEF Copies
  <2>3. copy \in Copies /\ copy.lifecycle = old.lifecycle /\ copy.rev = old.rev
    BY <2>1, <2>2 DEF Copies
  <2> QED
    BY <2>3, BeginsItself DEF Copies
<1>8. PICK wanted : wanted = [intents EXCEPT ![id].value = v]
  OBVIOUS
<1>9. UserWrites(SaveJob(id, copy), [tab.shown EXCEPT ![id] = copy], wanted)
  BY <1>1, <1>2, <1>4, <1>6, <1>8
<1> QED
  BY <1>5, <1>7, <1>9, EditedPast, SaveCallPast

LEMMA UserMovePast ==
  ASSUME Turn, UserMove
  PROVE  PastInv'
<1>1. PICK id \in Ids, a \in UserMoves :
        /\ tab.shown[id] # Null
        /\ LET event == Event(EventOf[a], "user", count.user + 1)
               copy  == [tab.shown[id] EXCEPT !.status = Target[a], !.lifecycle = Append(@, event)]
           IN  UserWrites(SaveJob(id, copy), [tab.shown EXCEPT ![id] = copy],
                          [intents EXCEPT ![id].events = @ \cup {event.id}])
  BY DEF UserMove
<1>2. PICK e : e = Event(EventOf[a], "user", count.user + 1)
  OBVIOUS
<1>3. e \in Events
  <2>1. <<"user", count.user + 1>> \in Values
    BY MineIs DEF Turn
  <2>2. EventOf[a] \in EventTypes
    BY MovesAreActions, MoveIs
  <2> QED
    BY <1>2, <2>1, <2>2 DEF Event, Events
<1>4. PICK old \in Copies : old = tab.shown[id]
  BY <1>1, ShownPast
<1>5. HasBeen(old, Later[id])
  BY <1>4, ShownPast
<1>6. PICK copy : copy = [old EXCEPT !.status = Target[a], !.lifecycle = Append(@, e)]
  OBVIOUS
<1>7. copy \in Copies /\ copy.rev = old.rev /\ Begins(old.lifecycle, copy.lifecycle)
  <2>1. Target[a] \in Statuses
    BY MovesAreActions, MoveIs
  <2>2. Append(old.lifecycle, e) \in Seq(Events) /\ old.lifecycle \in Seq(Events)
    BY <1>3 DEF Copies
  <2>3. copy = [ fields |-> old.fields, status |-> Target[a],
                 lifecycle |-> Append(old.lifecycle, e), rev |-> old.rev ]
    BY <1>6 DEF Copies
  <2>4. copy \in Copies /\ copy.lifecycle = Append(old.lifecycle, e) /\ copy.rev = old.rev
    BY <2>1, <2>2, <2>3 DEF Copies
  <2> QED
    BY <1>3, <2>2, <2>4, BeginsAppended
<1>8. PICK wanted : wanted = [intents EXCEPT ![id].events = @ \cup {e.id}]
  OBVIOUS
<1>9. UserWrites(SaveJob(id, copy), [tab.shown EXCEPT ![id] = copy], wanted)
  BY <1>1, <1>2, <1>4, <1>6, <1>8
<1> QED
  BY <1>5, <1>7, <1>9, EditedPast, SaveCallPast

LEMMA UserRemovePast ==
  ASSUME Turn, UserRemove
  PROVE  PastInv'
<1>1. PICK id \in Ids :
        UserWrites([kind |-> "remove", id |-> id], [tab.shown EXCEPT ![id] = Null],
                   [intents EXCEPT ![id] = NothingWanted(TRUE)])
  BY DEF UserRemove
<1>2. PICK call : call = [kind |-> "remove", id |-> id]
  OBVIOUS
<1>3. call \in Calls /\ CallPast(call, Later)
  BY <1>2 DEF Calls, CallPast
<1>4. PICK shown : shown = [tab.shown EXCEPT ![id] = Null]
  OBVIOUS
<1>5. shown \in Views /\ ViewPast(tab.shown, Later) /\ tab.shown \in Views
  BY <1>4, Carried, ShownIs DEF Turn, Past, PagePast, IsPage
<1>6. \A k \in Ids : shown[k] = IF k = id THEN Null ELSE tab.shown[k]
  BY <1>4, <1>5 DEF Views
<1>7. ViewPast(shown, Later)
  BY <1>5, <1>6 DEF ViewPast, HasBeen
<1>8. PICK wanted : wanted = [intents EXCEPT ![id] = NothingWanted(TRUE)]
  OBVIOUS
<1>9. UserWrites(call, shown, wanted)
  BY <1>1, <1>2, <1>4, <1>8
<1> QED
  BY <1>3, <1>5, <1>7, <1>9, UserPast

LEMMA UserClearPast ==
  ASSUME Turn, UserClear
  PROVE  PastInv'
<1>1. UserWrites([kind |-> "clear"], EmptyStore, [id \in Ids |-> NothingWanted(intents[id].born)])
  BY DEF UserClear
<1>2. PICK call : call = [kind |-> "clear"]
  OBVIOUS
<1>3. call \in Calls /\ CallPast(call, Later)
  BY <1>2 DEF Calls, CallPast
<1>4. PICK shown \in Views : shown = EmptyStore
  BY DEF EmptyStore, Views
<1>5. ViewPast(shown, Later)
  BY <1>4 DEF ViewPast, EmptyStore, HasBeen
<1>6. PICK wanted : wanted = [id \in Ids |-> NothingWanted(intents[id].born)]
  OBVIOUS
<1>7. UserWrites(call, shown, wanted)
  BY <1>1, <1>2, <1>4, <1>6
<1> QED
  BY <1>3, <1>5, <1>7, UserPast

-----------------------------------------------------------------------------
(* The rest of the page and of the world.                                   *)

\* A call for a poll or a load, on a page that shows and remembers the same.
LEMMA CalledForPast ==
  ASSUME Turn, NEW call \in Calls, call.kind \in Background, chain' = Append(chain, call),
         UNCHANGED <<disk, job>>, tab'.shown = tab.shown, tab'.known = tab.known,
         tab'.cache = tab.cache, tab'.outbox = tab.outbox
  PROVE  PastInv'
<1>1. PagePast(tab', Later)
  BY LeftPast DEF PagePast, DiskPast
<1>2. \A i \in DOMAIN chain' : chain'[i] = call \/ (i \in DOMAIN chain /\ chain'[i] = chain[i])
  BY CallIs DEF Turn
<1>3. \A i \in DOMAIN chain' : CallPast(chain'[i], Later)
  BY <1>2, LeftPast DEF CallPast, Background
<1> QED
  BY <1>1, <1>3, LeftPast DEF Turn, PastInv, Later

LEMMA PollTickPast ==
  ASSUME Turn, PollTick
  PROVE  PastInv'
<1>1. PICK call \in Calls : call = [kind |-> "poll"] /\ call.kind = "poll"
  <2>1. [kind |-> "poll"] \in Calls
    BY DEF Calls
  <2> QED
    BY <2>1
<1>2. chain' = Append(chain, call) /\ UNCHANGED <<tab, disk, job>>
  BY <1>1 DEF PollTick
<1> QED
  BY <1>1, <1>2, CalledForPast DEF Background

LEMMA PairPast ==
  ASSUME Turn, Pair
  PROVE  PastInv'
<1>1. PICK call \in Calls : call = [kind |-> "load"] /\ call.kind = "load"
  <2>1. [kind |-> "load"] \in Calls
    BY DEF Calls
  <2> QED
    BY <2>1
<1>2. chain' = Append(chain, call) /\ tab' = [tab EXCEPT !.refused = FALSE] /\ UNCHANGED <<disk, job>>
  BY <1>1 DEF Pair
<1>3. IsPage(tab)
  BY DEF Turn, JournalInv, TypeOK
<1>4. /\ tab'.shown = tab.shown /\ tab'.known = tab.known /\ tab'.cache = tab.cache
      /\ tab'.outbox = tab.outbox
  BY <1>2, <1>3, PageIs DEF PageFields
<1> QED
  BY <1>1, <1>2, <1>4, CalledForPast DEF Background

LEMMA ReloadPast ==
  ASSUME Turn, Reload
  PROVE  PastInv'
<1>1. tab' = FreshTab(disk) /\ chain' = <<[kind |-> "init"]>> /\ job' = Null /\ disk' = disk
  BY DEF Reload
<1>2. /\ tab'.shown = EmptyStore /\ tab'.known = EmptyStore
      /\ tab'.cache = disk.cache /\ tab'.outbox = disk.outbox
  BY <1>1 DEF FreshTab
<1>3. ViewPast(EmptyStore, Later)
  BY DEF ViewPast, EmptyStore, HasBeen
<1>4. PagePast(tab', Later)
  BY <1>2, <1>3, LeftPast DEF PagePast, DiskPast
<1>5. DOMAIN chain' = {1} /\ chain'[1] = [kind |-> "init"]
  BY <1>1
<1>6. \A i \in DOMAIN chain' : CallPast(chain'[i], Later)
  BY <1>5 DEF CallPast
<1> QED
  BY <1>1, <1>4, <1>6, LeftPast DEF Turn, PastInv, Later

LEMMA FillUpPast ==
  ASSUME Turn, FillUp
  PROVE  PastInv'
<1>1. tab' = [tab EXCEPT !.memoryOnly = TRUE] /\ UNCHANGED <<disk, chain, job>> /\ IsPage(tab)
  BY DEF FillUp, Turn, JournalInv, TypeOK
<1>2. /\ tab'.shown = tab.shown /\ tab'.known = tab.known /\ tab'.cache = tab.cache
      /\ tab'.outbox = tab.outbox
  BY <1>1, PageIs DEF PageFields
<1>3. PagePast(tab', Later)
  BY <1>2, LeftPast DEF PagePast, DiskPast
<1> QED
  BY <1>1, <1>3, LeftPast DEF Turn, PastInv, Later

\* Only the server changes, if anything does.
LEMMA ElsewherePast ==
  ASSUME Turn, UNCHANGED <<tab, disk, chain, job>>
  PROVE  PastInv'
BY LeftPast DEF Turn, PastInv, Later

-----------------------------------------------------------------------------
(* Only a stale save takes an event from a record.                          *)

LEMMA PastAtFirst ==
  ASSUME Init
  PROVE  PastInv
<1>1. /\ server \in InitialServer /\ tab = FreshTab(EmptyDisk) /\ disk = EmptyDisk
      /\ chain = <<[kind |-> "init"]>> /\ job = Null
      /\ lives = [id \in Ids |-> IF server[id] = Null THEN 0 ELSE 1]
  BY DEF Init
<1>2. /\ tab.shown = EmptyStore /\ tab.known = EmptyStore
      /\ tab.cache = Null /\ tab.outbox = << >> /\ disk.cache = Null /\ disk.outbox = << >>
  BY <1>1 DEF FreshTab, EmptyDisk
<1>3. PICK v : v = Lived(server, lives)
  OBVIOUS
<1>4. ViewPast(EmptyStore, v) /\ OpsPast(<< >>, v)
  BY DEF ViewPast, EmptyStore, HasBeen, OpsPast
<1>5. PagePast(tab, v) /\ DiskPast(disk, v)
  BY <1>2, <1>4 DEF PagePast, DiskPast
<1>6. DOMAIN chain = {1} /\ chain[1] = [kind |-> "init"]
  BY <1>1
<1>7. \A i \in DOMAIN chain : CallPast(chain[i], v)
  BY <1>6 DEF CallPast
<1>8. Revised(server, lives)
  BY <1>1, InitialServerTyped DEF Revised
<1> QED
  BY <1>1, <1>3, <1>5, <1>7, <1>8 DEF PastInv

LEMMA PastStep ==
  ASSUME Turn, [Next]_vars
  PROVE  PastInv'
<1>1. CASE User
  BY <1>1, UserAddPast, UserEditPast, UserMovePast, UserRemovePast, UserClearPast DEF User
<1>2. CASE Start
  BY <1>2, StartSavePast, StartRemovePast, StartClearPast, StartSyncPast DEF Start
<1>3. CASE Step
  BY <1>3, FetchPast, RefetchPast, SendSavePast, SendMergedPast, SendRemovePast, SendClearPast DEF Step
<1>4. CASE Faults
  BY <1>4, ConnectionLostPast, AnswerUnreadPast, AccessRefusedPast, MergeRefusedPast, WriteRejectedPast
     DEF Faults
<1>5. CASE PollTick \/ Pair \/ Reload \/ FillUp
  BY <1>5, PollTickPast, PairPast, ReloadPast, FillUpPast
<1>6. CASE OtherMove \/ OtherEdit \/ OtherRemove
  <2>1. UNCHANGED <<tab, disk, chain, job>>
    BY <1>6 DEF OtherMove, OtherEdit, OtherRemove, OtherWrites
  <2> QED
    BY <2>1, ElsewherePast
<1>7. CASE UNCHANGED vars
  BY <1>7, ElsewherePast DEF vars
<1> QED
  BY <1>1, <1>2, <1>3, <1>4, <1>5, <1>6, <1>7 DEF Next

LEMMA TurnIs ==
  ASSUME JournalInv, JournalInv', PastInv, [Next]_vars
  PROVE  Turn
<1>1. Steady /\ Revised(server, lives)
  BY EveryStepSteady DEF PastInv
<1> QED
  BY <1>1, SteadyAfter DEF Turn, Later

LEMMA PastAlways == Spec => []PastInv
<1>1. Init => PastInv
  BY PastAtFirst
<1>2. JournalInv /\ JournalInv' /\ PastInv /\ [Next]_vars => PastInv'
  BY TurnIs, PastStep
<1> QED
  BY <1>1, <1>2, JournalAlways, PTL DEF Spec

\* A copy the page holds at the revision of the record has its history.
LEMMA HeldHistory ==
  ASSUME JournalInv, PastInv, NEW id \in Ids, server[id] # Null, lives[id] = 1,
         NEW copy \in Copies, HasBeen(copy, Lived(server, lives)[id]), copy.rev = server[id].rev
  PROVE  Begins(server[id].lifecycle, copy.lifecycle)
<1>1. Lived(server, lives)[id] = server[id] /\ server[id].rev # 0
  BY DEF Lived, PastInv, Revised
<1> QED
  BY <1>1, NullIsNoCopy DEF HasBeen, Continues

LEMMA SavesRewrite ==
  ASSUME JournalInv, PastInv, Sends, job.phase # "merge", job.op.kind = "save",
         NEW id \in Ids, lives[id] = 1, server[id] # Null, ServedRecords[id] # Null,
         ~ Begins(server[id].lifecycle, ServedRecords[id].lifecycle)
  PROVE  job.op.id = id /\ Stale(job.op)
<1> DEFINE op == job.op
<1>0. /\ server \in Views /\ server[id] \in Copies /\ server[id].lifecycle \in Seq(Events)
      /\ op \in OutboxOps /\ op.id \in Ids /\ op.local \in Copies /\ op.base \in Copies \cup {Null}
  BY OpIs DEF JournalInv, TypeOK, Views, Copies, OutboxOps
<1>1. ServedRecords # server
  BY <1>0, BeginsItself
<1>2. /\ Ops!PutOutcome(server[op.id], op.baseRev) = "ok"
      /\ ServedRecords = PutResult(op.id, op.local)
  BY <1>1 DEF ServedRecords
<1>3. op.id = id
  <2> SUFFICES ASSUME op.id # id PROVE FALSE
    OBVIOUS
  <2>1. ServedRecords[id] = server[id]
    BY <1>0, <1>2 DEF PutResult, Views
  <2> QED
    BY <1>0, <2>1, BeginsItself
<1>4. ServedRecords[id].lifecycle = op.local.lifecycle
  <2>1. ServedRecords[id] = Ops!Written(server[id], op.local)
    BY <1>0, <1>2, <1>3 DEF PutResult, Views
  <2> QED
    BY <1>0, <2>1 DEF Ops!Written, Copies
<1>5. op.baseRev = server[id].rev
  BY <1>2, <1>3 DEF Ops!PutOutcome
<1>6. ASSUME NEW copy \in {op.base, op.local} \ {Null}, copy.rev = op.baseRev,
             IsPrefix(copy.lifecycle, op.local.lifecycle)
      PROVE  FALSE
  <2>1. copy \in Copies /\ copy.lifecycle \in Seq(Events) /\ op.local.lifecycle \in Seq(Events)
    BY <1>0 DEF Copies
  <2>2. HasBeen(copy, Lived(server, lives)[id])
    BY <1>3, SentPast DEF OpPast
  <2>3. Begins(server[id].lifecycle, copy.lifecycle)
    BY <1>5, <1>6, <2>1, <2>2, HeldHistory
  <2>4. Begins(copy.lifecycle, op.local.lifecycle)
    BY <1>6, <2>1, BeginsIsPrefix
  <2> QED
    BY <1>0, <1>4, <2>1, <2>3, <2>4, BeginsTwice
<1> QED
  BY <1>3, <1>6 DEF Stale

LEMMA MergesKeep ==
  ASSUME JournalInv, PastInv, Sends, job.phase = "merge",
         NEW id \in Ids, lives[id] = 1, server[id] # Null
  PROVE  Begins(server[id].lifecycle, ServedRecords[id].lifecycle)
<1>0. /\ server \in Views /\ server[id] \in Copies /\ server[id].lifecycle \in Seq(Events)
      /\ job.op.id \in Ids /\ job.current \in Copies /\ job.merged \in Copies
      /\ job.merged = MergeAnnotation(job.op.base, job.op.local, job.current).annotation
      /\ job.op.local \in Copies /\ job.op.base \in Copies \cup {Null}
      /\ HasBeen(job.current, Lived(server, lives)[job.op.id])
  BY MergeJobIs, OpIs DEF JournalInv, TypeOK, Views, Copies, OutboxOps, PastInv, JobPast, Sends
<1>1. CASE ServedRecords[id] = server[id]
  BY <1>0, <1>1, BeginsItself
<1>2. CASE ServedRecords[id] # server[id]
  <2>1. /\ Ops!PutOutcome(server[job.op.id], job.current.rev) = "ok"
        /\ ServedRecords = PutResult(job.op.id, job.merged)
    BY <1>2 DEF ServedRecords
  <2>2. job.op.id = id
    BY <1>0, <1>2, <2>1 DEF PutResult, Views
  <2>3. ServedRecords[id] = Ops!Written(server[id], job.merged)
    BY <1>0, <2>1, <2>2 DEF PutResult, Views
  <2>4. ServedRecords[id].lifecycle = job.merged.lifecycle
    BY <1>0, <2>3 DEF Ops!Written, Copies
  <2>5. job.current.rev = server[id].rev
    BY <2>1, <2>2 DEF Ops!PutOutcome
  <2>6. Begins(server[id].lifecycle, job.current.lifecycle)
    BY <1>0, <2>2, <2>5, HeldHistory
  <2>7. Begins(job.current.lifecycle, job.merged.lifecycle)
    BY <1>0, MergeBegins
  <2>8. job.current.lifecycle \in Seq(Events) /\ job.merged.lifecycle \in Seq(Events)
    BY <1>0 DEF Copies
  <2> QED
    BY <1>0, <2>4, <2>6, <2>7, <2>8, BeginsTwice
<1> QED
  BY <1>1, <1>2

LEMMA RewritesAreStale ==
  ASSUME JournalInv, JournalInv', PastInv, [Next]_vars, NEW id \in Ids, Rewritten(id)
  PROVE  Sending("save") /\ job.op.id = id /\ Stale(job.op)
<1>0. /\ server[id] # Null /\ server'[id] # Null /\ lives[id] = 1
      /\ server[id].lifecycle \in Seq(Events) /\ server'[id].lifecycle \in Seq(Events)
  BY DEF Rewritten, JournalInv, TypeOK, Views, Copies
<1>1. ~ Begins(server[id].lifecycle, server'[id].lifecycle)
  BY <1>0, BeginsIsPrefix DEF Rewritten
<1>2. server' # server
  BY <1>0, <1>1, BeginsItself
<1>3. CASE OtherMove \/ OtherEdit \/ OtherRemove
  <2>1. Appends
    BY <1>3, OtherMoveSteady, OtherEditSteady, OtherRemoveSteady
  <2> QED
    BY <1>0, <1>1, <2>1 DEF Appends
<1>4. CASE Sends /\ server' = ServedRecords
  <2>1. CASE job.phase = "merge"
    BY <1>0, <1>1, <1>4, <2>1, MergesKeep
  <2>2. CASE job.phase # "merge" /\ job.op.kind = "save"
    <3>1. job.op.id = id /\ Stale(job.op)
      BY <1>0, <1>1, <1>4, <2>2, SavesRewrite
    <3> QED
      BY <1>4, <2>2, <3>1 DEF Sending, Sends
  <2>3. CASE job.phase # "merge" /\ job.op.kind # "save"
    <3>1. server' \in {server, [server EXCEPT ![job.op.id] = Null], EmptyStore} /\ server \in Views
      BY <1>4, <2>3 DEF ServedRecords, JournalInv, TypeOK
    <3>2. server'[id] \in {server[id], Null}
      BY <3>1 DEF Views, EmptyStore
    <3> QED
      BY <1>0, <1>1, <3>2, BeginsItself
  <2> QED
    BY <2>1, <2>2, <2>3
<1>5. User => server' = server
  BY DEF User, UserAdd, UserEdit, UserMove, UserRemove, UserClear, UserWrites
<1>6. Start => server' = server
  BY DEF Start, StartSave, StartRemove, StartClear, StartSync, SendOrQueue
<1>7. Step => server' = server \/ (Sends /\ server' = ServedRecords)
  BY DEF Step, Fetch, Refetch, SendSave, SendMerged, SendRemove, SendClear, Serve, Sending, Sends
<1>8. Faults => server' = server \/ (Sends /\ server' = ServedRecords)
  BY DEF Faults, ConnectionLost, AnswerUnread, AccessRefused, MergeRefused, WriteRejected, Fault, Sends
<1>9. PollTick \/ Pair \/ Reload \/ FillUp \/ UNCHANGED vars => server' = server
  BY DEF PollTick, Pair, Reload, FillUp, vars
<1> QED
  BY <1>2, <1>3, <1>4, <1>5, <1>6, <1>7, <1>8, <1>9 DEF Next

(* While the first record of an annotation lives, no step takes an event    *)
(* from its history but the server's taking a stale save: whoever acts, at  *)
(* whatever pace, whatever is lost, refused, rejected, paired, reloaded or  *)
(* created, a merge, its retry and a replay write only on top of all that   *)
(* the server had recorded.                                                 *)
THEOREM HistoriesGrow == Spec => OnlyStaleSavesRewrite
<1> DEFINE Kept == \A id \in Ids : Rewritten(id) => Sending("save") /\ job.op.id = id /\ Stale(job.op)
<1>1. JournalInv /\ JournalInv' /\ PastInv /\ [Next]_vars => Kept
  BY RewritesAreStale
<1>2. Kept => [Kept]_vars
  OBVIOUS
<1> QED
  BY <1>1, <1>2, JournalAlways, PastAlways, PTL DEF Spec, OnlyStaleSavesRewrite

-----------------------------------------------------------------------------
(* A merge of any three copies. *)

\* The copies a merge is given: both begin with the base, if there is one.
Apart(b, l, s) ==
  /\ b \in Annotations \cup {Null} /\ l \in Annotations /\ s \in Annotations
  /\ b # Null => Begins(b.lifecycle, l.lifecycle) /\ Begins(b.lifecycle, s.lifecycle)

\* An id tells which event it is.
SameEvents(l, s) ==
  \A i \in DOMAIN l.lifecycle, j \in DOMAIN s.lifecycle :
    l.lifecycle[i].id = s.lifecycle[j].id => l.lifecycle[i] = s.lifecycle[j]

LEMMA OriginIs ==
  ASSUME NEW b, NEW l, NEW s, Apart(b, l, s)
  PROVE  /\ Origin(b, s) \in Annotations
         /\ Begins(Origin(b, s).lifecycle, s.lifecycle)
         /\ b # Null => Begins(Origin(b, s).lifecycle, l.lifecycle)
<1>1. s.lifecycle \in Seq(Entries)
  BY DEF Apart, Annotations
<1>2. Begins(s.lifecycle, s.lifecycle)
  BY <1>1 DEF Begins
<1> QED
  BY <1>2, NullIsNoAnnotation DEF Origin, Apart

LEMMA ShiftIs ==
  ASSUME NEW n \in Nat, NEW a \in Nat, NEW i \in 1 .. a - n
  PROVE  i \in Nat /\ n + i \in 1 .. a
OBVIOUS

LEMMA ShiftBack ==
  ASSUME NEW n \in Nat, NEW a \in Nat, NEW i \in 1 .. a, ~ (i <= n)
  PROVE  i - n \in 1 .. a - n /\ n + (i - n) = i
OBVIOUS

\* Where the events that are replayed come from, and which ones are not.
LEMMA LocalEventsAre ==
  ASSUME NEW b, NEW l, NEW s, Apart(b, l, s)
  PROVE  LET events == LocalEvents(b, l, s)
         IN  /\ events \in Seq(Entries)
             /\ \A k \in DOMAIN events : \E i \in DOMAIN l.lifecycle : events[k] = l.lifecycle[i]
             /\ \A i \in DOMAIN l.lifecycle :
                  \/ \E j \in DOMAIN s.lifecycle : l.lifecycle[i] = s.lifecycle[j]
                  \/ \E k \in DOMAIN events : l.lifecycle[i] = events[k]
             /\ b # Null /\ NoDuplicates(l.lifecycle) /\ SameEvents(l, s)
                  => /\ NoDuplicates(events)
                     /\ \A k \in DOMAIN events, j \in DOMAIN s.lifecycle :
                          events[k].id # s.lifecycle[j].id
<1> DEFINE o == Origin(b, s).lifecycle
           L == l.lifecycle
           S == s.lifecycle
           extra == EventsAfter(o, L)
           theirs == EventsAfter(o, S)
           events == LocalEvents(b, l, s)
<1>1. o \in Seq(Entries) /\ L \in Seq(Entries) /\ S \in Seq(Entries)
  BY OriginIs DEF Apart, Annotations
<1>2. Begins(o, S) /\ (b # Null => Begins(o, L))
  BY OriginIs
<1>3. events = Without(extra, ToSet(theirs))
  BY DEF LocalEvents
<1>14. extra = EventsAfter(o, L) /\ theirs = EventsAfter(o, S)
  OBVIOUS
<1> HIDE DEF events, extra, theirs, o, L, S
<1>4. PICK n \in Nat :
        /\ n <= Len(o) /\ n <= Len(L) /\ \A i \in 1 .. n : o[i] = L[i]
        /\ Begins(o, L) => n = Len(o)
        /\ extra \in Seq(Entries) /\ Len(extra) = Len(L) - n
        /\ \A i \in 1 .. Len(L) - n : extra[i] = L[n + i]
  <2>1. PICK n \in Nat : Splits(n, Entries, o, L)
    BY <1>1, EventsAfterIs
  <2> QED
    BY <1>14, <2>1 DEF Splits
<1>5. PICK m \in Nat :
        /\ m <= Len(o) /\ m <= Len(S) /\ \A i \in 1 .. m : o[i] = S[i]
        /\ Begins(o, S) => m = Len(o)
        /\ theirs \in Seq(Entries) /\ Len(theirs) = Len(S) - m
        /\ \A i \in 1 .. Len(S) - m : theirs[i] = S[m + i]
  <2>1. PICK m \in Nat : Splits(m, Entries, o, S)
    BY <1>1, EventsAfterIs
  <2> QED
    BY <1>14, <2>1 DEF Splits
<1>6. /\ events \in Seq(Entries)
      /\ \A k \in DOMAIN events : \E i \in DOMAIN extra : events[k] = extra[i] /\ extra[i] \notin ToSet(theirs)
      /\ \A i \in DOMAIN extra : extra[i] \notin ToSet(theirs) => \E k \in DOMAIN events : events[k] = extra[i]
      /\ NoDuplicates(extra) => NoDuplicates(events)
  BY <1>3, <1>4, WithoutIs, WithoutDistinct
<1>7. /\ Len(o) \in Nat /\ Len(L) \in Nat /\ Len(S) \in Nat /\ m = Len(o)
      /\ DOMAIN L = 1 .. Len(L) /\ DOMAIN S = 1 .. Len(S)
      /\ DOMAIN extra = 1 .. Len(L) - n /\ DOMAIN theirs = 1 .. Len(S) - m
      /\ 1 .. Len(extra) = DOMAIN extra
  <2>1. Len(o) \in Nat /\ Len(L) \in Nat /\ Len(S) \in Nat
    BY <1>1
  <2>2. DOMAIN L = 1 .. Len(L) /\ DOMAIN S = 1 .. Len(S)
    BY <1>1
  <2>3. m = Len(o) /\ theirs \in Seq(Entries) /\ Len(theirs) = Len(S) - m
    BY <1>2, <1>5
  <2>5. extra \in Seq(Entries) /\ Len(extra) = Len(L) - n
    BY <1>4
  <2>7. DOMAIN theirs = 1 .. Len(theirs) /\ DOMAIN extra = 1 .. Len(extra)
    BY <2>3, <2>5
  <2>4. DOMAIN theirs = 1 .. Len(S) - m
    BY <2>3, <2>7, Zenon
  <2>6. DOMAIN extra = 1 .. Len(L) - n /\ 1 .. Len(extra) = DOMAIN extra
    BY <2>5, <2>7, Zenon
  <2> QED
    BY <2>1, <2>2, <2>3, <2>4, <2>6
<1>15. Len(L) \in Nat /\ DOMAIN L = 1 .. Len(L) /\ DOMAIN extra = 1 .. Len(L) - n
  BY <1>7, Zenon
<1>16. Len(S) \in Nat /\ DOMAIN S = 1 .. Len(S) /\ DOMAIN theirs = 1 .. Len(S) - m
  BY <1>7, Zenon
<1>8. \A k \in DOMAIN events : \E i \in DOMAIN extra : events[k] = extra[i] /\ extra[i] \notin ToSet(theirs)
  BY <1>6
<1>9. ASSUME NEW i \in DOMAIN extra
      PROVE  i \in Nat /\ n + i \in DOMAIN L /\ extra[i] = L[n + i]
  <2>1. i \in 1 .. Len(L) - n
    BY <1>9, <1>15, Zenon
  <2>2. i \in Nat /\ n + i \in 1 .. Len(L)
    BY <1>15, <2>1, ShiftIs, Zenon
  <2>3. extra[i] = L[n + i]
    BY <1>4, <2>1, Zenon
  <2> QED
    BY <1>15, <2>2, <2>3, Zenon
<1>10. \A k \in DOMAIN events : \E i \in DOMAIN L : events[k] = L[i]
  BY <1>8, <1>9
<1>11. ASSUME NEW i \in DOMAIN L
       PROVE  \/ \E j \in DOMAIN S : L[i] = S[j]
              \/ \E k \in DOMAIN events : L[i] = events[k]
  <2>1. CASE i <= n
    <3>1. i \in 1 .. n /\ i \in 1 .. m /\ i \in DOMAIN S
      BY <1>4, <1>5, <1>7, <2>1
    <3>2. L[i] = S[i]
      BY <1>4, <1>5, <3>1
    <3> QED
      BY <3>1, <3>2
  <2>2. CASE ~ (i <= n)
    <3>0. i \in 1 .. Len(L)
      BY <1>15, Zenon
    <3>5. i - n \in 1 .. Len(L) - n /\ n + (i - n) = i
      BY <1>15, <2>2, <3>0, ShiftBack, Zenon
    <3>1. i - n \in DOMAIN extra /\ n + (i - n) = i
      BY <1>15, <3>5, Zenon
    <3>2. extra[i - n] = L[i]
      BY <1>9, <3>1, Zenon
    <3>3. CASE L[i] \in ToSet(theirs)
      <4>1. PICK j \in DOMAIN theirs : theirs[j] = L[i]
        BY <3>3 DEF ToSet
      <4>0. j \in 1 .. Len(S) - m
        BY <1>16, Zenon
      <4>2. m + j \in DOMAIN S /\ theirs[j] = S[m + j]
        BY <1>5, <1>16, <4>0, ShiftIs, Zenon
      <4> QED
        BY <4>1, <4>2
    <3>4. CASE L[i] \notin ToSet(theirs)
      <4>1. \E k \in DOMAIN events : events[k] = extra[i - n]
        BY <1>6, <3>1, <3>2, <3>4
      <4> QED
        BY <3>2, <4>1
    <3> QED
      BY <3>3, <3>4
  <2> QED
    BY <2>1, <2>2
<1>12. ASSUME b # Null, NoDuplicates(L), SameEvents(l, s)
       PROVE  /\ NoDuplicates(events)
              /\ \A k \in DOMAIN events, j \in DOMAIN S : events[k].id # S[j].id
  <2>1. NoDuplicates(extra)
    <3> SUFFICES ASSUME NEW i \in DOMAIN extra, NEW j \in DOMAIN extra, extra[i].id = extra[j].id
                 PROVE  i = j
      BY DEF NoDuplicates
    <3>1. n + i \in DOMAIN L /\ n + j \in DOMAIN L /\ L[n + i].id = L[n + j].id
      BY <1>9
    <3>2. n + i = n + j
      BY <1>12, <3>1 DEF NoDuplicates
    <3>3. i \in Nat /\ j \in Nat
      BY <1>9
    <3> QED
      BY <3>2, <3>3
  <2>2. NoDuplicates(events)
    BY <1>6, <2>1
  <2>3. n = Len(o) /\ n = m
    BY <1>2, <1>4, <1>7, <1>12
  <2>4. ASSUME NEW k \in DOMAIN events, NEW j \in DOMAIN S, events[k].id = S[j].id
        PROVE  FALSE
    <3>1. PICK i \in DOMAIN extra : events[k] = extra[i] /\ extra[i] \notin ToSet(theirs)
      BY <1>8
    <3>0. i \in 1 .. (Len(L) - n) /\ Len(L) \in Nat /\ n \in Nat
      BY <1>7, Zenon
    <3>2. i \in Nat /\ i > 0 /\ n + i \in DOMAIN L /\ extra[i] = L[n + i]
      BY <1>9, <3>0
    <3>3. L[n + i] = S[j]
      BY <1>12, <2>4, <3>1, <3>2 DEF SameEvents, L, S
    <3>4. CASE j <= n
      <4>1. j \in 1 .. n /\ j \in DOMAIN L
        BY <1>4, <1>7, <3>4
      <4>2. S[j] = L[j]
        BY <1>4, <1>5, <2>3, <4>1
      <4>3. j = n + i
        BY <1>12, <3>2, <3>3, <4>1, <4>2 DEF NoDuplicates
      <4> QED
        BY <3>2, <3>4, <4>3
    <3>5. CASE ~ (j <= n)
      <4>0. j \in 1 .. Len(S)
        BY <1>16, Zenon
      <4>5. ~ (j <= m)
        BY <2>3, <3>5
      <4>1. j - m \in 1 .. Len(S) - m /\ m + (j - m) = j
        BY <1>16, <4>0, <4>5, ShiftBack, Zenon
      <4>2. theirs[j - m] = S[j]
        BY <1>5, <4>1, Zenon
      <4>6. j - m \in DOMAIN theirs
        BY <1>16, <4>1, Zenon
      <4>3. S[j] \in ToSet(theirs)
        BY <4>2, <4>6 DEF ToSet
      <4>4. events[k] = S[j]
        BY <3>1, <3>2, <3>3, Zenon
      <4> QED
        BY <3>1, <4>3, <4>4, Zenon
    <3> QED
      BY <3>4, <3>5
  <2> QED
    BY <2>2, <2>4
<1>13. events \in Seq(Entries)
  BY <1>6
<1> QED
  BY <1>10, <1>11, <1>12, <1>13 DEF events, L, S


\* What a merge makes of the histories.
LEMMA MergedHistory ==
  ASSUME NEW b, NEW l, NEW s, Apart(b, l, s)
  PROVE  LET history == MergeLifecycle(b, l, s)
         IN  /\ history \in Histories(Entries)
             /\ Begins(s.lifecycle, history.lifecycle)
             /\ \A j \in DOMAIN history.lifecycle :
                  \/ j \in DOMAIN s.lifecycle /\ history.lifecycle[j] = s.lifecycle[j]
                  \/ \E i \in DOMAIN l.lifecycle : history.lifecycle[j] = l.lifecycle[i]
             /\ \A i \in DOMAIN l.lifecycle :
                  \/ \E j \in DOMAIN history.lifecycle : l.lifecycle[i] = history.lifecycle[j]
                  \/ \E j \in DOMAIN history.dropped : l.lifecycle[i] = history.dropped[j]
             /\ Explained(s.status, s.lifecycle) => Explained(history.status, history.lifecycle)
             /\ /\ b # Null /\ NoDuplicates(l.lifecycle) /\ SameEvents(l, s)
                /\ NoDuplicates(s.lifecycle)
                => NoDuplicates(history.lifecycle)
<1> DEFINE first == [status |-> s.status, lifecycle |-> s.lifecycle, dropped |-> << >>]
           events == LocalEvents(b, l, s)
           history == MergeLifecycle(b, l, s)
<1>1. history = FoldLeft(MergeEvent, first, events)
  BY DEF MergeLifecycle
<1>2. first \in Histories(Entries) /\ first.status = s.status /\ first.lifecycle = s.lifecycle
  BY DEF Histories, Apart, Annotations
<1>3. events \in Seq(Entries)
  BY LocalEventsAre
<1>4. \A k \in DOMAIN events : \E i \in DOMAIN l.lifecycle : events[k] = l.lifecycle[i]
  BY LocalEventsAre
<1>5. \A i \in DOMAIN l.lifecycle :
        \/ \E j \in DOMAIN s.lifecycle : l.lifecycle[i] = s.lifecycle[j]
        \/ \E k \in DOMAIN events : l.lifecycle[i] = events[k]
  BY LocalEventsAre
<1>6. b # Null /\ NoDuplicates(l.lifecycle) /\ SameEvents(l, s)
        => /\ NoDuplicates(events)
           /\ \A k \in DOMAIN events, j \in DOMAIN s.lifecycle : events[k].id # s.lifecycle[j].id
  BY LocalEventsAre
<1> HIDE DEF first, events, history
<1>7. IsReplayed(history, Entries, first, events, Len(events))
  BY <1>1, <1>2, <1>3, ReplayKeeps
<1>8. /\ DOMAIN events = 1 .. Len(events)
      /\ s.lifecycle \in Seq(Entries) /\ DOMAIN s.lifecycle = 1 .. Len(s.lifecycle)
      /\ Len(s.lifecycle) \in Nat
  BY <1>3 DEF Apart, Annotations
<1>9. history \in Histories(Entries) /\ Begins(s.lifecycle, history.lifecycle)
  BY <1>2, <1>7 DEF IsReplayed
<1>10. history.lifecycle \in Seq(Entries) /\ DOMAIN history.lifecycle = 1 .. Len(history.lifecycle)
       /\ Len(history.lifecycle) \in Nat
  BY <1>9 DEF Histories
<1>11. \A j \in DOMAIN s.lifecycle : j \in DOMAIN history.lifecycle /\ history.lifecycle[j] = s.lifecycle[j]
  BY <1>8, <1>9, <1>10 DEF Begins
<1>12. ASSUME NEW j \in DOMAIN history.lifecycle, j \notin DOMAIN s.lifecycle
       PROVE  \E i \in DOMAIN l.lifecycle : history.lifecycle[j] = l.lifecycle[i]
  <2>1. j \in Len(s.lifecycle) + 1 .. Len(history.lifecycle)
    BY <1>8, <1>10, <1>12
  <2>2. PICK k \in 1 .. Len(events) : history.lifecycle[j] = events[k]
    BY <1>2, <1>7, <2>1 DEF IsReplayed
  <2> QED
    BY <1>4, <1>8, <2>2
<1>13. ASSUME NEW i \in DOMAIN l.lifecycle
       PROVE  \/ \E j \in DOMAIN history.lifecycle : l.lifecycle[i] = history.lifecycle[j]
              \/ \E j \in DOMAIN history.dropped : l.lifecycle[i] = history.dropped[j]
  <2>1. CASE \E j \in DOMAIN s.lifecycle : l.lifecycle[i] = s.lifecycle[j]
    BY <1>11, <2>1
  <2>2. CASE \E k \in DOMAIN events : l.lifecycle[i] = events[k]
    <3>1. PICK k \in 1 .. Len(events) : l.lifecycle[i] = events[k]
      BY <1>8, <2>2
    <3>2. \/ \E j \in DOMAIN history.lifecycle : history.lifecycle[j] = events[k]
          \/ \E j \in DOMAIN history.dropped : history.dropped[j] = events[k]
      BY <1>7 DEF IsReplayed
    <3> QED
      BY <3>1, <3>2
  <2> QED
    BY <1>5, <2>1, <2>2
<1>14. Explained(s.status, s.lifecycle) => Explained(history.status, history.lifecycle)
  BY <1>2, <1>7 DEF IsReplayed, Explained
<1>15. ASSUME b # Null, NoDuplicates(l.lifecycle), SameEvents(l, s), NoDuplicates(s.lifecycle)
       PROVE  NoDuplicates(history.lifecycle)
  <2>1. AreNew(first, events)
    BY <1>2, <1>6, <1>15 DEF AreNew
  <2> QED
    BY <1>7, <2>1 DEF IsReplayed
<1>16. \A j \in DOMAIN history.lifecycle :
         \/ j \in DOMAIN s.lifecycle /\ history.lifecycle[j] = s.lifecycle[j]
         \/ \E i \in DOMAIN l.lifecycle : history.lifecycle[j] = l.lifecycle[i]
  BY <1>11, <1>12
<1> QED
  BY <1>9, <1>13, <1>14, <1>15, <1>16 DEF history

\* The copy a merge makes, part by part.
LEMMA MergedCopy ==
  ASSUME NEW b, NEW l, NEW s, Apart(b, l, s)
  PROVE  LET result  == MergeAnnotation(b, l, s)
             history == MergeLifecycle(b, l, s)
         IN  /\ result.annotation \in Annotations
             /\ result.annotation.fields = MergeFields(b, l, s)
             /\ result.annotation.status = history.status
             /\ result.annotation.lifecycle = history.lifecycle
             /\ result.annotation.rev = s.rev
             /\ result.dropped.fields = DroppedFields(b, l, s)
             /\ result.dropped.events = history.dropped
<1> DEFINE history == MergeLifecycle(b, l, s)
<1>1. history \in Histories(Entries)
  BY MergedHistory
<1>2. MergeFields(b, l, s) \in [Fields -> Texts]
  BY DEF MergeFields, Apart, Annotations
<1>3. s.rev \in Nat
  BY DEF Apart, Annotations
<1> HIDE DEF history
<1>4. [fields |-> MergeFields(b, l, s), status |-> history.status,
       lifecycle |-> history.lifecycle, rev |-> s.rev] \in Annotations
  BY <1>1, <1>2, <1>3 DEF Annotations, Histories
<1> QED
  BY <1>4 DEF MergeAnnotation, history

-----------------------------------------------------------------------------
(* The copies in every state. *)

\* The ids given out so far are those up to the clock.
Dated(copy) == \A i \in DOMAIN copy.lifecycle : copy.lifecycle[i].id <= eventClock

\* The inductive invariant.
MInv ==
  /\ Apart(baseCopy, localCopy, serverCopy) /\ eventClock \in Nat
  /\ Dated(localCopy) /\ Dated(serverCopy)
  /\ Explained(serverCopy.status, serverCopy.lifecycle)
  /\ NoDuplicates(localCopy.lifecycle)
  /\ SameEvents(localCopy, serverCopy)
  /\ baseCopy # Null => NoDuplicates(serverCopy.lifecycle)


LEMMA MInvInitially == StartsAlike => MInv
<1> SUFFICES ASSUME StartsAlike PROVE MInv
  OBVIOUS
<1>1. PICK fs \in {[f \in Fields |-> v] : v \in Texts}, st \in {"draft", "pending"} :
        serverCopy = [fields |-> fs, status |-> st, lifecycle |-> <<Entry("created", 0)>>, rev |-> 1]
  BY DEF StartsAlike, Annotations0
<1> DEFINE L == <<Entry("created", 0)>>
<1>2. /\ L \in Seq(Entries) /\ Len(L) = 1 /\ DOMAIN L = 1 .. 1 /\ L[1].id = 0 /\ L[1].type = "created"
      /\ L[1] \in Entries
  BY DEF Entries, Entry, EventTypes
<1>3. fs \in [Fields -> Texts] /\ st \in Statuses
  BY <1>1 DEF Statuses
<1>4. serverCopy.lifecycle = L /\ serverCopy.status = st
  BY <1>1
<1>5. serverCopy \in Annotations
  BY <1>1, <1>2, <1>3 DEF Annotations
<1>6. StatusAfter(st, L) = st
  BY <1>2, CreatedExplained
<1> HIDE DEF L
<1>7. /\ baseCopy \in {serverCopy, Null} /\ localCopy = serverCopy /\ eventClock = 0
  BY DEF StartsAlike
<1>8. Begins(L, L)
  BY <1>2 DEF Begins
<1>9. Apart(baseCopy, localCopy, serverCopy)
  BY <1>4, <1>5, <1>7, <1>8 DEF Apart
<1>10. Dated(localCopy) /\ Dated(serverCopy)
  BY <1>2, <1>4, <1>7 DEF Dated
<1>11. NoDuplicates(L) /\ SameEvents(serverCopy, serverCopy)
  BY <1>2, <1>4 DEF NoDuplicates, SameEvents
<1>12. Explained(serverCopy.status, serverCopy.lifecycle)
  BY <1>4, <1>6 DEF Explained
<1> QED
  BY <1>4, <1>7, <1>9, <1>10, <1>11, <1>12 DEF MInv

LEMMA EditIs ==
  ASSUME NEW copy \in Annotations, NEW f \in Fields, NEW v \in Texts
  PROVE  /\ EditedCopy(copy, f, v) \in Annotations
         /\ EditedCopy(copy, f, v).lifecycle = copy.lifecycle
         /\ EditedCopy(copy, f, v).status = copy.status
<1>1. [copy.fields EXCEPT ![f] = v] \in [Fields -> Texts]
  BY DEF Annotations
<1>2. EditedCopy(copy, f, v) = [copy EXCEPT !.fields = [copy.fields EXCEPT ![f] = v]]
  BY DEF EditedCopy
<1> QED
  BY <1>1, <1>2 DEF Annotations

LEMMA RevIs ==
  ASSUME NEW copy \in Annotations
  PROVE  LET after == [copy EXCEPT !.rev = @ + 1]
         IN  /\ after \in Annotations
             /\ after.lifecycle = copy.lifecycle /\ after.status = copy.status
<1>1. copy.rev + 1 \in Nat
  BY DEF Annotations
<1> QED
  BY <1>1 DEF Annotations

\* The event of an action leads from a status to where the action does.
LEMMA ReplayOfAction ==
  ASSUME NEW a \in Actions, NEW status \in Sources[a]
  PROVE  ReplayEvent(status, EventOf[a]) = Target[a] /\ EventOf[a] # "created"
<1>1. \A b \in Actions : EventOf[b] = EventOf[a] => b = a
  BY DEF EventOf, Actions
<1>2. (CHOOSE b \in Actions : EventOf[b] = EventOf[a]) = a
  BY <1>1
<1>3. EventOf[a] # "created"
  BY DEF EventOf, Actions
<1> QED
  BY <1>2, <1>3 DEF ReplayEvent, NextStatus

LEMMA MovedCopyIs ==
  ASSUME NEW copy \in Annotations, NEW a \in Actions, copy.status \in Sources[a], eventClock \in Nat
  PROVE  LET after == MovedCopy(copy, a)
             e     == Entry(EventOf[a], eventClock + 1)
         IN  /\ after \in Annotations /\ e \in Entries
             /\ after.lifecycle = Append(copy.lifecycle, e)
             /\ Explained(copy.status, copy.lifecycle) => Explained(after.status, after.lifecycle)
<1> DEFINE e == Entry(EventOf[a], eventClock + 1)
           next == NextStatus(copy.status, a)
           after == [copy EXCEPT !.status = next, !.lifecycle = Append(@, e)]
<1>1. MovedCopy(copy, a) = after
  BY DEF MovedCopy
<1>2. next = Target[a] /\ next \in Statuses
  BY DEF NextStatus, Target, Actions, Statuses
<1>3. e \in Entries /\ e.type = EventOf[a]
  <2>1. EventOf[a] \in EventTypes
    BY DEF EventTypes, TransitionEvents
  <2> QED
    BY <2>1 DEF Entry, Entries
<1> HIDE DEF next, e
<1>4. DOMAIN after = {"fields", "status", "lifecycle", "rev"}
  BY DEF Annotations
<1>5. /\ after.status = next /\ after.lifecycle = Append(copy.lifecycle, e)
      /\ after.fields = copy.fields /\ after.rev = copy.rev
  BY DEF Annotations
<1>6. /\ Append(copy.lifecycle, e) \in Seq(Entries) /\ copy.lifecycle \in Seq(Entries)
      /\ copy.fields \in [Fields -> Texts] /\ copy.rev \in Nat
  BY <1>3 DEF Annotations
<1>7. after = [f \in DOMAIN after |-> after[f]]
  BY DEF Annotations
<1> HIDE DEF after
<1>8. after \in Annotations
  BY <1>2, <1>4, <1>5, <1>6, <1>7 DEF Annotations
<1>9. ASSUME Explained(copy.status, copy.lifecycle)
      PROVE  Explained(after.status, after.lifecycle)
  <2>1. PICK s \in {"draft", "pending"} : StatusAfter(s, copy.lifecycle) = copy.status
    BY <1>9 DEF Explained
  <2>2. s \in Reachable
    BY DEF Reachable, Statuses
  <2>3. StatusAfter(s, Append(copy.lifecycle, e)) = Replayed(copy.status, e)
    BY <1>3, <1>6, <2>1, <2>2, StatusAppend
  <2>4. Replayed(copy.status, e) = Target[a]
    BY <1>3, ReplayOfAction DEF Replayed
  <2> QED
    BY <1>2, <1>5, <2>3, <2>4 DEF Explained
<1> QED
  BY <1>1, <1>3, <1>5, <1>8, <1>9 DEF e

\* A copy with one more event, of an id that was not given out yet.
Lengthens(copy, after) ==
  /\ after \in Annotations
  /\ \E e \in Entries : e.id = eventClock + 1 /\ after.lifecycle = Append(copy.lifecycle, e)

LEMMA GrowsIs ==
  ASSUME NEW copy \in Annotations, NEW after, Lengthens(copy, after)
  PROVE  /\ Len(after.lifecycle) = Len(copy.lifecycle) + 1
         /\ after.lifecycle[Len(copy.lifecycle) + 1].id = eventClock + 1
         /\ \A i \in DOMAIN copy.lifecycle :
              i \in DOMAIN after.lifecycle /\ after.lifecycle[i] = copy.lifecycle[i]
         /\ \A i \in DOMAIN after.lifecycle :
              i \in DOMAIN copy.lifecycle \/ i = Len(copy.lifecycle) + 1
         /\ \A r \in Seq(Entries) : Begins(r, copy.lifecycle) => Begins(r, after.lifecycle)
<1>1. PICK e \in Entries : e.id = eventClock + 1 /\ after.lifecycle = Append(copy.lifecycle, e)
  BY DEF Lengthens
<1> DEFINE L == copy.lifecycle
<1>2. L \in Seq(Entries)
  BY DEF Annotations
<1> HIDE DEF L
<1> DEFINE M == Append(L, e)
<1>3. /\ Len(M) = Len(L) + 1 /\ M[Len(L) + 1] = e /\ Len(L) \in Nat
      /\ DOMAIN L = 1 .. Len(L) /\ DOMAIN M = 1 .. Len(L) + 1
      /\ \A i \in 1 .. Len(L) : M[i] = L[i]
  BY <1>2
<1> HIDE DEF M
<1>4. \A i \in DOMAIN L : i \in DOMAIN M /\ M[i] = L[i]
  BY <1>3
<1>5. \A i \in DOMAIN M : i \in DOMAIN L \/ i = Len(L) + 1
  BY <1>3
<1>6. ASSUME NEW r \in Seq(Entries), Begins(r, L) PROVE Begins(r, M)
  <2>1. Len(r) \in Nat
    OBVIOUS
  <2> QED
    BY <1>3, <1>6, <2>1 DEF Begins
<1>7. after.lifecycle = M
  BY <1>1 DEF M, L
<1> QED
  BY <1>1, <1>3, <1>4, <1>5, <1>6, <1>7 DEF L



LEMMA LocalEditKeeps == MInv /\ LocalEdit => MInv'
<1> SUFFICES ASSUME MInv, LocalEdit PROVE MInv'
  OBVIOUS
<1>1. PICK f \in Fields, v \in Texts : localCopy' = EditedCopy(localCopy, f, v)
  BY DEF LocalEdit
<1>2. localCopy' \in Annotations /\ localCopy'.lifecycle = localCopy.lifecycle
  BY <1>1, EditIs DEF MInv, Apart
<1>3. UNCHANGED <<baseCopy, serverCopy, eventClock>>
  BY DEF LocalEdit
<1> QED
  BY <1>2, <1>3 DEF MInv, Apart, SameEvents, Dated

LEMMA ServerEditKeeps == MInv /\ ServerEdit => MInv'
<1> SUFFICES ASSUME MInv, ServerEdit PROVE MInv'
  OBVIOUS
<1>1. PICK f \in Fields, v \in Texts : serverCopy' = [EditedCopy(serverCopy, f, v) EXCEPT !.rev = @ + 1]
  BY DEF ServerEdit
<1>2. serverCopy \in Annotations
  BY DEF MInv, Apart
<1>3. /\ EditedCopy(serverCopy, f, v) \in Annotations
      /\ EditedCopy(serverCopy, f, v).lifecycle = serverCopy.lifecycle
      /\ EditedCopy(serverCopy, f, v).status = serverCopy.status
  BY <1>2, EditIs
<1>4. /\ serverCopy' \in Annotations
      /\ serverCopy'.lifecycle = serverCopy.lifecycle /\ serverCopy'.status = serverCopy.status
  BY <1>1, <1>3, RevIs
<1>5. UNCHANGED <<baseCopy, localCopy, eventClock>>
  BY DEF ServerEdit
<1> QED
  BY <1>4, <1>5 DEF MInv, Apart, SameEvents, Dated

LEMMA LocalTransitionKeeps == MInv /\ LocalTransition => MInv'
<1> SUFFICES ASSUME MInv, LocalTransition PROVE MInv'
  OBVIOUS
<1>1. PICK a \in Actions : localCopy.status \in Sources[a] /\ localCopy' = MovedCopy(localCopy, a)
  BY DEF LocalTransition
<1>2. /\ UNCHANGED <<baseCopy, serverCopy>>
      /\ eventClock' = eventClock + 1 /\ eventClock \in Nat /\ eventClock' \in Nat
  BY DEF LocalTransition, MInv
<1>3. localCopy \in Annotations /\ serverCopy \in Annotations
  BY DEF MInv, Apart
<1>4. Lengthens(localCopy, localCopy')
  <2>1. /\ localCopy' \in Annotations /\ Entry(EventOf[a], eventClock + 1) \in Entries
        /\ localCopy'.lifecycle = Append(localCopy.lifecycle, Entry(EventOf[a], eventClock + 1))
    BY <1>1, <1>2, <1>3, MovedCopyIs
  <2>2. Entry(EventOf[a], eventClock + 1).id = eventClock + 1
    BY DEF Entry
  <2> QED
    BY <2>1, <2>2 DEF Lengthens
<1> DEFINE n == Len(localCopy.lifecycle) + 1
<1>5. /\ localCopy'.lifecycle[n].id = eventClock + 1
      /\ \A i \in DOMAIN localCopy.lifecycle :
           i \in DOMAIN localCopy'.lifecycle /\ localCopy'.lifecycle[i] = localCopy.lifecycle[i]
      /\ \A i \in DOMAIN localCopy'.lifecycle : i \in DOMAIN localCopy.lifecycle \/ i = n
      /\ \A r \in Seq(Entries) : Begins(r, localCopy.lifecycle) => Begins(r, localCopy'.lifecycle)
  BY <1>3, <1>4, GrowsIs
<1> HIDE DEF n
<1>6. localCopy' \in Annotations
  BY <1>4 DEF Lengthens
<1>7. Apart(baseCopy, localCopy', serverCopy)
  BY <1>5, <1>6 DEF MInv, Apart, Annotations
<1>8. /\ \A i \in DOMAIN localCopy.lifecycle :
           localCopy.lifecycle[i].id \in Nat /\ localCopy.lifecycle[i].id <= eventClock
      /\ \A i \in DOMAIN serverCopy.lifecycle :
           serverCopy.lifecycle[i].id \in Nat /\ serverCopy.lifecycle[i].id <= eventClock
  <2>1. localCopy.lifecycle \in Seq(Entries) /\ serverCopy.lifecycle \in Seq(Entries)
    BY <1>3 DEF Annotations
  <2>2. /\ \A i \in DOMAIN localCopy.lifecycle : localCopy.lifecycle[i] \in Entries
        /\ \A i \in DOMAIN serverCopy.lifecycle : serverCopy.lifecycle[i] \in Entries
    BY <2>1
  <2> QED
    BY <2>2 DEF MInv, Dated, Entries
<1>9. \A i \in DOMAIN localCopy'.lifecycle : localCopy'.lifecycle[i].id <= eventClock + 1
  BY <1>2, <1>5, <1>8
<1>10. \A i \in DOMAIN serverCopy.lifecycle : serverCopy.lifecycle[i].id <= eventClock + 1
  BY <1>2, <1>8
<1>11. NoDuplicates(localCopy'.lifecycle)
  <2>1. \A i \in DOMAIN localCopy.lifecycle : localCopy.lifecycle[i].id # eventClock + 1
    BY <1>2, <1>8
  <2>2. NoDuplicates(localCopy.lifecycle)
    BY DEF MInv
  <2> QED
    BY <1>5, <2>1, <2>2 DEF NoDuplicates
<1>12. SameEvents(localCopy', serverCopy)
  <2>1. \A j \in DOMAIN serverCopy.lifecycle : serverCopy.lifecycle[j].id # eventClock + 1
    BY <1>2, <1>8
  <2>2. SameEvents(localCopy, serverCopy)
    BY DEF MInv
  <2> QED
    BY <1>5, <2>1, <2>2 DEF SameEvents
<1> QED
  BY <1>2, <1>7, <1>9, <1>10, <1>11, <1>12 DEF MInv, Dated, Apart, SameEvents

LEMMA ServerTransitionKeeps == MInv /\ ServerTransition => MInv'
<1> SUFFICES ASSUME MInv, ServerTransition PROVE MInv'
  OBVIOUS
<1>1. PICK a \in Actions : /\ serverCopy.status \in Sources[a]
                           /\ serverCopy' = [MovedCopy(serverCopy, a) EXCEPT !.rev = @ + 1]
  BY DEF ServerTransition
<1>2. /\ UNCHANGED <<baseCopy, localCopy>>
      /\ eventClock' = eventClock + 1 /\ eventClock \in Nat /\ eventClock' \in Nat
  BY DEF ServerTransition, MInv
<1>3. localCopy \in Annotations /\ serverCopy \in Annotations
  BY DEF MInv, Apart
<1>4. /\ MovedCopy(serverCopy, a) \in Annotations /\ Entry(EventOf[a], eventClock + 1) \in Entries
      /\ MovedCopy(serverCopy, a).lifecycle = Append(serverCopy.lifecycle, Entry(EventOf[a], eventClock + 1))
      /\ Explained(MovedCopy(serverCopy, a).status, MovedCopy(serverCopy, a).lifecycle)
  BY <1>1, <1>2, <1>3, MovedCopyIs DEF MInv
<1>5. /\ serverCopy' \in Annotations
      /\ serverCopy'.lifecycle = Append(serverCopy.lifecycle, Entry(EventOf[a], eventClock + 1))
      /\ Explained(serverCopy'.status, serverCopy'.lifecycle)
  <2>1. /\ serverCopy' \in Annotations
        /\ serverCopy'.lifecycle = MovedCopy(serverCopy, a).lifecycle
        /\ serverCopy'.status = MovedCopy(serverCopy, a).status
    BY <1>1, <1>4, RevIs
  <2> QED
    BY <1>4, <2>1
<1>6. Lengthens(serverCopy, serverCopy')
  <2>1. Entry(EventOf[a], eventClock + 1).id = eventClock + 1
    BY DEF Entry
  <2> QED
    BY <1>4, <1>5, <2>1 DEF Lengthens
<1> DEFINE n == Len(serverCopy.lifecycle) + 1
<1>7. /\ serverCopy'.lifecycle[n].id = eventClock + 1
      /\ \A i \in DOMAIN serverCopy.lifecycle :
           i \in DOMAIN serverCopy'.lifecycle /\ serverCopy'.lifecycle[i] = serverCopy.lifecycle[i]
      /\ \A i \in DOMAIN serverCopy'.lifecycle : i \in DOMAIN serverCopy.lifecycle \/ i = n
      /\ \A r \in Seq(Entries) : Begins(r, serverCopy.lifecycle) => Begins(r, serverCopy'.lifecycle)
  BY <1>3, <1>6, GrowsIs
<1> HIDE DEF n
<1>8. Apart(baseCopy, localCopy, serverCopy')
  BY <1>5, <1>7 DEF MInv, Apart, Annotations
<1>9. /\ \A i \in DOMAIN localCopy.lifecycle :
           localCopy.lifecycle[i].id \in Nat /\ localCopy.lifecycle[i].id <= eventClock
      /\ \A i \in DOMAIN serverCopy.lifecycle :
           serverCopy.lifecycle[i].id \in Nat /\ serverCopy.lifecycle[i].id <= eventClock
  <2>1. localCopy.lifecycle \in Seq(Entries) /\ serverCopy.lifecycle \in Seq(Entries)
    BY <1>3 DEF Annotations
  <2>2. /\ \A i \in DOMAIN localCopy.lifecycle : localCopy.lifecycle[i] \in Entries
        /\ \A i \in DOMAIN serverCopy.lifecycle : serverCopy.lifecycle[i] \in Entries
    BY <2>1
  <2> QED
    BY <2>2 DEF MInv, Dated, Entries
<1>10. \A i \in DOMAIN serverCopy'.lifecycle : serverCopy'.lifecycle[i].id <= eventClock + 1
  BY <1>2, <1>7, <1>9
<1>11. \A i \in DOMAIN localCopy.lifecycle : localCopy.lifecycle[i].id <= eventClock + 1
  BY <1>2, <1>9
<1>12. baseCopy # Null => NoDuplicates(serverCopy'.lifecycle)
  <2> SUFFICES ASSUME baseCopy # Null PROVE NoDuplicates(serverCopy'.lifecycle)
    OBVIOUS
  <2>1. \A i \in DOMAIN serverCopy.lifecycle : serverCopy.lifecycle[i].id # eventClock + 1
    BY <1>2, <1>9
  <2>2. NoDuplicates(serverCopy.lifecycle)
    BY DEF MInv
  <2> QED
    BY <1>7, <2>1, <2>2 DEF NoDuplicates
<1>13. SameEvents(localCopy, serverCopy')
  <2>1. \A i \in DOMAIN localCopy.lifecycle : localCopy.lifecycle[i].id # eventClock + 1
    BY <1>2, <1>9
  <2>2. SameEvents(localCopy, serverCopy)
    BY DEF MInv
  <2> QED
    BY <1>7, <2>1, <2>2 DEF SameEvents
<1>14. NoDuplicates(localCopy.lifecycle)
  BY DEF MInv
<1> QED
  BY <1>2, <1>5, <1>8, <1>10, <1>11, <1>12, <1>13, <1>14 DEF MInv, Dated, Apart, SameEvents

LEMMA WriteBackKeeps == MInv /\ WriteBack => MInv'
<1> SUFFICES ASSUME MInv, WriteBack PROVE MInv'
  OBVIOUS
<1> DEFINE result == MergeAnnotation(baseCopy, localCopy, serverCopy)
           S == serverCopy.lifecycle
           L == localCopy.lifecycle
           M == MergeLifecycle(baseCopy, localCopy, serverCopy).lifecycle
<1>1. serverCopy' = [result.annotation EXCEPT !.rev = @ + 1] /\ UNCHANGED <<baseCopy, localCopy, eventClock>>
  BY DEF WriteBack
<1>2. Apart(baseCopy, localCopy, serverCopy) /\ NoDuplicates(L) /\ SameEvents(localCopy, serverCopy)
  BY DEF MInv
<1>3. /\ result.annotation \in Annotations
      /\ result.annotation.status = MergeLifecycle(baseCopy, localCopy, serverCopy).status
      /\ result.annotation.lifecycle = M
  BY <1>2, MergedCopy
<1>4. /\ serverCopy' \in Annotations /\ serverCopy'.lifecycle = M
      /\ serverCopy'.status = MergeLifecycle(baseCopy, localCopy, serverCopy).status
  <2> HIDE DEF result, M
  <2> QED
    BY <1>1, <1>3, RevIs
<1>5. /\ Begins(S, M)
      /\ \A j \in DOMAIN M : \/ j \in DOMAIN S /\ M[j] = S[j]
                             \/ \E i \in DOMAIN L : M[j] = L[i]
  BY <1>2, MergedHistory
<1>6. Explained(serverCopy'.status, M)
  <2>1. Explained(serverCopy.status, S)
    BY DEF MInv
  <2> QED
    BY <1>2, <1>4, <2>1, MergedHistory
<1>7. baseCopy # Null => NoDuplicates(M)
  BY <1>2, MergedHistory DEF MInv
<1> HIDE DEF M, result
<1>8. S \in Seq(Entries) /\ M \in Seq(Entries)
  BY <1>2, <1>4 DEF Apart, Annotations
<1>9. Apart(baseCopy, localCopy, serverCopy')
  <2> SUFFICES ASSUME baseCopy # Null PROVE Begins(baseCopy.lifecycle, M)
    BY <1>2, <1>4 DEF Apart
  <2>1. baseCopy.lifecycle \in Seq(Entries) /\ Begins(baseCopy.lifecycle, S)
    BY <1>2 DEF Apart, Annotations
  <2> HIDE DEF S
  <2>2. Len(baseCopy.lifecycle) \in Nat /\ Len(S) \in Nat /\ Len(M) \in Nat
    BY <1>8, <2>1
  <2> QED
    BY <1>5, <2>1, <2>2 DEF Begins
<1>10. \A j \in DOMAIN M : M[j].id <= eventClock
  BY <1>5 DEF MInv, Dated
<1>11. SameEvents(localCopy, serverCopy')
  <2> SUFFICES ASSUME NEW i \in DOMAIN L, NEW j \in DOMAIN M, L[i].id = M[j].id PROVE L[i] = M[j]
    BY <1>4 DEF SameEvents
  <2>1. CASE j \in DOMAIN S /\ M[j] = S[j]
    BY <1>2, <2>1 DEF SameEvents
  <2>2. CASE \E k \in DOMAIN L : M[j] = L[k]
    BY <1>2, <2>2 DEF NoDuplicates
  <2> QED
    BY <1>5, <2>1, <2>2
<1> QED
  BY <1>1, <1>2, <1>4, <1>6, <1>7, <1>9, <1>10, <1>11 DEF MInv, Dated, Apart, SameEvents

LEMMA MInvAlways == DriftSpec => []MInv
<1>1. MInv /\ [Drifts]_copies => MInv'
  <2> SUFFICES ASSUME MInv, [Drifts]_copies PROVE MInv'
    OBVIOUS
  <2>1. CASE LocalEdit
    BY <2>1, LocalEditKeeps
  <2>2. CASE LocalTransition
    BY <2>2, LocalTransitionKeeps
  <2>3. CASE ServerEdit
    BY <2>3, ServerEditKeeps
  <2>4. CASE ServerTransition
    BY <2>4, ServerTransitionKeeps
  <2>5. CASE WriteBack
    BY <2>5, WriteBackKeeps
  <2>6. CASE UNCHANGED copies
    BY <2>6 DEF copies, MInv, Dated, Apart, SameEvents
  <2> QED
    BY <2>1, <2>2, <2>3, <2>4, <2>5, <2>6 DEF Drifts
<1> QED
  BY <1>1, MInvInitially, PTL DEF DriftSpec


-----------------------------------------------------------------------------
(* What a merge keeps, in every state. *)

(* Whatever drove the two copies apart, what somebody else changed on the  *)
(* server since the base is what the merged copy has.                      *)
THEOREM ServerEditsSurvive == DriftSpec => []ServerEditsKept
<1>1. MInv => ServerEditsKept
  <2> SUFFICES ASSUME MInv, NEW f \in Fields, baseCopy = Null \/ serverCopy.fields[f] # baseCopy.fields[f]
               PROVE  Merged.annotation.fields[f] = serverCopy.fields[f]
    BY DEF ServerEditsKept
  <2>1. Merged.annotation.fields = MergeFields(baseCopy, localCopy, serverCopy)
    BY MergedCopy DEF Merged, MInv
  <2>2. MergeFields(baseCopy, localCopy, serverCopy)[f]
          = IF f \in LocallyChanged(baseCopy, localCopy, serverCopy) \ DroppedFields(baseCopy, localCopy, serverCopy)
            THEN localCopy.fields[f] ELSE serverCopy.fields[f]
    BY DEF MergeFields
  <2>3. f \in ServerChanged(baseCopy, serverCopy)
    BY DEF ServerChanged
  <2> QED
    BY <2>1, <2>2, <2>3 DEF DroppedFields
<1> QED
  BY <1>1, MInvAlways, PTL

(* Whatever drove the copies apart, a merge loses no local intent in       *)
(* silence: a field the browser changed and an event it recorded are in    *)
(* the merged copy, or are reported as dropped.                            *)
THEOREM LocalIntentIsKept == DriftSpec => []NothingLost
<1>1. MInv => NothingLost
  <2> SUFFICES ASSUME MInv PROVE NothingLost
    OBVIOUS
  <2>1. /\ Merged.annotation.fields = MergeFields(baseCopy, localCopy, serverCopy)
        /\ Merged.annotation.lifecycle = MergeLifecycle(baseCopy, localCopy, serverCopy).lifecycle
        /\ Merged.dropped.fields = DroppedFields(baseCopy, localCopy, serverCopy)
        /\ Merged.dropped.events = MergeLifecycle(baseCopy, localCopy, serverCopy).dropped
    BY MergedCopy DEF Merged, MInv
  <2>2. ASSUME NEW f \in Fields
        PROVE  \/ Merged.annotation.fields[f] = localCopy.fields[f]
               \/ f \in Merged.dropped.fields
               \/ baseCopy # Null /\ localCopy.fields[f] = baseCopy.fields[f]
    <3>1. MergeFields(baseCopy, localCopy, serverCopy)[f]
            = IF f \in LocallyChanged(baseCopy, localCopy, serverCopy) \ DroppedFields(baseCopy, localCopy, serverCopy)
              THEN localCopy.fields[f] ELSE serverCopy.fields[f]
      BY DEF MergeFields
    <3>2. f \in LocallyChanged(baseCopy, localCopy, serverCopy)
            <=> localCopy.fields[f] # Origin(baseCopy, serverCopy).fields[f]
      BY DEF LocallyChanged
    <3> QED
      BY <2>1, <3>1, <3>2 DEF Origin
  <2>3. ASSUME NEW id \in EventIds(localCopy.lifecycle)
        PROVE  id \in EventIds(Merged.annotation.lifecycle) \cup EventIds(Merged.dropped.events)
    <3>1. PICK i \in DOMAIN localCopy.lifecycle : id = localCopy.lifecycle[i].id
      BY DEF EventIds
    <3> DEFINE history == MergeLifecycle(baseCopy, localCopy, serverCopy)
    <3>2. \/ \E j \in DOMAIN history.lifecycle : localCopy.lifecycle[i] = history.lifecycle[j]
          \/ \E j \in DOMAIN history.dropped : localCopy.lifecycle[i] = history.dropped[j]
      BY MergedHistory DEF MInv
    <3> HIDE DEF history
    <3>3. CASE \E j \in DOMAIN history.lifecycle : localCopy.lifecycle[i] = history.lifecycle[j]
      <4>1. id \in EventIds(history.lifecycle)
        BY <3>1, <3>3 DEF EventIds
      <4> QED
        BY <2>1, <4>1 DEF history
    <3>4. CASE \E j \in DOMAIN history.dropped : localCopy.lifecycle[i] = history.dropped[j]
      <4>1. id \in EventIds(history.dropped)
        BY <3>1, <3>4 DEF EventIds
      <4> QED
        BY <2>1, <4>1 DEF history
    <3> QED
      BY <3>2, <3>3, <3>4
  <2> QED
    BY <2>2, <2>3 DEF NothingLost
<1> QED
  BY <1>1, MInvAlways, PTL

(* Whatever drove the copies apart, the server's history is a prefix of    *)
(* the merged one, and the merged status is the one that history leads to. *)
THEOREM HistoryIsKept == DriftSpec => []HistoryKept
<1>1. MInv => HistoryKept
  <2> SUFFICES ASSUME MInv PROVE HistoryKept
    OBVIOUS
  <2> DEFINE history == MergeLifecycle(baseCopy, localCopy, serverCopy)
  <2>1. Merged.annotation.lifecycle = history.lifecycle /\ Merged.annotation.status = history.status
    BY MergedCopy DEF Merged, MInv
  <2>2. /\ history \in Histories(Entries) /\ Begins(serverCopy.lifecycle, history.lifecycle)
        /\ Explained(history.status, history.lifecycle)
    BY MergedHistory DEF MInv
  <2> HIDE DEF history
  <2>3. serverCopy.lifecycle \in Seq(Entries) /\ history.lifecycle \in Seq(Entries)
    BY <2>2 DEF MInv, Apart, Annotations, Histories
  <2>4. IsPrefix(serverCopy.lifecycle, history.lifecycle)
    BY <2>2, <2>3, BeginsIsPrefix
  <2> QED
    BY <2>1, <2>2, <2>4 DEF HistoryKept
<1> QED
  BY <1>1, MInvAlways, PTL

(* A merge that has its base records no event a second time, whatever the  *)
(* server recorded of the browser's write before its answer was lost.      *)
THEOREM RetriesAreOnce == DriftSpec => []RetryNotDuplicated
<1>1. MInv => RetryNotDuplicated
  <2> SUFFICES ASSUME MInv, baseCopy # Null PROVE NoDuplicates(Merged.annotation.lifecycle)
    BY DEF RetryNotDuplicated
  <2>1. Merged.annotation.lifecycle = MergeLifecycle(baseCopy, localCopy, serverCopy).lifecycle
    BY MergedCopy DEF Merged, MInv
  <2>2. NoDuplicates(MergeLifecycle(baseCopy, localCopy, serverCopy).lifecycle)
    BY MergedHistory DEF MInv
  <2> QED
    BY <2>1, <2>2
<1> QED
  BY <1>1, MInvAlways, PTL

(* What the local history still has to replay on a server that took all of *)
(* it: nothing.                                                             *)
LEMMA NothingToReplay ==
  ASSUME NEW b, NEW l, NEW s, Apart(b, l, s), b # Null, NoDuplicates(l.lifecycle),
         NEW taken \in Annotations, Begins(b.lifecycle, taken.lifecycle),
         \A i \in DOMAIN l.lifecycle : \E j \in DOMAIN taken.lifecycle : l.lifecycle[i] = taken.lifecycle[j]
  PROVE  LocalEvents(b, l, taken) = << >>
<1> DEFINE o == b.lifecycle
           L == l.lifecycle
           S == taken.lifecycle
           extra == EventsAfter(o, L)
           theirs == EventsAfter(o, S)
           events == LocalEvents(b, l, taken)
<1>1. /\ o \in Seq(Entries) /\ L \in Seq(Entries) /\ S \in Seq(Entries)
      /\ Begins(o, L) /\ Begins(o, S)
  BY NullIsNoAnnotation DEF Apart, Annotations
<1>2. events = Without(extra, ToSet(theirs))
  BY DEF LocalEvents, Origin
<1>3. extra = EventsAfter(o, L) /\ theirs = EventsAfter(o, S)
  OBVIOUS
<1>4. NoDuplicates(L) /\ \A i \in DOMAIN L : \E j \in DOMAIN S : L[i] = S[j]
  OBVIOUS
<1> SUFFICES events = << >>
  OBVIOUS
<1> HIDE DEF o, L, S, extra, theirs, events
<1>5. Splits(Len(o), Entries, o, L) /\ Splits(Len(o), Entries, o, S) /\ Len(o) \in Nat
  <2>1. PICK n \in Nat : Splits(n, Entries, o, L)
    BY <1>1, EventsAfterIs
  <2>2. PICK m \in Nat : Splits(m, Entries, o, S)
    BY <1>1, EventsAfterIs
  <2>3. n = Len(o) /\ m = Len(o)
    BY <1>1, <2>1, <2>2 DEF Splits
  <2> QED
    BY <2>1, <2>2, <2>3
<1>6. /\ Len(L) \in Nat /\ DOMAIN L = 1 .. Len(L) /\ Len(S) \in Nat /\ DOMAIN S = 1 .. Len(S)
  BY <1>1
<1>7. /\ extra \in Seq(Entries) /\ DOMAIN extra = 1 .. Len(L) - Len(o)
      /\ \A i \in 1 .. Len(L) - Len(o) : extra[i] = L[Len(o) + i]
  <2>1. extra \in Seq(Entries) /\ Len(extra) = Len(L) - Len(o)
    BY <1>3, <1>5 DEF Splits
  <2>2. \A i \in 1 .. Len(L) - Len(o) : extra[i] = L[Len(o) + i]
    BY <1>3, <1>5, Zenon DEF Splits
  <2>3. DOMAIN extra = 1 .. Len(extra)
    BY <2>1
  <2> QED
    BY <2>1, <2>2, <2>3, Zenon
<1>8. /\ DOMAIN theirs = 1 .. Len(S) - Len(o)
      /\ \A i \in 1 .. Len(S) - Len(o) : theirs[i] = S[Len(o) + i]
  <2>1. theirs \in Seq(Entries) /\ Len(theirs) = Len(S) - Len(o)
    BY <1>3, <1>5 DEF Splits
  <2>2. \A i \in 1 .. Len(S) - Len(o) : theirs[i] = S[Len(o) + i]
    BY <1>3, <1>5, Zenon DEF Splits
  <2>3. DOMAIN theirs = 1 .. Len(theirs)
    BY <2>1
  <2> QED
    BY <2>1, <2>2, <2>3, Zenon
<1>9. ASSUME NEW i \in DOMAIN extra
      PROVE  extra[i] \in ToSet(theirs)
  <2>1. i \in 1 .. Len(L) - Len(o)
    BY <1>7, Zenon
  <2>2. i \in Nat /\ Len(o) + i \in 1 .. Len(L)
    BY <1>5, <1>6, <2>1, ShiftIs, Zenon
  <2>3. extra[i] = L[Len(o) + i]
    BY <1>7, <2>1, Zenon
  <2>4. PICK j \in DOMAIN S : L[Len(o) + i] = S[j]
    BY <1>4, <1>6, <2>2, Zenon
  <2>5. ~ (j <= Len(o))
    <3> SUFFICES ASSUME j <= Len(o) PROVE FALSE
      OBVIOUS
    <3>1. j \in 1 .. Len(o)
      BY <1>5, <1>6
    <3>2. S[j] = o[j] /\ L[j] = o[j] /\ Len(o) <= Len(L)
      BY <1>1, <3>1, Zenon DEF Begins
    <3>3. j \in DOMAIN L
      BY <1>5, <1>6, <3>1, <3>2
    <3>4. L[Len(o) + i].id = L[j].id
      BY <2>4, <3>2, Zenon
    <3>5. Len(o) + i \in DOMAIN L
      BY <1>6, <2>2, Zenon
    <3>6. Len(o) + i = j
      BY <1>4, <3>3, <3>4, <3>5, Zenon DEF NoDuplicates
    <3> QED
      BY <1>5, <2>1, <3>1, <3>6
  <2>6. j - Len(o) \in 1 .. Len(S) - Len(o) /\ Len(o) + (j - Len(o)) = j
    BY <1>5, <1>6, <2>5, ShiftBack, Zenon
  <2>7. theirs[j - Len(o)] = S[j]
    BY <1>8, <2>6, Zenon
  <2>8. j - Len(o) \in DOMAIN theirs
    BY <1>8, <2>6, Zenon
  <2>9. S[j] \in ToSet(theirs)
    BY <2>7, <2>8 DEF ToSet
  <2> QED
    BY <2>3, <2>4, <2>9, Zenon
<1>10. events \in Seq(Entries) /\ \A k \in DOMAIN events : \E i \in DOMAIN extra : extra[i] \notin ToSet(theirs)
  BY <1>2, <1>7, WithoutIs
<1>11. DOMAIN events = {}
  BY <1>9, <1>10, Zenon
<1> QED
  BY <1>10, <1>11

LEMMA ReplayOfNone ==
  ASSUME NEW E, NEW first \in Histories(E)
  PROVE  FoldLeft(MergeEvent, first, << >>) = first
<1>1. << >> \in Seq(E) /\ Len(<< >>) = 0
  OBVIOUS
<1>2. PICK t : t[0] = first /\ t[Len(<< >>)] = FoldLeft(MergeEvent, first, << >>)
  BY <1>1, ReplayTrace
<1> QED
  BY <1>1, <1>2

(* A browser whose merged write the server took, and which never heard so,  *)
(* has nothing to write when it merges again: a merge that drops nothing,   *)
(* merged once more with its own outcome, gives that outcome.               *)
THEOREM RetriesAreIdle == DriftSpec => []RetryIsIdle
<1>1. MInv => RetryIsIdle
  <2> DEFINE first == MergeLifecycle(baseCopy, localCopy, serverCopy)
             taken == [Merged.annotation EXCEPT !.rev = @ + 1]
             again == MergeAnnotation(baseCopy, localCopy, taken)
  <2> SUFFICES ASSUME MInv, baseCopy # Null, NothingDropped(Merged)
               PROVE  ~ again.changed
    BY DEF RetryIsIdle
  <2>1. /\ Merged.annotation \in Annotations
        /\ Merged.annotation.fields = MergeFields(baseCopy, localCopy, serverCopy)
        /\ Merged.annotation.lifecycle = first.lifecycle
        /\ Merged.dropped.fields = DroppedFields(baseCopy, localCopy, serverCopy)
        /\ Merged.dropped.events = first.dropped
    BY MergedCopy DEF Merged, MInv
  <2>2. DroppedFields(baseCopy, localCopy, serverCopy) = {} /\ first.dropped = << >>
    BY <2>1 DEF NothingDropped
  <2>3. /\ Begins(serverCopy.lifecycle, first.lifecycle)
        /\ \A i \in DOMAIN localCopy.lifecycle :
             \/ \E j \in DOMAIN first.lifecycle : localCopy.lifecycle[i] = first.lifecycle[j]
             \/ \E j \in DOMAIN first.dropped : localCopy.lifecycle[i] = first.dropped[j]
    BY MergedHistory DEF MInv
  <2> HIDE DEF first
  <2>4. /\ taken \in Annotations
        /\ taken.fields = MergeFields(baseCopy, localCopy, serverCopy)
        /\ taken.lifecycle = first.lifecycle
    BY <2>1 DEF Annotations
  <2>5. again.changed <=> again.annotation # taken
    BY DEF MergeAnnotation
  <2>6. /\ again.annotation.fields = MergeFields(baseCopy, localCopy, taken)
        /\ again.annotation.status = MergeLifecycle(baseCopy, localCopy, taken).status
        /\ again.annotation.lifecycle = MergeLifecycle(baseCopy, localCopy, taken).lifecycle
        /\ again.annotation.rev = taken.rev
        /\ again.annotation
             = [ fields |-> again.annotation.fields, status |-> again.annotation.status,
                 lifecycle |-> again.annotation.lifecycle, rev |-> again.annotation.rev ]
    BY DEF MergeAnnotation
  <2> HIDE DEF taken, again
  <2>7. /\ baseCopy \in Annotations /\ localCopy \in Annotations /\ serverCopy \in Annotations
        /\ Begins(baseCopy.lifecycle, serverCopy.lifecycle)
    BY DEF MInv, Apart
  <2>8. LocalEvents(baseCopy, localCopy, taken) = << >>
    <3>1. Begins(baseCopy.lifecycle, taken.lifecycle)
      <4>1. /\ baseCopy.lifecycle \in Seq(Entries) /\ serverCopy.lifecycle \in Seq(Entries)
            /\ taken.lifecycle \in Seq(Entries)
        BY <2>4, <2>7 DEF Annotations
      <4> QED
        BY <2>3, <2>4, <2>7, <4>1 DEF Begins
    <3>2. \A i \in DOMAIN localCopy.lifecycle :
            \E j \in DOMAIN taken.lifecycle : localCopy.lifecycle[i] = taken.lifecycle[j]
      BY <2>2, <2>3, <2>4
    <3> QED
      BY <2>4, <3>1, <3>2, NothingToReplay DEF MInv
  <2>9. MergeLifecycle(baseCopy, localCopy, taken)
          = [status |-> taken.status, lifecycle |-> taken.lifecycle, dropped |-> << >>]
    <3>1. [status |-> taken.status, lifecycle |-> taken.lifecycle, dropped |-> << >>] \in Histories(Entries)
      BY <2>4 DEF Annotations, Histories
    <3> QED
      BY <2>8, <3>1, ReplayOfNone DEF MergeLifecycle
  <2>10. MergeFields(baseCopy, localCopy, taken) = taken.fields
    <3>1. ASSUME NEW f \in Fields
          PROVE  MergeFields(baseCopy, localCopy, taken)[f] = taken.fields[f]
      <4>1. f \in LocallyChanged(baseCopy, localCopy, taken) => taken.fields[f] = localCopy.fields[f]
        BY <2>2, <2>4 DEF LocallyChanged, MergeFields, Origin
      <4> QED
        BY <4>1 DEF MergeFields
    <3>2. taken.fields \in [Fields -> Texts]
      BY <2>4 DEF Annotations
    <3>3. MergeFields(baseCopy, localCopy, taken) = [f \in Fields |-> MergeFields(baseCopy, localCopy, taken)[f]]
      BY DEF MergeFields
    <3>4. taken.fields = [f \in Fields |-> taken.fields[f]]
      BY <3>2
    <3> HIDE DEF MergeFields
    <3> QED
      BY <3>1, <3>3, <3>4
  <2>11. taken = [ fields |-> taken.fields, status |-> taken.status,
                   lifecycle |-> taken.lifecycle, rev |-> taken.rev ]
    BY <2>4 DEF Annotations
  <2> QED
    BY <2>5, <2>6, <2>9, <2>10, <2>11
<1> QED
  BY <1>1, MInvAlways, PTL
=============================================================================
