----------------------------- MODULE WidgetProofs -----------------------------
(***************************************************************************)
(* Proofs about Widget: every part of it is of its type, a pending check   *)
(* is one whose answer will be taken, no typed text is lost when a popup   *)
(* goes, and whoever changes what is to be shown repaints or has it done.  *)
(*                                                                         *)
(* The handlers are nested calls of a few operators on the widget.  For    *)
(* each of them one lemma says that it takes a sound widget to a sound one *)
(* (Sound), which writes it adds and which popup it leaves (Leads), and    *)
(* whether the page is shown afterwards (Fine).                            *)
(***************************************************************************)
EXTENDS Widget, Induction, FiniteSetTheorems

-----------------------------------------------------------------------------
(* Folding a finite set. *)

\* What a fold is on the set T, when g is the fold on its subsets.
FoldedOn(g, T, start, step) ==
  IF T = {} THEN start
  ELSE LET x == CHOOSE x \in T : TRUE IN step[<<x, g[T \ {x}]>>]

IsSetFold(g, R, S, start, step) ==
  g \in [SUBSET S -> R] /\ \A T \in SUBSET S : g[T] = FoldedOn(g, T, start, step)

(* There is a fold of every finite set.                                     *)
LEMMA SetFoldExists ==
  ASSUME NEW R, NEW S, IsFiniteSet(S), NEW start \in R, NEW step \in [S \X R -> R]
  PROVE  \E g : IsSetFold(g, R, S, start, step)
<1> DEFINE Small(k) == {T \in SUBSET S : Cardinality(T) <= k}
           Fold(k, g) == /\ g \in [Small(k) -> R]
                         /\ \A T \in Small(k) : g[T] = FoldedOn(g, T, start, step)
           pick(T) == CHOOSE x \in T : TRUE
<1>1. \A T \in SUBSET S : IsFiniteSet(T) /\ Cardinality(T) \in Nat
  BY FS_Subset, FS_CardinalityType
<1>2. \A T \in SUBSET S : T # {} =>
        /\ pick(T) \in T /\ pick(T) \in S
        /\ T \ {pick(T)} \in SUBSET S
        /\ Cardinality(T \ {pick(T)}) = Cardinality(T) - 1
  BY <1>1, FS_RemoveElement
<1>3. \A T \in SUBSET S : Cardinality(T) = 0 <=> T = {}
  BY <1>1, FS_EmptySet
<1>4. \E g : Fold(0, g)
  <2>1. Small(0) = {{}}
    BY <1>1, <1>3
  <2>2. Fold(0, [T \in Small(0) |-> start])
    BY <2>1 DEF FoldedOn
  <2> QED
    BY <2>2
<1>5. ASSUME NEW k \in Nat, \E g : Fold(k, g) PROVE \E g : Fold(k + 1, g)
  <2>1. PICK g : Fold(k, g)
    BY <1>5
  <2> DEFINE h == [T \in Small(k + 1) |->
                     IF T = {} THEN start ELSE step[<<pick(T), g[T \ {pick(T)}]>>]]
  <2>2. \A T \in Small(k + 1) : T # {} =>
          T \ {pick(T)} \in Small(k) /\ T \ {pick(T)} \in Small(k + 1) /\ pick(T) \in S
    BY <1>1, <1>2
  <2>3. \A T \in Small(k) : T \in Small(k + 1)
    BY <1>1
  <2>4. h \in [Small(k + 1) -> R]
    BY <2>1, <2>2
  <2>5. \A T \in Small(k) : h[T] = g[T]
    BY <2>1, <2>3 DEF FoldedOn
  <2>6. ASSUME NEW T \in Small(k + 1) PROVE h[T] = FoldedOn(h, T, start, step)
    <3>1. h[T] = IF T = {} THEN start ELSE step[<<pick(T), g[T \ {pick(T)}]>>]
      OBVIOUS
    <3>2. T # {} => h[T \ {pick(T)}] = g[T \ {pick(T)}]
      BY <2>2, <2>5
    <3> HIDE DEF h
    <3> QED
      BY <3>1, <3>2 DEF FoldedOn
  <2> HIDE DEF h
  <2> QED
    BY <2>4, <2>6
<1>6. \E g : Fold(Cardinality(S), g)
  <2> HIDE DEF Fold
  <2> DEFINE N == {k \in Nat : \E g : Fold(k, g)}
  <2>1. 0 \in N /\ \A k \in Nat : k \in N => k + 1 \in N
    BY <1>4, <1>5
  <2> HIDE DEF N
  <2>2. \A k \in Nat : k \in N
    BY <2>1, SetInduction
  <2>3. Cardinality(S) \in Nat
    BY <1>1
  <2> QED
    BY <2>2, <2>3 DEF N
<1>7. Small(Cardinality(S)) = SUBSET S
  BY FS_Subset
<1> QED
  BY <1>6, <1>7 DEF IsSetFold

-----------------------------------------------------------------------------
(* What a sound widget is. *)

Maybe == Records \cup {Null}

Views == [Ids -> Maybe]

Popups ==
  [ kind : {"closed", "new", "detail"}, id : Ids \cup {Null}, comment : Comments \cup {Null},
    status : Statuses \cup {Null}, verdict : Verdicts \cup {Null}, pending : BOOLEAN,
    draft : Comments \cup {Null}, reason : Actions \cup {Null} ]

Checks == [id : Ids, seq : Nat, comment : Comments]

Kinds == {"add", "update", "remove", "clear"}

Writes == [kind : Kinds, id : Ids \cup {Null}, body : Maybe, kept : Views]

Counts == [attention : Nat, verification : Nat, drafts : Nat]

Widgets ==
  [ inspecting : BOOLEAN, spacing : BOOLEAN, popup : Popups, markers : Views,
    selected : Ids \cup {Null}, chips : [Ids -> {Null, "pending", "vague"}],
    suppressed : Ids \cup {Null}, other : SUBSET Ids, detached : SUBSET Ids,
    narrow : BOOLEAN, badges : Counts, seqs : [Ids -> Nat], pending : SUBSET Ids,
    checks : SUBSET Checks, cache : Views, writes : Seq(Writes), loaded : BOOLEAN,
    scheduled : BOOLEAN ]

\* Only a popup about an annotation has an id, a text being edited or a reason asked for.
PopupOK(p) ==
  /\ p \in Popups
  /\ (p.kind = "detail") <=> (p.id # Null)
  /\ p.draft # Null \/ p.reason # Null => p.kind = "detail"
  /\ p.kind = "detail" => p.comment \in Comments

\* What is not about everything is about an annotation.
WritesOK(s) == \A i \in DOMAIN s.writes : s.writes[i].kind # "clear" => s.writes[i].id \in Ids

Awaited(s) ==
  \A id \in s.pending : \E check \in s.checks : check.id = id /\ check.seq = s.seqs[id]

\* The element of popup p is highlighted, and its chip hidden.
Lights(s, p) == p.kind = "detail" => s.selected = p.id /\ s.suppressed = p.id

Sound(s) ==
  /\ s \in Widgets /\ PopupOK(s.popup) /\ WritesOK(s) /\ s.other \cap s.detached = {} /\ Awaited(s)
  /\ Lights(s, s.popup)

Pages == [route : Routes, dom : SUBSET Ids, narrow : BOOLEAN, submitFlow : SubmitFlows]

\* The writes under way are still there, and to the same effect.
Adds(s, t) ==
  /\ Len(s.writes) <= Len(t.writes)
  /\ \A i \in 1 .. Len(s.writes) :
       t.writes[i].id = s.writes[i].id /\ t.writes[i].body = s.writes[i].body

Leads(s, t) == Adds(s, t) /\ t.popup = s.popup

\* The widget is as it should be shown on a page.
PanelOn(s, pg, narrow) ==
  /\ s.detached = Detached(s.cache, [pg EXCEPT !.narrow = narrow])
  /\ s.other = OtherWidth(s.cache, [pg EXCEPT !.narrow = narrow])

ShownOn(s, pg) ==
  /\ \A id \in Ids : /\ (s.markers[id] # Null) <=> (id \in Attached(s.cache, pg))
                     /\ s.markers[id] # Null => s.markers[id].status = s.cache[id].status
  /\ s.badges = Badges(s.cache, pg)
  /\ \E narrow \in BOOLEAN : PanelOn(s, pg, narrow)

Fine(s, pg) == s.scheduled \/ ShownOn(s, pg)

LEMMA AddsIsTransitive ==
  ASSUME NEW s \in Widgets, NEW t \in Widgets, NEW u \in Widgets, Adds(s, t), Adds(t, u)
  PROVE  Adds(s, u)
<1>1. Len(s.writes) \in Nat /\ Len(t.writes) \in Nat /\ Len(u.writes) \in Nat
  BY SMTT(30) DEF Widgets
<1> QED
  BY <1>1 DEF Adds

LEMMA NullIsNone == Null \notin Records /\ Null \notin Ids /\ Null \notin Comments /\ Null \notin Verdicts
  BY NullIsNothing

-----------------------------------------------------------------------------
(* The objects of the heap. *)

LEMMA PairIsFinite ==
  ASSUME NEW a, NEW b
  PROVE  IsFiniteSet({a, b})
<1>1. IsFiniteSet({a}) /\ IsFiniteSet({b})
  BY FS_Singleton
<1>2. IsFiniteSet({a} \cup {b})
  BY <1>1, FS_Union
<1> QED
  BY <1>2

(* There is always a number no object has yet.                              *)
LEMMA FreshCopyIs ==
  ASSUME NEW s \in Widgets, NEW id \in Ids
  PROVE  FreshCopy(s, id) \in Nat
<1> DEFINE held == {s.writes[i].kept[id] : i \in DOMAIN s.writes}
           objects == {s.cache[id], s.markers[id]} \cup held
           taken == {o.copy : o \in objects \ {Null}}
<1>1. objects \ {Null} \subseteq Records
  <2>1. s.cache[id] \in Maybe /\ s.markers[id] \in Maybe
    BY DEF Widgets, Views
  <2>2. ASSUME NEW i \in DOMAIN s.writes PROVE s.writes[i].kept[id] \in Maybe
    <3>1. s.writes \in Seq(Writes)
      BY DEF Widgets
    <3>2. s.writes[i] \in Writes
      BY <3>1
    <3> QED
      BY <3>2 DEF Writes, Views
  <2> QED
    BY <2>1, <2>2 DEF Maybe
<1>2. taken \subseteq Nat
  BY <1>1 DEF Records
<1>3. IsFiniteSet(taken)
  <2>1. Len(s.writes) \in Nat /\ DOMAIN s.writes = 1 .. Len(s.writes)
    BY DEF Widgets
  <2>2. IsFiniteSet(1 .. Len(s.writes))
    <3>1. 1 \in Int /\ Len(s.writes) \in Int
      BY <2>1
    <3> QED
      BY <3>1, FS_Interval
  <2>3. IsFiniteSet(held)
    <3> DEFINE f == [i \in 1 .. Len(s.writes) |-> s.writes[i].kept[id]]
    <3>1. f \in Surjection(1 .. Len(s.writes), held)
      BY <2>1 DEF Surjection
    <3> QED
      BY <2>2, <3>1, FS_Surjection
  <2>4. IsFiniteSet({s.cache[id], s.markers[id]})
    BY PairIsFinite
  <2>5. IsFiniteSet(objects \ {Null})
    BY <2>3, <2>4, FS_Union, FS_Difference
  <2> HIDE DEF objects
  <2> DEFINE g == [o \in objects \ {Null} |-> o.copy]
  <2>6. g \in Surjection(objects \ {Null}, taken)
    BY DEF Surjection
  <2> QED
    BY <2>5, <2>6, FS_Surjection
<1>4. FreshCopy(s, id)
        = CHOOSE n \in 1 .. Cardinality(taken) + 1 : n \notin taken /\ (1 .. n - 1) \subseteq taken
  BY DEF FreshCopy
<1>5. Cardinality(taken) \in Nat
  BY <1>3, FS_CardinalityType
<1> HIDE DEF taken
<1> DEFINE free == {n \in Nat : n > 0 /\ n \notin taken}
<1>6. ~ (1 .. Cardinality(taken) + 1 \subseteq taken)
  <2> SUFFICES ASSUME 1 .. Cardinality(taken) + 1 \subseteq taken PROVE FALSE
    OBVIOUS
  <2>1. Cardinality(1 .. Cardinality(taken) + 1) <= Cardinality(taken)
    BY <1>3, FS_Subset
  <2>2. Cardinality(1 .. Cardinality(taken) + 1) = Cardinality(taken) + 1
    BY <1>5, FS_Interval
  <2> QED
    BY <1>5, <2>1, <2>2
<1>7. PICK m \in 1 .. Cardinality(taken) + 1 : m \notin taken
  BY <1>6
<1>8. PICK n \in free : \A k \in free : ~ (k < n)
  <2>1. m \in free
    BY <1>5, <1>7
  <2> QED
    BY <2>1, LeastNumber
<1>9. n \in 1 .. Cardinality(taken) + 1 /\ n \notin taken /\ (1 .. n - 1) \subseteq taken
  BY <1>5, <1>7, <1>8
<1> QED
  BY <1>4, <1>5, <1>9

\* What the page shows of a record.
Looks(a, b) ==
  /\ a = Null <=> b = Null
  /\ a # Null => a.status = b.status /\ a.route = b.route /\ a.narrow = b.narrow

LEMMA ObjectIs ==
  ASSUME NEW s \in Widgets, NEW id \in Ids, NEW record \in Maybe
  PROVE  LET o == Object(s, id, record)
         IN  o \in Maybe /\ Looks(o, record)
<1>1. FreshCopy(s, id) \in Nat
  BY FreshCopyIs
<1>2. CASE record = Null
  BY <1>2 DEF Object, Looks
<1>3. CASE record # Null
  <2>1. record \in Records
    BY <1>3 DEF Maybe
  <2>2. Object(s, id, record) = [record EXCEPT !.copy = FreshCopy(s, id)]
    BY <1>3 DEF Object
  <2>3. Object(s, id, record) \in Records
    BY <1>1, <2>1, <2>2 DEF Records
  <2> QED
    BY <1>3, <2>1, <2>2, <2>3, NullIsNone DEF Looks, Maybe, Records
<1> QED
  BY <1>2, <1>3

LEMMA PlainIs ==
  ASSUME NEW record \in Maybe
  PROVE  /\ Plain(record) \in Maybe /\ (Plain(record) = Null <=> record = Null)
         /\ record # Null => Plain(record).comment = record.comment
<1>1. CASE record = Null
  BY <1>1 DEF Plain
<1>2. CASE record # Null
  <2>1. record \in Records /\ Plain(record) = [record EXCEPT !.copy = 0]
    BY <1>2 DEF Maybe, Plain
  <2>2. Plain(record) \in Records /\ Plain(record).comment = record.comment
    BY <2>1 DEF Records
  <2> QED
    BY <1>2, <2>2, NullIsNone DEF Maybe
<1> QED
  BY <1>1, <1>2

-----------------------------------------------------------------------------
(* The domain store. *)

\* A cache and one write more.
Storing(s, c, e) == [[s EXCEPT !.cache = c] EXCEPT !.writes = Append(@, e)]

\* What is on the page, apart from the popup and the cache.
SameView(s, t) ==
  /\ t.markers = s.markers /\ t.badges = s.badges /\ t.other = s.other /\ t.detached = s.detached
  /\ t.scheduled = s.scheduled

SameLight(s, t) == t.popup = s.popup /\ t.selected = s.selected /\ t.suppressed = s.suppressed

SameChecks(s, t) == t.seqs = s.seqs /\ t.pending = s.pending /\ t.checks = s.checks

LEMMA AppendIs ==
  ASSUME NEW S, NEW q \in Seq(S), NEW e \in S
  PROVE  /\ Append(q, e) \in Seq(S) /\ Len(Append(q, e)) = Len(q) + 1
         /\ Append(q, e)[Len(q) + 1] = e
         /\ \A i \in 1 .. Len(q) : Append(q, e)[i] = q[i]
OBVIOUS

LEMMA StoringIs ==
  ASSUME NEW s, Sound(s), NEW c \in Views, NEW e \in Writes, e.kind # "clear" => e.id \in Ids
  PROVE  LET t == Storing(s, c, e)
         IN  /\ Sound(t) /\ Leads(s, t) /\ SameView(s, t) /\ SameChecks(s, t) /\ t.cache = c
             /\ Len(t.writes) = Len(s.writes) + 1 /\ t.writes[Len(t.writes)] = e
<1> DEFINE t == Storing(s, c, e)
           q == Append(s.writes, e)
<1>1. s \in Widgets
  BY DEF Sound
<1>2. /\ s.writes \in Seq(Writes) /\ Len(s.writes) \in Nat /\ DOMAIN s.writes = 1 .. Len(s.writes)
  BY <1>1 DEF Widgets
<1>3. /\ q \in Seq(Writes) /\ Len(q) = Len(s.writes) + 1 /\ q[Len(s.writes) + 1] = e
      /\ \A i \in 1 .. Len(s.writes) : q[i] = s.writes[i]
      /\ DOMAIN q = 1 .. Len(s.writes) + 1
  BY <1>2, AppendIs
<1> HIDE DEF q
<1>4. t \in Widgets /\ t.cache = c /\ t.writes = q
  BY <1>1, <1>3 DEF Storing, Widgets, q
<1>5. SameView(s, t) /\ SameChecks(s, t) /\ SameLight(s, t)
  BY <1>1 DEF Storing, Widgets, SameView, SameChecks, SameLight
<1>6. WritesOK(t)
  BY <1>2, <1>3, <1>4 DEF WritesOK, Sound
<1>7. Sound(t)
  BY <1>4, <1>5, <1>6 DEF Sound, Awaited, SameView, SameChecks, Lights, SameLight
<1>8. Leads(s, t)
  BY <1>2, <1>3, <1>4, <1>5 DEF Leads, Adds, SameLight
<1> QED
  BY <1>2, <1>3, <1>4, <1>5, <1>7, <1>8

\* One more write, with a cache that agrees but for one annotation.
Written(s, t, id, body) ==
  /\ Sound(t) /\ Leads(s, t) /\ SameView(s, t) /\ SameChecks(s, t)
  /\ Len(t.writes) = Len(s.writes) + 1
  /\ t.writes[Len(t.writes)].id = id
  /\ t.writes[Len(t.writes)].body = Plain(body)
  /\ \A other \in Ids \ {id} : t.cache[other] = s.cache[other]

LEMMA AddedIs ==
  ASSUME NEW s, Sound(s), NEW id \in Ids, NEW record \in Records
  PROVE  LET t == Added(s, id, record)
         IN  Written(s, t, id, record) /\ Looks(t.cache[id], record)
<1> DEFINE o == Object(s, id, record)
           c == [s.cache EXCEPT ![id] = o]
           e == [kind |-> "add", id |-> id, body |-> Plain(record), kept |-> Nobody]
<1>1. s \in Widgets /\ s.cache \in Views /\ record \in Maybe
  BY DEF Sound, Widgets, Maybe
<1>2. o \in Maybe /\ Looks(o, record) /\ Plain(record) \in Maybe
  BY <1>1, ObjectIs, PlainIs
<1>3. e \in Writes /\ e.kind # "clear" /\ e.id \in Ids /\ e.body = Plain(record) /\ e.id = id
  BY <1>2 DEF Writes, Kinds, Views, Maybe, Nobody
<1>4. Added(s, id, record) = Storing(s, c, e)
  BY DEF Added, Issue, Storing
<1> HIDE DEF o, e
<1>5. c \in Views /\ c[id] = o /\ \A other \in Ids \ {id} : c[other] = s.cache[other]
  BY <1>1, <1>2 DEF Views
<1> HIDE DEF c
<1> QED
  BY <1>2, <1>3, <1>4, <1>5, StoringIs DEF Written

LEMMA UpdatedIs ==
  ASSUME NEW s, Sound(s), NEW id \in Ids, NEW record \in Records
  PROVE  LET t == Updated(s, id, record)
         IN  IF s.cache[id] = Null THEN t = s
             ELSE Written(s, t, id, record) /\ Looks(t.cache[id], record)
<1> SUFFICES ASSUME s.cache[id] # Null
             PROVE  LET t == Updated(s, id, record)
                    IN  Written(s, t, id, record) /\ Looks(t.cache[id], record)
  BY DEF Updated
<1> DEFINE o == Object(s, id, record)
           c == [s.cache EXCEPT ![id] = o]
           e == [ kind |-> "update", id |-> id, body |-> Plain(record),
                  kept |-> [Nobody EXCEPT ![id] = s.cache[id]] ]
<1>1. s \in Widgets /\ s.cache \in Views /\ record \in Maybe
  BY DEF Sound, Widgets, Maybe
<1>2. o \in Maybe /\ Looks(o, record) /\ Plain(record) \in Maybe
  BY <1>1, ObjectIs, PlainIs
<1>3. e \in Writes /\ e.kind # "clear" /\ e.id \in Ids /\ e.body = Plain(record) /\ e.id = id
  BY <1>1, <1>2 DEF Writes, Kinds, Views, Maybe, Nobody
<1>4. Updated(s, id, record) = Storing(s, c, e)
  BY DEF Updated, Issue, Storing
<1> HIDE DEF o, e
<1>5. c \in Views /\ c[id] = o /\ \A other \in Ids \ {id} : c[other] = s.cache[other]
  BY <1>1, <1>2 DEF Views
<1> HIDE DEF c
<1> QED
  BY <1>2, <1>3, <1>4, <1>5, StoringIs DEF Written

LEMMA RemovedIs ==
  ASSUME NEW s, Sound(s), NEW id \in Ids
  PROVE  LET t == Removed(s, id) IN Sound(t) /\ Leads(s, t) /\ SameView(s, t) /\ SameChecks(s, t)
<1> DEFINE c == [s.cache EXCEPT ![id] = Null]
           e == [kind |-> "remove", id |-> id, body |-> Plain(Null), kept |-> s.cache]
<1>1. s \in Widgets /\ s.cache \in Views
  BY DEF Sound, Widgets
<1>2. e \in Writes /\ e.id \in Ids
  BY <1>1 DEF Writes, Kinds, Plain, Maybe
<1>3. c \in Views
  BY <1>1 DEF Views, Maybe
<1>4. Removed(s, id) = Storing(s, c, e)
  BY DEF Removed, Issue, Storing
<1> HIDE DEF c, e
<1> QED
  BY <1>2, <1>3, <1>4, StoringIs

LEMMA ClearedAllIs ==
  ASSUME NEW s, Sound(s)
  PROVE  LET t == ClearedAll(s) IN Sound(t) /\ Leads(s, t) /\ SameView(s, t) /\ SameChecks(s, t)
<1> DEFINE e == [kind |-> "clear", id |-> Null, body |-> Plain(Null), kept |-> s.cache]
<1>1. s \in Widgets /\ s.cache \in Views
  BY DEF Sound, Widgets
<1>2. e \in Writes /\ e.kind = "clear"
  BY <1>1 DEF Writes, Kinds, Plain, Maybe
<1>3. Nobody \in Views
  BY DEF Views, Maybe, Nobody
<1>4. ClearedAll(s) = Storing(s, Nobody, e)
  BY DEF ClearedAll, Issue, Storing
<1> HIDE DEF e
<1> QED
  BY <1>2, <1>3, <1>4, StoringIs

-----------------------------------------------------------------------------
(* Refreshes. *)

LEMMA OnRouteIs ==
  ASSUME NEW c, NEW pg
  PROVE  /\ IsFiniteSet(OnRoute(c, pg.route)) /\ OnRoute(c, pg.route) \subseteq Ids
         /\ Badges(c, pg) \in Counts
         /\ Attached(c, pg) \subseteq Ids
<1>1. \A S \in SUBSET Ids : IsFiniteSet(S) /\ Cardinality(S) \in Nat
  BY IdsAreFinite, FS_Subset, FS_CardinalityType
<1>2. OnRoute(c, pg.route) \subseteq Ids
  BY DEF OnRoute
<1>3. \A statuses : Cardinality({id \in OnRoute(c, pg.route) : c[id].status \in statuses}) \in Nat
  BY <1>1, <1>2
<1> QED
  BY <1>1, <1>2, <1>3 DEF Badges, Counts, Attached

(* A refresh shows the cache on the page, whatever was there before.        *)
LEMMA RefreshedIs ==
  ASSUME NEW s, Sound(s), NEW pg \in Pages
  PROVE  LET t == Refreshed(s, pg)
         IN  /\ Sound(t) /\ Leads(s, t) /\ SameChecks(s, t) /\ ShownOn(t, pg)
             /\ t.cache = s.cache /\ t.writes = s.writes
<1> DEFINE t == Refreshed(s, pg)
           attached == Attached(s.cache, pg)
<1>1. s \in Widgets /\ s.cache \in Views /\ s.chips \in [Ids -> {Null, "pending", "vague"}]
  BY DEF Sound, Widgets
<1>2. attached \subseteq Ids /\ Badges(s.cache, pg) \in Counts
  BY OnRouteIs
<1>3. MarkersOf(s.cache, attached) \in Views
  BY <1>1 DEF MarkersOf, Views, Maybe
<1>4. SyncVisible(s.chips, attached) \in [Ids -> {Null, "pending", "vague"}]
  BY <1>1 DEF SyncVisible
<1>5. /\ OtherWidth(s.cache, pg) \subseteq Ids /\ Detached(s.cache, pg) \subseteq Ids
      /\ OtherWidth(s.cache, pg) \cap Detached(s.cache, pg) = {}
  BY DEF OtherWidth, Detached, OnRoute
<1> HIDE DEF attached
<1>6. t = [s EXCEPT !.markers = MarkersOf(s.cache, attached),
                    !.chips = SyncVisible(s.chips, attached),
                    !.other = OtherWidth(s.cache, pg),
                    !.detached = Detached(s.cache, pg),
                    !.badges = Badges(s.cache, pg)]
  BY DEF Refreshed, attached
<1> HIDE DEF t
<1>7. t \in Widgets
  BY <1>1, <1>2, <1>3, <1>4, <1>5, <1>6 DEF Widgets
<1>8. /\ t.markers = MarkersOf(s.cache, attached) /\ t.other = OtherWidth(s.cache, pg)
      /\ t.detached = Detached(s.cache, pg) /\ t.badges = Badges(s.cache, pg)
      /\ t.cache = s.cache /\ t.writes = s.writes /\ SameLight(s, t)
      /\ SameChecks(s, t)
  BY <1>1, <1>6 DEF Widgets, SameChecks, SameLight
<1>9. Sound(t)
  BY <1>5, <1>7, <1>8 DEF Sound, WritesOK, Awaited, SameChecks, Lights, SameLight
<1>10. Leads(s, t)
  <2>1. Len(s.writes) \in Nat
    BY <1>1 DEF Widgets
  <2> QED
    BY <1>8, <2>1 DEF Leads, Adds, SameLight
<1>11. ShownOn(t, pg)
  <2>1. \A id \in attached : s.cache[id] # Null
    BY DEF attached, Attached, OnRoute
  <2>2. \A id \in Ids : /\ (t.markers[id] # Null) <=> (id \in attached)
                        /\ t.markers[id] # Null => t.markers[id].status = t.cache[id].status
    BY <1>8, <2>1 DEF MarkersOf
  <2>3. pg.narrow \in BOOLEAN /\ [pg EXCEPT !.narrow = pg.narrow] = pg
    BY DEF Pages
  <2>4. PanelOn(t, pg, pg.narrow)
    BY <1>8, <2>3 DEF PanelOn
  <2> QED
    BY <1>8, <2>2, <2>3, <2>4 DEF ShownOn, attached
<1> QED
  BY <1>8, <1>9, <1>10, <1>11 DEF t

-----------------------------------------------------------------------------
(* What leaves the store and the page as they are. *)

SameStore(s, t) == t.cache = s.cache /\ t.writes = s.writes /\ SameChecks(s, t)

Beside(s, t) == SameStore(s, t) /\ SameView(s, t)

LEMMA BesideIs ==
  ASSUME NEW s, Sound(s), NEW t \in Widgets, Beside(s, t), PopupOK(t.popup), Lights(t, t.popup)
  PROVE  Sound(t) /\ Adds(s, t) /\ \A pg \in Pages : Fine(s, pg) => Fine(t, pg)
<1>1. s \in Widgets /\ Len(s.writes) \in Nat
  BY DEF Sound, Widgets
<1>2. Sound(t)
  BY DEF Sound, Beside, SameStore, SameView, SameChecks, WritesOK, Awaited
<1>3. Adds(s, t)
  BY <1>1 DEF Adds, Beside, SameStore
<1>4. \A pg \in Pages : Fine(s, pg) => Fine(t, pg)
  BY DEF Fine, ShownOn, PanelOn, Beside, SameStore, SameView
<1> QED
  BY <1>2, <1>3, <1>4

(* What does not show changes nothing on the page.                          *)
LEMMA SameLooksShown ==
  ASSUME NEW s, NEW t, SameView(s, t), NEW pg \in Pages,
         \A id \in Ids : Looks(t.cache[id], s.cache[id]),
         Fine(s, pg)
  PROVE  Fine(t, pg)
<1>1. OnRoute(t.cache, pg.route) = OnRoute(s.cache, pg.route)
  BY DEF OnRoute, Looks
<1>2. Attached(t.cache, pg) = Attached(s.cache, pg)
  BY <1>1 DEF Attached
<1>3. \A id \in OnRoute(s.cache, pg.route) :
        t.cache[id].status = s.cache[id].status /\ t.cache[id].narrow = s.cache[id].narrow
  BY DEF OnRoute, Looks
<1>4. \A statuses : {id \in OnRoute(t.cache, pg.route) : t.cache[id].status \in statuses}
                      = {id \in OnRoute(s.cache, pg.route) : s.cache[id].status \in statuses}
  BY <1>1, <1>3
<1>5. Badges(t.cache, pg) = Badges(s.cache, pg)
  BY <1>4 DEF Badges
<1>6. ASSUME NEW narrow \in BOOLEAN, PanelOn(s, pg, narrow) PROVE PanelOn(t, pg, narrow)
  <2> DEFINE at == [pg EXCEPT !.narrow = narrow]
  <2>1. at.route = pg.route
    BY DEF Pages
  <2>2. Detached(t.cache, at) = Detached(s.cache, at) /\ OtherWidth(t.cache, at) = OtherWidth(s.cache, at)
    BY <1>1, <1>3, <2>1 DEF Detached, OtherWidth
  <2> HIDE DEF at
  <2>3. s.detached = Detached(s.cache, at) /\ s.other = OtherWidth(s.cache, at)
    BY <1>6 DEF PanelOn, at
  <2>4. t.detached = Detached(t.cache, at) /\ t.other = OtherWidth(t.cache, at)
    BY <2>2, <2>3 DEF SameView
  <2> QED
    BY <2>4 DEF PanelOn, at
<1>7. ASSUME ShownOn(s, pg) PROVE ShownOn(t, pg)
  <2>1. \A id \in Ids : /\ (t.markers[id] # Null) <=> (id \in Attached(t.cache, pg))
                        /\ t.markers[id] # Null => t.markers[id].status = t.cache[id].status
    BY <1>2, <1>3, <1>7 DEF ShownOn, SameView, Attached
  <2>2. t.badges = Badges(t.cache, pg)
    BY <1>5, <1>7 DEF ShownOn, SameView
  <2>3. \E narrow \in BOOLEAN : PanelOn(t, pg, narrow)
    BY <1>6, <1>7 DEF ShownOn
  <2> QED
    BY <2>1, <2>2, <2>3 DEF ShownOn
<1> QED
  BY <1>7 DEF Fine, SameView

-----------------------------------------------------------------------------
(* The quality runner. *)

LEMMA RunIs ==
  ASSUME NEW s, Sound(s), NEW id \in Ids, NEW comment \in Comments
  PROVE  LET t == Run(s, id, comment)
         IN  /\ Sound(t) /\ Leads(s, t) /\ SameView(s, t)
             /\ t.cache = s.cache /\ t.writes = s.writes
<1> DEFINE t == Run(s, id, comment)
           check == [id |-> id, seq |-> s.seqs[id] + 1, comment |-> comment]
<1>1. s \in Widgets /\ Len(s.writes) \in Nat /\ s.seqs \in [Ids -> Nat]
  BY DEF Sound, Widgets
<1>2. CASE ~ Gate
  BY <1>1, <1>2 DEF Run, Leads, Adds, SameView
<1>3. CASE Gate
  <2>1. check \in Checks /\ check.id = id /\ check.seq = s.seqs[id] + 1
    BY <1>1 DEF Checks
  <2>2. t = [s EXCEPT !.seqs = [s.seqs EXCEPT ![id] = @ + 1],
                      !.pending = s.pending \cup {id},
                      !.chips = [s.chips EXCEPT ![id] = "pending"],
                      !.checks = s.checks \cup {check}]
    BY <1>3 DEF Run
  <2> HIDE DEF check, t
  <2>3. t \in Widgets
    <3>1. /\ [s.seqs EXCEPT ![id] = @ + 1] \in [Ids -> Nat]
          /\ [s.chips EXCEPT ![id] = "pending"] \in [Ids -> {Null, "pending", "vague"}]
          /\ s.pending \cup {id} \subseteq Ids /\ s.checks \cup {check} \subseteq Checks
      BY <1>1, <2>1 DEF Widgets
    <3> QED
      BY <1>1, <2>2, <3>1 DEF Widgets
  <2>4. /\ t.seqs = [s.seqs EXCEPT ![id] = @ + 1] /\ t.pending = s.pending \cup {id}
        /\ t.checks = s.checks \cup {check} /\ SameLight(s, t)
        /\ t.cache = s.cache /\ t.writes = s.writes /\ SameView(s, t)
    BY <1>1, <2>2 DEF Widgets, SameView, SameLight
  <2>5. Awaited(t)
    <3> SUFFICES ASSUME NEW k \in t.pending
                 PROVE  \E c \in t.checks : c.id = k /\ c.seq = t.seqs[k]
      BY DEF Awaited
    <3>1. CASE k = id
      BY <1>1, <2>1, <2>4, <3>1
    <3>2. CASE k # id
      <4>1. k \in s.pending /\ k \in Ids /\ t.seqs[k] = s.seqs[k]
        BY <1>1, <2>4, <3>2 DEF Widgets
      <4> QED
        BY <2>4, <4>1 DEF Sound, Awaited
    <3> QED
      BY <3>1, <3>2
  <2>6. Sound(t)
    BY <2>3, <2>4, <2>5 DEF Sound, WritesOK, SameView, Lights, SameLight
  <2>7. Leads(s, t)
    BY <1>1, <2>4 DEF Leads, Adds, SameLight
  <2> QED
    BY <2>4, <2>6, <2>7 DEF t
<1> QED
  BY <1>2, <1>3

LEMMA ForgetIs ==
  ASSUME NEW s, Sound(s), NEW id \in Ids
  PROVE  LET t == Forget(s, id) IN Sound(t) /\ Leads(s, t)
<1> DEFINE t == Forget(s, id)
<1>1. s \in Widgets /\ Len(s.writes) \in Nat /\ s.seqs \in [Ids -> Nat] /\ s.pending \subseteq Ids
  BY DEF Sound, Widgets
<1>2. t \in Widgets
  BY <1>1 DEF Forget, Widgets
<1>3. /\ t.seqs = [s.seqs EXCEPT ![id] = 0] /\ t.pending = s.pending \ {id} /\ t.checks = s.checks
      /\ SameLight(s, t) /\ t.cache = s.cache /\ t.writes = s.writes /\ SameView(s, t)
  BY <1>1 DEF Forget, Widgets, SameView, SameLight
<1> HIDE DEF t
<1>4. Awaited(t)
  BY <1>1, <1>3 DEF Awaited, Sound
<1>5. Sound(t) /\ Leads(s, t)
  BY <1>1, <1>2, <1>3, <1>4 DEF Sound, WritesOK, SameView, Leads, Adds, Lights, SameLight
<1> QED
  BY <1>5 DEF t

LEMMA ForgetAllIs ==
  ASSUME NEW s, Sound(s)
  PROVE  LET t == ForgetAll(s) IN Sound(t) /\ Leads(s, t)
<1> DEFINE t == ForgetAll(s)
<1>1. s \in Widgets /\ Len(s.writes) \in Nat
  BY DEF Sound, Widgets
<1>2. t \in Widgets
  BY <1>1 DEF ForgetAll, Widgets, Nobody
<1>3. /\ t.pending = {} /\ SameLight(s, t) /\ t.cache = s.cache /\ t.writes = s.writes
      /\ SameView(s, t)
  BY <1>1 DEF ForgetAll, Widgets, SameView, SameLight
<1> HIDE DEF t
<1>4. Sound(t) /\ Leads(s, t)
  BY <1>1, <1>2, <1>3 DEF Sound, WritesOK, Awaited, SameView, Leads, Adds, Lights, SameLight
<1> QED
  BY <1>4 DEF t

(* An answer that is taken ends the wait, and shows nothing but the chip.   *)
LEMMA SettledIs ==
  ASSUME NEW s, Sound(s), NEW check \in Checks, NEW ok \in BOOLEAN
  PROVE  LET t == Settled(s, check, ok)
         IN  /\ Sound(t) /\ Leads(s, t) /\ t.checks = s.checks
             /\ check.id \in t.pending => t.seqs[check.id] # check.seq
             /\ \A pg \in Pages : Fine(s, pg) => Fine(t, pg)
<1> DEFINE t == Settled(s, check, ok)
           id == check.id
           chip == IF ok THEN Chip(check.comment) ELSE Null
           heard == [s EXCEPT !.pending = @ \ {id}, !.chips[id] = chip]
           verdict == [of |-> check.comment, refined |-> FALSE]
           record == [s.cache[id] EXCEPT !.verdict = verdict]
<1>1. /\ s \in Widgets /\ Len(s.writes) \in Nat /\ id \in Ids /\ verdict \in Verdicts
      /\ s.pending \subseteq Ids /\ s.cache \in Views
  BY DEF Sound, Widgets, Checks, Verdicts
<1>2. CASE s.seqs[id] # check.seq
  <2>1. t = s
    BY <1>2 DEF Settled
  <2> QED
    BY <1>1, <1>2, <2>1 DEF Leads, Adds
<1>3. CASE s.seqs[id] = check.seq
  <2>1. chip \in {Null, "pending", "vague"}
    BY DEF Chip
  <2> HIDE DEF chip
  <2>2. heard = [s EXCEPT !.pending = s.pending \ {id}, !.chips = [s.chips EXCEPT ![id] = chip]]
    OBVIOUS
  <2>3. t = IF ~ok \/ s.cache[id] = Null THEN heard ELSE Updated(heard, id, record)
    BY <1>3 DEF Settled, chip
  <2> HIDE DEF heard, t
  <2>4. heard \in Widgets
    BY <1>1, <2>1, <2>2 DEF Widgets
  <2>5. /\ heard.pending = s.pending \ {id} /\ heard.seqs = s.seqs /\ heard.checks = s.checks
        /\ SameLight(s, heard) /\ heard.cache = s.cache /\ heard.writes = s.writes
        /\ SameView(s, heard)
    BY <1>1, <2>2 DEF Widgets, SameView, SameLight
  <2>6. Sound(heard) /\ Leads(s, heard)
    BY <1>1, <2>4, <2>5 DEF Sound, WritesOK, Awaited, SameView, Leads, Adds, Lights, SameLight
  <2>7. CASE t = heard
    <3>1. \A pg \in Pages : Fine(s, pg) => Fine(t, pg)
      BY <2>5, <2>7 DEF Fine, ShownOn, PanelOn, SameView
    <3> QED
      BY <2>5, <2>6, <2>7, <3>1 DEF t
  <2>8. CASE s.cache[id] # Null /\ t = Updated(heard, id, record)
    <3>1. s.cache[id] \in Records
      BY <1>1, <2>8 DEF Views, Maybe
    <3>2. record \in Records /\ Looks(record, s.cache[id])
      BY <1>1, <3>1, NullIsNone DEF Records, Looks
    <3> HIDE DEF record
    <3>3. Written(heard, t, id, record) /\ Looks(t.cache[id], record)
      BY <1>1, <2>5, <2>6, <2>8, <3>2, UpdatedIs
    <3>4. Sound(t) /\ Leads(heard, t) /\ SameView(heard, t) /\ SameChecks(heard, t)
      BY <3>3 DEF Written
    <3>5. Leads(s, t)
      BY <1>1, <2>4, <2>6, <3>4, AddsIsTransitive DEF Leads, Sound
    <3>6. \A k \in Ids : Looks(t.cache[k], s.cache[k])
      BY <2>5, <3>2, <3>3 DEF Written, Looks
    <3>7. SameView(s, t)
      BY <2>5, <3>4 DEF SameView
    <3>8. \A pg \in Pages : Fine(s, pg) => Fine(t, pg)
      BY <3>6, <3>7, SameLooksShown
    <3>9. t.checks = s.checks /\ id \notin t.pending
      BY <2>5, <3>4 DEF SameChecks
    <3> QED
      BY <3>4, <3>5, <3>8, <3>9 DEF t
  <2> QED
    BY <2>3, <2>7, <2>8 DEF t
<1> QED
  BY <1>2, <1>3

-----------------------------------------------------------------------------
(* The popup. *)

\* The edit that was open in s is among the writes of t.
Committed(s, t) ==
  Dirty(s.popup) /\ s.cache[s.popup.id] # Null =>
    \E i \in DOMAIN t.writes :
      /\ i > Len(s.writes) /\ t.writes[i].id = s.popup.id
      /\ t.writes[i].body # Null /\ t.writes[i].body.comment = s.popup.draft

LEMMA CommittedLasts ==
  ASSUME NEW s \in Widgets, NEW t \in Widgets, NEW u \in Widgets, Committed(s, t), Adds(t, u)
  PROVE  Committed(s, u)
<1>1. /\ Len(t.writes) \in Nat /\ Len(u.writes) \in Nat
      /\ DOMAIN t.writes = 1 .. Len(t.writes) /\ DOMAIN u.writes = 1 .. Len(u.writes)
  BY DEF Widgets
<1> QED
  BY <1>1 DEF Committed, Adds

(* A committed edit is written, shown, and checked again.                   *)
LEMMA OnEditIs ==
  ASSUME NEW s, Sound(s), NEW id \in Ids, NEW comment \in Comments, page \in Pages
  PROVE  LET t == OnEdit(s, id, comment)
         IN  /\ Sound(t) /\ Leads(s, t) /\ Fine(t, page)
             /\ s.cache[id] # Null =>
                  \E i \in DOMAIN t.writes :
                    /\ i > Len(s.writes) /\ t.writes[i].id = id
                    /\ t.writes[i].body # Null /\ t.writes[i].body.comment = comment
<1> DEFINE t == OnEdit(s, id, comment)
           record == [s.cache[id] EXCEPT !.comment = comment]
           edited == IF s.cache[id] = Null THEN s ELSE Updated(s, id, record)
           shown == Refreshed(edited, page)
<1>1. s \in Widgets /\ Len(s.writes) \in Nat /\ s.cache \in Views
  BY DEF Sound, Widgets
<1>2. t = Run(shown, id, comment)
  BY DEF OnEdit, Refresh
<1>3. /\ Sound(edited) /\ Leads(s, edited)
      /\ s.cache[id] # Null =>
           /\ Len(edited.writes) = Len(s.writes) + 1 /\ edited.writes[Len(edited.writes)].id = id
           /\ edited.writes[Len(edited.writes)].body # Null
           /\ edited.writes[Len(edited.writes)].body.comment = comment
  <2>1. CASE s.cache[id] = Null
    BY <1>1, <2>1 DEF Leads, Adds
  <2>2. CASE s.cache[id] # Null
    <3>1. s.cache[id] \in Records
      BY <1>1, <2>2 DEF Views, Maybe
    <3>2. record \in Records /\ record.comment = comment /\ record \in Maybe /\ record # Null
      BY <3>1, NullIsNone DEF Records, Maybe
    <3>3. edited = Updated(s, id, record)
      BY <2>2
    <3> HIDE DEF record, edited
    <3>4. Written(s, edited, id, record)
      BY <2>2, <3>2, <3>3, UpdatedIs
    <3>5. Plain(record) # Null /\ Plain(record).comment = comment
      BY <3>2, PlainIs
    <3> QED
      BY <3>4, <3>5 DEF Written
  <2> QED
    BY <2>1, <2>2
<1> HIDE DEF edited
<1>4. /\ Sound(shown) /\ Leads(edited, shown) /\ ShownOn(shown, page)
      /\ shown.writes = edited.writes
  BY <1>3, RefreshedIs
<1> HIDE DEF shown, t
<1>5. /\ Sound(t) /\ Leads(shown, t) /\ SameView(shown, t)
      /\ t.cache = shown.cache /\ t.writes = shown.writes
  BY <1>2, <1>4, RunIs
<1>6. Leads(s, t)
  <2>1. edited \in Widgets /\ shown \in Widgets /\ t \in Widgets
    BY <1>3, <1>4, <1>5 DEF Sound
  <2>2. Adds(s, shown)
    BY <1>1, <1>3, <1>4, <2>1, AddsIsTransitive DEF Leads
  <2> QED
    BY <1>1, <1>3, <1>4, <1>5, <2>1, <2>2, AddsIsTransitive DEF Leads
<1>7. Fine(t, page)
  BY <1>4, <1>5 DEF Fine, ShownOn, PanelOn, SameView
<1>8. s.cache[id] # Null =>
        \E i \in DOMAIN t.writes :
          /\ i > Len(s.writes) /\ t.writes[i].id = id
          /\ t.writes[i].body # Null /\ t.writes[i].body.comment = comment
  <2> SUFFICES ASSUME s.cache[id] # Null
               PROVE  \E i \in DOMAIN t.writes :
                        /\ i > Len(s.writes) /\ t.writes[i].id = id
                        /\ t.writes[i].body # Null /\ t.writes[i].body.comment = comment
    OBVIOUS
  <2>1. t.writes = edited.writes
    BY <1>4, <1>5
  <2>2. DOMAIN t.writes = 1 .. Len(t.writes) /\ Len(t.writes) \in Nat
    BY <1>5 DEF Sound, Widgets
  <2>3. Len(t.writes) \in DOMAIN t.writes /\ Len(t.writes) > Len(s.writes)
    BY <1>1, <1>3, <2>1, <2>2
  <2> QED
    BY <1>3, <2>1, <2>3
<1> QED
  BY <1>5, <1>6, <1>7, <1>8 DEF t

LEMMA ClosedIs == Closed \in Popups /\ PopupOK(Closed) /\ Closed.kind = "closed" /\ Closed.id = Null
                  /\ \A s : Lights(s, Closed)
BY DEF Closed, Popups, PopupOK, Lights

LEMMA WithPopup ==
  ASSUME NEW s, Sound(s), NEW p, PopupOK(p), Lights(s, p)
  PROVE  LET t == [s EXCEPT !.popup = p]
         IN  /\ t \in Widgets /\ Beside(s, t) /\ t.popup = p /\ Sound(t) /\ Adds(s, t)
             /\ \A pg \in Pages : Fine(s, pg) => Fine(t, pg)
<1> DEFINE t == [s EXCEPT !.popup = p]
<1>1. s \in Widgets
  BY DEF Sound
<1>2. t \in Widgets /\ t.popup = p
  BY <1>1 DEF Widgets, PopupOK
<1>3. Beside(s, t) /\ Lights(t, t.popup)
  BY <1>1, <1>2 DEF Lights, Beside, SameStore, SameView, SameChecks, Widgets
<1> HIDE DEF t
<1>4. Sound(t) /\ Adds(s, t) /\ \A pg \in Pages : Fine(s, pg) => Fine(t, pg)
  BY <1>2, <1>3, BesideIs
<1> QED
  BY <1>2, <1>3, <1>4 DEF t

\* Nothing is lost, neither a write nor what the page is to show.
Proceeds(s, t) == Sound(t) /\ Adds(s, t) /\ (Fine(s, page) => Fine(t, page))

\* And a popup went, or took the place of another, and no text with it.
Closes(s, t) == Proceeds(s, t) /\ Committed(s, t)

LEMMA HiddenIs ==
  ASSUME NEW s, Sound(s), page \in Pages
  PROVE  Closes(s, Hidden(s)) /\ Hidden(s).popup = Closed
<1> DEFINE p == s.popup
           flushed == IF Dirty(p) THEN OnEdit(s, p.id, p.draft) ELSE s
<1>1. s \in Widgets /\ Len(s.writes) \in Nat /\ PopupOK(p)
  BY DEF Sound, Widgets
<1>2. /\ Sound(flushed) /\ Adds(s, flushed) /\ Committed(s, flushed)
      /\ Fine(s, page) => Fine(flushed, page)
  <2>1. CASE ~ Dirty(p)
    BY <1>1, <2>1 DEF Adds, Committed
  <2>2. CASE Dirty(p)
    <3>1. p.id \in Ids /\ p.draft \in Comments
      BY <1>1, <2>2 DEF Dirty, PopupOK, Popups
    <3>2. flushed = OnEdit(s, p.id, p.draft)
      BY <2>2
    <3> HIDE DEF flushed
    <3> QED
      BY <3>1, <3>2, OnEditIs DEF Committed, Leads
  <2> QED
    BY <2>1, <2>2
<1> HIDE DEF flushed
<1>3. Hidden(s) = [flushed EXCEPT !.popup = Closed]
  BY DEF Hidden, flushed
<1>4. /\ Sound(Hidden(s)) /\ Adds(flushed, Hidden(s)) /\ Hidden(s).popup = Closed
      /\ \A pg \in Pages : Fine(flushed, pg) => Fine(Hidden(s), pg)
  BY <1>2, <1>3, ClosedIs, WithPopup
<1>5. Adds(s, Hidden(s)) /\ Committed(s, Hidden(s))
  BY <1>1, <1>2, <1>4, AddsIsTransitive, CommittedLasts DEF Sound
<1> QED
  BY <1>2, <1>4, <1>5 DEF Closes, Proceeds

\* What follows a popup that has gone.
LEMMA ClosesOn ==
  ASSUME NEW s, Sound(s), NEW t, Closes(s, t), NEW u, Proceeds(t, u)
  PROVE  Closes(s, u)
BY AddsIsTransitive, CommittedLasts DEF Closes, Proceeds, Sound

LEMMA UnselectedIs ==
  ASSUME NEW s, Sound(s), s.popup.kind # "detail"
  PROVE  LET t == Unselected(s)
         IN  /\ Sound(t) /\ Leads(s, t) /\ Beside(s, t)
             /\ \A pg \in Pages : Fine(s, pg) => Fine(t, pg)
<1> DEFINE t == Unselected(s)
<1>1. s \in Widgets /\ PopupOK(s.popup)
  BY DEF Sound
<1>2. t \in Widgets /\ t.popup = s.popup
  BY <1>1 DEF Unselected, Widgets
<1>3. Beside(s, t) /\ Lights(t, t.popup)
  BY <1>1, <1>2 DEF Lights, Unselected, Beside, SameStore, SameView, SameChecks, Widgets
<1> HIDE DEF t
<1>4. Sound(t) /\ Adds(s, t) /\ \A pg \in Pages : Fine(s, pg) => Fine(t, pg)
  BY <1>1, <1>2, <1>3, BesideIs
<1> QED
  BY <1>2, <1>3, <1>4 DEF t, Leads

LEMMA DismissedIs ==
  ASSUME NEW s, Sound(s), page \in Pages
  PROVE  Closes(s, Dismissed(s)) /\ Dismissed(s).popup = Closed
<1>1. Closes(s, Hidden(s)) /\ Hidden(s).popup = Closed /\ Sound(Hidden(s))
  BY HiddenIs DEF Closes, Proceeds
<1>2. LET t == Unselected(Hidden(s))
      IN  Sound(t) /\ Leads(Hidden(s), t) /\ \A pg \in Pages : Fine(Hidden(s), pg) => Fine(t, pg)
  BY <1>1, ClosedIs, UnselectedIs
<1>3. Closes(s, Unselected(Hidden(s))) /\ Unselected(Hidden(s)).popup = Closed
  BY <1>1, <1>2, ClosesOn DEF Leads, Proceeds
<1> QED
  BY <1>1, <1>3 DEF Dismissed

LEMMA DetailIs ==
  ASSUME NEW s, Sound(s), NEW id \in Ids, s.cache[id] # Null
  PROVE  PopupOK(Detail(s, id)) /\ Detail(s, id).kind = "detail" /\ Detail(s, id).id = id
<1>1. s.cache[id] \in Records
  BY DEF Sound, Widgets, Views, Maybe
<1> DEFINE awaited == id \in s.pending
<1>2. awaited \in BOOLEAN
  OBVIOUS
<1>4. Detail(s, id)
        = [Closed EXCEPT !.kind = "detail", !.id = id, !.comment = s.cache[id].comment,
                         !.status = s.cache[id].status, !.verdict = s.cache[id].verdict,
                         !.pending = awaited]
  BY DEF Detail
<1> HIDE DEF awaited
<1>3. /\ s.cache[id].comment \in Comments /\ s.cache[id].status \in Statuses
      /\ s.cache[id].verdict \in Verdicts \cup {Null}
  BY <1>1 DEF Records
<1> QED
  BY <1>2, <1>3, <1>4, NullIsNone DEF Closed, PopupOK, Popups

(* A popup of an annotation, with its highlight.                            *)
LEMMA ShowingIs ==
  ASSUME NEW s, Sound(s), NEW id \in Ids, NEW p, PopupOK(p), p.id = id
  PROVE  LET t == [[s EXCEPT !.popup = p] EXCEPT !.selected = id, !.suppressed = id]
         IN  Sound(t) /\ Adds(s, t) /\ t.popup = p /\ \A pg \in Pages : Fine(s, pg) => Fine(t, pg)
<1> DEFINE t == [[s EXCEPT !.popup = p] EXCEPT !.selected = id, !.suppressed = id]
<1>1. s \in Widgets
  BY DEF Sound
<1>2. t \in Widgets /\ t.popup = p /\ Lights(t, t.popup)
  BY <1>1 DEF Widgets, PopupOK, Lights
<1>3. Beside(s, t)
  BY <1>1 DEF Beside, SameStore, SameView, SameChecks, Widgets
<1> HIDE DEF t
<1>4. Sound(t) /\ Adds(s, t) /\ \A pg \in Pages : Fine(s, pg) => Fine(t, pg)
  BY <1>2, <1>3, BesideIs
<1> QED
  BY <1>2, <1>4 DEF t

LEMMA ProceedsOn ==
  ASSUME NEW s, Sound(s), NEW t, Proceeds(s, t), NEW u, Proceeds(t, u)
  PROVE  Proceeds(s, u)
BY AddsIsTransitive DEF Proceeds, Sound

LEMMA ProceedsAtOnce ==
  ASSUME NEW s, Sound(s)
  PROVE  Proceeds(s, s)
<1>1. Len(s.writes) \in Nat
  BY DEF Sound, Widgets
<1> QED
  BY <1>1 DEF Proceeds, Adds

LEMMA MarkerClickedIs ==
  ASSUME NEW s, Sound(s), NEW id \in Ids, page \in Pages
  PROVE  LET t == MarkerClicked(s, id)
         IN  Proceeds(s, t) /\ (s.popup.kind = "detail" /\ s.popup.id = id => Closes(s, t))
<1> DEFINE t == MarkerClicked(s, id)
<1>1. Closes(s, Hidden(s)) /\ Sound(Hidden(s)) /\ Hidden(s).popup = Closed
  BY HiddenIs DEF Closes, Proceeds
<1>2. CASE s.popup.kind = "detail" /\ s.popup.id = id
  <2>1. t = Unselected(Hidden(s))
    BY <1>2 DEF MarkerClicked
  <2>2. Proceeds(Hidden(s), t)
    BY <1>1, <2>1, ClosedIs, UnselectedIs DEF Proceeds, Leads
  <2> QED
    BY <1>1, <2>2, ClosesOn DEF Closes
<1>3. CASE ~ (s.popup.kind = "detail" /\ s.popup.id = id) /\ (s.cache[id] = Null \/ id \notin page.dom)
  <2>1. t = s
    BY <1>3 DEF MarkerClicked
  <2> QED
    BY <1>3, <2>1, ProceedsAtOnce
<1>4. CASE ~ (s.popup.kind = "detail" /\ s.popup.id = id) /\ ~ (s.cache[id] = Null \/ id \notin page.dom)
  <2> DEFINE p == Detail(s, id)
             hidden == Hidden(s)
  <2>1. t = [[hidden EXCEPT !.popup = p] EXCEPT !.selected = id, !.suppressed = id]
    BY <1>4 DEF MarkerClicked, Showing
  <2>2. PopupOK(p) /\ p.id = id
    BY <1>4, DetailIs
  <2> HIDE DEF p, hidden, t
  <2>3. Sound(hidden) /\ Closes(s, hidden)
    BY <1>1 DEF hidden
  <2>4. Proceeds(hidden, t)
    BY <1>1, <2>1, <2>2, <2>3, ShowingIs DEF Proceeds
  <2>5. Closes(s, t)
    BY <2>3, <2>4, ClosesOn
  <2> QED
    BY <2>5 DEF t, Closes
<1> QED
  BY <1>2, <1>3, <1>4

-----------------------------------------------------------------------------
(* Transitions. *)

LEMMA RelabelledIs ==
  ASSUME NEW s, Sound(s), NEW id \in Ids, NEW status \in Statuses
  PROVE  LET t == Relabelled(s, id, status) IN Sound(t) /\ Leads(s, t)
<1> DEFINE t == Relabelled(s, id, status)
           marked(o) == Marked(s, id, status, o)
           q == [i \in DOMAIN s.writes |-> [s.writes[i] EXCEPT !.kept[id] = marked(@)]]
<1>1. /\ s \in Widgets /\ s.cache \in Views /\ s.markers \in Views /\ s.writes \in Seq(Writes)
      /\ Len(s.writes) \in Nat /\ DOMAIN s.writes = 1 .. Len(s.writes)
  BY DEF Sound, Widgets
<1>2. \A o \in Maybe : marked(o) \in Maybe
  <2> SUFFICES ASSUME NEW o \in Records PROVE [o EXCEPT !.status = status] \in Records
    BY NullIsNone DEF Maybe, Marked
  <2> QED
    BY DEF Records
<1>3. t = [s EXCEPT !.cache = [s.cache EXCEPT ![id] = marked(s.cache[id])],
                    !.markers = [s.markers EXCEPT ![id] = marked(s.markers[id])],
                    !.writes = q]
  BY DEF Relabelled
<1> HIDE DEF marked
<1>4. ASSUME NEW c \in Views PROVE [c EXCEPT ![id] = marked(c[id])] \in Views
  BY <1>2 DEF Views
<1>5. ASSUME NEW i \in DOMAIN s.writes
      PROVE  /\ q[i] \in Writes /\ q[i].id = s.writes[i].id /\ q[i].body = s.writes[i].body
             /\ q[i].kind = s.writes[i].kind
  <2>0. s.writes[i] \in Writes
    BY <1>1
  <2>1. s.writes[i] \in Writes /\ s.writes[i].kept \in Views
    BY <2>0 DEF Writes
  <2>2. q[i] = [s.writes[i] EXCEPT !.kept = [s.writes[i].kept EXCEPT ![id] = marked(s.writes[i].kept[id])]]
    OBVIOUS
  <2>3. [s.writes[i].kept EXCEPT ![id] = marked(s.writes[i].kept[id])] \in Views
    BY <1>4, <2>1
  <2> QED
    BY <2>1, <2>2, <2>3 DEF Writes
<1>6. q \in Seq(Writes) /\ Len(q) = Len(s.writes) /\ DOMAIN q = DOMAIN s.writes
  <2>1. q \in [1 .. Len(s.writes) -> Writes]
    BY <1>1, <1>5
  <2> QED
    BY <1>1, <2>1
<1> HIDE DEF q, t
<1>7. t \in Widgets
  BY <1>1, <1>3, <1>4, <1>6 DEF Widgets
<1>8. /\ t.writes = q /\ SameLight(s, t) /\ SameChecks(s, t)
      /\ t.other = s.other /\ t.detached = s.detached
  BY <1>1, <1>3 DEF Widgets, SameChecks, SameLight
<1>9. Sound(t)
  BY <1>5, <1>6, <1>7, <1>8 DEF Sound, WritesOK, Awaited, SameChecks, Lights, SameLight
<1>10. Leads(s, t)
  BY <1>1, <1>5, <1>6, <1>8 DEF Leads, Adds, SameLight
<1> QED
  BY <1>9, <1>10 DEF t

LEMMA TargetIs ==
  ASSUME NEW action \in Actions
  PROVE  Target[action] \in Statuses
BY DEF Actions, Target, Statuses

LEMMA TransitionIs ==
  ASSUME NEW s, Sound(s), NEW id \in Ids, NEW action \in Actions, page \in Pages
  PROVE  LET t == Transition(s, id, action) IN Proceeds(s, t) /\ t.popup = s.popup
<1> DEFINE t == Transition(s, id, action)
           record == [s.cache[id] EXCEPT !.status = Target[action]]
           updated == Updated(s, id, record)
           labelled == Relabelled(updated, id, Target[action])
<1>1. CASE s.cache[id] = Null \/ s.cache[id].status \notin Sources[action]
  <2>1. t = s
    BY <1>1 DEF Transition
  <2> QED
    BY <2>1, ProceedsAtOnce
<1>2. CASE s.cache[id] # Null /\ s.cache[id].status \in Sources[action]
  <2>1. s.cache[id] \in Records /\ Target[action] \in Statuses
    BY <1>2, TargetIs DEF Sound, Widgets, Views, Maybe
  <2>2. record \in Records
    BY <2>1 DEF Records
  <2>3. t = Refreshed(labelled, page)
    BY <1>2 DEF Transition, Refresh
  <2> HIDE DEF record, t
  <2>4. Sound(updated) /\ Leads(s, updated)
    BY <1>2, <2>2, UpdatedIs DEF Written
  <2> HIDE DEF updated
  <2>5. Sound(labelled) /\ Leads(updated, labelled)
    BY <2>1, <2>4, RelabelledIs
  <2> HIDE DEF labelled
  <2>6. Sound(t) /\ Leads(labelled, t) /\ Fine(t, page)
    BY <2>3, <2>5, RefreshedIs DEF Fine
  <2>7. Adds(s, labelled)
    BY <2>4, <2>5, AddsIsTransitive DEF Leads, Sound
  <2>8. Adds(s, t)
    BY <2>5, <2>6, <2>7, AddsIsTransitive DEF Leads, Sound
  <2> QED
    BY <2>4, <2>5, <2>6, <2>8 DEF Proceeds, Leads, t
<1> QED
  BY <1>1, <1>2

(* Submitting one draft after the other.                                    *)
LEMMA SubmittedIs ==
  ASSUME NEW s, Sound(s), page \in Pages
  PROVE  Proceeds(s, Submitted(s)) /\ Submitted(s).popup = s.popup
<1> DEFINE S == {id \in OnRoute(s.cache, page.route) : s.cache[id].status = "draft"}
           R == {t \in Widgets : Proceeds(s, t) /\ t.popup = s.popup}
           step == [p \in S \X R |-> Transition(p[2], p[1], "submit")]
           Fold(g) == g = [T \in SUBSET S |->
                             IF T = {} THEN s
                             ELSE LET x == CHOOSE x \in T : TRUE IN Transition(g[T \ {x}], x, "submit")]
<1>1. Submitted(s) = (CHOOSE g : Fold(g))[S]
  BY DEF Submitted, FoldSet, MapThenFoldSet
<1>2. IsFiniteSet(S) /\ S \subseteq Ids
  <2>1. S \subseteq OnRoute(s.cache, page.route)
    OBVIOUS
  <2> QED
    BY <2>1, OnRouteIs, FS_Subset
<1> HIDE DEF S
<1>3. s \in R
  BY ProceedsAtOnce DEF Sound
<1>4. step \in [S \X R -> R]
  <2> SUFFICES ASSUME NEW x \in S, NEW t \in R PROVE Transition(t, x, "submit") \in R
    OBVIOUS
  <2>1. x \in Ids /\ Sound(t) /\ "submit" \in Actions
    BY <1>2 DEF Proceeds, Actions
  <2>2. Proceeds(t, Transition(t, x, "submit")) /\ Transition(t, x, "submit").popup = t.popup
    BY <2>1, TransitionIs
  <2> QED
    BY <2>1, <2>2, ProceedsOn DEF Proceeds, Sound
<1>5a. PICK g : IsSetFold(g, R, S, s, step)
  <2> HIDE DEF R, step
  <2> QED
    BY <1>2, <1>3, <1>4, SetFoldExists
<1>5. g \in [SUBSET S -> R] /\ \A T \in SUBSET S : g[T] = FoldedOn(g, T, s, step)
  BY <1>5a DEF IsSetFold
<1>6. ASSUME NEW T \in SUBSET S
      PROVE  g[T] = IF T = {} THEN s
                    ELSE LET x == CHOOSE x \in T : TRUE IN Transition(g[T \ {x}], x, "submit")
  <2>1. CASE T = {}
    BY <1>5, <2>1 DEF FoldedOn
  <2>2. CASE T # {}
    <3> DEFINE x == CHOOSE x \in T : TRUE
    <3>1. x \in S /\ g[T \ {x}] \in R
      BY <1>5, <2>2
    <3>2. g[T] = step[<<x, g[T \ {x}]>>]
      BY <1>5, <2>2 DEF FoldedOn
    <3> HIDE DEF x, R
    <3>3. step[<<x, g[T \ {x}]>>] = Transition(g[T \ {x}], x, "submit")
      BY <3>1
    <3> QED
      BY <2>2, <3>2, <3>3 DEF x
  <2> QED
    BY <2>1, <2>2
<1>7. Fold(g)
  BY <1>5, <1>6
<1> DEFINE h == CHOOSE h : Fold(h)
<1>8. Fold(h)
  <2> HIDE DEF Fold
  <2> QED
    BY <1>7
<1> HIDE DEF h
<1> DEFINE N == {k \in Nat : \A T \in SUBSET S : Cardinality(T) <= k => h[T] \in R}
<1>9. 0 \in N
  <2>1. \A T \in SUBSET S : Cardinality(T) \in Nat /\ (Cardinality(T) = 0 <=> T = {})
    BY <1>2, FS_Subset, FS_CardinalityType, FS_EmptySet
  <2> QED
    BY <1>3, <1>8, <2>1
<1>10. ASSUME NEW k \in Nat, k \in N PROVE k + 1 \in N
  <2> SUFFICES ASSUME NEW T \in SUBSET S, Cardinality(T) <= k + 1 PROVE h[T] \in R
    OBVIOUS
  <2>1. CASE T = {}
    BY <1>3, <1>8, <2>1
  <2>2. CASE T # {}
    <3> DEFINE x == CHOOSE x \in T : TRUE
    <3>1. x \in T /\ x \in S /\ T \ {x} \in SUBSET S
      BY <2>2
    <3>2. IsFiniteSet(T) /\ Cardinality(T) \in Nat
      BY <1>2, FS_Subset, FS_CardinalityType
    <3>3. h[T] = Transition(h[T \ {x}], x, "submit")
      BY <1>8, <2>2
    <3> HIDE DEF x
    <3>4. Cardinality(T \ {x}) = Cardinality(T) - 1
      BY <3>1, <3>2, FS_RemoveElement
    <3>5. h[T \ {x}] \in R
      BY <1>10, <3>1, <3>2, <3>4
    <3>6. step[<<x, h[T \ {x}]>>] = h[T]
      BY <3>1, <3>3, <3>5
    <3> HIDE DEF R, step
    <3> QED
      BY <1>4, <3>1, <3>5, <3>6
  <2> QED
    BY <2>1, <2>2
<1>11. h[S] \in R
  <2>1. Cardinality(S) \in Nat
    BY <1>2, FS_CardinalityType
  <2>2. Cardinality(S) \in N
    <3> HIDE DEF N
    <3> QED
      BY <1>9, <1>10, <2>1, SetInduction
  <2> QED
    BY <2>1, <2>2
<1>12. Submitted(s) = h[S]
  BY <1>1 DEF h
<1> QED
  BY <1>11, <1>12

-----------------------------------------------------------------------------
(* The steps. *)

PageInv ==
  /\ used \subseteq Ids
  /\ page \in [route : Routes, dom : SUBSET used, narrow : BOOLEAN, submitFlow : SubmitFlows]
  /\ stored \in Views

\* The inductive invariant: a sound widget that is shown on the page or is going to be.
WInv == Sound(w) /\ Fine(w, page) /\ PageInv

\* What a step does with the popup.
TextKept(s, t) ==
  Committed(s, t) \/ (t.popup.kind = s.popup.kind /\ t.popup.id = s.popup.id)

Kept == WInv' /\ TextKept(w, w')

LEMMA PageIs == WInv => page \in Pages /\ Sound(w) /\ w \in Widgets /\ PopupOK(w.popup)
BY DEF WInv, PageInv, Pages, Sound

(* A step that only concerns the widget.                                    *)
LEMMA WidgetStep ==
  ASSUME WInv, NEW s, w' = s, UNCHANGED <<page, stored, used>>, Sound(s), Fine(s, page), TextKept(w, s)
  PROVE  Kept
BY DEF WInv, PageInv, Kept

LEMMA ClosingStep ==
  ASSUME WInv, NEW s, w' = s, UNCHANGED <<page, stored, used>>, Closes(w, s)
  PROVE  Kept
<1>1. Sound(s) /\ Fine(s, page) /\ TextKept(w, s)
  BY DEF WInv, Closes, Proceeds, TextKept
<1> QED
  BY <1>1, WidgetStep

LEMMA PopupStep ==
  ASSUME WInv, NEW s, w' = s, UNCHANGED <<page, stored, used>>, Proceeds(w, s),
         s.popup.kind = w.popup.kind, s.popup.id = w.popup.id
  PROVE  Kept
<1>1. Sound(s) /\ Fine(s, page) /\ TextKept(w, s)
  BY DEF WInv, Proceeds, TextKept
<1> QED
  BY <1>1, WidgetStep

LEMMA RefreshIs ==
  ASSUME NEW s, Sound(s), page \in Pages
  PROVE  /\ Sound(Refresh(s)) /\ Leads(s, Refresh(s)) /\ Fine(Refresh(s), page)
         /\ Refresh(s).popup = s.popup /\ Proceeds(s, Refresh(s))
BY RefreshedIs DEF Refresh, Fine, Leads, Proceeds

LEMMA ModesAre ==
  ASSUME NEW s, Sound(s)
  PROVE  /\ Proceeds(s, NotInspecting(s)) /\ NotInspecting(s).popup = s.popup
         /\ Proceeds(s, Toggled(s)) /\ Toggled(s).popup = s.popup
<1>1. s \in Widgets /\ PopupOK(s.popup)
  BY DEF Sound
<1>2. ASSUME NEW t \in {NotInspecting(s), [s EXCEPT !.inspecting = TRUE]}
      PROVE  Proceeds(s, t) /\ t.popup = s.popup
  <2>1. t \in Widgets /\ SameLight(s, t) /\ Beside(s, t)
    BY <1>1, <1>2 DEF NotInspecting, SameLight, Beside, SameStore, SameView, SameChecks, Widgets
  <2>2. Sound(t) /\ Adds(s, t)
    BY <1>1, <2>1, BesideIs DEF Lights, SameLight, Sound
  <2>3. Fine(s, page) => Fine(t, page)
    BY <2>1 DEF Beside, SameStore, SameView, Fine, ShownOn, PanelOn
  <2> QED
    BY <2>1, <2>2, <2>3 DEF Proceeds, SameLight
<1> QED
  BY <1>2 DEF Toggled

LEMMA ToggleInspectKeeps == WInv /\ ToggleInspect => Kept
<1> SUFFICES ASSUME WInv, ToggleInspect PROVE Kept
  OBVIOUS
<1>1. page \in Pages /\ Sound(w)
  BY PageIs
<1>2. UNCHANGED <<page, stored, used>>
  BY DEF ToggleInspect, Gesture
<1>3. CASE w' = Toggled(w)
  BY <1>1, <1>2, <1>3, ModesAre, PopupStep
<1>4. CASE w' = Toggled(Dismissed(w))
  <2>1. Closes(w, Dismissed(w)) /\ Sound(Dismissed(w))
    BY <1>1, DismissedIs DEF Closes, Proceeds
  <2>2. Closes(w, Toggled(Dismissed(w)))
    BY <1>1, <2>1, ModesAre, ClosesOn
  <2> QED
    BY <1>2, <1>4, <2>2, ClosingStep
<1> QED
  BY <1>3, <1>4 DEF ToggleInspect, Gesture

LEMMA ToggleSpacingKeeps == WInv /\ ToggleSpacing => Kept
<1> SUFFICES ASSUME WInv, ToggleSpacing PROVE Kept
  OBVIOUS
<1> DEFINE shown == ~ w.spacing
           t == [w EXCEPT !.spacing = shown]
<1>1. page \in Pages /\ Sound(w) /\ w \in Widgets /\ PopupOK(w.popup)
  BY PageIs
<1>4. w' = t /\ UNCHANGED <<page, stored, used>>
  BY DEF ToggleSpacing, Gesture
<1>2. shown \in BOOLEAN
  OBVIOUS
<1> HIDE DEF shown
<1>3. t \in Widgets /\ SameLight(w, t) /\ Beside(w, t)
  BY <1>1, <1>2 DEF SameLight, Beside, SameStore, SameView, SameChecks, Widgets
<1> HIDE DEF t
<1>5. Proceeds(w, t)
  <2>1. PopupOK(t.popup) /\ Lights(t, t.popup)
    BY <1>1, <1>3 DEF Sound, Lights, SameLight
  <2> QED
    BY <1>1, <1>3, <2>1, BesideIs DEF Proceeds
<1> QED
  BY <1>3, <1>4, <1>5, PopupStep DEF SameLight

\* Another text in the edit field, or another reason asked for.
LEMMA PopupChange ==
  ASSUME WInv, NEW p, w' = [w EXCEPT !.popup = p], UNCHANGED <<page, stored, used>>,
         PopupOK(p), p.kind = w.popup.kind, p.id = w.popup.id
  PROVE  Kept
<1> DEFINE t == [w EXCEPT !.popup = p]
<1>1. page \in Pages /\ Sound(w)
  BY PageIs
<1>2. Lights(w, p)
  BY <1>1 DEF Sound, Lights
<1>3. Proceeds(w, t) /\ t.popup = p
  BY <1>1, <1>2, WithPopup DEF Proceeds
<1> QED
  BY <1>3, PopupStep

LEMMA EscapeKeeps == WInv /\ Escape => Kept
<1> SUFFICES ASSUME WInv, Escape PROVE Kept
  OBVIOUS
<1>1. page \in Pages /\ Sound(w) /\ PopupOK(w.popup)
  BY PageIs
<1>2. UNCHANGED <<page, stored, used>>
  BY DEF Escape, Gesture
<1>3. Closes(w, Dismissed(w)) /\ Sound(Dismissed(w))
  BY <1>1, DismissedIs DEF Closes, Proceeds
<1>4. CASE w.popup.draft # Null /\ w' = [w EXCEPT !.popup.draft = Null]
  <2> DEFINE p == [w.popup EXCEPT !.draft = Null]
  <2>1. PopupOK(p) /\ p.kind = w.popup.kind /\ p.id = w.popup.id
    BY <1>1 DEF PopupOK, Popups
  <2>2. w' = [w EXCEPT !.popup = p]
    BY <1>4
  <2> HIDE DEF p
  <2> QED
    BY <1>2, <2>1, <2>2, PopupChange
<1>5. CASE w' = Dismissed(w)
  BY <1>2, <1>3, <1>5, ClosingStep
<1>6. CASE w' = NotInspecting(Dismissed(w))
  <2>1. Closes(w, NotInspecting(Dismissed(w)))
    BY <1>1, <1>3, ModesAre, ClosesOn
  <2> QED
    BY <1>2, <1>6, <2>1, ClosingStep
<1> QED
  BY <1>4, <1>5, <1>6 DEF Escape, Gesture

LEMMA InspectClickKeeps == WInv /\ InspectClick => Kept
<1> SUFFICES ASSUME WInv, InspectClick PROVE Kept
  OBVIOUS
<1> DEFINE s == NotInspecting(Dismissed(w))
           p == [Closed EXCEPT !.kind = "new"]
<1>1. page \in Pages /\ Sound(w)
  BY PageIs
<1>2. w' = [Hidden(s) EXCEPT !.popup = p] /\ UNCHANGED <<page, stored, used>>
  BY DEF InspectClick, Gesture, Asking
<1>3. Closes(w, Dismissed(w)) /\ Sound(Dismissed(w))
  BY <1>1, DismissedIs DEF Closes, Proceeds
<1>4. Closes(w, s) /\ Sound(s)
  BY <1>1, <1>3, ModesAre, ClosesOn DEF Proceeds
<1>5. PopupOK(p) /\ \A t : Lights(t, p)
  BY DEF Lights, Closed, PopupOK, Popups
<1> HIDE DEF s, p
<1>6. Proceeds(s, Hidden(s)) /\ Sound(Hidden(s))
  BY <1>1, <1>4, HiddenIs DEF Closes, Proceeds
<1>7. Proceeds(Hidden(s), [Hidden(s) EXCEPT !.popup = p])
  BY <1>1, <1>5, <1>6, WithPopup DEF Proceeds
<1>8. Closes(w, Hidden(s))
  BY <1>1, <1>4, <1>6, ClosesOn
<1>9. Closes(w, [Hidden(s) EXCEPT !.popup = p])
  BY <1>1, <1>7, <1>8, ClosesOn
<1> QED
  BY <1>2, <1>9, ClosingStep

LEMMA SubmitNewKeeps == WInv /\ SubmitNew => Kept
<1> SUFFICES ASSUME WInv, SubmitNew PROVE Kept
  OBVIOUS
<1> DEFINE fresh(text) ==
             [ comment |-> text, status |-> IF page.submitFlow THEN "draft" ELSE "pending",
               route |-> page.route, narrow |-> page.narrow, verdict |-> Null, copy |-> 0 ]
<1>1. page \in Pages /\ Sound(w) /\ w \in Widgets
  BY PageIs
<1>2. PICK id \in Ids \ used, comment \in Drafts :
        /\ page' = [page EXCEPT !.dom = @ \cup {id}]
        /\ used' = used \cup {id}
        /\ w' = Run(Refreshed(Added(Hidden(w), id, fresh(comment)), page'), id, comment)
  BY DEF SubmitNew
<1>3. comment \in Comments
  BY CommentsAreKnown
<1> DEFINE record == fresh(comment)
<1>4. record \in Records
  <2>1. (IF page.submitFlow THEN "draft" ELSE "pending") \in Statuses
    BY DEF Statuses
  <2>2. page.route \in Routes /\ page.narrow \in BOOLEAN
    BY <1>1 DEF Pages
  <2> QED
    BY <1>3, <2>1, <2>2 DEF Records
<1> HIDE DEF record, fresh
<1>5. page' \in Pages /\ PageInv'
  BY <1>2 DEF WInv, PageInv, Pages, SubmitNew
<1> DEFINE hidden == Hidden(w)
           added == Added(hidden, id, record)
           shown == Refreshed(added, page')
<1>6. Sound(hidden) /\ Committed(w, hidden)
  BY <1>1, HiddenIs DEF Closes, Proceeds
<1>7. w' = Run(shown, id, comment)
  BY <1>2 DEF record
<1> HIDE DEF hidden
<1>8. Sound(added) /\ Adds(hidden, added)
  BY <1>4, <1>6, AddedIs DEF Written, Leads
<1> HIDE DEF added
<1>9. Sound(shown) /\ Adds(added, shown) /\ ShownOn(shown, page')
  BY <1>5, <1>8, RefreshedIs DEF Leads
<1> HIDE DEF shown
<1>10. Sound(w') /\ Adds(shown, w') /\ SameView(shown, w') /\ w'.cache = shown.cache
  BY <1>3, <1>7, <1>9, RunIs DEF Leads
<1>11. Fine(w', page')
  BY <1>9, <1>10 DEF Fine, ShownOn, PanelOn, SameView
<1>12. Committed(w, w')
  <2>1. hidden \in Widgets /\ added \in Widgets /\ shown \in Widgets /\ w' \in Widgets
    BY <1>6, <1>8, <1>9, <1>10 DEF Sound
  <2>2. Committed(w, added)
    BY <1>1, <1>6, <1>8, <2>1, CommittedLasts
  <2>3. Committed(w, shown)
    BY <1>1, <1>9, <2>1, <2>2, CommittedLasts
  <2> QED
    BY <1>1, <1>10, <2>1, <2>3, CommittedLasts
<1> QED
  BY <1>5, <1>10, <1>11, <1>12 DEF Kept, WInv, TextKept

LEMMA CloseButtonKeeps == WInv /\ (CloseButton \/ PressOutside) => Kept
<1> SUFFICES ASSUME WInv, CloseButton \/ PressOutside PROVE Kept
  OBVIOUS
<1>1. page \in Pages /\ Sound(w)
  BY PageIs
<1>2. w' = Dismissed(w) /\ UNCHANGED <<page, stored, used>>
  BY DEF CloseButton, PressOutside, Gesture
<1>3. Closes(w, Dismissed(w))
  BY <1>1, DismissedIs
<1> QED
  BY <1>2, <1>3, ClosingStep

\* A click that came after the popup had been dismissed.
LEMMA ClickKeeps ==
  ASSUME WInv, NEW id \in Ids, w' = MarkerClicked(Dismissed(w), id), UNCHANGED <<page, stored, used>>
  PROVE  Kept
<1>1. page \in Pages /\ Sound(w)
  BY PageIs
<1>2. Closes(w, Dismissed(w)) /\ Sound(Dismissed(w))
  BY <1>1, DismissedIs DEF Closes, Proceeds
<1>3. Closes(w, MarkerClicked(Dismissed(w), id))
  BY <1>1, <1>2, MarkerClickedIs, ClosesOn
<1> QED
  BY <1>3, ClosingStep

LEMMA ClickMarkerKeeps ==
  ASSUME NEW id \in Ids
  PROVE  WInv /\ (ClickMarker(id) \/ ClickChip(id)) => Kept
<1> SUFFICES ASSUME WInv, ClickMarker(id) \/ ClickChip(id) PROVE Kept
  OBVIOUS
<1>1. page \in Pages /\ Sound(w) /\ PopupOK(w.popup)
  BY PageIs
<1>2. UNCHANGED <<page, stored, used>>
  BY DEF ClickMarker, ClickChip, Gesture
<1>3. CASE w' = MarkerClicked(Dismissed(w), id)
  BY <1>2, <1>3, ClickKeeps
<1>4. CASE w.popup.id = id /\ w' = MarkerClicked(w, id)
  <2>1. w.popup.kind = "detail"
    BY <1>1, <1>4, NullIsNone DEF PopupOK
  <2>2. Closes(w, MarkerClicked(w, id))
    BY <1>1, <1>4, <2>1, MarkerClickedIs
  <2> QED
    BY <1>2, <1>4, <2>2, ClosingStep
<1> QED
  BY <1>3, <1>4 DEF ClickMarker, ClickChip, Gesture

LEMMA EnterEditKeeps == WInv /\ EnterEdit => Kept
<1> SUFFICES ASSUME WInv, EnterEdit PROVE Kept
  OBVIOUS
<1>1. PopupOK(w.popup)
  BY PageIs
<1>2. PICK text \in Drafts : w' = [w EXCEPT !.popup.draft = text] /\ UNCHANGED <<page, stored, used>>
  BY DEF EnterEdit, Gesture
<1> DEFINE p == [w.popup EXCEPT !.draft = text]
<1>3. w.popup.kind = "detail" /\ text \in Comments
  BY CommentsAreKnown DEF EnterEdit
<1>4. PopupOK(p) /\ p.kind = w.popup.kind /\ p.id = w.popup.id
  BY <1>1, <1>3 DEF PopupOK, Popups
<1>5. w' = [w EXCEPT !.popup = p]
  BY <1>2
<1> HIDE DEF p
<1> QED
  BY <1>2, <1>4, <1>5, PopupChange

LEMMA CommitEditKeeps == WInv /\ CommitEdit => Kept
<1> SUFFICES ASSUME WInv, CommitEdit PROVE Kept
  OBVIOUS
<1> DEFINE p == [w.popup EXCEPT !.draft = Null, !.comment = w.popup.draft]
           edited == OnEdit(w, p.id, p.comment)
<1>1. page \in Pages /\ Sound(w) /\ PopupOK(w.popup)
  BY PageIs
<1>2. /\ w.popup.draft # Null /\ UNCHANGED <<page, stored, used>>
      /\ w' = IF Dirty(w.popup) THEN [edited EXCEPT !.popup = p] ELSE [w EXCEPT !.popup = p]
  BY DEF CommitEdit
<1>3. PopupOK(p) /\ p.kind = w.popup.kind /\ p.id = w.popup.id /\ p.id \in Ids /\ p.comment \in Comments
  BY <1>1, <1>2 DEF PopupOK, Popups
<1> HIDE DEF p
<1>4. CASE Dirty(w.popup)
  <2>1. Sound(edited) /\ Proceeds(w, edited) /\ edited.popup = w.popup
    BY <1>1, <1>3, OnEditIs DEF Proceeds, Leads
  <2> HIDE DEF edited
  <2>4. Lights(edited, p)
    BY <1>3, <2>1 DEF Sound, Lights
  <2>2. Proceeds(edited, [edited EXCEPT !.popup = p]) /\ [edited EXCEPT !.popup = p].popup = p
    BY <1>1, <1>3, <2>1, <2>4, WithPopup DEF Proceeds
  <2>3. Proceeds(w, [edited EXCEPT !.popup = p])
    BY <1>1, <2>1, <2>2, ProceedsOn
  <2> QED
    BY <1>2, <1>3, <1>4, <2>2, <2>3, PopupStep
<1>5. CASE ~ Dirty(w.popup)
  BY <1>2, <1>3, <1>5, PopupChange
<1> QED
  BY <1>4, <1>5

(* Another status for the popup's annotation, once the popup has gone.      *)
LEMMA AppliedKeeps ==
  ASSUME WInv, NEW action \in Actions, w.popup.kind = "detail",
         w' = Transition(Hidden(w), w.popup.id, action), UNCHANGED <<page, stored, used>>
  PROVE  Kept
<1>1. page \in Pages /\ Sound(w) /\ w.popup.id \in Ids
  BY PageIs DEF PopupOK, Popups
<1>2. Closes(w, Hidden(w)) /\ Sound(Hidden(w))
  BY <1>1, HiddenIs DEF Closes, Proceeds
<1>3. Closes(w, Transition(Hidden(w), w.popup.id, action))
  BY <1>1, <1>2, TransitionIs, ClosesOn
<1> QED
  BY <1>3, ClosingStep

LEMMA ChooseKeeps ==
  ASSUME NEW action \in Actions
  PROVE  WInv /\ Choose(action) => Kept
<1> SUFFICES ASSUME WInv, Choose(action) PROVE Kept
  OBVIOUS
<1>1. PopupOK(w.popup) /\ w.popup.kind = "detail" /\ UNCHANGED <<page, stored, used>>
  BY PageIs DEF Choose, Gesture
<1>2. CASE w' = [w EXCEPT !.popup.reason = action]
  <2> DEFINE p == [w.popup EXCEPT !.reason = action]
  <2>1. PopupOK(p) /\ p.kind = w.popup.kind /\ p.id = w.popup.id
    BY <1>1 DEF PopupOK, Popups
  <2>2. w' = [w EXCEPT !.popup = p]
    BY <1>2
  <2> HIDE DEF p
  <2> QED
    BY <1>1, <2>1, <2>2, PopupChange
<1>3. CASE w' = Transition(Hidden(w), w.popup.id, action)
  BY <1>1, <1>3, AppliedKeeps
<1> QED
  BY <1>2, <1>3 DEF Choose, Gesture

LEMMA GiveReasonKeeps == WInv /\ GiveReason => Kept
<1> SUFFICES ASSUME WInv, GiveReason PROVE Kept
  OBVIOUS
<1>1. PopupOK(w.popup)
  BY PageIs
<1>2. /\ w.popup.reason # Null /\ UNCHANGED <<page, stored, used>>
      /\ w' = Transition(Hidden(w), w.popup.id, w.popup.reason)
  BY DEF GiveReason, Gesture
<1>3. w.popup.kind = "detail" /\ w.popup.reason \in Actions
  BY <1>1, <1>2 DEF PopupOK, Popups
<1> QED
  BY <1>2, <1>3, AppliedKeeps

LEMMA CancelReasonKeeps == WInv /\ CancelReason => Kept
<1> SUFFICES ASSUME WInv, CancelReason PROVE Kept
  OBVIOUS
<1> DEFINE p == [w.popup EXCEPT !.reason = Null]
<1>1. PopupOK(w.popup) /\ w' = [w EXCEPT !.popup = p] /\ UNCHANGED <<page, stored, used>>
  BY PageIs DEF CancelReason, Gesture
<1>2. PopupOK(p) /\ p.kind = w.popup.kind /\ p.id = w.popup.id
  BY <1>1 DEF PopupOK, Popups
<1> HIDE DEF p
<1> QED
  BY <1>1, <1>2, PopupChange

\* What ends with a refresh is shown.
LEMMA ShowsAgain ==
  ASSUME NEW s, NEW t, Sound(t), Adds(s, t), page \in Pages, s \in Widgets
  PROVE  Proceeds(s, Refresh(t)) /\ Refresh(t).popup = t.popup
<1>1. /\ Sound(Refresh(t)) /\ Adds(t, Refresh(t)) /\ Fine(Refresh(t), page)
      /\ Refresh(t).popup = t.popup
  BY RefreshIs DEF Leads
<1>2. Adds(s, Refresh(t))
  BY <1>1, AddsIsTransitive DEF Sound
<1> QED
  BY <1>1, <1>2 DEF Proceeds

LEMMA DeletedIs ==
  ASSUME NEW s, Sound(s), s.popup.kind # "detail", NEW id \in Ids, page \in Pages
  PROVE  Proceeds(s, Deleted(s, id))
<1> DEFINE unlit == Unselected(s)
           bare == [unlit EXCEPT !.chips[id] = Null]
           forgotten == Forget(bare, id)
           gone == Removed(forgotten, id)
<1>1. Deleted(s, id) = Refresh(gone)
  BY DEF Deleted
<1>2. Sound(unlit) /\ Adds(s, unlit)
  BY UnselectedIs DEF Leads
<1> HIDE DEF unlit
<1>3. Sound(bare) /\ Adds(unlit, bare)
  <2>1. unlit \in Widgets /\ unlit.chips \in [Ids -> {Null, "pending", "vague"}] /\ PopupOK(unlit.popup)
    BY <1>2 DEF Sound, Widgets
  <2>2. [unlit.chips EXCEPT ![id] = Null] \in [Ids -> {Null, "pending", "vague"}]
    BY <2>1
  <2>3. bare = [unlit EXCEPT !.chips = [unlit.chips EXCEPT ![id] = Null]]
    OBVIOUS
  <2>4. bare \in Widgets /\ SameLight(unlit, bare) /\ Beside(unlit, bare)
    BY <2>1, <2>2, <2>3 DEF SameLight, Widgets, Beside, SameStore, SameView, SameChecks
  <2> HIDE DEF bare
  <2> QED
    BY <1>2, <2>1, <2>4, BesideIs DEF Sound, Lights, SameLight
<1> HIDE DEF bare
<1>4. Sound(forgotten) /\ Adds(bare, forgotten)
  BY <1>3, ForgetIs DEF Leads
<1> HIDE DEF forgotten
<1>5. Sound(gone) /\ Adds(forgotten, gone)
  BY <1>4, RemovedIs DEF Leads
<1> HIDE DEF gone
<1>6. s \in Widgets /\ unlit \in Widgets /\ bare \in Widgets /\ forgotten \in Widgets /\ gone \in Widgets
  BY <1>2, <1>3, <1>4, <1>5 DEF Sound
<1>7. Adds(s, bare)
  BY <1>2, <1>3, <1>6, AddsIsTransitive
<1>8. Adds(s, forgotten)
  BY <1>4, <1>6, <1>7, AddsIsTransitive
<1>9. Adds(s, gone)
  BY <1>5, <1>6, <1>8, AddsIsTransitive
<1> QED
  BY <1>1, <1>5, <1>6, <1>9, ShowsAgain

LEMMA DeleteKeeps == WInv /\ Delete => Kept
<1> SUFFICES ASSUME WInv, Delete PROVE Kept
  OBVIOUS
<1>1. /\ page \in Pages /\ Sound(w) /\ w.popup.id \in Ids
      /\ w' = Deleted(Hidden(w), w.popup.id) /\ UNCHANGED <<page, stored, used>>
  BY PageIs DEF Delete, Gesture, PopupOK, Popups
<1>2. Closes(w, Hidden(w)) /\ Sound(Hidden(w)) /\ Hidden(w).popup.kind # "detail"
  BY <1>1, ClosedIs, HiddenIs DEF Closes, Proceeds
<1>3. Closes(w, Deleted(Hidden(w), w.popup.id))
  BY <1>1, <1>2, DeletedIs, ClosesOn
<1> QED
  BY <1>1, <1>3, ClosingStep

LEMMA RewrittenIs ==
  ASSUME NEW s, Sound(s), NEW id \in Ids
  PROVE  Sound(Rewritten(s, id)) /\ Leads(s, Rewritten(s, id))
<1>1. CASE s.cache[id] = Null
  <2>1. Rewritten(s, id) = s /\ Len(s.writes) \in Nat
    BY <1>1 DEF Rewritten, Sound, Widgets
  <2> QED
    BY <2>1 DEF Leads, Adds
<1>2. CASE s.cache[id] # Null
  <2> DEFINE refined == IF s.cache[id].verdict = Null THEN Null
                        ELSE [s.cache[id].verdict EXCEPT !.refined = TRUE]
             record == [s.cache[id] EXCEPT !.comment = Rewrite, !.verdict = refined]
  <2>1. s.cache[id] \in Records
    BY <1>2 DEF Sound, Widgets, Views, Maybe
  <2>2. s.cache[id].verdict \in Verdicts \cup {Null}
    BY <2>1 DEF Records
  <2>3. refined \in Verdicts \cup {Null} /\ Rewrite \in Comments
    BY <2>2, CommentsAreKnown DEF Verdicts
  <2>4. Rewritten(s, id) = Updated(s, id, record)
    BY <1>2 DEF Rewritten
  <2> HIDE DEF refined
  <2>5. record \in Records
    BY <2>1, <2>3 DEF Records
  <2> HIDE DEF record
  <2> QED
    BY <1>2, <2>4, <2>5, UpdatedIs DEF Written
<1> QED
  BY <1>1, <1>2

LEMMA UseRewriteKeeps == WInv /\ UseRewrite => Kept
<1> SUFFICES ASSUME WInv, UseRewrite PROVE Kept
  OBVIOUS
<1> DEFINE hidden == Hidden(w)
           written == Rewritten(hidden, w.popup.id)
           unlit == Unselected(written)
<1>1. /\ page \in Pages /\ Sound(w) /\ w.popup.id \in Ids
      /\ w' = Refresh(unlit) /\ UNCHANGED <<page, stored, used>>
  BY PageIs DEF UseRewrite, Judged, Gesture, PopupOK, Popups
<1>2. Closes(w, hidden) /\ Sound(hidden) /\ hidden.popup = Closed
  BY <1>1, HiddenIs DEF Closes, Proceeds
<1> HIDE DEF hidden
<1>3. Sound(written) /\ Adds(hidden, written) /\ written.popup = Closed
  BY <1>1, <1>2, RewrittenIs DEF Leads
<1> HIDE DEF written
<1>4. Sound(unlit) /\ Adds(written, unlit)
  BY <1>3, ClosedIs, UnselectedIs DEF Leads
<1> HIDE DEF unlit
<1>5. Adds(hidden, unlit) /\ hidden \in Widgets
  BY <1>2, <1>3, <1>4, AddsIsTransitive DEF Sound
<1>6. Proceeds(hidden, Refresh(unlit))
  BY <1>1, <1>4, <1>5, ShowsAgain
<1>7. Closes(w, Refresh(unlit))
  BY <1>1, <1>2, <1>6, ClosesOn
<1> QED
  BY <1>1, <1>7, ClosingStep

LEMMA RecheckKeeps == WInv /\ Recheck => Kept
<1> SUFFICES ASSUME WInv, Recheck PROVE Kept
  OBVIOUS
<1> DEFINE id == w.popup.id
           hidden == Hidden(w)
           s == Unselected(hidden)
           comment == IF s.cache[id] = Null THEN w.popup.comment ELSE s.cache[id].comment
<1>1. /\ page \in Pages /\ Sound(w) /\ id \in Ids /\ w.popup.comment \in Comments
      /\ w' = Run(s, id, comment) /\ UNCHANGED <<page, stored, used>>
  BY PageIs DEF Recheck, Judged, Gesture, PopupOK, Popups
<1>2. Closes(w, hidden) /\ Sound(hidden) /\ hidden.popup = Closed
  BY <1>1, HiddenIs DEF Closes, Proceeds
<1> HIDE DEF hidden
<1>3. Sound(s) /\ Proceeds(hidden, s)
  BY <1>1, <1>2, ClosedIs, UnselectedIs DEF Leads, Proceeds
<1> HIDE DEF s
<1>4. Closes(w, s)
  BY <1>1, <1>2, <1>3, ClosesOn
<1>5. comment \in Comments
  <2>1. s.cache[id] \in Records \cup {Null}
    BY <1>1, <1>3 DEF Sound, Widgets, Views, Maybe
  <2> QED
    BY <1>1, <2>1 DEF Records
<1> HIDE DEF comment, id
<1>6. /\ Sound(Run(s, id, comment)) /\ Leads(s, Run(s, id, comment)) /\ SameView(s, Run(s, id, comment))
      /\ Run(s, id, comment).cache = s.cache
  BY <1>1, <1>3, <1>5, RunIs
<1>7. Proceeds(s, Run(s, id, comment))
  BY <1>6 DEF Proceeds, Leads, Fine, ShownOn, PanelOn, SameView
<1>8. Closes(w, Run(s, id, comment))
  BY <1>1, <1>3, <1>4, <1>7, ClosesOn
<1> QED
  BY <1>1, <1>8, ClosingStep

LEMMA ClearIs ==
  ASSUME NEW s, Sound(s), page \in Pages
  PROVE  LET t == Refresh(ForgetAll(ClearedAll(s))) IN Proceeds(s, t) /\ t.popup = s.popup
<1> DEFINE cleared == ClearedAll(s)
           forgotten == ForgetAll(cleared)
<1>1. Sound(cleared) /\ Leads(s, cleared)
  BY ClearedAllIs
<1> HIDE DEF cleared
<1>2. Sound(forgotten) /\ Leads(cleared, forgotten)
  BY <1>1, ForgetAllIs
<1> HIDE DEF forgotten
<1>3. Adds(s, forgotten) /\ forgotten.popup = s.popup /\ s \in Widgets
  BY <1>1, <1>2, AddsIsTransitive DEF Leads, Sound
<1>4. Proceeds(s, Refresh(forgotten)) /\ Refresh(forgotten).popup = s.popup
  BY <1>2, <1>3, ShowsAgain
<1> QED
  BY <1>4 DEF forgotten, cleared

LEMMA ClearKeeps == WInv /\ Clear => Kept
<1> SUFFICES ASSUME WInv, Clear PROVE Kept
  OBVIOUS
<1>1. page \in Pages /\ Sound(w) /\ UNCHANGED <<page, stored, used>>
  BY PageIs DEF Clear, Gesture
<1>2. CASE w' = Refresh(ForgetAll(ClearedAll(w)))
  <2>1. Proceeds(w, w') /\ w'.popup = w.popup
    BY <1>1, <1>2, ClearIs
  <2> QED
    BY <1>1, <1>2, <2>1, PopupStep
<1>3. CASE w' = Refresh(ForgetAll(ClearedAll(Dismissed(w))))
  <2>1. Closes(w, Dismissed(w)) /\ Sound(Dismissed(w))
    BY <1>1, DismissedIs DEF Closes, Proceeds
  <2>2. Closes(w, Refresh(ForgetAll(ClearedAll(Dismissed(w)))))
    BY <1>1, <2>1, ClearIs, ClosesOn
  <2> QED
    BY <1>1, <1>3, <2>2, ClosingStep
<1> QED
  BY <1>2, <1>3 DEF Clear, Gesture

LEMMA SubmitDraftsKeeps == WInv /\ SubmitDrafts => Kept
<1> SUFFICES ASSUME WInv, SubmitDrafts PROVE Kept
  OBVIOUS
<1>1. /\ page \in Pages /\ Sound(w) /\ UNCHANGED <<page, stored, used>>
      /\ w' = Submitted(Dismissed(w))
  BY PageIs DEF SubmitDrafts, Gesture
<1>2. Closes(w, Dismissed(w)) /\ Sound(Dismissed(w))
  BY <1>1, DismissedIs DEF Closes, Proceeds
<1>3. Closes(w, Submitted(Dismissed(w)))
  BY <1>1, <1>2, SubmittedIs, ClosesOn
<1> QED
  BY <1>1, <1>3, ClosingStep

LEMMA DeleteDetachedKeeps ==
  ASSUME NEW id \in Ids
  PROVE  WInv /\ DeleteDetached(id) => Kept
<1> SUFFICES ASSUME WInv, DeleteDetached(id) PROVE Kept
  OBVIOUS
<1> DEFINE dismissed == Dismissed(w)
           forgotten == Forget(dismissed, id)
           gone == Removed(forgotten, id)
<1>1. /\ page \in Pages /\ Sound(w) /\ UNCHANGED <<page, stored, used>>
      /\ w' = Refresh(gone)
  BY PageIs DEF DeleteDetached, Gesture
<1>2. Closes(w, dismissed) /\ Sound(dismissed)
  BY <1>1, DismissedIs DEF Closes, Proceeds
<1> HIDE DEF dismissed
<1>3. Sound(forgotten) /\ Adds(dismissed, forgotten)
  BY <1>2, ForgetIs DEF Leads
<1> HIDE DEF forgotten
<1>4. Sound(gone) /\ Adds(forgotten, gone)
  BY <1>3, RemovedIs DEF Leads
<1> HIDE DEF gone
<1>5. Adds(dismissed, gone) /\ dismissed \in Widgets
  BY <1>2, <1>3, <1>4, AddsIsTransitive DEF Sound
<1>6. Proceeds(dismissed, Refresh(gone))
  BY <1>1, <1>4, <1>5, ShowsAgain
<1>7. Closes(w, Refresh(gone))
  BY <1>1, <1>2, <1>6, ClosesOn
<1> QED
  BY <1>1, <1>7, ClosingStep

-----------------------------------------------------------------------------
(* The program's own calls, other clients, the page, and answers. *)

LEMMA ApiCallKeeps == WInv /\ ApiCall => Kept
<1> SUFFICES ASSUME WInv, ApiCall PROVE Kept
  OBVIOUS
<1>1. page \in Pages /\ Sound(w) /\ UNCHANGED <<page, stored, used>>
  BY PageIs DEF ApiCall
<1>2. ASSUME NEW id \in Ids, NEW action \in Actions, w' = Transition(w, id, action) PROVE Kept
  BY <1>1, <1>2, TransitionIs, PopupStep
<1>3. CASE w' = Refresh(ClearedAll(w))
  <2>1. Sound(ClearedAll(w)) /\ Leads(w, ClearedAll(w)) /\ w \in Widgets
    BY <1>1, ClearedAllIs DEF Sound
  <2>2. Proceeds(w, Refresh(ClearedAll(w))) /\ Refresh(ClearedAll(w)).popup = w.popup
    BY <1>1, <2>1, ShowsAgain DEF Leads
  <2> QED
    BY <1>1, <1>3, <2>2, PopupStep
<1> QED
  BY <1>2, <1>3 DEF ApiCall

\* Another cache or another flag, with the same popup, writes and checks.
LEMMA StaysSound ==
  ASSUME NEW s, Sound(s), NEW t \in Widgets, t.writes = s.writes, SameChecks(s, t),
         SameLight(s, t), t.other = s.other, t.detached = s.detached
  PROVE  Sound(t) /\ Leads(s, t)
<1>1. Len(s.writes) \in Nat
  BY DEF Sound, Widgets
<1> QED
  BY <1>1 DEF Sound, WritesOK, Awaited, SameChecks, Leads, Adds, Lights, SameLight

LEMMA ExternalKeeps == WInv /\ External => Kept
<1> SUFFICES ASSUME WInv, External PROVE Kept
  OBVIOUS
<1>1. Sound(w) /\ w \in Widgets /\ w.cache \in Views /\ stored \in Views /\ used \subseteq Ids
  BY PageIs DEF WInv, PageInv, Widgets
<1>2. PICK id \in Ids :
        /\ \/ stored[id] # Null /\ stored' = [stored EXCEPT ![id] = Null] /\ used' = used
           \/ \E status \in Others : /\ stored[id] # Null /\ stored[id].status # status
                                     /\ stored' = [stored EXCEPT ![id].status = status]
                                     /\ used' = used
           \/ \E record \in Unseen :
                id \notin used /\ stored' = [stored EXCEPT ![id] = record] /\ used' = used \cup {id}
        /\ w' = [w EXCEPT !.cache[id] = Object(w, id, stored'[id]), !.scheduled = TRUE]
  BY DEF External
<1>3. stored' \in Views /\ used \subseteq used' /\ used' \subseteq Ids
  <2>1. CASE stored' = [stored EXCEPT ![id] = Null] /\ used' = used
    BY <1>1, <2>1 DEF Views, Maybe
  <2>2. ASSUME NEW status \in Others, stored[id] # Null,
               stored' = [stored EXCEPT ![id].status = status], used' = used
        PROVE  stored' \in Views /\ used \subseteq used' /\ used' \subseteq Ids
    <3>1. stored[id] \in Records /\ status \in Statuses
      BY <1>1, <2>2, OthersAreStatuses DEF Views, Maybe
    <3>2. [stored[id] EXCEPT !.status = status] \in Records
      BY <3>1 DEF Records
    <3>3. stored' = [stored EXCEPT ![id] = [stored[id] EXCEPT !.status = status]]
      BY <2>2
    <3> QED
      BY <1>1, <2>2, <3>2, <3>3 DEF Views, Maybe
  <2>3. ASSUME NEW record \in Unseen,
               stored' = [stored EXCEPT ![id] = record], used' = used \cup {id}
        PROVE  stored' \in Views /\ used \subseteq used' /\ used' \subseteq Ids
    <3>1. record \in Maybe
      BY StoresHoldRecords DEF Maybe, Unseen
    <3> QED
      BY <1>1, <2>3, <3>1 DEF Views
  <2> QED
    BY <1>2, <2>1, <2>2, <2>3
<1> DEFINE o == Object(w, id, stored'[id])
           c == [w.cache EXCEPT ![id] = o]
<1>4. o \in Maybe
  <2>1. stored'[id] \in Maybe
    BY <1>3 DEF Views
  <2> QED
    BY <1>1, <2>1, ObjectIs
<1>5. w' = [w EXCEPT !.cache = c, !.scheduled = TRUE]
  BY <1>2
<1> HIDE DEF o
<1>6. c \in Views
  BY <1>1, <1>4 DEF Views
<1> HIDE DEF c
<1>7. w' \in Widgets
  BY <1>1, <1>5, <1>6 DEF Widgets
<1>8. /\ w'.writes = w.writes /\ SameChecks(w, w') /\ SameLight(w, w')
      /\ w'.other = w.other /\ w'.detached = w.detached /\ w'.scheduled
  BY <1>1, <1>5 DEF Widgets, SameChecks, SameLight
<1>9. Sound(w')
  BY <1>1, <1>7, <1>8, StaysSound
<1>10. PageInv'
  BY <1>3 DEF External, WInv, PageInv
<1> QED
  BY <1>8, <1>9, <1>10 DEF Kept, WInv, TextKept, Fine, SameLight

LEMMA LoadKeeps == WInv /\ Load => Kept
<1> SUFFICES ASSUME WInv, Load PROVE Kept
  OBVIOUS
<1> DEFINE c == [id \in Ids |-> Object(w, id, stored[id])]
           t == [w EXCEPT !.cache = c, !.loaded = TRUE]
<1>1. page \in Pages /\ Sound(w) /\ w \in Widgets /\ stored \in Views
  BY PageIs DEF WInv, PageInv
<1>2. w' = Refresh(t) /\ UNCHANGED <<page, stored, used>>
  BY DEF Load
<1>3. c \in Views
  <2> SUFFICES ASSUME NEW id \in Ids PROVE Object(w, id, stored[id]) \in Maybe
    BY DEF Views
  <2>1. stored[id] \in Maybe
    BY <1>1 DEF Views
  <2> QED
    BY <1>1, <2>1, ObjectIs
<1> HIDE DEF c
<1>4. t \in Widgets
  BY <1>1, <1>3 DEF Widgets
<1>5. /\ t.writes = w.writes /\ SameChecks(w, t) /\ SameLight(w, t)
      /\ t.other = w.other /\ t.detached = w.detached
  BY <1>1 DEF Widgets, SameChecks, SameLight
<1> HIDE DEF t
<1>6. Sound(t) /\ Adds(w, t)
  BY <1>1, <1>4, <1>5, StaysSound DEF Leads
<1>7. Proceeds(w, Refresh(t)) /\ Refresh(t).popup = w.popup
  BY <1>1, <1>5, <1>6, ShowsAgain DEF SameLight
<1> QED
  BY <1>2, <1>7, PopupStep

LEMMA CheckSettlesKeeps ==
  ASSUME NEW check \in w.checks
  PROVE  WInv /\ CheckSettles(check) => Kept
<1> SUFFICES ASSUME WInv, CheckSettles(check) PROVE Kept
  OBVIOUS
<1>1. page \in Pages /\ Sound(w) /\ check \in Checks
  BY PageIs DEF Widgets
<1>2. UNCHANGED <<page, stored, used>>
  BY DEF CheckSettles
<1>3. PICK ok \in BOOLEAN : w' = [Settled(w, check, ok) EXCEPT !.checks = @ \ {check}]
  BY DEF CheckSettles
<1> DEFINE s == Settled(w, check, ok)
           t == [s EXCEPT !.checks = @ \ {check}]
<1>4. /\ Sound(s) /\ Leads(w, s) /\ s.checks = w.checks
      /\ check.id \in s.pending => s.seqs[check.id] # check.seq
      /\ Fine(w, page) => Fine(s, page)
  BY <1>1, SettledIs
<1>5. w' = t
  BY <1>3
<1> HIDE DEF s
<1>6. s \in Widgets /\ t \in Widgets
  BY <1>4 DEF Sound, Widgets
<1>7. /\ t.writes = s.writes /\ SameLight(s, t) /\ t.cache = s.cache /\ SameView(s, t)
      /\ t.seqs = s.seqs /\ t.pending = s.pending /\ t.checks = s.checks \ {check}
  BY <1>6 DEF Widgets, SameView, SameLight
<1> HIDE DEF t
<1>8. Awaited(t)
  BY <1>4, <1>7 DEF Sound, Awaited
<1>9. Sound(t)
  BY <1>4, <1>6, <1>7, <1>8 DEF Sound, WritesOK, SameView, Lights, SameLight
<1>10. Fine(s, page) => Fine(t, page)
  BY <1>7 DEF Fine, ShownOn, PanelOn, SameView
<1>11. Adds(w, t)
  BY <1>4, <1>7 DEF Leads, Adds
<1>12. Proceeds(w, t) /\ t.popup = w.popup
  BY <1>4, <1>7, <1>9, <1>10, <1>11 DEF Proceeds, Leads, SameLight
<1> QED
  BY <1>2, <1>5, <1>12, PopupStep

\* A page whose route, elements or width have changed.
LEMMA OtherPage ==
  ASSUME WInv, page' \in Pages, UNCHANGED <<stored, used>>, page'.dom \subseteq used
  PROVE  PageInv'
BY DEF WInv, PageInv, Pages

LEMMA RefreshFiresKeeps == WInv /\ RefreshFires => Kept
<1> SUFFICES ASSUME WInv, RefreshFires PROVE Kept
  OBVIOUS
<1> DEFINE t == [w EXCEPT !.scheduled = FALSE]
<1>1. page \in Pages /\ Sound(w) /\ w \in Widgets
  BY PageIs
<1>2. w' = Refresh(t) /\ UNCHANGED <<page, stored, used>>
  BY DEF RefreshFires
<1>3. /\ t \in Widgets /\ t.writes = w.writes /\ SameChecks(w, t) /\ SameLight(w, t)
      /\ t.other = w.other /\ t.detached = w.detached
  BY <1>1 DEF Widgets, SameChecks, SameLight
<1> HIDE DEF t
<1>4. Sound(t) /\ Adds(w, t)
  BY <1>1, <1>3, StaysSound DEF Leads
<1>5. Proceeds(w, Refresh(t)) /\ Refresh(t).popup = w.popup
  BY <1>1, <1>3, <1>4, ShowsAgain DEF SameLight
<1> QED
  BY <1>2, <1>5, PopupStep

LEMMA NavigateKeeps == WInv /\ Navigate => Kept
<1> SUFFICES ASSUME WInv, Navigate PROVE Kept
  OBVIOUS
<1>1. page \in Pages /\ Sound(w)
  BY PageIs
<1>2. PICK route \in Routes : page' = [page EXCEPT !.route = route]
  BY DEF Navigate
<1>3. w' = Refreshed(w, page') /\ UNCHANGED <<stored, used>>
  BY DEF Navigate
<1>4. page' \in Pages /\ page'.dom \subseteq used
  BY <1>1, <1>2 DEF Pages, WInv, PageInv
<1>5. Sound(w') /\ Leads(w, w') /\ Fine(w', page')
  BY <1>1, <1>3, <1>4, RefreshedIs DEF Fine
<1>6. PageInv'
  BY <1>3, <1>4, OtherPage
<1> QED
  BY <1>5, <1>6 DEF Kept, WInv, TextKept, Leads

LEMMA PageChangesKeeps == WInv /\ PageChanges => Kept
<1> SUFFICES ASSUME WInv, PageChanges PROVE Kept
  OBVIOUS
<1>1. page \in Pages /\ Sound(w) /\ w \in Widgets /\ used \subseteq Ids
  BY PageIs DEF WInv, PageInv
<1>2. PICK dom \in SUBSET used : page' = [page EXCEPT !.dom = dom]
  BY DEF PageChanges
<1>3. w' = [w EXCEPT !.scheduled = TRUE] /\ UNCHANGED <<stored, used>>
  BY DEF PageChanges
<1>4. page' \in Pages /\ page'.dom \subseteq used
  BY <1>1, <1>2 DEF Pages
<1>5. /\ w' \in Widgets /\ w'.writes = w.writes /\ SameChecks(w, w') /\ SameLight(w, w')
      /\ w'.other = w.other /\ w'.detached = w.detached /\ w'.scheduled
  BY <1>1, <1>3 DEF Widgets, SameChecks, SameLight
<1>6. Sound(w')
  BY <1>1, <1>5, StaysSound
<1>7. PageInv'
  BY <1>3, <1>4, OtherPage
<1> QED
  BY <1>5, <1>6, <1>7 DEF Kept, WInv, TextKept, Fine, SameLight

(* Another width changes nothing until the listener looks.                  *)
LEMMA ResizeKeeps == WInv /\ Resize => Kept
<1> SUFFICES ASSUME WInv, Resize PROVE Kept
  OBVIOUS
<1> DEFINE width == ~ page.narrow
<1>1. page \in Pages /\ Sound(w) /\ page.dom \subseteq used
  BY PageIs DEF WInv, PageInv
<1>2. page' = [page EXCEPT !.narrow = width] /\ UNCHANGED <<w, stored, used>>
  BY DEF Resize
<1>3. width \in BOOLEAN
  OBVIOUS
<1> HIDE DEF width
<1>4. /\ page' \in Pages /\ page'.route = page.route /\ page'.dom = page.dom
      /\ page'.submitFlow = page.submitFlow
      /\ \A narrow \in BOOLEAN : [page' EXCEPT !.narrow = narrow] = [page EXCEPT !.narrow = narrow]
  BY <1>1, <1>2, <1>3 DEF Pages
<1>5. PageInv'
  BY <1>1, <1>2, <1>4, OtherPage
<1>6. Attached(w.cache, page') = Attached(w.cache, page) /\ Badges(w.cache, page') = Badges(w.cache, page)
  BY <1>4 DEF Attached, Badges
<1>7. \A narrow \in BOOLEAN : PanelOn(w, page, narrow) => PanelOn(w, page', narrow)
  BY <1>4 DEF PanelOn
<1>8. Fine(w, page')
  <2>1. CASE w.scheduled
    BY <2>1 DEF Fine
  <2>2. CASE ShownOn(w, page)
    BY <1>6, <1>7, <2>2 DEF Fine, ShownOn
  <2> QED
    BY <2>1, <2>2 DEF WInv, Fine
<1> QED
  BY <1>1, <1>2, <1>5, <1>8 DEF Kept, WInv, TextKept

LEMMA ResizeSettlesKeeps == WInv /\ ResizeSettles => Kept
<1> SUFFICES ASSUME WInv, ResizeSettles PROVE Kept
  OBVIOUS
<1> DEFINE t == [w EXCEPT !.narrow = page.narrow]
<1>1. page \in Pages /\ Sound(w) /\ w \in Widgets
  BY PageIs
<1>2. w' = Refresh(t) /\ UNCHANGED <<page, stored, used>>
  BY DEF ResizeSettles
<1>3. /\ t \in Widgets /\ t.writes = w.writes /\ SameChecks(w, t) /\ SameLight(w, t)
      /\ t.other = w.other /\ t.detached = w.detached
  BY <1>1 DEF Widgets, SameChecks, SameLight, Pages
<1> HIDE DEF t
<1>4. Sound(t) /\ Adds(w, t)
  BY <1>1, <1>3, StaysSound DEF Leads
<1>5. Proceeds(w, Refresh(t)) /\ Refresh(t).popup = w.popup
  BY <1>1, <1>3, <1>4, ShowsAgain DEF SameLight
<1> QED
  BY <1>2, <1>5, PopupStep

LEMMA TailIs ==
  ASSUME NEW S, NEW q \in Seq(S), q # <<>>
  PROVE  /\ Head(q) \in S /\ Head(q) = q[1] /\ 1 \in DOMAIN q
         /\ Tail(q) \in Seq(S)
         /\ \A i \in DOMAIN Tail(q) : i + 1 \in DOMAIN q /\ Tail(q)[i] = q[i + 1]
<1>1. Len(q) \in Nat /\ Len(q) > 0 /\ DOMAIN q = 1 .. Len(q)
  OBVIOUS
<1>2. Len(Tail(q)) = Len(q) - 1 /\ Tail(q) \in Seq(S)
  OBVIOUS
<1>3. DOMAIN Tail(q) = 1 .. Len(q) - 1
  BY <1>1, <1>2
<1> QED
  BY <1>1, <1>2, <1>3

(* A write that has been answered is one of a sound widget, and so are the rest. *)
LEMMA AnsweredIs ==
  ASSUME NEW s, Sound(s), s.writes # <<>>
  PROVE  LET t == [s EXCEPT !.writes = Tail(@)]
             e == Head(s.writes)
         IN  /\ Sound(t) /\ SameLight(s, t) /\ SameView(s, t) /\ SameChecks(s, t) /\ t.cache = s.cache
             /\ e \in Writes /\ (e.kind # "clear" => e.id \in Ids)
<1> DEFINE q == Tail(s.writes)
           t == [s EXCEPT !.writes = q]
<1>1. s \in Widgets /\ s.writes \in Seq(Writes)
  BY DEF Sound, Widgets
<1>2. /\ q \in Seq(Writes) /\ Head(s.writes) \in Writes
      /\ Head(s.writes) = s.writes[1] /\ 1 \in DOMAIN s.writes
      /\ \A i \in DOMAIN q : i + 1 \in DOMAIN s.writes /\ q[i] = s.writes[i + 1]
  BY <1>1, TailIs
<1> HIDE DEF q
<1>3. t \in Widgets /\ t.writes = q
  BY <1>1, <1>2 DEF Widgets
<1>4. SameLight(s, t) /\ SameView(s, t) /\ SameChecks(s, t) /\ t.cache = s.cache
  BY <1>1 DEF Widgets, SameView, SameChecks, SameLight
<1> HIDE DEF t
<1>5. WritesOK(t)
  BY <1>2, <1>3 DEF WritesOK, Sound
<1>6. Sound(t)
  BY <1>3, <1>4, <1>5 DEF Sound, Awaited, SameView, SameChecks, Lights, SameLight
<1>7. Head(s.writes).kind # "clear" => Head(s.writes).id \in Ids
  BY <1>2 DEF Sound, WritesOK
<1> QED
  BY <1>2, <1>4, <1>6, <1>7 DEF t, q

LEMMA WriteLandsKeeps == WInv /\ WriteLands => Kept
<1> SUFFICES ASSUME WInv, WriteLands PROVE Kept
  OBVIOUS
<1> DEFINE e == Head(w.writes)
           t == [w EXCEPT !.writes = Tail(@)]
<1>1. page \in Pages /\ Sound(w) /\ stored \in Views
  BY PageIs DEF WInv, PageInv
<1>2. w.writes # <<>> /\ stored' = Landed(e) /\ w' = t /\ UNCHANGED <<page, used>>
  BY DEF WriteLands
<1>3. /\ Sound(t) /\ t.popup = w.popup /\ SameView(w, t) /\ t.cache = w.cache
      /\ e \in Writes /\ (e.kind # "clear" => e.id \in Ids)
  BY <1>1, <1>2, AnsweredIs DEF SameLight
<1> HIDE DEF e, t
<1>4. stored' \in Views
  <2>1. CASE e.kind = "clear"
    BY <1>2, <2>1 DEF Landed, Nobody, Views, Maybe
  <2>2. CASE e.kind # "clear"
    <3>1. e.id \in Ids /\ e.body \in Maybe /\ stored' = [stored EXCEPT ![e.id] = e.body]
      BY <1>2, <1>3, <2>2 DEF Landed, Writes
    <3> QED
      BY <1>1, <3>1 DEF Views
  <2> QED
    BY <2>1, <2>2
<1>5. Fine(t, page)
  BY <1>3 DEF WInv, Fine, ShownOn, PanelOn, SameView
<1>6. PageInv'
  BY <1>2, <1>4 DEF WInv, PageInv
<1> QED
  BY <1>2, <1>3, <1>5, <1>6 DEF Kept, WInv, TextKept

(* A rejected write is rolled back, and the page shows it.                  *)
LEMMA WriteRejectedKeeps == WInv /\ WriteRejected => Kept
<1> SUFFICES ASSUME WInv, WriteRejected PROVE Kept
  OBVIOUS
<1> DEFINE e == Head(w.writes)
           s == [w EXCEPT !.writes = Tail(@)]
           t == RolledBack(s, e)
           c == IF e.kind \in {"add", "update"} THEN [s.cache EXCEPT ![e.id] = e.kept[e.id]] ELSE e.kept
<1>1. page \in Pages /\ Sound(w)
  BY PageIs
<1>2. w.writes # <<>> /\ w' = Refresh(t) /\ UNCHANGED <<page, stored, used>>
  BY DEF WriteRejected
<1>3. Sound(s) /\ SameLight(w, s) /\ e \in Writes /\ (e.kind # "clear" => e.id \in Ids)
  BY <1>1, <1>2, AnsweredIs
<1> HIDE DEF e, s
<1>4. c \in Views
  <2>1. s.cache \in Views /\ e.kept \in Views
    BY <1>3 DEF Sound, Widgets, Writes
  <2>2. CASE e.kind \in {"add", "update"}
    <3>1. e.id \in Ids /\ e.kept[e.id] \in Maybe
      BY <1>3, <2>1, <2>2 DEF Views
    <3> QED
      BY <2>1, <2>2, <3>1 DEF Views
  <2>3. CASE e.kind \notin {"add", "update"}
    BY <2>1, <2>3
  <2> QED
    BY <2>2, <2>3
<1>5. t = [s EXCEPT !.cache = c]
  BY DEF RolledBack
<1> HIDE DEF c, t
<1>6. s \in Widgets
  BY <1>3 DEF Sound
<1>7. /\ t \in Widgets /\ t.writes = s.writes /\ SameChecks(s, t) /\ SameLight(s, t)
      /\ t.other = s.other /\ t.detached = s.detached
  BY <1>4, <1>5, <1>6 DEF Widgets, SameChecks, SameLight
<1>8. Sound(t)
  BY <1>3, <1>7, StaysSound
<1>9. Sound(Refresh(t)) /\ Fine(Refresh(t), page) /\ Refresh(t).popup = w.popup
  BY <1>1, <1>3, <1>7, <1>8, RefreshIs DEF SameLight
<1>10. TextKept(w, Refresh(t))
  BY <1>9 DEF TextKept
<1> QED
  BY <1>2, <1>9, <1>10, WidgetStep

-----------------------------------------------------------------------------
(* The theorems. *)

LEMMA InitIsSound == Init => WInv
<1> SUFFICES ASSUME Init PROVE WInv
  OBVIOUS
<1> DEFINE none == [attention |-> 0, verification |-> 0, drafts |-> 0]
<1>1. stored \in Views /\ used \subseteq Ids
  BY StoresHoldRecords DEF Init, Views, Maybe
<1>2. PageInv /\ page.narrow \in BOOLEAN
  BY <1>1 DEF Init, PageInv
<1>3. Nobody \in Views /\ \A id \in Ids : Nobody[id] = Null
  BY DEF Nobody, Views, Maybe
<1>4. /\ w.popup = Closed /\ w.markers = Nobody /\ w.cache = Nobody /\ w.writes = <<>>
      /\ w.other = {} /\ w.detached = {} /\ w.pending = {} /\ w.badges = none
  BY DEF Init
<1>5. w \in Widgets
  <2>1. <<>> \in Seq(Writes) /\ [id \in Ids |-> 0] \in [Ids -> Nat]
    OBVIOUS
  <2>2. Nobody \in [Ids -> {Null, "pending", "vague"}] /\ none \in Counts
    BY DEF Nobody, Counts
  <2> QED
    BY <1>2, <1>3, <2>1, <2>2, ClosedIs DEF Init, Widgets
<1>6. Sound(w)
  BY <1>4, <1>5, ClosedIs DEF Sound, WritesOK, Awaited
<1>7. \A route : OnRoute(Nobody, route) = {}
  BY <1>3 DEF OnRoute
<1>8. Attached(Nobody, page) = {} /\ Badges(Nobody, page) = none
  <2>1. \A statuses : {id \in {} : Nobody[id].status \in statuses} = {}
    OBVIOUS
  <2>2. Cardinality({}) = 0
    BY FS_EmptySet
  <2> QED
    BY <1>7, <2>1, <2>2 DEF Attached, Badges
<1>9. PanelOn(w, page, page.narrow)
  BY <1>4, <1>7 DEF PanelOn, Detached, OtherWidth
<1>10. ShownOn(w, page)
  BY <1>2, <1>3, <1>4, <1>8, <1>9 DEF ShownOn
<1> QED
  BY <1>2, <1>6, <1>10 DEF WInv, Fine

LEMMA StepIsSound == WInv /\ [Next]_vars => Kept
<1> SUFFICES ASSUME WInv, [Next]_vars PROVE Kept
  OBVIOUS
<1>1. CASE UserActs
  <2>1. CASE ToggleInspect \/ ToggleSpacing \/ Escape \/ InspectClick \/ SubmitNew
    BY <2>1, ToggleInspectKeeps, ToggleSpacingKeeps, EscapeKeeps, InspectClickKeeps, SubmitNewKeeps
  <2>2. CASE CloseButton \/ PressOutside
    BY <2>2, CloseButtonKeeps
  <2>3. CASE \E id \in Ids : ClickMarker(id) \/ ClickChip(id) \/ DeleteDetached(id)
    BY <2>3, ClickMarkerKeeps, DeleteDetachedKeeps
  <2>4. CASE EnterEdit \/ CommitEdit \/ UseRewrite \/ Recheck \/ Delete \/ Clear \/ SubmitDrafts
    BY <2>4, EnterEditKeeps, CommitEditKeeps, UseRewriteKeeps, RecheckKeeps, DeleteKeeps, ClearKeeps,
       SubmitDraftsKeeps
  <2>5. CASE \E action \in Actions : Choose(action)
    BY <2>5, ChooseKeeps
  <2>6. CASE GiveReason \/ CancelReason
    BY <2>6, GiveReasonKeeps, CancelReasonKeeps
  <2> QED
    BY <1>1, <2>1, <2>2, <2>3, <2>4, <2>5, <2>6 DEF UserActs
<1>2. CASE Answers
  BY <1>2, LoadKeeps, RefreshFiresKeeps, ResizeSettlesKeeps, WriteLandsKeeps, CheckSettlesKeeps DEF Answers
<1>3. CASE WriteRejected \/ ApiCall \/ External \/ Navigate \/ PageChanges \/ Resize
  BY <1>3, WriteRejectedKeeps, ApiCallKeeps, ExternalKeeps, NavigateKeeps, PageChangesKeeps, ResizeKeeps
<1>4. CASE UNCHANGED vars
  BY <1>4 DEF vars, WInv, PageInv, Fine, Sound, Kept, TextKept
<1> QED
  BY <1>1, <1>2, <1>3, <1>4 DEF Next

LEMMA AlwaysSound == Spec => []WInv
<1>1. WInv /\ [Next]_vars => WInv'
  BY StepIsSound DEF Kept
<1> QED
  BY <1>1, InitIsSound, PTL DEF Spec

(* Every part of the widget keeps its type: only a popup about an annotation has an id, and  *)
(* the panel lists no annotation twice, whatever the handlers call each other with.          *)
THEOREM TypeCorrect == Spec => []TypeOK
<1>1. WInv => TypeOK
  BY DEF WInv, PageInv, Sound, Widgets, PopupOK, Popups, Views, Maybe, TypeOK
<1> QED
  BY <1>1, AlwaysSound, PTL

(* The interface shows no annotation as being checked whose answer would not be taken: of    *)
(* any number of checks of it under way one has the last number (quality-runner.ts:30-50).   *)
THEOREM PendingChecksAreAwaited == Spec => []PendingIsAwaited
<1>1. WInv => PendingIsAwaited
  BY DEF WInv, Sound, Awaited, PendingIsAwaited
<1> QED
  BY <1>1, AlwaysSound, PTL

(* A popup about an annotation stands at a highlighted element whose chip is hidden,         *)
(* whatever refreshes, routes, rejections and other clients do to the annotation meanwhile.  *)
THEOREM PopupsAreLit == Spec => []PopupIsHighlighted
<1>1. WInv => PopupIsHighlighted
  BY DEF WInv, Sound, Lights, PopupIsHighlighted
<1> QED
  BY <1>1, AlwaysSound, PTL

(* The markers, the badges and the panel show the store and the page, or a refresh is        *)
(* scheduled: every handler that changes what is to be shown sees to it, in whatever order   *)
(* gestures, answers, rollbacks, other clients and the page come (web-remarq.ts:105-114,     *)
(* 663, 720, 727, 736).                                                                      *)
THEOREM PageIsShown == Spec => []ShownOrScheduled
<1>1. WInv => ShownOrScheduled
  BY DEF WInv, Fine, ShownOn, PanelOn, PanelAt, Shown, ShownOrScheduled
<1> QED
  BY <1>1, AlwaysSound, PTL

(* No typed text is lost: a popup that goes while its edit field holds another text than the *)
(* annotation's has it written first, by whichever way it goes (popup.ts:467-471).           *)
THEOREM TextIsKept == Spec => EditsAreKept
<1> DEFINE Edits ==
             LET popup == w.popup
                 gone == w'.popup.kind # "detail" \/ w'.popup.id # popup.id
             IN  Dirty(popup) /\ gone /\ w.cache[popup.id] # Null =>
                   \E i \in DOMAIN w'.writes :
                     i > Len(w.writes) /\ w'.writes[i].id = popup.id
                     /\ w'.writes[i].body # Null /\ w'.writes[i].body.comment = popup.draft
<1>1. WInv /\ [Next]_vars => [Edits]_vars
  <2> SUFFICES ASSUME WInv, Next, Dirty(w.popup), w'.popup.kind # "detail" \/ w'.popup.id # w.popup.id
               PROVE  Committed(w, w')
    BY DEF Committed
  <2>1. w.popup.kind = "detail"
    BY PageIs DEF PopupOK, Dirty
  <2>2. TextKept(w, w')
    BY StepIsSound DEF Kept
  <2> QED
    BY <2>1, <2>2 DEF TextKept
<1> QED
  BY <1>1, AlwaysSound, PTL DEF Spec, EditsAreKept

=============================================================================
