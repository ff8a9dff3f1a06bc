------------------------------ MODULE Induction ------------------------------
(***************************************************************************)
(* Induction over the natural numbers, and what it says of the folds of    *)
(* the community modules.                                                  *)
(*                                                                         *)
(* A principle of induction that takes a predicate cannot be used by the   *)
(* provers, so that it is stated here for a set of numbers, and the step   *)
(* of a fold is a function.  A fold of a sequence is a function on the     *)
(* sets of its positions which takes the last one off first (FoldLeft).    *)
(*                                                                         *)
(* With it, what the folds of the model compute for any list: the status a *)
(* history leads to (Lifecycle), what a filter keeps (Lists, Outbox), and  *)
(* what becomes of the events one history replays on another (History).    *)
(***************************************************************************)
EXTENDS History, Outbox, WellFoundedInduction, TLAPS

LEMMA LeastNumber ==
  ASSUME NEW T, T \subseteq Nat, T # {}
  PROVE  \E n \in T : \A m \in T : ~ (m < n)
<1> DEFINE R == {pair \in Nat \X Nat : pair[1] < pair[2]}
<1>1. IsWellFoundedOn(R, Nat)
  BY NatLessThanWellFounded, Zenon DEF OpToRel
<1>2. \A n, m \in Nat : m < n => <<m, n>> \in R
  OBVIOUS
<1> HIDE DEF R
<1>3. \E n \in T : \A m \in T : <<m, n>> \notin R
  BY <1>1, WFMin
<1> QED
  BY <1>2, <1>3

(* Induction: a set that holds 0 and with every number the next one holds   *)
(* all of them.                                                             *)
LEMMA SetInduction ==
  ASSUME NEW T, 0 \in T, \A n \in Nat : n \in T => n + 1 \in T
  PROVE  \A n \in Nat : n \in T
<1> DEFINE Missing == {n \in Nat : n \notin T}
<1> SUFFICES ASSUME Missing # {} PROVE FALSE
  OBVIOUS
<1>1. PICK n \in Missing : \A m \in Missing : ~ (m < n)
  BY LeastNumber
<1>2. n # 0 /\ n - 1 \in Nat /\ n - 1 < n
  BY <1>1
<1>3. n - 1 \in T
  BY <1>1, <1>2
<1>4. (n - 1) + 1 \in T
  BY <1>2, <1>3
<1> QED
  BY <1>1, <1>4

LEMMA GreatestNumber ==
  ASSUME NEW n \in Nat, NEW S \in SUBSET (1 .. n), S # {}
  PROVE  \E m \in S : \A e \in S : e <= m
<1> DEFINE T == {n - m : m \in S}
<1>0. \A m \in S : m \in Nat /\ n - m \in Nat
  OBVIOUS
<1>1. T \subseteq Nat /\ T # {}
  BY <1>0
<1>2. PICK d \in T : \A e \in T : ~ (e < d)
  BY <1>1, LeastNumber
<1>3. PICK m \in S : d = n - m
  BY <1>2
<1>4. \A e \in S : e <= m
  BY <1>2, <1>3
<1> QED
  BY <1>4

-----------------------------------------------------------------------------
(* Folds. *)

\* The greatest number of a set is the one that is.
LEMMA MaxIs ==
  ASSUME NEW S \in SUBSET Nat, NEW n \in S, \A m \in S : m <= n
  PROVE  Max(S) = n
<1>1. \A y \in S : n >= y
  OBVIOUS
<1>2. \E x \in S : \A y \in S : x >= y
  BY <1>1
<1>3. Max(S) \in S /\ \A y \in S : Max(S) >= y
  BY <1>2 DEF Max
<1>4. Max(S) \in Nat /\ n \in Nat /\ Max(S) >= n /\ Max(S) <= n
  BY <1>3
<1> HIDE DEF Max
<1> QED
  BY <1>4

LEMMA MaxIn ==
  ASSUME NEW n \in Nat, NEW S \in SUBSET (1 .. n), S # {}
  PROVE  Max(S) \in S
<1>1. PICK m \in S : \A e \in S : e <= m
  BY GreatestNumber
<1>2. S \in SUBSET Nat
  OBVIOUS
<1> QED
  BY <1>1, <1>2, MaxIs

\* What a fold is on the positions S, when g is the fold on fewer.
Folded(g, S, start, step, s) ==
  IF S = {} THEN start ELSE step[<<g[S \ {Max(S)}], s[Max(S)]>>]

IsFoldOf(g, R, start, step, s) ==
  /\ g \in [SUBSET (1 .. Len(s)) -> R]
  /\ \A S \in SUBSET (1 .. Len(s)) : g[S] = Folded(g, S, start, step, s)

(* There is a fold of every finite sequence.                                *)
LEMMA FoldExists ==
  ASSUME NEW R, NEW E, NEW s \in Seq(E), NEW start \in R, NEW step \in [R \X E -> R]
  PROVE  \E g : IsFoldOf(g, R, start, step, s)
<1> DEFINE Fold(k, g) == /\ g \in [SUBSET (1 .. k) -> R]
                         /\ \A S \in SUBSET (1 .. k) : g[S] = Folded(g, S, start, step, s)
           Reached(k) == k <= Len(s) => \E g : Fold(k, g)
<1>1. Reached(0)
  <2>1. Fold(0, [S \in SUBSET (1 .. 0) |-> start])
    BY DEF Folded
  <2> QED
    BY <2>1
<1>2. ASSUME NEW k \in Nat, Reached(k) PROVE Reached(k + 1)
  <2> SUFFICES ASSUME k + 1 <= Len(s) PROVE \E g : Fold(k + 1, g)
    OBVIOUS
  <2>0. Len(s) \in Nat /\ k <= Len(s) /\ s[k + 1] \in E
    OBVIOUS
  <2>1. PICK g : Fold(k, g)
    <3> HIDE DEF Fold
    <3> QED
      BY <1>2, <2>0
  <2> DEFINE h == [S \in SUBSET (1 .. k + 1) |->
                     IF k + 1 \in S THEN step[<<g[S \ {k + 1}], s[k + 1]>>] ELSE g[S]]
  <2>3. \A S \in SUBSET (1 .. k + 1) : S \ {k + 1} \in SUBSET (1 .. k)
    OBVIOUS
  <2>4. \A S \in SUBSET (1 .. k + 1) : k + 1 \notin S => S \in SUBSET (1 .. k)
    OBVIOUS
  <2>5. h \in [SUBSET (1 .. k + 1) -> R]
    BY <2>0, <2>1, <2>3, <2>4
  <2>6. ASSUME NEW S \in SUBSET (1 .. k + 1) PROVE h[S] = Folded(h, S, start, step, s)
    <3>1. CASE k + 1 \in S
      <4>1. Max(S) = k + 1
        BY <3>1, MaxIs
      <4>2. h[S \ {k + 1}] = g[S \ {k + 1}]
        BY <2>3
      <4> QED
        BY <3>1, <4>1, <4>2 DEF Folded
    <3>2. CASE k + 1 \notin S
      <4>1. S \in SUBSET (1 .. k) /\ h[S] = g[S]
        BY <2>4, <3>2
      <4>2. g[S] = Folded(g, S, start, step, s)
        BY <2>1, <4>1
      <4>3. h[S \ {Max(S)}] = g[S \ {Max(S)}]
        BY <3>2
      <4> QED
        BY <4>1, <4>2, <4>3 DEF Folded
    <3> QED
      BY <3>1, <3>2
  <2> HIDE DEF h
  <2>7. Fold(k + 1, h)
    BY <2>5, <2>6
  <2> HIDE DEF Fold
  <2> QED
    BY <2>7
<1>3. \A k \in Nat : Reached(k)
  <2> HIDE DEF Reached
  <2> DEFINE T == {k \in Nat : Reached(k)}
  <2>1. 0 \in T /\ \A k \in Nat : k \in T => k + 1 \in T
    BY <1>1, <1>2
  <2> HIDE DEF T
  <2>2. \A k \in Nat : k \in T
    BY <2>1, SetInduction
  <2> QED
    BY <2>2 DEF T
<1>4. \E g : Fold(Len(s), g)
  <2> HIDE DEF Fold
  <2>1. Len(s) \in Nat /\ Len(s) <= Len(s)
    OBVIOUS
  <2> QED
    BY <1>3, <2>1
<1> QED
  BY <1>4 DEF IsFoldOf

LEMMA Intervals ==
  ASSUME NEW k \in Nat, k > 0
  PROVE  1 .. k # {} /\ Max(1 .. k) = k /\ (1 .. k) \ {k} = 1 .. (k - 1)
<1>1. k \in 1 .. k /\ (1 .. k) \in SUBSET Nat /\ \A m \in 1 .. k : m <= k
  OBVIOUS
<1>2. Max(1 .. k) = k
  BY <1>1, MaxIs
<1>3. (1 .. k) \ {k} = 1 .. (k - 1)
  OBVIOUS
<1> QED
  BY <1>1, <1>2, <1>3

-----------------------------------------------------------------------------
(* The status a history leads to. *)

Reachable == Statuses \cup {NoStatus}

\* StatusAfter, one event at a time.
Replayed(status, e) == IF e.type = "created" THEN status ELSE ReplayEvent(status, e.type)

LEMMA ReplayedTyped ==
  ASSUME NEW status \in Reachable, NEW e
  PROVE  Replayed(status, e) \in Reachable
<1>1. \A a \in Actions : NextStatus(status, a) \in Reachable
  BY DEF NextStatus, Target, Actions, Statuses, Reachable
<1>2. (\E a \in Actions : EventOf[a] = e.type) => (CHOOSE a \in Actions : EventOf[a] = e.type) \in Actions
  OBVIOUS
<1>3. ReplayEvent(status, e.type) \in Reachable
  BY <1>1, <1>2 DEF ReplayEvent, Reachable
<1> QED
  BY <1>3 DEF Replayed

\* The statuses on the way.
IsTrace(t, start, events) ==
  /\ t[0] = start
  /\ \A k \in 1 .. Len(events) : t[k] = Replayed(t[k - 1], events[k])

LEMMA StatusTrace ==
  ASSUME NEW E, NEW events \in Seq(E), NEW start \in Reachable
  PROVE  \E t : IsTrace(t, start, events) /\ t[Len(events)] = StatusAfter(start, events)
<1> DEFINE IsFold(g) == g = [S \in SUBSET DOMAIN events |->
                               IF S = {} THEN start
                               ELSE Replayed(g[S \ {Max(S)}], events[Max(S)])]
<1>1. StatusAfter(start, events) = (CHOOSE g : IsFold(g))[DOMAIN events]
  BY DEF StatusAfter, FoldLeft, MapThenFoldSet, Replayed
<1>2. \E g : IsFold(g)
  <2> DEFINE step == [pair \in Reachable \X E |-> Replayed(pair[1], pair[2])]
  <2>1. step \in [Reachable \X E -> Reachable]
    BY ReplayedTyped
  <2> HIDE DEF step
  <2>a. PICK g : IsFoldOf(g, Reachable, start, step, events)
    BY <2>1, FoldExists
  <2>2. /\ g \in [SUBSET (1 .. Len(events)) -> Reachable]
        /\ \A S \in SUBSET (1 .. Len(events)) : g[S] = Folded(g, S, start, step, events)
    BY <2>a DEF IsFoldOf
  <2>3. ASSUME NEW S \in SUBSET DOMAIN events
        PROVE  g[S] = IF S = {} THEN start ELSE Replayed(g[S \ {Max(S)}], events[Max(S)])
    <3>1. CASE S = {}
      BY <2>2, <3>1 DEF Folded
    <3>2. CASE S # {}
      <4>1. Max(S) \in S
        <5>1. Len(events) \in Nat /\ S \in SUBSET (1 .. Len(events))
          OBVIOUS
        <5> QED
          BY <3>2, <5>1, MaxIn
      <4>2. g[S \ {Max(S)}] \in Reachable /\ events[Max(S)] \in E
        BY <2>2, <4>1
      <4>3. step[<<g[S \ {Max(S)}], events[Max(S)]>>] = Replayed(g[S \ {Max(S)}], events[Max(S)])
        BY <4>2 DEF step
      <4> QED
        BY <2>2, <3>2, <4>3 DEF Folded
    <3> QED
      BY <3>1, <3>2
  <2>4. IsFold(g)
    BY <2>2, <2>3
  <2> HIDE DEF IsFold
  <2> QED
    BY <2>4
<1> DEFINE g == CHOOSE g : IsFold(g)
<1>3. IsFold(g)
  <2> HIDE DEF IsFold
  <2> QED
    BY <1>2
<1> HIDE DEF g
<1> DEFINE t == [j \in 0 .. Len(events) |-> g[1 .. j]]
<1>4. t[0] = start
  BY <1>3
<1>5. ASSUME NEW k \in 1 .. Len(events) PROVE t[k] = Replayed(t[k - 1], events[k])
  <2>1. (1 .. k) \in SUBSET DOMAIN events
    OBVIOUS
  <2>2. k \in Nat /\ k > 0 /\ k - 1 \in 0 .. Len(events)
    OBVIOUS
  <2>3. 1 .. k # {} /\ Max(1 .. k) = k /\ (1 .. k) \ {k} = 1 .. (k - 1)
    BY <2>2, Intervals
  <2>4. g[1 .. k] = Replayed(g[(1 .. k) \ {k}], events[k])
    BY <1>3, <2>1, <2>3
  <2>5. t[k] = g[1 .. k] /\ t[k - 1] = g[1 .. (k - 1)]
    BY <2>2
  <2> HIDE DEF t
  <2> QED
    BY <2>3, <2>4, <2>5
<1>6. t[Len(events)] = StatusAfter(start, events)
  <2>1. DOMAIN events = 1 .. Len(events) /\ Len(events) \in 0 .. Len(events)
    OBVIOUS
  <2> QED
    BY <1>1, <2>1 DEF g
<1> HIDE DEF t
<1> QED
  BY <1>4, <1>5, <1>6 DEF IsTrace

LEMMA TracesAgree ==
  ASSUME NEW E, NEW events \in Seq(E), NEW more \in Seq(E), NEW start, NEW t, NEW u,
         IsTrace(t, start, events), IsTrace(u, start, more), Len(events) <= Len(more),
         \A k \in 1 .. Len(events) : more[k] = events[k]
  PROVE  \A k \in 0 .. Len(events) : t[k] = u[k]
<1> DEFINE T == {k \in Nat : k <= Len(events) => t[k] = u[k]}
<1>1. 0 \in T
  BY DEF IsTrace
<1>2. ASSUME NEW k \in Nat, k \in T PROVE k + 1 \in T
  <2> SUFFICES ASSUME k + 1 <= Len(events) PROVE t[k + 1] = u[k + 1]
    OBVIOUS
  <2>1. /\ k + 1 \in 1 .. Len(events) /\ k + 1 \in 1 .. Len(more) /\ (k + 1) - 1 = k
        /\ t[k] = u[k]
    BY <1>2
  <2> QED
    BY <2>1 DEF IsTrace
<1> HIDE DEF T
<1>3. \A k \in Nat : k \in T
  BY <1>1, <1>2, SetInduction
<1> QED
  BY <1>3 DEF T

(* One more event takes the status one step further.                        *)
LEMMA StatusAppend ==
  ASSUME NEW E, NEW events \in Seq(E), NEW e \in E, NEW start \in Reachable
  PROVE  StatusAfter(start, Append(events, e)) = Replayed(StatusAfter(start, events), e)
<1> DEFINE more == Append(events, e)
           n == Len(events)
<1>1. /\ more \in Seq(E) /\ n \in Nat /\ Len(more) = n + 1 /\ more[n + 1] = e
      /\ \A k \in 1 .. n : more[k] = events[k]
  OBVIOUS
<1> HIDE DEF more
<1>2. PICK t : IsTrace(t, start, events) /\ t[n] = StatusAfter(start, events)
  BY StatusTrace
<1>3. PICK u : IsTrace(u, start, more) /\ u[n + 1] = StatusAfter(start, more)
  BY <1>1, StatusTrace
<1>4. t[n] = u[n]
  BY <1>1, <1>2, <1>3, TracesAgree
<1>5. u[n + 1] = Replayed(u[n], e)
  BY <1>1, <1>3 DEF IsTrace
<1> QED
  BY <1>2, <1>3, <1>4, <1>5 DEF more

LEMMA StatusOfNone ==
  ASSUME NEW start \in Reachable
  PROVE  StatusAfter(start, << >>) = start
<1>1. << >> \in Seq({}) /\ Len(<< >>) = 0
  OBVIOUS
<1>2. PICK t : IsTrace(t, start, << >>) /\ t[0] = StatusAfter(start, << >>)
  BY <1>1, StatusTrace
<1> QED
  BY <1>2 DEF IsTrace
-----------------------------------------------------------------------------
(* The events after a common prefix. *)

(* A new annotation has the status its history leads to.                    *)
LEMMA CreatedExplained ==
  ASSUME NEW E, NEW e \in E, e.type = "created", NEW status \in {"draft", "pending"}
  PROVE  StatusAfter(status, <<e>>) = status /\ Explained(status, <<e>>)
<1>1. status \in Reachable
  BY DEF Reachable, Statuses
<1>2. <<e>> = Append(<< >>, e) /\ << >> \in Seq(E)
  OBVIOUS
<1>3. StatusAfter(status, Append(<< >>, e)) = Replayed(StatusAfter(status, << >>), e)
  BY <1>1, <1>2, StatusAppend
<1>4. StatusAfter(status, << >>) = status
  BY <1>1, StatusOfNone
<1>5. StatusAfter(status, <<e>>) = status
  BY <1>2, <1>3, <1>4 DEF Replayed
<1> QED
  BY <1>5 DEF Explained

(* So has one on which a transition was made that the table allows.         *)
LEMMA MoveExplained ==
  ASSUME NEW E, NEW events \in Seq(E), NEW status, Explained(status, events),
         NEW action \in Actions, status \in Sources[action], NEW e \in E, e.type = EventOf[action]
  PROVE  Explained(Target[action], Append(events, e))
<1>1. PICK start \in {"draft", "pending"} : StatusAfter(start, events) = status
  BY DEF Explained
<1>2. start \in Reachable
  BY DEF Reachable, Statuses
<1>3. StatusAfter(start, Append(events, e)) = Replayed(status, e)
  BY <1>1, <1>2, StatusAppend
<1>4. Replayed(status, e) = Target[action]
  <2>1. EventOf[action] # "created"
    BY DEF EventOf, Actions
  <2>2. \A a \in Actions : EventOf[a] = EventOf[action] => a = action
    BY DEF EventOf, Actions
  <2>3. (CHOOSE a \in Actions : EventOf[a] = EventOf[action]) = action
    BY <2>2
  <2>4. ReplayEvent(status, EventOf[action]) = NextStatus(status, action)
    BY <2>3 DEF ReplayEvent
  <2> QED
    BY <2>1, <2>4 DEF Replayed, NextStatus
<1> QED
  BY <1>1, <1>3, <1>4 DEF Explained

\* s begins with the events of r.
Begins(r, s) == Len(r) <= Len(s) /\ \A i \in 1 .. Len(r) : s[i] = r[i]

LEMMA BeginsIsPrefix ==
  ASSUME NEW E, NEW r \in Seq(E), NEW s \in Seq(E)
  PROVE  IsPrefix(r, s) <=> Begins(r, s)
<1> DEFINE n == Len(r)
<1>1. n \in Nat /\ Len(s) \in Nat
  OBVIOUS
<1>2. CASE n <= Len(s)
  <2> DEFINE R == SubSeq(r, 1, n)
             S == SubSeq(s, 1, n)
  <2>1. /\ R \in Seq(E) /\ S \in Seq(E) /\ Len(R) = n /\ Len(S) = n
        /\ \A i \in 1 .. n : R[i] = r[i] /\ S[i] = s[i]
    BY <1>1, <1>2
  <2> HIDE DEF R, S
  <2>2. R = S <=> \A i \in 1 .. n : R[i] = S[i]
    BY <2>1
  <2>3. IsPrefix(r, s) <=> R = S
    BY <1>2 DEF IsPrefix, R, S
  <2> QED
    BY <1>2, <2>1, <2>2, <2>3 DEF Begins
<1>3. CASE ~ (n <= Len(s))
  BY <1>3 DEF IsPrefix, Begins
<1> QED
  BY <1>2, <1>3

LEMMA CommonPrefix ==
  ASSUME NEW E, NEW p \in Seq(E), NEW f \in Seq(E)
  PROVE  LET n == Len(LongestCommonPrefix({p, f}))
         IN  /\ n \in Nat /\ n <= Len(p) /\ n <= Len(f)
             /\ \A i \in 1 .. n : p[i] = f[i]
             /\ Begins(p, f) => n = Len(p)
<1> DEFINE C == CommonPrefixes({p, f})
<1>1. ASSUME NEW s \in C
      PROVE  s \in Seq(E) /\ Len(s) \in Nat /\ Begins(s, p) /\ Begins(s, f)
  <2>1. PICK t \in {p, f} : \E l \in 0 .. Len(t) : s = SubSeq(t, 1, l)
    BY DEF CommonPrefixes, Prefixes
  <2>2. s \in Seq(E)
    BY <2>1
  <2>3. IsPrefix(s, p) /\ IsPrefix(s, f)
    BY DEF CommonPrefixes
  <2> QED
    BY <2>2, <2>3, BeginsIsPrefix
<1>2. ASSUME NEW s, s \in Prefixes(p), IsPrefix(s, p), IsPrefix(s, f) PROVE s \in C
  BY <1>2 DEF CommonPrefixes
<1>3. << >> \in C
  <2>1. << >> = SubSeq(p, 1, 0) /\ 0 \in 0 .. Len(p)
    OBVIOUS
  <2>2. << >> \in Prefixes(p)
    BY <2>1 DEF Prefixes
  <2>3. << >> \in Seq(E) /\ Begins(<< >>, p) /\ Begins(<< >>, f)
    BY DEF Begins
  <2> QED
    BY <1>2, <2>2, <2>3, BeginsIsPrefix
<1>4. Begins(p, f) => p \in C
  <2> SUFFICES ASSUME Begins(p, f) PROVE p \in C
    OBVIOUS
  <2>1. p = SubSeq(p, 1, Len(p)) /\ Len(p) \in 0 .. Len(p)
    OBVIOUS
  <2>2. p \in Prefixes(p)
    BY <2>1 DEF Prefixes
  <2>3. Begins(p, p)
    BY DEF Begins
  <2> QED
    BY <1>2, <2>2, <2>3, BeginsIsPrefix
<1> HIDE DEF C
<1>5. \E longest \in C : \A other \in C : Len(other) <= Len(longest)
  <2> DEFINE D == {Len(p) - Len(s) : s \in C}
  <2>1. D \subseteq Nat /\ D # {}
    BY <1>1, <1>3 DEF Begins
  <2>2. PICK d \in D : \A e \in D : ~ (e < d)
    BY <2>1, LeastNumber
  <2>3. PICK longest \in C : d = Len(p) - Len(longest)
    OBVIOUS
  <2>4. \A other \in C : Len(p) - Len(other) \in D
    OBVIOUS
  <2> HIDE DEF D
  <2> QED
    BY <1>1, <2>2, <2>3, <2>4
<1> DEFINE L == LongestCommonPrefix({p, f})
<1>6. L \in C /\ \A other \in C : Len(other) <= Len(L)
  BY <1>5 DEF LongestCommonPrefix, C
<1> HIDE DEF L
<1>7. L \in Seq(E) /\ Len(L) \in Nat /\ Begins(L, p) /\ Begins(L, f)
  BY <1>1, <1>6
<1>8. Begins(p, f) => Len(L) = Len(p)
  BY <1>4, <1>6, <1>7 DEF Begins
<1> QED
  BY <1>7, <1>8 DEF Begins, L

\* n is the length of the common prefix.
Splits(n, E, p, f) ==
  /\ n <= Len(p) /\ n <= Len(f) /\ \A i \in 1 .. n : p[i] = f[i]
  /\ Begins(p, f) => n = Len(p)
  /\ EventsAfter(p, f) \in Seq(E) /\ Len(EventsAfter(p, f)) = Len(f) - n
  /\ \A i \in 1 .. Len(f) - n : EventsAfter(p, f)[i] = f[n + i]

LEMMA EventsAfterIs ==
  ASSUME NEW E, NEW p \in Seq(E), NEW f \in Seq(E)
  PROVE  \E n \in Nat : Splits(n, E, p, f)
<1> DEFINE n == Len(LongestCommonPrefix({p, f}))
<1>1. /\ n \in Nat /\ n <= Len(p) /\ n <= Len(f) /\ \A i \in 1 .. n : p[i] = f[i]
      /\ Begins(p, f) => n = Len(p)
  BY CommonPrefix
<1>2. EventsAfter(p, f) = SubSeq(f, n + 1, Len(f))
  BY DEF EventsAfter
<1> HIDE DEF n
<1>3. /\ SubSeq(f, n + 1, Len(f)) \in Seq(E)
      /\ Len(SubSeq(f, n + 1, Len(f))) = Len(f) - n
      /\ \A i \in 1 .. Len(f) - n : SubSeq(f, n + 1, Len(f))[i] = f[n + i]
  BY <1>1
<1>4. Splits(n, E, p, f)
  BY <1>1, <1>2, <1>3 DEF Splits
<1> QED
  BY <1>1, <1>4

-----------------------------------------------------------------------------
(* What is left of a list when some elements are gone. *)

\* Without, one element at a time.
Keep(kept, e, gone) == IF e \in gone THEN kept ELSE Append(kept, e)

LEMMA KeepTyped ==
  ASSUME NEW E, NEW gone, NEW kept \in Seq(E), NEW e \in E
  PROVE  Keep(kept, e, gone) \in Seq(E)
BY DEF Keep

LEMMA WithoutTrace ==
  ASSUME NEW E, NEW list \in Seq(E), NEW gone
  PROVE  \E t : /\ t[0] = << >>
                /\ \A k \in 1 .. Len(list) : t[k] = Keep(t[k - 1], list[k], gone)
                /\ t[Len(list)] = Without(list, gone)
<1> DEFINE IsFold(g) == g = [S \in SUBSET DOMAIN list |->
                               IF S = {} THEN << >>
                               ELSE Keep(g[S \ {Max(S)}], list[Max(S)], gone)]
<1>1. Without(list, gone) = (CHOOSE g : IsFold(g))[DOMAIN list]
  BY DEF Without, FoldLeft, MapThenFoldSet, Keep
<1>2. \E g : IsFold(g)
  <2> DEFINE step == [pair \in Seq(E) \X E |-> Keep(pair[1], pair[2], gone)]
  <2>1. step \in [Seq(E) \X E -> Seq(E)] /\ << >> \in Seq(E)
    BY KeepTyped
  <2> HIDE DEF step
  <2>2. PICK g : IsFoldOf(g, Seq(E), << >>, step, list)
    BY <2>1, FoldExists
  <2>3. /\ g \in [SUBSET (1 .. Len(list)) -> Seq(E)]
        /\ \A S \in SUBSET (1 .. Len(list)) : g[S] = Folded(g, S, << >>, step, list)
    BY <2>2 DEF IsFoldOf
  <2>4. ASSUME NEW S \in SUBSET DOMAIN list
        PROVE  g[S] = IF S = {} THEN << >> ELSE Keep(g[S \ {Max(S)}], list[Max(S)], gone)
    <3>1. CASE S = {}
      BY <2>3, <3>1 DEF Folded
    <3>2. CASE S # {}
      <4>1. Max(S) \in S
        <5>1. Len(list) \in Nat /\ S \in SUBSET (1 .. Len(list))
          OBVIOUS
        <5> QED
          BY <3>2, <5>1, MaxIn
      <4>2. g[S \ {Max(S)}] \in Seq(E) /\ list[Max(S)] \in E
        BY <2>3, <4>1
      <4>3. step[<<g[S \ {Max(S)}], list[Max(S)]>>] = Keep(g[S \ {Max(S)}], list[Max(S)], gone)
        BY <4>2 DEF step
      <4> QED
        BY <2>3, <3>2, <4>3 DEF Folded
    <3> QED
      BY <3>1, <3>2
  <2>5. IsFold(g)
    <3>1. g \in [SUBSET DOMAIN list -> Seq(E)]
      BY <2>3
    <3> DEFINE h == [S \in SUBSET DOMAIN list |->
                       IF S = {} THEN << >> ELSE Keep(g[S \ {Max(S)}], list[Max(S)], gone)]
    <3>2. \A S \in SUBSET DOMAIN list : g[S] = h[S]
      BY <2>4
    <3>3. DOMAIN g = SUBSET DOMAIN list /\ DOMAIN h = SUBSET DOMAIN list
      BY <3>1
    <3>4. g = [S \in DOMAIN g |-> g[S]] /\ h = [S \in DOMAIN h |-> h[S]]
      BY <3>1
    <3> HIDE DEF h
    <3>5. g = h
      BY <3>2, <3>3, <3>4
    <3> QED
      BY <3>5 DEF h
  <2> HIDE DEF IsFold
  <2> QED
    BY <2>5
<1> DEFINE g == CHOOSE g : IsFold(g)
<1>3. IsFold(g)
  <2> HIDE DEF IsFold
  <2> QED
    BY <1>2
<1> HIDE DEF g
<1> DEFINE t == [j \in 0 .. Len(list) |-> g[1 .. j]]
<1>4. t[0] = << >>
  BY <1>3
<1>5. ASSUME NEW k \in 1 .. Len(list) PROVE t[k] = Keep(t[k - 1], list[k], gone)
  <2>1. (1 .. k) \in SUBSET DOMAIN list
    OBVIOUS
  <2>2. k \in Nat /\ k > 0 /\ k - 1 \in 0 .. Len(list)
    OBVIOUS
  <2>3. 1 .. k # {} /\ Max(1 .. k) = k /\ (1 .. k) \ {k} = 1 .. (k - 1)
    BY <2>2, Intervals
  <2>4. g[1 .. k] = Keep(g[(1 .. k) \ {k}], list[k], gone)
    BY <1>3, <2>1, <2>3
  <2>5. t[k] = g[1 .. k] /\ t[k - 1] = g[1 .. (k - 1)]
    BY <2>2
  <2> HIDE DEF t
  <2> QED
    BY <2>3, <2>4, <2>5
<1>6. t[Len(list)] = Without(list, gone)
  <2>1. DOMAIN list = 1 .. Len(list) /\ Len(list) \in 0 .. Len(list)
    OBVIOUS
  <2> QED
    BY <1>1, <2>1 DEF g
<1> HIDE DEF t
<1> QED
  BY <1>4, <1>5, <1>6

\* What is kept of the first k elements.
IsKept(kept, E, list, k, gone) ==
  /\ kept \in Seq(E)
  /\ \A j \in DOMAIN kept : \E i \in 1 .. k : kept[j] = list[i] /\ list[i] \notin gone
  /\ \A i \in 1 .. k : list[i] \notin gone => \E j \in DOMAIN kept : kept[j] = list[i]
  /\ \A i, j \in DOMAIN kept : i < j =>
       \E a, b \in 1 .. k : a < b /\ kept[i] = list[a] /\ kept[j] = list[b]

LEMMA KeepNext ==
  ASSUME NEW E, NEW list \in Seq(E), NEW gone, NEW k \in 1 .. Len(list), NEW kept,
         IsKept(kept, E, list, k - 1, gone)
  PROVE  IsKept(Keep(kept, list[k], gone), E, list, k, gone)
<1>0. /\ k \in Nat /\ k - 1 \in Nat /\ kept \in Seq(E) /\ list[k] \in E
      /\ DOMAIN list = 1 .. Len(list)
  BY DEF IsKept
<1>1. CASE list[k] \in gone
  <2>1. Keep(kept, list[k], gone) = kept
    BY <1>1 DEF Keep
  <2> QED
    BY <1>0, <1>1, <2>1 DEF IsKept
<1>2. CASE list[k] \notin gone
  <2> DEFINE more == Append(kept, list[k])
  <2>1. /\ more \in Seq(E) /\ Len(more) = Len(kept) + 1 /\ more[Len(kept) + 1] = list[k]
        /\ \A j \in 1 .. Len(kept) : more[j] = kept[j]
        /\ Len(kept) \in Nat /\ DOMAIN kept = 1 .. Len(kept)
        /\ DOMAIN more = 1 .. Len(kept) + 1
    BY <1>0
  <2>2. Keep(kept, list[k], gone) = more
    BY <1>2 DEF Keep
  <2> HIDE DEF more
  <2>3. \A j \in DOMAIN more : j \in DOMAIN kept \/ j = Len(kept) + 1
    BY <2>1
  <2>4. \A j \in DOMAIN more : \E i \in 1 .. k : more[j] = list[i] /\ list[i] \notin gone
    BY <1>0, <1>2, <2>1, <2>3 DEF IsKept
  <2>5. \A i \in 1 .. k : list[i] \notin gone => \E j \in DOMAIN more : more[j] = list[i]
    <3> SUFFICES ASSUME NEW i \in 1 .. k, list[i] \notin gone
                 PROVE  \E j \in DOMAIN more : more[j] = list[i]
      OBVIOUS
    <3>1. CASE i = k
      BY <2>1, <3>1
    <3>2. CASE i # k
      <4>1. i \in 1 .. (k - 1)
        BY <1>0, <3>2
      <4>2. PICK j \in DOMAIN kept : kept[j] = list[i]
        BY <4>1 DEF IsKept
      <4> QED
        BY <2>1, <4>2
    <3> QED
      BY <3>1, <3>2
  <2>6. ASSUME NEW i \in DOMAIN more, NEW j \in DOMAIN more, i < j
        PROVE  \E a, b \in 1 .. k : a < b /\ more[i] = list[a] /\ more[j] = list[b]
    <3>1. i \in DOMAIN kept /\ more[i] = kept[i]
      BY <2>1, <2>3, <2>6
    <3>2. CASE j = Len(kept) + 1
      <4>1. PICK a \in 1 .. (k - 1) : kept[i] = list[a]
        BY <3>1 DEF IsKept
      <4>2. a \in 1 .. k /\ k \in 1 .. k /\ a < k
        BY <1>0, <4>1
      <4> QED
        BY <2>1, <3>1, <3>2, <4>1, <4>2
    <3>3. CASE j # Len(kept) + 1
      <4>1. j \in DOMAIN kept /\ more[j] = kept[j]
        BY <2>1, <2>3, <3>3
      <4>2. \E a, b \in 1 .. (k - 1) : a < b /\ kept[i] = list[a] /\ kept[j] = list[b]
        BY <2>6, <3>1, <4>1 DEF IsKept
      <4>3. \A a \in 1 .. (k - 1) : a \in 1 .. k
        BY <1>0
      <4> QED
        BY <3>1, <4>1, <4>2, <4>3
    <3> QED
      BY <3>2, <3>3
  <2> QED
    BY <2>1, <2>2, <2>4, <2>5, <2>6 DEF IsKept
<1> QED
  BY <1>1, <1>2

(* Exactly the elements are kept that are not gone, in their order.         *)
LEMMA WithoutKeeps ==
  ASSUME NEW E, NEW list \in Seq(E), NEW gone
  PROVE  IsKept(Without(list, gone), E, list, Len(list), gone)
<1>1. PICK t : /\ t[0] = << >>
               /\ \A k \in 1 .. Len(list) : t[k] = Keep(t[k - 1], list[k], gone)
               /\ t[Len(list)] = Without(list, gone)
  BY WithoutTrace
<1> DEFINE T == {k \in Nat : k <= Len(list) => IsKept(t[k], E, list, k, gone)}
<1>2. 0 \in T
  <2>1. IsKept(<< >>, E, list, 0, gone)
    BY DEF IsKept
  <2> QED
    BY <1>1, <2>1
<1>3. ASSUME NEW k \in Nat, k \in T PROVE k + 1 \in T
  <2> SUFFICES ASSUME k + 1 <= Len(list) PROVE IsKept(t[k + 1], E, list, k + 1, gone)
    OBVIOUS
  <2>1. k + 1 \in 1 .. Len(list) /\ (k + 1) - 1 = k /\ IsKept(t[k], E, list, k, gone)
    BY <1>3
  <2>2. IsKept(Keep(t[k], list[k + 1], gone), E, list, k + 1, gone)
    BY <2>1, KeepNext
  <2> QED
    BY <1>1, <2>1, <2>2
<1> HIDE DEF T
<1>4. \A k \in Nat : k \in T
  BY <1>2, <1>3, SetInduction
<1> QED
  BY <1>1, <1>4 DEF T

LEMMA WithoutIs ==
  ASSUME NEW E, NEW list \in Seq(E), NEW gone
  PROVE  LET kept == Without(list, gone)
         IN  /\ kept \in Seq(E)
             /\ \A j \in DOMAIN kept : \E i \in DOMAIN list : kept[j] = list[i] /\ list[i] \notin gone
             /\ \A i \in DOMAIN list : list[i] \notin gone => \E j \in DOMAIN kept : kept[j] = list[i]
<1>1. DOMAIN list = 1 .. Len(list)
  OBVIOUS
<1>2. IsKept(Without(list, gone), E, list, Len(list), gone)
  BY WithoutKeeps
<1> QED
  BY <1>1, <1>2 DEF IsKept

(* No event and no operation is there twice when some are gone.             *)
LEMMA WithoutDistinct ==
  ASSUME NEW E, NEW list \in Seq(E), NEW gone
  PROVE  /\ NoDuplicates(list) => NoDuplicates(Without(list, gone))
         /\ Distinct(list) => Distinct(Without(list, gone))
<1> DEFINE kept == Without(list, gone)
<1>1. DOMAIN list = 1 .. Len(list) /\ Len(list) \in Nat
  OBVIOUS
<1>2. /\ kept \in Seq(E)
      /\ \A i, j \in DOMAIN kept : i < j =>
           \E a, b \in 1 .. Len(list) : a < b /\ kept[i] = list[a] /\ kept[j] = list[b]
  BY WithoutKeeps DEF IsKept
<1>3. DOMAIN kept = 1 .. Len(kept) /\ Len(kept) \in Nat
  BY <1>2
<1> HIDE DEF kept
<1>4. ASSUME NEW i \in DOMAIN kept, NEW j \in DOMAIN kept, i # j
      PROVE  \E a, b \in DOMAIN list : a # b /\ kept[i] = list[a] /\ kept[j] = list[b]
  <2>1. i < j \/ j < i
    BY <1>3, <1>4
  <2>2. ASSUME NEW k \in DOMAIN kept, NEW l \in DOMAIN kept, k < l
        PROVE  \E a, b \in DOMAIN list : a # b /\ kept[k] = list[a] /\ kept[l] = list[b]
    <3>1. PICK a \in 1 .. Len(list), b \in 1 .. Len(list) :
                 a < b /\ kept[k] = list[a] /\ kept[l] = list[b]
      BY <1>2, <2>2
    <3>2. a # b
      BY <1>1, <3>1
    <3> QED
      BY <1>1, <3>1, <3>2
  <2> QED
    BY <2>1, <2>2
<1>5. NoDuplicates(list) => NoDuplicates(kept)
  BY <1>4 DEF NoDuplicates
<1>6. Distinct(list) => Distinct(kept)
  BY <1>4 DEF Distinct
<1> QED
  BY <1>5, <1>6 DEF kept

-----------------------------------------------------------------------------
(* The replay of the events of one history on top of another. *)

Histories(E) == [status : Statuses, lifecycle : Seq(E), dropped : Seq(E)]

LEMMA ReplayLeads ==
  ASSUME NEW status \in Statuses, NEW type, ReplayEvent(status, type) # NoStatus
  PROVE  ReplayEvent(status, type) \in Statuses /\ type # "created"
<1>1. \A a \in Actions : NextStatus(status, a) \in Statuses \cup {NoStatus}
  BY DEF NextStatus, Target, Actions, Statuses
<1>2. PICK a \in Actions : EventOf[a] = type
  BY DEF ReplayEvent
<1>3. (CHOOSE b \in Actions : EventOf[b] = type) \in Actions
  BY <1>2
<1>4. ReplayEvent(status, type) \in Statuses
  BY <1>1, <1>2, <1>3 DEF ReplayEvent
<1>5. type # "created"
  BY <1>2 DEF EventOf, Actions
<1> QED
  BY <1>4, <1>5

\* An event that is refused is reported.
LEMMA EventRefused ==
  ASSUME NEW E, NEW acc \in Histories(E), NEW e \in E, ReplayEvent(acc.status, e.type) = NoStatus
  PROVE  LET after == MergeEvent(acc, e)
         IN  /\ after \in Histories(E)
             /\ after.status = acc.status /\ after.lifecycle = acc.lifecycle
             /\ after.dropped = Append(acc.dropped, e)
<1> DEFINE after == [acc EXCEPT !.dropped = Append(@, e)]
<1>1. MergeEvent(acc, e) = after
  BY DEF MergeEvent
<1>2. /\ after.status = acc.status /\ after.lifecycle = acc.lifecycle
      /\ after.dropped = Append(acc.dropped, e)
  BY DEF Histories
<1>3. Append(acc.dropped, e) \in Seq(E)
  BY DEF Histories
<1>4. after \in Histories(E)
  BY <1>3 DEF Histories
<1> QED
  BY <1>1, <1>2, <1>4

\* An event that is allowed is recorded.
LEMMA EventRecorded ==
  ASSUME NEW E, NEW acc \in Histories(E), NEW e \in E, ReplayEvent(acc.status, e.type) # NoStatus
  PROVE  LET after == MergeEvent(acc, e)
         IN  /\ after \in Histories(E)
             /\ after.status = ReplayEvent(acc.status, e.type)
             /\ after.lifecycle = Append(acc.lifecycle, e)
             /\ after.dropped = acc.dropped
<1> DEFINE next  == ReplayEvent(acc.status, e.type)
           after == [acc EXCEPT !.status = next, !.lifecycle = Append(@, e)]
<1>1. MergeEvent(acc, e) = after
  BY DEF MergeEvent
<1>2. acc.status \in Statuses /\ next \in Statuses
  <2>1. acc.status \in Statuses
    BY DEF Histories
  <2> QED
    BY <2>1, ReplayLeads
<1> HIDE DEF next
<1>3. DOMAIN after = {"status", "lifecycle", "dropped"}
  BY DEF Histories
<1>4. /\ after.status = next /\ after.lifecycle = Append(acc.lifecycle, e)
      /\ after.dropped = acc.dropped
  BY DEF Histories
<1>5. Append(acc.lifecycle, e) \in Seq(E) /\ acc.dropped \in Seq(E)
  BY DEF Histories
<1>6. after = [f \in DOMAIN after |-> after[f]]
  BY DEF Histories
<1> HIDE DEF after
<1>7. after \in Histories(E)
  BY <1>2, <1>3, <1>4, <1>5, <1>6 DEF Histories
<1> QED
  BY <1>1, <1>4, <1>7 DEF next

LEMMA MergeEventTyped ==
  ASSUME NEW E, NEW acc \in Histories(E), NEW e \in E
  PROVE  MergeEvent(acc, e) \in Histories(E)
BY EventRefused, EventRecorded

LEMMA ReplayTrace ==
  ASSUME NEW E, NEW events \in Seq(E), NEW start \in Histories(E)
  PROVE  \E t : /\ t[0] = start
                /\ \A k \in 1 .. Len(events) : t[k] = MergeEvent(t[k - 1], events[k])
                /\ t[Len(events)] = FoldLeft(MergeEvent, start, events)
<1> DEFINE IsFold(g) == g = [S \in SUBSET DOMAIN events |->
                               IF S = {} THEN start
                               ELSE MergeEvent(g[S \ {Max(S)}], events[Max(S)])]
<1>1. FoldLeft(MergeEvent, start, events) = (CHOOSE g : IsFold(g))[DOMAIN events]
  BY DEF FoldLeft, MapThenFoldSet
<1>2. \E g : IsFold(g)
  <2> DEFINE step == [pair \in Histories(E) \X E |-> MergeEvent(pair[1], pair[2])]
  <2>1. step \in [Histories(E) \X E -> Histories(E)]
    BY MergeEventTyped
  <2> HIDE DEF step
  <2>2. PICK g : IsFoldOf(g, Histories(E), start, step, events)
    BY <2>1, FoldExists
  <2>3. /\ g \in [SUBSET (1 .. Len(events)) -> Histories(E)]
        /\ \A S \in SUBSET (1 .. Len(events)) : g[S] = Folded(g, S, start, step, events)
    BY <2>2 DEF IsFoldOf
  <2>4. ASSUME NEW S \in SUBSET DOMAIN events
        PROVE  g[S] = IF S = {} THEN start ELSE MergeEvent(g[S \ {Max(S)}], events[Max(S)])
    <3>1. CASE S = {}
      BY <2>3, <3>1 DEF Folded
    <3>2. CASE S # {}
      <4>1. Max(S) \in S
        <5>1. Len(events) \in Nat /\ S \in SUBSET (1 .. Len(events))
          OBVIOUS
        <5> QED
          BY <3>2, <5>1, MaxIn
      <4>2. g[S \ {Max(S)}] \in Histories(E) /\ events[Max(S)] \in E
        BY <2>3, <4>1
      <4>3. step[<<g[S \ {Max(S)}], events[Max(S)]>>] = MergeEvent(g[S \ {Max(S)}], events[Max(S)])
        BY <4>2 DEF step
      <4> QED
        BY <2>3, <3>2, <4>3 DEF Folded
    <3> QED
      BY <3>1, <3>2
  <2>5. IsFold(g)
    <3>1. g \in [SUBSET DOMAIN events -> Histories(E)]
      BY <2>3
    <3> DEFINE h == [S \in SUBSET DOMAIN events |->
                       IF S = {} THEN start ELSE MergeEvent(g[S \ {Max(S)}], events[Max(S)])]
    <3>2. \A S \in SUBSET DOMAIN events : g[S] = h[S]
      BY <2>4
    <3>3. DOMAIN g = SUBSET DOMAIN events /\ DOMAIN h = SUBSET DOMAIN events
      BY <3>1
    <3>4. g = [S \in DOMAIN g |-> g[S]] /\ h = [S \in DOMAIN h |-> h[S]]
      BY <3>1
    <3> HIDE DEF h
    <3>5. g = h
      BY <3>2, <3>3, <3>4
    <3> QED
      BY <3>5 DEF h
  <2> HIDE DEF IsFold
  <2> QED
    BY <2>5
<1> DEFINE g == CHOOSE g : IsFold(g)
<1>3. IsFold(g)
  <2> HIDE DEF IsFold
  <2> QED
    BY <1>2
<1> HIDE DEF g
<1> DEFINE t == [j \in 0 .. Len(events) |-> g[1 .. j]]
<1>4. t[0] = start
  BY <1>3
<1>5. ASSUME NEW k \in 1 .. Len(events) PROVE t[k] = MergeEvent(t[k - 1], events[k])
  <2>1. (1 .. k) \in SUBSET DOMAIN events
    OBVIOUS
  <2>2. k \in Nat /\ k > 0 /\ k - 1 \in 0 .. Len(events)
    OBVIOUS
  <2>3. 1 .. k # {} /\ Max(1 .. k) = k /\ (1 .. k) \ {k} = 1 .. (k - 1)
    BY <2>2, Intervals
  <2>4. g[1 .. k] = MergeEvent(g[(1 .. k) \ {k}], events[k])
    BY <1>3, <2>1, <2>3
  <2>5. t[k] = g[1 .. k] /\ t[k - 1] = g[1 .. (k - 1)]
    BY <2>2
  <2> HIDE DEF t
  <2> QED
    BY <2>3, <2>4, <2>5
<1>6. t[Len(events)] = FoldLeft(MergeEvent, start, events)
  <2>1. DOMAIN events = 1 .. Len(events) /\ Len(events) \in 0 .. Len(events)
    OBVIOUS
  <2> QED
    BY <1>1, <2>1 DEF g
<1> HIDE DEF t
<1> QED
  BY <1>4, <1>5, <1>6

\* The events replayed are no events of the history they are replayed on.
AreNew(first, events) ==
  /\ NoDuplicates(first.lifecycle) /\ NoDuplicates(events)
  /\ \A i \in DOMAIN events, j \in DOMAIN first.lifecycle : events[i].id # first.lifecycle[j].id

\* What the replay of the first k events on top of `first` comes to.
IsReplayed(acc, E, first, events, k) ==
  /\ acc \in Histories(E)
  /\ Begins(first.lifecycle, acc.lifecycle)
  /\ \A j \in Len(first.lifecycle) + 1 .. Len(acc.lifecycle) :
        \E i \in 1 .. k : acc.lifecycle[j] = events[i]
  /\ \A i \in 1 .. k :
        \/ \E j \in DOMAIN acc.lifecycle : acc.lifecycle[j] = events[i]
        \/ \E j \in DOMAIN acc.dropped : acc.dropped[j] = events[i]
  /\ \A s \in {"draft", "pending"} :
        StatusAfter(s, first.lifecycle) = first.status => StatusAfter(s, acc.lifecycle) = acc.status
  /\ AreNew(first, events) => NoDuplicates(acc.lifecycle)

LEMMA ReplayNext ==
  ASSUME NEW E, NEW events \in Seq(E), NEW first \in Histories(E), NEW k \in 1 .. Len(events),
         NEW acc, IsReplayed(acc, E, first, events, k - 1)
  PROVE  IsReplayed(MergeEvent(acc, events[k]), E, first, events, k)
<1> DEFINE e == events[k]
           after == MergeEvent(acc, e)
<1>0. /\ k \in Nat /\ k - 1 \in Nat /\ acc \in Histories(E) /\ e \in E
      /\ acc.lifecycle \in Seq(E) /\ acc.dropped \in Seq(E) /\ acc.status \in Statuses
      /\ first.lifecycle \in Seq(E)
      /\ \A i \in 1 .. k : i = k \/ i \in 1 .. (k - 1)
      /\ \A i \in 1 .. (k - 1) : i \in 1 .. k
  BY DEF IsReplayed, Histories
<1>1. CASE ReplayEvent(acc.status, e.type) = NoStatus
  <2>1. /\ after \in Histories(E)
        /\ after.status = acc.status /\ after.lifecycle = acc.lifecycle
        /\ after.dropped = Append(acc.dropped, e)
    BY <1>0, <1>1, EventRefused
  <2> HIDE DEF after
  <2>2. /\ after.dropped[Len(acc.dropped) + 1] = e
        /\ Len(acc.dropped) + 1 \in DOMAIN after.dropped
        /\ \A j \in DOMAIN acc.dropped : j \in DOMAIN after.dropped /\ after.dropped[j] = acc.dropped[j]
    BY <1>0, <2>1
  <2>3. \A j \in Len(first.lifecycle) + 1 .. Len(after.lifecycle) :
           \E i \in 1 .. k : after.lifecycle[j] = events[i]
    BY <1>0, <2>1 DEF IsReplayed
  <2>4. ASSUME NEW i \in 1 .. k
        PROVE  \/ \E j \in DOMAIN after.lifecycle : after.lifecycle[j] = events[i]
               \/ \E j \in DOMAIN after.dropped : after.dropped[j] = events[i]
    <3>1. CASE i = k
      BY <2>2, <3>1
    <3>2. CASE i # k
      <4>1. \/ \E j \in DOMAIN acc.lifecycle : acc.lifecycle[j] = events[i]
            \/ \E j \in DOMAIN acc.dropped : acc.dropped[j] = events[i]
        BY <1>0, <3>2 DEF IsReplayed
      <4> QED
        BY <2>1, <2>2, <4>1
    <3> QED
      BY <3>1, <3>2
  <2>5. IsReplayed(after, E, first, events, k)
    BY <2>1, <2>3, <2>4 DEF IsReplayed
  <2> QED
    BY <2>5 DEF after
<1>2. CASE ReplayEvent(acc.status, e.type) # NoStatus
  <2>1. /\ after \in Histories(E)
        /\ after.status = ReplayEvent(acc.status, e.type)
        /\ after.lifecycle = Append(acc.lifecycle, e)
        /\ after.dropped = acc.dropped
    BY <1>0, <1>2, EventRecorded
  <2> HIDE DEF after
  <2>2. /\ after.lifecycle \in Seq(E) /\ Len(acc.lifecycle) \in Nat
        /\ Len(after.lifecycle) = Len(acc.lifecycle) + 1
        /\ after.lifecycle[Len(acc.lifecycle) + 1] = e
        /\ \A j \in 1 .. Len(acc.lifecycle) : after.lifecycle[j] = acc.lifecycle[j]
        /\ Len(acc.lifecycle) + 1 \in DOMAIN after.lifecycle
        /\ \A j \in DOMAIN acc.lifecycle : j \in DOMAIN after.lifecycle /\ after.lifecycle[j] = acc.lifecycle[j]
    BY <1>0, <2>1
  <2>3. Begins(first.lifecycle, after.lifecycle)
    <3>1. /\ Len(first.lifecycle) <= Len(acc.lifecycle)
          /\ \A i \in 1 .. Len(first.lifecycle) : acc.lifecycle[i] = first.lifecycle[i]
      BY DEF IsReplayed, Begins
    <3>2. Len(first.lifecycle) \in Nat
      BY <1>0
    <3> QED
      BY <2>2, <3>1, <3>2 DEF Begins
  <2>4. ASSUME NEW j \in Len(first.lifecycle) + 1 .. Len(after.lifecycle)
        PROVE  \E i \in 1 .. k : after.lifecycle[j] = events[i]
    <3>0. Len(first.lifecycle) \in Nat
      BY <1>0
    <3>1. CASE j = Len(acc.lifecycle) + 1
      <4>1. k \in 1 .. k /\ after.lifecycle[j] = events[k]
        BY <1>0, <2>2, <3>1
      <4> QED
        BY <4>1
    <3>2. CASE j # Len(acc.lifecycle) + 1
      <4>1. j \in Len(first.lifecycle) + 1 .. Len(acc.lifecycle) /\ j \in 1 .. Len(acc.lifecycle)
        BY <2>2, <3>0, <3>2
      <4>2. PICK i \in 1 .. (k - 1) : acc.lifecycle[j] = events[i]
        BY <4>1 DEF IsReplayed
      <4>3. i \in 1 .. k /\ after.lifecycle[j] = events[i]
        BY <1>0, <2>2, <4>1, <4>2
      <4> QED
        BY <4>3
    <3> QED
      BY <3>1, <3>2
  <2>5. ASSUME NEW i \in 1 .. k
        PROVE  \/ \E j \in DOMAIN after.lifecycle : after.lifecycle[j] = events[i]
               \/ \E j \in DOMAIN after.dropped : after.dropped[j] = events[i]
    <3>1. CASE i = k
      BY <2>2, <3>1
    <3>2. CASE i # k
      <4>1. \/ \E j \in DOMAIN acc.lifecycle : acc.lifecycle[j] = events[i]
            \/ \E j \in DOMAIN acc.dropped : acc.dropped[j] = events[i]
        BY <1>0, <3>2 DEF IsReplayed
      <4> QED
        BY <2>1, <2>2, <4>1
    <3> QED
      BY <3>1, <3>2
  <2>6. ASSUME NEW s \in {"draft", "pending"}, StatusAfter(s, first.lifecycle) = first.status
        PROVE  StatusAfter(s, after.lifecycle) = after.status
    <3>1. StatusAfter(s, acc.lifecycle) = acc.status
      BY <2>6 DEF IsReplayed
    <3>2. s \in Reachable
      BY DEF Reachable, Statuses
    <3>3. StatusAfter(s, Append(acc.lifecycle, e)) = Replayed(StatusAfter(s, acc.lifecycle), e)
      BY <1>0, <3>2, StatusAppend
    <3>4. e.type # "created"
      BY <1>0, <1>2, ReplayLeads
    <3> QED
      BY <2>1, <3>1, <3>3, <3>4 DEF Replayed
  <2>7. ASSUME AreNew(first, events) PROVE NoDuplicates(after.lifecycle)
    <3> SUFFICES ASSUME NEW i \in DOMAIN after.lifecycle, NEW j \in DOMAIN after.lifecycle,
                        after.lifecycle[i].id = after.lifecycle[j].id
                 PROVE  i = j
      BY DEF NoDuplicates
    <3>1. NoDuplicates(acc.lifecycle)
      BY <2>7 DEF IsReplayed
    <3>2. \A m \in DOMAIN acc.lifecycle : acc.lifecycle[m].id # e.id
      <4> SUFFICES ASSUME NEW m \in DOMAIN acc.lifecycle, acc.lifecycle[m].id = e.id PROVE FALSE
        OBVIOUS
      <4>0. k \in DOMAIN events /\ m \in 1 .. Len(acc.lifecycle) /\ Len(first.lifecycle) \in Nat
        BY <1>0
      <4>1. CASE m \in 1 .. Len(first.lifecycle)
        <5>1. acc.lifecycle[m] = first.lifecycle[m] /\ m \in DOMAIN first.lifecycle
          BY <1>0, <4>1 DEF IsReplayed, Begins
        <5> QED
          BY <2>7, <4>0, <5>1 DEF AreNew
      <4>2. CASE m \notin 1 .. Len(first.lifecycle)
        <5>1. m \in Len(first.lifecycle) + 1 .. Len(acc.lifecycle)
          BY <1>0, <4>0, <4>2
        <5>2. PICK l \in 1 .. (k - 1) : acc.lifecycle[m] = events[l]
          BY <5>1 DEF IsReplayed
        <5>3. l \in DOMAIN events /\ l # k /\ events[l].id = events[k].id
          BY <1>0, <4>0, <5>2
        <5> QED
          BY <2>7, <4>0, <5>3 DEF AreNew, NoDuplicates
      <4> QED
        BY <4>1, <4>2
    <3>3. \A m \in DOMAIN after.lifecycle : m \in DOMAIN acc.lifecycle \/ m = Len(acc.lifecycle) + 1
      BY <1>0, <2>2
    <3> QED
      BY <2>2, <3>1, <3>2, <3>3 DEF NoDuplicates
  <2>8. IsReplayed(after, E, first, events, k)
    BY <2>1, <2>3, <2>4, <2>5, <2>6, <2>7 DEF IsReplayed
  <2> QED
    BY <2>8 DEF after
<1> QED
  BY <1>1, <1>2

(* A replay keeps the history it starts from, adds nothing but the events,  *)
(* records or reports each of them, and ends in the status it should.       *)
LEMMA ReplayKeeps ==
  ASSUME NEW E, NEW events \in Seq(E), NEW first \in Histories(E)
  PROVE  IsReplayed(FoldLeft(MergeEvent, first, events), E, first, events, Len(events))
<1>1. PICK t : /\ t[0] = first
               /\ \A k \in 1 .. Len(events) : t[k] = MergeEvent(t[k - 1], events[k])
               /\ t[Len(events)] = FoldLeft(MergeEvent, first, events)
  BY ReplayTrace
<1> DEFINE T == {k \in Nat : k <= Len(events) => IsReplayed(t[k], E, first, events, k)}
<1>2. 0 \in T
  <2>1. first.lifecycle \in Seq(E)
    BY DEF Histories
  <2>2. IsReplayed(first, E, first, events, 0)
    BY <2>1 DEF IsReplayed, Begins, AreNew
  <2> QED
    BY <1>1, <2>2
<1>3. ASSUME NEW k \in Nat, k \in T PROVE k + 1 \in T
  <2> SUFFICES ASSUME k + 1 <= Len(events) PROVE IsReplayed(t[k + 1], E, first, events, k + 1)
    OBVIOUS
  <2>1. k + 1 \in 1 .. Len(events) /\ (k + 1) - 1 = k /\ IsReplayed(t[k], E, first, events, k)
    BY <1>3
  <2>2. IsReplayed(MergeEvent(t[k], events[k + 1]), E, first, events, k + 1)
    BY <2>1, ReplayNext
  <2> QED
    BY <1>1, <2>1, <2>2
<1> HIDE DEF T
<1>4. \A k \in Nat : k \in T
  BY <1>2, <1>3, SetInduction
<1> QED
  BY <1>1, <1>4 DEF T
=============================================================================
