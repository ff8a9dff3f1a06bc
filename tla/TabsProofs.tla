------------------------------ MODULE TabsProofs ------------------------------
(***************************************************************************)
(* Proofs about Tabs.                                                      *)
(***************************************************************************)
EXTENDS Tabs, Induction, SequenceTheorems

\* The tab has a job.
Works(t) == Open(t) /\ tab[t].job # Null

-----------------------------------------------------------------------------
(* Whose operations a tab sends, and to whom. *)

\* Every operation of the queue is owned by n.
Homes(ops, n) == \A i \in DOMAIN ops : ops[i].home = n

\* A request that is not broken is one to the server that serves.
Connected(page) == page.job.to \in {Null, serving}

\* A tab that is refused, and is not paired, does nothing but ask again.
RefusedAsk(page) == page.refused => page.job.phase = "fetch"

\* The queue of a project: that of the tab's token, but for a tab that was overtaken.
At(ns, token, overtaken) == ns \in Projects /\ (overtaken \/ ns = token)
Settled(page) == At(page.ns, page.token, page.overtaken)

\* What waits for an answer was opened with the tab's token, with the same exception.
OpenedWith(page) == page.job.phase # "lock" => page.overtaken \/ page.job.token = page.token

\* Once it has asked, a tab works on such a queue.
OnItsProject(page) == page.job.phase # "fetch" => Settled(page)

\* What a tab sends is owned by the project whose queue it works on, paired or not.
SendsItsOwn(page) ==
  /\ page.job.phase \in {"write", "replay"} => page.job.op.home = page.ns
  /\ page.job.phase = "replay" => Homes(page.job.todo, page.ns)

WorksAtHome(page) ==
  Connected(page) /\ RefusedAsk(page) /\ OpenedWith(page) /\ OnItsProject(page) /\ SendsItsOwn(page)

\* A tab that may send works on such a queue, or asks first.
AsksFirst(page) ==
  \/ Settled(page)
  \/ ~page.online
  \/ page.refused
  \/ page.job # Null /\ page.job.phase = "fetch"
  \/ page.job = Null /\ page.chain # << >> /\ Head(page.chain).kind = "sync"

PageHome(page) == AsksFirst(page) /\ (page.job # Null => WorksAtHome(page))

\* An operation in the queue of a project, or of none, is owned by it.
AtHome == \A n \in Namespaces : Homes(disk.outbox[n], n)

PagesHome == \A t \in TabNames : Open(t) => PageHome(tab[t])

HomeInv == AtHome /\ PagesHome

-----------------------------------------------------------------------------
(* Which operation is where. *)

Queued(n) == OpIds(disk.outbox[n])

\* What a tab sends once, and what it sends of a queue.
Written(t) == IF Waits(t, {"write"}) THEN {tab[t].job.op.opId} ELSE {}
Snapshot(t) == IF Waits(t, {"replay"}) THEN {tab[t].job.op.opId} \cup OpIds(tab[t].job.todo) ELSE {}

Numbered ==
  /\ settled \subseteq 1 .. count.made
  /\ \A n \in Namespaces : Queued(n) \subseteq 1 .. count.made
  /\ \A t \in TabNames : Written(t) \cup Snapshot(t) \subseteq 1 .. count.made

\* An operation is in one queue, once, and it is not settled there.
InOneQueue ==
  /\ \A n \in Namespaces : Distinct(disk.outbox[n]) /\ Queued(n) \cap settled = {}
  /\ \A n, m \in Namespaces : n # m => Queued(n) \cap Queued(m) = {}

\* An operation that a write sends is nowhere else.
WrittenOnce ==
  /\ \A t \in TabNames : Written(t) \cap settled = {}
  /\ \A t \in TabNames, n \in Namespaces : Written(t) \cap Queued(n) = {}
  /\ \A t, u \in TabNames : /\ Written(t) \cap Snapshot(u) = {}
                            /\ t # u => Written(t) \cap Written(u) = {}

\* A replay sends each operation of its queue once, which is in no other queue and in no
\* other replay.
ReplayedOnce ==
  /\ \A t \in TabNames : Snapshot(t) \cap settled = {}
  /\ \A t \in TabNames, n \in Namespaces :
       Waits(t, {"replay"}) /\ n # tab[t].ns => Snapshot(t) \cap Queued(n) = {}
  /\ \A t, u \in TabNames : t # u => Snapshot(t) \cap Snapshot(u) = {}
  /\ \A t \in TabNames : Waits(t, {"replay"}) =>
       Distinct(tab[t].job.todo) /\ tab[t].job.op.opId \notin OpIds(tab[t].job.todo)

\* A replay has the lock of its queue.
ReplayLocks == \A t \in TabNames : Waits(t, {"replay"}) => lock[tab[t].ns] = t

OnceInv == Numbered /\ InOneQueue /\ WrittenOnce /\ ReplayedOnce /\ ReplayLocks

-----------------------------------------------------------------------------
(* The queues. *)

LEMMA WithoutOps ==
  ASSUME NEW ops \in Seq(Ops), NEW gone
  PROVE  /\ WithoutIds(ops, gone) \in Seq(Ops)
         /\ OpIds(WithoutIds(ops, gone)) = OpIds(ops) \ gone
         /\ \A h : (\A i \in DOMAIN ops : ops[i].home = h)
                   => \A i \in DOMAIN WithoutIds(ops, gone) : WithoutIds(ops, gone)[i].home = h
         /\ Distinct(ops) => Distinct(WithoutIds(ops, gone))
<1> DEFINE out == {o \in ToSet(ops) : o.opId \in gone}
           kept == Without(ops, out)
<1>1. WithoutIds(ops, gone) = kept
  BY DEF WithoutIds
<1>2. \A i \in DOMAIN ops : ops[i] \in out <=> ops[i].opId \in gone
  BY DEF ToSet
<1> HIDE DEF out
<1>3. /\ kept \in Seq(Ops)
      /\ \A j \in DOMAIN kept : \E i \in DOMAIN ops : kept[j] = ops[i] /\ ops[i].opId \notin gone
      /\ \A i \in DOMAIN ops : ops[i].opId \notin gone => \E j \in DOMAIN kept : kept[j] = ops[i]
      /\ Distinct(ops) => Distinct(kept)
  <2>1. /\ kept \in Seq(Ops)
        /\ \A j \in DOMAIN kept : \E i \in DOMAIN ops : kept[j] = ops[i] /\ ops[i] \notin out
        /\ \A i \in DOMAIN ops : ops[i] \notin out => \E j \in DOMAIN kept : kept[j] = ops[i]
    BY WithoutIs
  <2>2. Distinct(ops) => Distinct(kept)
    BY WithoutDistinct
  <2> HIDE DEF kept
  <2> QED
    BY <1>2, <2>1, <2>2
<1> HIDE DEF kept
<1>5. OpIds(kept) = OpIds(ops) \ gone
  <2>1. ASSUME NEW x \in OpIds(kept) PROVE x \in OpIds(ops) \ gone
    BY <1>3, <2>1 DEF OpIds
  <2>2. ASSUME NEW x \in OpIds(ops) \ gone PROVE x \in OpIds(kept)
    <3>1. PICK i \in DOMAIN ops : ops[i].opId = x
      BY DEF OpIds
    <3>2. PICK j \in DOMAIN kept : kept[j] = ops[i]
      BY <1>3, <3>1
    <3> QED
      BY <3>1, <3>2 DEF OpIds
  <2> QED
    BY <2>1, <2>2
<1>7. \A h : (\A i \in DOMAIN ops : ops[i].home = h) => \A i \in DOMAIN kept : kept[i].home = h
  BY <1>3
<1> QED
  BY <1>1, <1>3, <1>5, <1>7

LEMMA NoOps ==
  /\ << >> \in Seq(Ops) /\ OpIds(<< >>) = {} /\ Distinct(<< >>)
  /\ \A n : Homes(<< >>, n)
BY DEF OpIds, Distinct, Homes

LEMMA ConcatOps ==
  ASSUME NEW ops \in Seq(Ops), NEW more \in Seq(Ops)
  PROVE  /\ ops \o more \in Seq(Ops)
         /\ OpIds(ops \o more) = OpIds(ops) \cup OpIds(more)
         /\ \A n : Homes(ops, n) /\ Homes(more, n) => Homes(ops \o more, n)
         /\ Distinct(ops) /\ Distinct(more) /\ OpIds(ops) \cap OpIds(more) = {}
            => Distinct(ops \o more)
<1> DEFINE all == ops \o more
           n == Len(ops)
           m == Len(more)
<1>1. /\ all \in Seq(Ops) /\ n \in Nat /\ m \in Nat
      /\ DOMAIN all = 1 .. n + m /\ DOMAIN ops = 1 .. n /\ DOMAIN more = 1 .. m
  OBVIOUS
<1>2. /\ \A i \in 1 .. n : all[i] = ops[i]
      /\ \A i \in 1 .. m : all[n + i] = more[i]
  OBVIOUS
<1> HIDE DEF all
<1>3. \A i \in DOMAIN all : \/ i \in DOMAIN ops /\ all[i] = ops[i]
                            \/ i > n /\ i - n \in DOMAIN more /\ all[i] = more[i - n]
  <2> SUFFICES ASSUME NEW i \in DOMAIN all, ~ (i <= n)
               PROVE  i > n /\ i - n \in DOMAIN more /\ all[i] = more[i - n]
    BY <1>1, <1>2
  <2>1. i - n \in 1 .. m /\ n + (i - n) = i
    BY <1>1
  <2> QED
    BY <1>1, <1>2, <2>1
<1>4. /\ \A i \in DOMAIN ops : i \in DOMAIN all /\ all[i] = ops[i]
      /\ \A i \in DOMAIN more : n + i \in DOMAIN all /\ all[n + i] = more[i]
  BY <1>1, <1>2
<1>5. OpIds(all) = OpIds(ops) \cup OpIds(more)
  <2>1. OpIds(all) \subseteq OpIds(ops) \cup OpIds(more)
    BY <1>3 DEF OpIds
  <2>2. OpIds(ops) \subseteq OpIds(all)
    BY <1>4 DEF OpIds
  <2>3. OpIds(more) \subseteq OpIds(all)
    <3> SUFFICES ASSUME NEW i \in DOMAIN more PROVE more[i].opId \in OpIds(all)
      BY DEF OpIds
    <3>1. n + i \in DOMAIN all /\ all[n + i].opId = more[i].opId
      BY <1>4
    <3> QED
      BY <3>1, Zenon DEF OpIds
  <2> QED
    BY <2>1, <2>2, <2>3
<1>6. \A h : Homes(ops, h) /\ Homes(more, h) => Homes(all, h)
  BY <1>3 DEF Homes
<1>7. Distinct(ops) /\ Distinct(more) /\ OpIds(ops) \cap OpIds(more) = {} => Distinct(all)
  <2> SUFFICES ASSUME Distinct(ops), Distinct(more), OpIds(ops) \cap OpIds(more) = {},
                      NEW i \in DOMAIN all, NEW j \in DOMAIN all, all[i].opId = all[j].opId
               PROVE  i = j
    BY DEF Distinct
  <2>1. \A k \in DOMAIN ops, l \in DOMAIN more : ops[k].opId # more[l].opId
    BY DEF OpIds
  <2>2. CASE i \in DOMAIN ops /\ j \in DOMAIN ops
    BY <1>4, <2>2 DEF Distinct
  <2>3. CASE i \notin DOMAIN ops /\ j \notin DOMAIN ops
    <3>1. /\ i - n \in DOMAIN more /\ all[i] = more[i - n]
          /\ j - n \in DOMAIN more /\ all[j] = more[j - n]
      BY <1>3, <2>3
    <3>2. i - n = j - n
      BY <3>1 DEF Distinct
    <3> QED
      BY <1>1, <3>2
  <2>4. CASE i \in DOMAIN ops /\ j \notin DOMAIN ops
    BY <1>3, <1>4, <2>1, <2>4
  <2>5. CASE i \notin DOMAIN ops /\ j \in DOMAIN ops
    BY <1>3, <1>4, <2>1, <2>5
  <2> QED
    BY <2>2, <2>3, <2>4, <2>5
<1> QED
  BY <1>1, <1>5, <1>6, <1>7 DEF all

LEMMA OneOp ==
  ASSUME NEW op \in Ops
  PROVE  /\ <<op>> \in Seq(Ops) /\ OpIds(<<op>>) = {op.opId} /\ Distinct(<<op>>)
         /\ \A n : op.home = n => Homes(<<op>>, n)
<1>1. <<op>> \in Seq(Ops) /\ DOMAIN <<op>> = {1} /\ <<op>>[1] = op
  OBVIOUS
<1> QED
  BY <1>1 DEF OpIds, Distinct, Homes

LEMMA EnqueueOps ==
  ASSUME NEW ops \in Seq(Ops), NEW op \in Ops
  PROVE  /\ Enqueue(ops, op) \in Seq(Ops)
         /\ OpIds(Enqueue(ops, op))
              = (OpIds(ops) \ {ops[i].opId : i \in Replaced(ops, op)}) \cup {op.opId}
         /\ \A n : Homes(ops, n) /\ op.home = n => Homes(Enqueue(ops, op), n)
         /\ Distinct(ops) /\ op.opId \notin OpIds(ops) => Distinct(Enqueue(ops, op))
<1> DEFINE gone == {ops[i].opId : i \in Replaced(ops, op)}
           kept == WithoutIds(ops, gone)
<1>1. /\ kept \in Seq(Ops) /\ OpIds(kept) = OpIds(ops) \ gone
      /\ \A n : Homes(ops, n) => Homes(kept, n)
      /\ Distinct(ops) => Distinct(kept)
  <2> HIDE DEF gone
  <2> QED
    BY WithoutOps DEF Homes
<1>2. Enqueue(ops, op) = kept \o <<op>>
  <2> HIDE DEF gone
  <2>1. Enqueue(ops, op) = Append(kept, op)
    BY DEF Enqueue, gone
  <2> HIDE DEF kept
  <2> QED
    BY <1>1, <2>1, AppendIsConcat
<1> HIDE DEF kept, gone
<1>3. /\ <<op>> \in Seq(Ops) /\ OpIds(<<op>>) = {op.opId} /\ Distinct(<<op>>)
      /\ \A n : op.home = n => Homes(<<op>>, n)
  BY OneOp
<1>4. /\ kept \o <<op>> \in Seq(Ops)
      /\ OpIds(kept \o <<op>>) = OpIds(kept) \cup OpIds(<<op>>)
      /\ \A n : Homes(kept, n) /\ Homes(<<op>>, n) => Homes(kept \o <<op>>, n)
      /\ Distinct(kept) /\ Distinct(<<op>>) /\ OpIds(kept) \cap OpIds(<<op>>) = {}
         => Distinct(kept \o <<op>>)
  BY <1>1, <1>3, ConcatOps
<1> HIDE DEF Enqueue, Homes, Distinct
<1>5. OpIds(Enqueue(ops, op)) = (OpIds(ops) \ gone) \cup {op.opId}
  BY <1>1, <1>2, <1>3, <1>4
<1>6. op.opId \notin OpIds(ops) => OpIds(kept) \cap OpIds(<<op>>) = {}
  BY <1>1, <1>3
<1> QED
  BY <1>1, <1>2, <1>3, <1>4, <1>5, <1>6 DEF gone

LEMMA HeadTailOps ==
  ASSUME NEW ops \in Seq(Ops), ops # << >>
  PROVE  /\ Head(ops) \in Ops /\ Tail(ops) \in Seq(Ops)
         /\ OpIds(ops) = {Head(ops).opId} \cup OpIds(Tail(ops))
         /\ \A n : Homes(ops, n) => Head(ops).home = n /\ Homes(Tail(ops), n)
         /\ Distinct(ops) => Distinct(Tail(ops)) /\ Head(ops).opId \notin OpIds(Tail(ops))
<1> DEFINE rest == Tail(ops)
           n == Len(ops)
<1>1. /\ n \in Nat /\ n > 0 /\ DOMAIN ops = 1 .. n /\ Head(ops) = ops[1] /\ Head(ops) \in Ops
      /\ rest \in Seq(Ops) /\ DOMAIN rest = 1 .. n - 1
      /\ \A i \in 1 .. n - 1 : rest[i] = ops[i + 1]
  OBVIOUS
<1> HIDE DEF rest
<1>2. /\ 1 \in DOMAIN ops
      /\ \A i \in DOMAIN rest : i + 1 \in DOMAIN ops /\ i + 1 # 1 /\ rest[i] = ops[i + 1]
      /\ \A i \in DOMAIN ops : i # 1 => i - 1 \in DOMAIN rest /\ rest[i - 1] = ops[i]
  BY <1>1
<1>3. OpIds(ops) = {Head(ops).opId} \cup OpIds(rest)
  <2>1. \A x \in OpIds(ops) : x = Head(ops).opId \/ x \in OpIds(rest)
    <3> SUFFICES ASSUME NEW i \in DOMAIN ops, i # 1 PROVE ops[i].opId \in OpIds(rest)
      BY <1>1 DEF OpIds
    <3>1. i - 1 \in DOMAIN rest /\ rest[i - 1].opId = ops[i].opId
      BY <1>2
    <3> QED
      BY <3>1, Zenon DEF OpIds
  <2>2. OpIds(rest) \subseteq OpIds(ops)
    BY <1>2 DEF OpIds
  <2>3. Head(ops).opId \in OpIds(ops)
    BY <1>1, <1>2 DEF OpIds
  <2> QED
    BY <2>1, <2>2, <2>3
<1>4. \A h : Homes(ops, h) => Head(ops).home = h /\ Homes(rest, h)
  BY <1>1, <1>2 DEF Homes
<1>5. Distinct(ops) => Distinct(rest) /\ Head(ops).opId \notin OpIds(rest)
  <2> SUFFICES ASSUME Distinct(ops) PROVE Distinct(rest) /\ Head(ops).opId \notin OpIds(rest)
    OBVIOUS
  <2>1. ASSUME NEW i \in DOMAIN rest, NEW j \in DOMAIN rest, rest[i].opId = rest[j].opId
        PROVE  i = j
    <3>1. i + 1 = j + 1
      BY <1>2, <2>1 DEF Distinct
    <3> QED
      BY <1>1, <3>1
  <2>2. \A i \in DOMAIN rest : rest[i].opId # Head(ops).opId
    BY <1>1, <1>2 DEF Distinct
  <2> QED
    BY <2>1, <2>2 DEF Distinct, OpIds
<1> QED
  BY <1>1, <1>3, <1>4, <1>5 DEF rest

\* The operations that a tab claims for n.
Claimed(ops, n) == [i \in DOMAIN ops |-> [ops[i] EXCEPT !.home = n]]

LEMMA ClaimedOps ==
  ASSUME NEW ops \in Seq(Ops), NEW n \in Namespaces
  PROVE  /\ Claimed(ops, n) \in Seq(Ops) /\ OpIds(Claimed(ops, n)) = OpIds(ops)
         /\ Homes(Claimed(ops, n), n)
         /\ Distinct(ops) => Distinct(Claimed(ops, n))
<1>1. \A i \in DOMAIN ops : /\ [ops[i] EXCEPT !.home = n] \in Ops
                            /\ [ops[i] EXCEPT !.home = n].opId = ops[i].opId
                            /\ [ops[i] EXCEPT !.home = n].home = n
  <2>1. \A op \in Ops : /\ [op EXCEPT !.home = n] \in Ops
                        /\ [op EXCEPT !.home = n].opId = op.opId
                        /\ [op EXCEPT !.home = n].home = n
    BY DEF Ops
  <2>2. \A i \in DOMAIN ops : ops[i] \in Ops
    OBVIOUS
  <2> QED
    BY <2>1, <2>2
<1> DEFINE claimed == Claimed(ops, n)
<1>2. /\ DOMAIN ops = 1 .. Len(ops) /\ Len(ops) \in Nat /\ DOMAIN claimed = DOMAIN ops
      /\ \A i \in DOMAIN ops : claimed[i] = [ops[i] EXCEPT !.home = n]
  BY DEF Claimed
<1>3. claimed \in Seq(Ops)
  <2>1. claimed \in [1 .. Len(ops) -> Ops]
    BY <1>1, <1>2 DEF Claimed
  <2> HIDE DEF claimed
  <2> QED
    BY <1>2, <2>1
<1> HIDE DEF claimed
<1>4. \A i \in DOMAIN ops : claimed[i].opId = ops[i].opId /\ claimed[i].home = n
  BY <1>1, <1>2
<1>5. OpIds(claimed) = OpIds(ops)
  BY <1>2, <1>4 DEF OpIds
<1> QED
  BY <1>2, <1>3, <1>4, <1>5 DEF claimed, Homes, Distinct


-----------------------------------------------------------------------------
(* What a step does to the tab that takes it. *)

TabOf(ns, token, online, refused, chain, job, overtaken) ==
  [ ns |-> ns, token |-> token, online |-> online, refused |-> refused,
    chain |-> chain, job |-> job, overtaken |-> overtaken ]

\* The step changes the tab t, and no other.
Becomes(t, value) == tab' = [u \in TabNames |-> IF u = t THEN value ELSE tab[u]]

\* The calls and the job of the tab change, and nothing else of it.
GoesOn(t, chain, job) ==
  Becomes(t, TabOf(tab[t].ns, tab[t].token, tab[t].online, tab[t].refused, chain, job, tab[t].overtaken))

\* The job ends, with what the tab has learnt of the server.
Ends(t, online, refused) ==
  Becomes(t, TabOf(tab[t].ns, tab[t].token, online, refused, tab[t].chain, Null, tab[t].overtaken))

LEMMA TabFields ==
  ASSUME TypeOK, NEW t \in TabNames, Open(t)
  PROVE  /\ tab[t] \in OpenTabs
         /\ tab[t].ns \in Namespaces /\ tab[t].token \in Projects
         /\ tab[t].online \in BOOLEAN /\ tab[t].refused \in BOOLEAN
         /\ tab[t].chain \in Seq(Calls) /\ tab[t].job \in Jobs \cup {Null}
         /\ tab[t].overtaken \in BOOLEAN
         /\ tab[t] = TabOf(tab[t].ns, tab[t].token, tab[t].online, tab[t].refused,
                           tab[t].chain, tab[t].job, tab[t].overtaken)
         /\ disk.outbox[tab[t].ns] \in Seq(Ops)
<1>1. tab[t] \in OpenTabs
  BY DEF TypeOK, Open
<1>2. disk.outbox \in [Namespaces -> Seq(Ops)]
  BY DEF TypeOK, Disks
<1> QED
  BY <1>1, <1>2 DEF OpenTabs, TabOf

LEMMA JobFields ==
  ASSUME TypeOK, NEW t \in TabNames, Works(t)
  PROVE  /\ tab[t].job \in Jobs
         /\ tab[t].job.kind \in {"sync", "adopt", "write"} /\ tab[t].job.phase \in Phases
         /\ tab[t].job.to \in Projects \cup {Null} /\ tab[t].job.token \in Projects \cup {Null}
         /\ tab[t].job.op \in Ops \cup {Null} /\ tab[t].job.todo \in Seq(Ops)
<1>1. tab[t].job \in Jobs
  BY TabFields DEF Works
<1> QED
  BY <1>1 DEF Jobs

LEMMA JobTyped ==
  ASSUME TypeOK, NEW t \in TabNames, Open(t), NEW kind \in {"sync", "adopt", "write"},
         NEW phase \in Phases, NEW op \in Ops \cup {Null}, NEW todo \in Seq(Ops)
  PROVE  Job(t, kind, phase, op, todo) \in Jobs
BY TabFields DEF Job, Jobs, TypeOK

LEMMA LockingTyped ==
  ASSUME NEW kind \in {"sync", "adopt", "write"}
  PROVE  Locking(kind) \in Jobs
BY DEF Locking, Jobs, Phases

LEMMA Changes ==
  ASSUME TypeOK, NEW t \in TabNames, Open(t)
  PROVE  /\ \A job : StartJob(t, job) => GoesOn(t, Tail(tab[t].chain), job)
         /\ tab' = [tab EXCEPT ![t].chain = Tail(@)] => GoesOn(t, Tail(tab[t].chain), tab[t].job)
         /\ \A call : tab' = [tab EXCEPT ![t].chain = Append(@, call)]
                      => GoesOn(t, Append(tab[t].chain, call), tab[t].job)
         /\ \A job : tab' = [tab EXCEPT ![t].job = job] => GoesOn(t, tab[t].chain, job)
         /\ \A online, refused : EndJob(t, online, refused) => Ends(t, online, refused)
<1>1. /\ tab = [u \in TabNames |-> tab[u]]
      /\ tab[t] = TabOf(tab[t].ns, tab[t].token, tab[t].online, tab[t].refused,
                        tab[t].chain, tab[t].job, tab[t].overtaken)
  BY TabFields DEF TypeOK
<1>2. \A chain, job :
        [tab[t] EXCEPT !.chain = chain, !.job = job]
          = TabOf(tab[t].ns, tab[t].token, tab[t].online, tab[t].refused, chain, job, tab[t].overtaken)
  <2> SUFFICES ASSUME NEW chain, NEW job
               PROVE  [tab[t] EXCEPT !.chain = chain, !.job = job]
                        = TabOf(tab[t].ns, tab[t].token, tab[t].online, tab[t].refused, chain, job, tab[t].overtaken)
    OBVIOUS
  <2> DEFINE after == [tab[t] EXCEPT !.chain = chain, !.job = job]
             fields == {"ns", "token", "online", "refused", "chain", "job", "overtaken"}
  <2>1. DOMAIN after = fields
    BY <1>1 DEF TabOf
  <2>2. after = [f \in DOMAIN after |-> after[f]]
    OBVIOUS
  <2>3. /\ after.ns = tab[t].ns /\ after.token = tab[t].token
        /\ after.online = tab[t].online /\ after.refused = tab[t].refused
        /\ after.chain = chain /\ after.job = job /\ after.overtaken = tab[t].overtaken
    BY <1>1 DEF TabOf
  <2> HIDE DEF after
  <2>4. after = TabOf(tab[t].ns, tab[t].token, tab[t].online, tab[t].refused, chain, job, tab[t].overtaken)
    BY <2>1, <2>2, <2>3 DEF TabOf
  <2> QED
    BY <2>4 DEF after
<1>3. \A chain :
        [tab[t] EXCEPT !.chain = chain]
          = TabOf(tab[t].ns, tab[t].token, tab[t].online, tab[t].refused, chain, tab[t].job, tab[t].overtaken)
  BY <1>1 DEF TabOf
<1>4. \A job :
        [tab[t] EXCEPT !.job = job]
          = TabOf(tab[t].ns, tab[t].token, tab[t].online, tab[t].refused, tab[t].chain, job, tab[t].overtaken)
  BY <1>1 DEF TabOf
<1>5. \A online, refused :
        [tab[t] EXCEPT !.job = Null, !.online = online, !.refused = refused]
          = TabOf(tab[t].ns, tab[t].token, online, refused, tab[t].chain, Null, tab[t].overtaken)
  <2> SUFFICES ASSUME NEW online, NEW refused
               PROVE  [tab[t] EXCEPT !.job = Null, !.online = online, !.refused = refused]
                        = TabOf(tab[t].ns, tab[t].token, online, refused, tab[t].chain, Null, tab[t].overtaken)
    OBVIOUS
  <2> DEFINE after == [tab[t] EXCEPT !.job = Null, !.online = online, !.refused = refused]
             fields == {"ns", "token", "online", "refused", "chain", "job", "overtaken"}
  <2>1. DOMAIN after = fields
    BY <1>1 DEF TabOf
  <2>2. after = [f \in DOMAIN after |-> after[f]]
    OBVIOUS
  <2>3. /\ after.ns = tab[t].ns /\ after.token = tab[t].token
        /\ after.online = online /\ after.refused = refused
        /\ after.chain = tab[t].chain /\ after.job = Null /\ after.overtaken = tab[t].overtaken
    BY <1>1 DEF TabOf
  <2> HIDE DEF after
  <2>4. after = TabOf(tab[t].ns, tab[t].token, online, refused, tab[t].chain, Null, tab[t].overtaken)
    BY <2>1, <2>2, <2>3 DEF TabOf
  <2> QED
    BY <2>4 DEF after
<1>6. \A job : StartJob(t, job) => GoesOn(t, Tail(tab[t].chain), job)
  BY <1>1, <1>2 DEF StartJob, GoesOn, Becomes
<1>7. tab' = [tab EXCEPT ![t].chain = Tail(@)] => GoesOn(t, Tail(tab[t].chain), tab[t].job)
  BY <1>1, <1>3 DEF GoesOn, Becomes
<1>8. \A call : tab' = [tab EXCEPT ![t].chain = Append(@, call)]
                => GoesOn(t, Append(tab[t].chain, call), tab[t].job)
  BY <1>1, <1>3 DEF GoesOn, Becomes
<1>9. \A job : tab' = [tab EXCEPT ![t].job = job] => GoesOn(t, tab[t].chain, job)
  BY <1>1, <1>4 DEF GoesOn, Becomes
<1>10. \A online, refused : EndJob(t, online, refused) => Ends(t, online, refused)
  BY <1>1, <1>5 DEF EndJob, Ends, Becomes
<1> QED
  BY <1>6, <1>7, <1>8, <1>9, <1>10


\* The queue of n becomes ops, and no other changes.
Queues(n, ops) ==
  /\ disk' \in Disks
  /\ disk'.outbox = [m \in Namespaces |-> IF m = n THEN ops ELSE disk.outbox[m]]

LEMMA PutQueue ==
  ASSUME TypeOK, NEW n \in Namespaces, NEW ops \in Seq(Ops),
         disk' = [disk EXCEPT !.outbox[n] = ops]
  PROVE  Queues(n, ops)
<1> DEFINE box == [m \in Namespaces |-> IF m = n THEN ops ELSE disk.outbox[m]]
<1>1. disk \in Disks /\ disk.outbox \in [Namespaces -> Seq(Ops)]
  BY DEF TypeOK, Disks
<1>2. box \in [Namespaces -> Seq(Ops)]
  BY <1>1
<1>3. [disk.outbox EXCEPT ![n] = ops] = box
  BY <1>1
<1> HIDE DEF box
<1>4. disk' = [disk EXCEPT !.outbox = box]
  BY <1>3
<1>5. disk' \in Disks /\ disk'.outbox = box
  BY <1>1, <1>2, <1>4 DEF Disks
<1> QED
  BY <1>5 DEF Queues, box

LEMMA QueueDoes ==
  ASSUME TypeOK, NEW t \in TabNames, Open(t), NEW op \in Ops, Queue(t, op)
  PROVE  /\ Queues(tab[t].ns, Enqueue(disk.outbox[tab[t].ns], op))
         /\ owed' \subseteq Nat
<1>1. tab[t].ns \in Namespaces /\ disk.outbox[tab[t].ns] \in Seq(Ops)
  BY TabFields
<1>2. Enqueue(disk.outbox[tab[t].ns], op) \in Seq(Ops)
  BY <1>1, EnqueueOps
<1>3. disk' = [disk EXCEPT !.outbox[tab[t].ns] = Enqueue(disk.outbox[tab[t].ns], op)]
  BY DEF Queue
<1>4. owed' \subseteq Nat
  <2>1. op.opId \in Nat /\ owed \subseteq Nat
    BY DEF Ops, TypeOK
  <2> QED
    BY <2>1 DEF Queue
<1> HIDE DEF Enqueue
<1> QED
  BY <1>1, <1>2, <1>3, <1>4, PutQueue

\* The operations an old buffer turns into.
Migrated(buffer, made) == [i \in DOMAIN buffer |-> Op(made + i, "put", buffer[i], Legacy)]

LEMMA MigratedOps ==
  ASSUME NEW buffer \in Seq(Ids), NEW made \in Nat
  PROVE  /\ Migrated(buffer, made) \in Seq(Ops)
         /\ Homes(Migrated(buffer, made), Legacy)
         /\ Distinct(Migrated(buffer, made))
         /\ OpIds(Migrated(buffer, made)) \subseteq (made + 1) .. (made + Len(buffer))
<1> DEFINE moved == Migrated(buffer, made)
           n == Len(buffer)
<1>1. n \in Nat /\ DOMAIN buffer = 1 .. n /\ \A i \in 1 .. n : buffer[i] \in Ids
  OBVIOUS
<1>2. \A i \in 1 .. n : /\ Op(made + i, "put", buffer[i], Legacy) \in Ops
                        /\ Op(made + i, "put", buffer[i], Legacy).opId = made + i
                        /\ Op(made + i, "put", buffer[i], Legacy).home = Legacy
  BY <1>1 DEF Op, Ops, Kinds, Namespaces
<1>3. DOMAIN moved = 1 .. n /\ \A i \in 1 .. n : moved[i] = Op(made + i, "put", buffer[i], Legacy)
  BY <1>1 DEF Migrated
<1>4. moved \in Seq(Ops)
  <2>1. moved \in [1 .. n -> Ops]
    BY <1>1, <1>2 DEF Migrated
  <2> HIDE DEF moved
  <2> QED
    BY <1>1, <2>1
<1> HIDE DEF moved
<1>5. \A i \in DOMAIN moved : moved[i].opId = made + i /\ moved[i].home = Legacy
  BY <1>2, <1>3
<1>6. Homes(moved, Legacy)
  BY <1>5 DEF Homes
<1>7. Distinct(moved)
  BY <1>1, <1>3, <1>5 DEF Distinct
<1>8. OpIds(moved) \subseteq (made + 1) .. (made + n)
  <2> SUFFICES ASSUME NEW i \in DOMAIN moved PROVE moved[i].opId \in (made + 1) .. (made + n)
    BY DEF OpIds
  <2>1. i \in 1 .. n /\ moved[i].opId = made + i
    BY <1>3, <1>5
  <2> QED
    BY <1>1, <2>1
<1> QED
  BY <1>4, <1>6, <1>7, <1>8 DEF moved

LEMMA NamespaceTyped == ASSUME TypeOK PROVE Namespace(disk) \in Namespaces
BY DEF TypeOK, Disks, Namespace, Namespaces

\* What both ways of migrating an old buffer do: with the tab that opens, or alone.
LEMMA MigratesDoes ==
  ASSUME TypeOK, NEW t \in TabNames, OpenTab(t) \/ MigrationCutOff(t)
  PROVE  LET moved == Migrated(disk.buffer, count.made)
         IN  /\ ~Open(t)
             /\ Queues(Legacy, disk.outbox[Legacy] \o moved)
             /\ moved \in Seq(Ops) /\ Homes(moved, Legacy) /\ Distinct(moved)
             /\ OpIds(moved) \subseteq (count.made + 1) .. count'.made
             /\ count' \in Counts /\ count'.made >= count.made
             /\ owed' = owed \cup (OpIds(disk'.outbox[Legacy]) \ OpIds(disk.outbox[Legacy]))
             /\ UNCHANGED <<serving, lock, settled>>
<1> DEFINE moved == Migrated(disk.buffer, count.made)
           ops == disk.outbox[Legacy] \o moved
           box == [m \in Namespaces |-> IF m = Legacy THEN ops ELSE disk.outbox[m]]
<1>1. /\ disk \in Disks /\ disk.outbox \in [Namespaces -> Seq(Ops)] /\ disk.buffer \in Seq(Ids)
      /\ Len(disk.buffer) \in Nat
      /\ Legacy \in Namespaces /\ disk.outbox[Legacy] \in Seq(Ops)
      /\ count \in Counts /\ count.made \in Nat
  BY DEF TypeOK, Disks, Namespaces, Counts
<1>2. /\ moved \in Seq(Ops) /\ Homes(moved, Legacy) /\ Distinct(moved)
      /\ OpIds(moved) \subseteq (count.made + 1) .. (count.made + Len(disk.buffer))
  BY <1>1, MigratedOps
<1>3. \/ count' = [count EXCEPT !.made = @ + Len(disk.buffer)]
      \/ count' = [count EXCEPT !.made = @ + Len(disk.buffer), !.troubles = @ + 1]
  BY DEF OpenTab, MigrationCutOff
<1>4. /\ count'.made = count.made + Len(disk.buffer)
      /\ count' \in Counts /\ count'.made >= count.made
  <2> DEFINE more == Len(disk.buffer)
  <2>1. more \in Nat /\ count.made + more \in Nat /\ count.troubles + 1 \in Nat
    BY <1>1 DEF Counts
  <2> SUFFICES count'.made = count.made + more /\ count' \in Counts /\ count'.made >= count.made
    OBVIOUS
  <2>2. CASE count' = [count EXCEPT !.made = @ + more]
    <3> HIDE DEF more
    <3> QED
      BY <1>1, <2>1, <2>2 DEF Counts
  <2>3. CASE count' = [count EXCEPT !.made = @ + more, !.troubles = @ + 1]
    <3> HIDE DEF more
    <3> DEFINE longer == [count EXCEPT !.made = @ + more]
    <3>1. longer \in Counts /\ longer.made = count.made + more /\ longer.troubles = count.troubles
      BY <1>1, <2>1 DEF Counts
    <3>2. count' = [longer EXCEPT !.troubles = count.troubles + 1]
      BY <2>3
    <3> HIDE DEF longer
    <3>3. count' \in Counts /\ count'.made = longer.made
      BY <2>1, <3>1, <3>2 DEF Counts
    <3> QED
      BY <1>1, <2>1, <3>1, <3>3
  <2> QED
    BY <1>3, <2>2, <2>3
<1>5. PICK left \in Seq(Ids) : Migrate(left)
  <2>1. << >> \in Seq(Ids)
    OBVIOUS
  <2> QED
    BY <1>1, <2>1 DEF OpenTab, MigrationCutOff
<1>6. disk' = [disk EXCEPT !.outbox[Legacy] = @ \o moved, !.buffer = left]
  BY <1>5 DEF Migrate, MigrateLegacyKeys, Migrated
<1>7. Queues(Legacy, ops)
  <2> HIDE DEF moved
  <2>1. ops \in Seq(Ops)
    BY <1>1, <1>2
  <2>2. box \in [Namespaces -> Seq(Ops)]
    <3> HIDE DEF ops
    <3> QED
      BY <1>1, <2>1
  <2>3. [disk.outbox EXCEPT ![Legacy] = ops] = box
    BY <1>1
  <2> HIDE DEF box
  <2>4. disk' = [disk EXCEPT !.outbox = box, !.buffer = left]
    <3>1. disk' = [disk EXCEPT !.outbox = [disk.outbox EXCEPT ![Legacy] = ops], !.buffer = left]
      BY <1>6
    <3> QED
      BY <2>3, <3>1
  <2>5. DOMAIN disk' = {"outbox", "lastProject", "buffer"}
    BY <1>1, <2>4 DEF Disks
  <2>6. disk' = [f \in DOMAIN disk' |-> disk'[f]]
    BY <2>4
  <2>7. disk'.outbox = box /\ disk'.buffer = left /\ disk'.lastProject = disk.lastProject
    BY <1>1, <2>4 DEF Disks
  <2>8. disk' \in Disks
    <3>1. disk' = [outbox |-> box, lastProject |-> disk.lastProject, buffer |-> left]
      BY <2>5, <2>6, <2>7
    <3>2. disk.lastProject \in Projects \cup {Null} /\ left \in Seq(Ids)
      BY <1>1, <1>5 DEF Disks
    <3> QED
      BY <2>2, <3>1, <3>2 DEF Disks
  <2> QED
    BY <2>7, <2>8 DEF Queues, box
<1>8. ~Open(t) /\ UNCHANGED <<serving, lock, settled>>
  BY DEF OpenTab, MigrationCutOff
<1>9. owed' = owed \cup (OpIds(disk'.outbox[Legacy]) \ OpIds(disk.outbox[Legacy]))
  BY <1>5 DEF Migrate
<1> HIDE DEF moved
<1> QED
  BY <1>2, <1>4, <1>7, <1>8, <1>9 DEF moved

LEMMA OpenTabDoes ==
  ASSUME TypeOK, NEW t \in TabNames, OpenTab(t)
  PROVE  \E token \in Projects :
           Becomes(t, TabOf(Namespace(disk), token, TRUE, FALSE, <<[kind |-> "sync"]>>, Null, FALSE))
<1>1. PICK token \in Projects : tab' = [tab EXCEPT ![t] = NewTab(disk, token)]
  BY DEF OpenTab
<1>2. NewTab(disk, token)
        = TabOf(Namespace(disk), token, TRUE, FALSE, <<[kind |-> "sync"]>>, Null, FALSE)
  BY DEF NewTab, TabOf
<1> HIDE DEF NewTab, TabOf
<1> QED
  BY <1>1, <1>2 DEF Becomes, TypeOK

LEMMA CloseTabDoes ==
  ASSUME TypeOK, NEW t \in TabNames, CloseTab(t)
  PROVE  /\ Open(t) /\ Becomes(t, Null) /\ lock' = Released(t)
         /\ count' \in Counts /\ count'.made = count.made
         /\ UNCHANGED <<serving, disk, owed, settled>>
<1>1. count' = [count EXCEPT !.troubles = @ + 1]
  BY DEF CloseTab, Trouble
<1>2. Becomes(t, Null)
  BY DEF CloseTab, Becomes, TypeOK
<1> QED
  BY <1>1, <1>2 DEF CloseTab, TypeOK, Counts

LEMMA CallDoes ==
  ASSUME TypeOK, NEW t \in TabNames, Write(t) \/ Poll(t) \/ CallAdopt(t)
  PROVE  /\ Open(t)
         /\ \E call \in Calls : GoesOn(t, Append(tab[t].chain, call), tab[t].job)
         /\ count' \in Counts /\ count'.made = count.made
         /\ UNCHANGED <<serving, disk, lock, owed, settled>>
<1>1. Open(t) /\ UNCHANGED <<serving, disk, lock, owed, settled>>
  BY DEF Write, Poll, CallAdopt
<1>2. count' = count \/ count' = [count EXCEPT !.ops = @ + 1]
  BY DEF Write, Poll, CallAdopt
<1>3. PICK call \in Calls : tab' = [tab EXCEPT ![t].chain = Append(@, call)]
  BY DEF Write, Poll, CallAdopt, Call, Calls
<1>4. GoesOn(t, Append(tab[t].chain, call), tab[t].job)
  BY <1>1, <1>3, Changes
<1> QED
  BY <1>1, <1>2, <1>4 DEF TypeOK, Counts

\* A tab that gets another token while it works is overtaken.
Overtakes(t, token) == tab[t].overtaken \/ (tab[t].job # Null /\ token # tab[t].token)

LEMMA PairDoes ==
  ASSUME TypeOK, NEW t \in TabNames, Pair(t)
  PROVE  /\ AllStarted /\ Open(t)
         /\ \E token \in Projects :
              Becomes(t, TabOf(tab[t].ns, token, tab[t].online, FALSE,
                               Append(tab[t].chain, [kind |-> "sync"]), tab[t].job, Overtakes(t, token)))
         /\ Append(tab[t].chain, [kind |-> "sync"]) \in Seq(Calls)
         /\ count' \in Counts /\ count'.made = count.made
         /\ UNCHANGED <<serving, disk, lock, owed, settled>>
<1>1. AllStarted /\ Open(t)
  BY DEF Pair
<1> DEFINE chain == Append(tab[t].chain, [kind |-> "sync"])
<1>2. PICK token \in Projects :
        tab' = [tab EXCEPT ![t].token = token, ![t].refused = FALSE, ![t].chain = chain,
                           ![t].overtaken = Overtakes(t, token)]
  <2>1. tab \in [TabNames -> OpenTabs \cup {Null}]
    BY DEF TypeOK
  <2> QED
    BY <2>1 DEF Pair, Overtakes
<1> DEFINE over == Overtakes(t, token)
           after == [tab[t] EXCEPT !.token = token, !.refused = FALSE, !.chain = chain,
                                   !.overtaken = over]
           fields == {"ns", "token", "online", "refused", "chain", "job", "overtaken"}
<1>3. /\ tab = [u \in TabNames |-> tab[u]]
      /\ tab[t] = TabOf(tab[t].ns, tab[t].token, tab[t].online, tab[t].refused,
                        tab[t].chain, tab[t].job, tab[t].overtaken)
  BY <1>1, TabFields DEF TypeOK
<1> HIDE DEF over
<1>4. DOMAIN after = fields
  BY <1>3 DEF TabOf
<1>5. after = [f \in DOMAIN after |-> after[f]]
  OBVIOUS
<1>6. /\ after.ns = tab[t].ns /\ after.token = token
      /\ after.online = tab[t].online /\ after.refused = FALSE
      /\ after.chain = chain /\ after.job = tab[t].job /\ after.overtaken = over
  BY <1>3 DEF TabOf
<1>7. tab' = [u \in TabNames |-> IF u = t THEN after ELSE tab[u]]
  BY <1>2, <1>3 DEF over
<1> HIDE DEF after
<1>8. after = TabOf(tab[t].ns, token, tab[t].online, FALSE, chain, tab[t].job, over)
  BY <1>4, <1>5, <1>6 DEF TabOf
<1>9. Append(tab[t].chain, [kind |-> "sync"]) \in Seq(Calls)
  <2>1. tab[t].chain \in Seq(Calls) /\ [kind |-> "sync"] \in Calls
    BY <1>1, TabFields DEF Calls
  <2> QED
    BY <2>1
<1>10. count' \in Counts /\ count'.made = count.made
  BY DEF Pair, TypeOK, Counts
<1>11. UNCHANGED <<serving, disk, lock, owed, settled>>
  BY DEF Pair
<1> QED
  BY <1>1, <1>7, <1>8, <1>9, <1>10, <1>11 DEF Becomes, over

LEMMA NextCallFields ==
  ASSUME TypeOK, NEW t \in TabNames, NEW kind, NextCall(t, kind)
  PROVE  /\ Open(t) /\ tab[t].job = Null
         /\ tab[t].chain # << >> /\ Head(tab[t].chain) \in Calls /\ Tail(tab[t].chain) \in Seq(Calls)
         /\ Head(tab[t].chain).kind = kind
<1>1. Open(t) /\ tab[t].chain \in Seq(Calls)
  BY TabFields DEF NextCall
<1> QED
  BY <1>1 DEF NextCall

LEMMA StartWriteDoes ==
  ASSUME TypeOK, NEW t \in TabNames, StartWrite(t)
  PROVE  /\ NextCall(t, "write")
         /\ \E op \in Ops :
              /\ op.opId = count.made + 1 /\ op.home = tab[t].ns
              /\ \/ /\ CanSend(t)
                    /\ GoesOn(t, Tail(tab[t].chain), Job(t, "write", "write", op, << >>))
                    /\ UNCHANGED <<disk, owed>>
                 \/ /\ ~CanSend(t)
                    /\ GoesOn(t, Tail(tab[t].chain), Null)
                    /\ Queue(t, op)
         /\ count' \in Counts /\ count'.made = count.made + 1
         /\ UNCHANGED <<serving, lock, settled>>
<1> DEFINE what == Head(tab[t].chain).what
           op == Op(count.made + 1, what[1], what[2], tab[t].ns)
<1>1. /\ NextCall(t, "write") /\ Open(t) /\ tab[t].job = Null
      /\ Head(tab[t].chain) \in Calls /\ Head(tab[t].chain).kind = "write"
  BY NextCallFields DEF StartWrite
<1>2. what \in Writes
  BY <1>1 DEF Calls
<1>3. op \in Ops /\ op.opId = count.made + 1 /\ op.home = tab[t].ns
  <2>1. what[1] \in Kinds /\ what[2] \in Ids
    BY <1>2 DEF Kinds, Ids
  <2>2. count.made + 1 \in Nat /\ tab[t].ns \in Namespaces
    BY <1>1, TabFields DEF TypeOK, Counts
  <2> QED
    BY <2>1, <2>2 DEF Op, Ops
<1>4. /\ count' = [count EXCEPT !.made = @ + 1]
      /\ \/ /\ CanSend(t)
            /\ StartJob(t, Job(t, "write", "write", op, << >>))
            /\ UNCHANGED <<disk, owed>>
         \/ /\ ~CanSend(t)
            /\ tab' = [tab EXCEPT ![t].chain = Tail(@)]
            /\ Queue(t, op)
      /\ UNCHANGED <<serving, lock, settled>>
  BY DEF StartWrite
<1> HIDE DEF op
<1>5. count' \in Counts /\ count'.made = count.made + 1
  BY <1>4 DEF TypeOK, Counts
<1>6. CASE /\ CanSend(t)
           /\ StartJob(t, Job(t, "write", "write", op, << >>))
           /\ UNCHANGED <<disk, owed>>
  <2>1. GoesOn(t, Tail(tab[t].chain), Job(t, "write", "write", op, << >>))
    BY <1>1, <1>6, Changes
  <2> QED
    BY <1>1, <1>3, <1>4, <1>5, <1>6, <2>1
<1>7. CASE /\ ~CanSend(t)
           /\ tab' = [tab EXCEPT ![t].chain = Tail(@)]
           /\ Queue(t, op)
  <2>1. GoesOn(t, Tail(tab[t].chain), Null)
    BY <1>1, <1>7, Changes
  <2> QED
    BY <1>1, <1>3, <1>4, <1>5, <1>7, <2>1
<1> QED
  BY <1>4, <1>6, <1>7

LEMMA StartSyncDoes ==
  ASSUME TypeOK, NEW t \in TabNames, StartSync(t)
  PROVE  /\ NextCall(t, "sync")
         /\ GoesOn(t, Tail(tab[t].chain), Job(t, "sync", "fetch", Null, << >>))
         /\ UNCHANGED <<serving, disk, lock, owed, settled, count>>
<1>1. NextCall(t, "sync") /\ Open(t)
  BY NextCallFields DEF StartSync
<1> QED
  BY <1>1, Changes DEF StartSync

\* What a tab that claims the queues of from finds in n.
Taken(n, from) == IF n \in from THEN disk.outbox[n] ELSE << >>

LEMMA TakenOps ==
  ASSUME TypeOK, NEW from, NEW n \in {Unknown, Legacy}
  PROVE  Taken(n, from) \in Seq(Ops)
BY DEF Taken, TypeOK, Disks, Namespaces

\* The queue of a tab that claimed those of from.
Adopted(t, from) ==
  disk.outbox[tab[t].ns] \o Claimed(Taken(Unknown, from), tab[t].ns)
                         \o Claimed(Taken(Legacy, from), tab[t].ns)

LEMMA AdoptDoes ==
  ASSUME TypeOK, NEW t \in TabNames, Open(t), NEW from, NEW gone,
         from \subseteq Unsent(t), gone \subseteq from, Adopt(t, from, gone)
  PROVE  /\ disk' \in Disks
         /\ \A n \in Namespaces :
              disk'.outbox[n] = CASE n = tab[t].ns -> Adopted(t, from)
                                  [] n \in gone -> << >>
                                  [] OTHER -> disk.outbox[n]
<1>1. tab[t].ns \in Namespaces
  BY TabFields
<1>2. /\ disk \in Disks /\ disk.outbox \in [Namespaces -> Seq(Ops)] /\ << >> \in Seq(Ops)
      /\ Unknown \in Namespaces /\ Legacy \in Namespaces
  BY SMTT(30) DEF TypeOK, Disks, Namespaces
<1>3. tab[t].ns \notin gone
  BY DEF Unsent
<1> DEFINE box == [n \in Namespaces |-> CASE n = tab[t].ns -> Adopted(t, from)
                                          [] n \in gone -> << >>
                                          [] OTHER -> disk.outbox[n]]
<1>4. disk' = [disk EXCEPT !.outbox = box]
  BY <1>3 DEF Adopt, Adopted, Claimed, Taken
<1>5. Adopted(t, from) \in Seq(Ops)
  <2>1. /\ Claimed(Taken(Unknown, from), tab[t].ns) \in Seq(Ops)
        /\ Claimed(Taken(Legacy, from), tab[t].ns) \in Seq(Ops)
    BY <1>1, TakenOps, ClaimedOps
  <2> HIDE DEF Claimed, Taken
  <2> QED
    BY <1>1, <1>2, <2>1 DEF Adopted
<1>6. box \in [Namespaces -> Seq(Ops)]
  <2> HIDE DEF Adopted
  <2> QED
    BY <1>2, <1>3, <1>5
<1>7. disk' \in Disks /\ disk'.outbox = box
  <2> HIDE DEF box
  <2> QED
    BY <1>2, <1>4, <1>6 DEF Disks
<1> HIDE DEF Adopted, Unsent
<1> QED
  BY <1>7

LEMMA StartAdoptDoes ==
  ASSUME TypeOK, NEW t \in TabNames, StartAdopt(t)
  PROVE  /\ NextCall(t, "adopt") /\ Open(t)
         /\ Adopt(t, Unsent(t), Unsent(t)) /\ disk' \in Disks
         /\ \/ CanSend(t) /\ GoesOn(t, Tail(tab[t].chain), Locking("adopt"))
            \/ GoesOn(t, Tail(tab[t].chain), Null)
         /\ UNCHANGED <<serving, lock, owed, settled, count>>
<1>1. NextCall(t, "adopt") /\ Open(t) /\ tab[t].job = Null
  BY NextCallFields DEF StartAdopt
<1>2. /\ Adopt(t, Unsent(t), Unsent(t))
      /\ \/ CanSend(t) /\ StartJob(t, Locking("adopt"))
         \/ tab' = [tab EXCEPT ![t].chain = Tail(@)]
      /\ UNCHANGED <<serving, lock, owed, settled, count>>
  BY DEF StartAdopt
<1>3. \/ CanSend(t) /\ GoesOn(t, Tail(tab[t].chain), Locking("adopt"))
      \/ GoesOn(t, Tail(tab[t].chain), Null)
  BY <1>1, <1>2, Changes
<1>4. disk' \in Disks
  BY <1>1, <1>2, AdoptDoes
<1> QED
  BY <1>1, <1>2, <1>3, <1>4

\* The tab is gone, and either whole queues have moved or the count tells of one half moved.
LEMMA AdoptionCutOffDoes ==
  ASSUME TypeOK, NEW t \in TabNames, AdoptionCutOff(t)
  PROVE  /\ Open(t) /\ tab[t].job = Null /\ Becomes(t, Null) /\ disk' \in Disks
         /\ \E from, gone \in SUBSET Unsent(t) :
              /\ gone \subseteq from /\ Adopt(t, from, gone)
              /\ gone # from => count'.torn = count.torn + 1
         /\ count' \in Counts /\ count'.made = count.made
         /\ UNCHANGED <<serving, lock, owed, settled>>
<1>1. Open(t) /\ tab[t].job = Null
  BY NextCallFields DEF AdoptionCutOff
<1>2. PICK n \in Unsent(t) : \E gone \in {(Unsent(t) \cap {Unknown}) \ {n},
                                           ((Unsent(t) \cap {Unknown}) \ {n}) \cup {n}} :
        /\ Adopt(t, ((Unsent(t) \cap {Unknown}) \ {n}) \cup {n}, gone)
        /\ count' = [count EXCEPT !.troubles = @ + 1, !.torn = IF n \in gone THEN @ ELSE @ + 1]
  BY DEF AdoptionCutOff
<1> DEFINE from == ((Unsent(t) \cap {Unknown}) \ {n}) \cup {n}
<1>3. PICK gone \in {(Unsent(t) \cap {Unknown}) \ {n}, from} :
        /\ Adopt(t, from, gone)
        /\ count' = [count EXCEPT !.troubles = @ + 1, !.torn = IF n \in gone THEN @ ELSE @ + 1]
  BY <1>2
<1>4. /\ from \in SUBSET Unsent(t) /\ gone \in SUBSET Unsent(t) /\ gone \subseteq from
      /\ gone # from => n \notin gone
  BY <1>3
<1> DEFINE cut == IF n \in gone THEN count.torn ELSE count.torn + 1
<1>5. /\ count' \in Counts /\ count'.made = count.made
      /\ n \notin gone => count'.torn = count.torn + 1
  <2>1. count \in Counts /\ count.troubles + 1 \in Nat /\ cut \in Nat
    BY DEF TypeOK, Counts
  <2>2. count' = [[count EXCEPT !.troubles = @ + 1] EXCEPT !.torn = cut]
    BY <1>3
  <2>3. n \notin gone => cut = count.torn + 1
    OBVIOUS
  <2> HIDE DEF cut, from
  <2> QED
    BY <2>1, <2>2, <2>3 DEF Counts
<1> HIDE DEF from
<1>6. disk' \in Disks
  BY <1>1, <1>3, <1>4, AdoptDoes
<1>7. Becomes(t, Null) /\ UNCHANGED <<serving, lock, owed, settled>>
  BY DEF AdoptionCutOff, Becomes, TypeOK
<1> QED
  BY <1>1, <1>3, <1>4, <1>5, <1>6, <1>7

\* The job that the tab goes on with replays ops.
Replays(t, ops) ==
  GoesOn(t, tab[t].chain, Job(t, tab[t].job.kind, "replay", Head(ops), Tail(ops)))

\* A tab that asked with its token is not overtaken any more.
StillOvertaken(t) == tab[t].overtaken /\ tab[t].job.token # tab[t].token

LEMMA FetchAnsweredDoes ==
  ASSUME TypeOK, NEW t \in TabNames, FetchAnswered(t)
  PROVE  /\ AllStarted /\ Waits(t, {"fetch"}) /\ Accepted(t) /\ serving \in Projects
         /\ Becomes(t, TabOf(serving, tab[t].token, TRUE, FALSE, tab[t].chain, Locking("sync"),
                             StillOvertaken(t)))
         /\ disk' \in Disks /\ disk'.outbox = disk.outbox
         /\ UNCHANGED <<serving, lock, owed, settled, count>>
<1>1. /\ AllStarted /\ Waits(t, {"fetch"}) /\ Accepted(t) /\ Open(t) /\ serving \in Projects
      /\ UNCHANGED <<serving, lock, owed, settled, count>>
  BY DEF FetchAnswered, Answer, Waits, Accepted, Answered, TypeOK
<1> DEFINE over == StillOvertaken(t)
           after == [tab[t] EXCEPT !.ns = serving, !.online = TRUE, !.refused = FALSE,
                                   !.job = Locking("sync"), !.overtaken = over]
           fields == {"ns", "token", "online", "refused", "chain", "job", "overtaken"}
<1>2. /\ tab = [u \in TabNames |-> tab[u]]
      /\ tab[t] = TabOf(tab[t].ns, tab[t].token, tab[t].online, tab[t].refused,
                        tab[t].chain, tab[t].job, tab[t].overtaken)
  BY <1>1, TabFields DEF TypeOK
<1>3. tab' = [tab EXCEPT ![t].ns = serving, ![t].online = TRUE, ![t].refused = FALSE,
                         ![t].job = Locking("sync"), ![t].overtaken = over]
  BY <1>2 DEF FetchAnswered, AdoptServer, StillOvertaken
<1> HIDE DEF over
<1>4. DOMAIN after = fields
  BY <1>2 DEF TabOf
<1>5. after = [f \in DOMAIN after |-> after[f]]
  OBVIOUS
<1>6. /\ after.ns = serving /\ after.token = tab[t].token
      /\ after.online = TRUE /\ after.refused = FALSE
      /\ after.chain = tab[t].chain /\ after.job = Locking("sync") /\ after.overtaken = over
  BY <1>2 DEF TabOf
<1>7. tab' = [u \in TabNames |-> IF u = t THEN after ELSE tab[u]]
  BY <1>2, <1>3
<1> HIDE DEF after
<1>8. after = TabOf(serving, tab[t].token, TRUE, FALSE, tab[t].chain, Locking("sync"), over)
  BY <1>4, <1>5, <1>6 DEF TabOf
<1>9. disk' \in Disks /\ disk'.outbox = disk.outbox
  BY <1>1 DEF FetchAnswered, AdoptServer, TypeOK, Disks
<1> QED
  BY <1>1, <1>7, <1>8, <1>9 DEF Becomes, over

LEMMA RefetchAnsweredDoes ==
  ASSUME TypeOK, NEW t \in TabNames, RefetchAnswered(t)
  PROVE  /\ Waits(t, {"refetch"})
         /\ Ends(t, TRUE, FALSE)
         /\ UNCHANGED <<serving, disk, lock, owed, settled, count>>
<1>1. Waits(t, {"refetch"}) /\ Open(t)
  BY DEF RefetchAnswered, Answer, Waits
<1> QED
  BY <1>1, Changes DEF RefetchAnswered

\* A request that fails leaves a tab that knows it may not send.
LEMMA FailDoes ==
  ASSUME TypeOK, NEW t \in TabNames, Works(t), Unauthorized(t) \/ Unanswered(t) \/ OriginRefused(t)
  PROVE  /\ \E online, refused \in BOOLEAN : Ends(t, online, refused) /\ (~online \/ refused)
         /\ count' \in Counts /\ count'.made = count.made
<1>1. Open(t) /\ tab[t].online \in BOOLEAN /\ tab[t].refused \in BOOLEAN
  BY TabFields DEF Works
<1>2. \/ EndJob(t, tab[t].online, TRUE)
      \/ EndJob(t, FALSE, tab[t].refused)
  BY DEF Unauthorized, Unanswered, OriginRefused
<1>3. count' = count \/ count' = [count EXCEPT !.troubles = @ + 1]
  BY DEF Unauthorized, Unanswered, OriginRefused, Breaks, Trouble
<1>4. \/ Ends(t, tab[t].online, TRUE)
      \/ Ends(t, FALSE, tab[t].refused)
  BY <1>1, <1>2, Changes
<1>5. \E online, refused \in BOOLEAN : Ends(t, online, refused) /\ (~online \/ refused)
  <2>1. CASE Ends(t, tab[t].online, TRUE)
    BY <1>1, <2>1, Zenon
  <2>2. CASE Ends(t, FALSE, tab[t].refused)
    BY <1>1, <2>2, Zenon
  <2> QED
    BY <1>4, <2>1, <2>2
<1>6. count' \in Counts /\ count'.made = count.made
  BY <1>3 DEF TypeOK, Counts
<1> QED
  BY <1>5, <1>6

LEMMA FetchFailsDoes ==
  ASSUME TypeOK, NEW t \in TabNames, FetchFails(t)
  PROVE  /\ Waits(t, {"fetch", "refetch"})
         /\ \E online, refused \in BOOLEAN : Ends(t, online, refused) /\ (~online \/ refused)
         /\ count' \in Counts /\ count'.made = count.made
         /\ UNCHANGED <<serving, disk, lock, owed, settled>>
<1>1. /\ Waits(t, {"fetch", "refetch"}) /\ Works(t)
      /\ Unauthorized(t) \/ Unanswered(t) \/ OriginRefused(t)
  BY DEF FetchFails, Answer, Waits, Works
<1> QED
  BY <1>1, FailDoes DEF FetchFails

LEMMA WriteAnsweredDoes ==
  ASSUME TypeOK, NEW t \in TabNames, WriteAnswered(t)
  PROVE  /\ Waits(t, {"write"})
         /\ Ends(t, tab[t].online, tab[t].refused)
         /\ settled' = settled \cup {tab[t].job.op.opId}
         /\ UNCHANGED <<serving, disk, lock, owed, count>>
<1>1. Waits(t, {"write"}) /\ Open(t)
  BY DEF WriteAnswered, Answer, Waits
<1> QED
  BY <1>1, Changes DEF WriteAnswered

LEMMA WriteFailsDoes ==
  ASSUME TypeOK, NEW t \in TabNames, WriteFails(t)
  PROVE  /\ Waits(t, {"write"})
         /\ \E online, refused \in BOOLEAN : Ends(t, online, refused) /\ (~online \/ refused)
         /\ Queue(t, tab[t].job.op)
         /\ count' \in Counts /\ count'.made = count.made
         /\ UNCHANGED <<serving, lock, settled>>
<1>1. /\ Waits(t, {"write"}) /\ Works(t)
      /\ Unauthorized(t) \/ Unanswered(t)
  BY DEF WriteFails, Answer, Waits, Works
<1> QED
  BY <1>1, FailDoes DEF WriteFails

LEMMA FlushOutboxDoes ==
  ASSUME TypeOK, NEW t \in TabNames, FlushOutbox(t)
  PROVE  LET todo == disk.outbox[tab[t].ns]
         IN  /\ Waits(t, {"lock"}) /\ Granted(t)
             /\ \/ /\ todo # << >> /\ Replays(t, todo)
                   /\ lock' = IF Locks THEN [lock EXCEPT ![tab[t].ns] = t] ELSE lock
                \/ Ends(t, tab[t].online, tab[t].refused) /\ UNCHANGED lock
             /\ UNCHANGED <<serving, disk, owed, settled, count>>
<1>1. Waits(t, {"lock"}) /\ Open(t) /\ Granted(t) /\ UNCHANGED <<serving, disk, owed, settled, count>>
  BY DEF FlushOutbox, Answer, Waits
<1> DEFINE todo == disk.outbox[tab[t].ns]
<1>2. CASE todo # << >>
  <2>1. lock' = IF Locks THEN [lock EXCEPT ![tab[t].ns] = t] ELSE lock
    BY <1>2 DEF FlushOutbox
  <2>2. tab' = [tab EXCEPT ![t].job = Job(t, tab[t].job.kind, "replay", Head(todo), Tail(todo))]
    BY <1>2 DEF FlushOutbox, TypeOK
  <2>3. Replays(t, todo)
    BY <1>1, <2>2, Changes DEF Replays
  <2> QED
    BY <1>1, <1>2, <2>1, <2>3
<1>3. CASE todo = << >>
  <2>1. EndJob(t, tab[t].online, tab[t].refused) /\ UNCHANGED lock
    BY <1>3 DEF FlushOutbox
  <2> QED
    BY <1>1, <2>1, Changes
<1> QED
  BY <1>2, <1>3

LEMMA ReplayAnsweredDoes ==
  ASSUME TypeOK, NEW t \in TabNames, ReplayAnswered(t)
  PROVE  LET op == tab[t].job.op
             todo == tab[t].job.todo
         IN  /\ Waits(t, {"replay"}) /\ Accepted(t)
             /\ settled' = settled \cup {op.opId}
             /\ owed' = owed \ {op.opId}
             /\ Queues(tab[t].ns, WithoutIds(disk.outbox[tab[t].ns], {op.opId}))
             /\ \/ todo # << >> /\ Replays(t, todo) /\ UNCHANGED lock
                \/ /\ \/ GoesOn(t, tab[t].chain, Job(t, tab[t].job.kind, "refetch", Null, << >>))
                      \/ Ends(t, tab[t].online, tab[t].refused)
                   /\ lock' = Released(t)
             /\ UNCHANGED <<serving, count>>
<1> DEFINE op == tab[t].job.op
           todo == tab[t].job.todo
<1>1. /\ Waits(t, {"replay"}) /\ Accepted(t) /\ Open(t)
      /\ settled' = settled \cup {op.opId} /\ owed' = owed \ {op.opId}
      /\ UNCHANGED <<serving, count>>
  BY DEF ReplayAnswered, Answer, Waits
<1>2. Queues(tab[t].ns, WithoutIds(disk.outbox[tab[t].ns], {op.opId}))
  <2>1. tab[t].ns \in Namespaces /\ disk.outbox[tab[t].ns] \in Seq(Ops)
    BY <1>1, TabFields
  <2>2. WithoutIds(disk.outbox[tab[t].ns], {op.opId}) \in Seq(Ops)
    BY <2>1, WithoutOps
  <2>3. disk' = [disk EXCEPT !.outbox[tab[t].ns] = WithoutIds(disk.outbox[tab[t].ns], {op.opId})]
    BY DEF ReplayAnswered, DropOp
  <2> QED
    BY <2>1, <2>2, <2>3, PutQueue
<1>3. Replay(t, todo, TRUE)
  BY DEF ReplayAnswered
<1>4. CASE todo # << >>
  <2>1. UNCHANGED lock
    BY <1>3, <1>4 DEF Replay
  <2>2. tab' = [tab EXCEPT ![t].job = Job(t, tab[t].job.kind, "replay", Head(todo), Tail(todo))]
    BY <1>3, <1>4 DEF Replay, TypeOK
  <2>3. Replays(t, todo)
    BY <1>1, <2>2, Changes DEF Replays
  <2> QED
    BY <1>1, <1>2, <1>4, <2>1, <2>3
<1>5. CASE todo = << >>
  <2>1. lock' = Released(t)
    BY <1>3, <1>5 DEF Replay
  <2>2. \/ tab' = [tab EXCEPT ![t].job = Job(t, tab[t].job.kind, "refetch", Null, << >>)]
        \/ EndJob(t, tab[t].online, tab[t].refused)
    BY <1>3, <1>5 DEF Replay, NextPhase, TypeOK
  <2>3. \/ GoesOn(t, tab[t].chain, Job(t, tab[t].job.kind, "refetch", Null, << >>))
        \/ Ends(t, tab[t].online, tab[t].refused)
    BY <1>1, <2>2, Changes
  <2> QED
    BY <1>1, <1>2, <2>1, <2>3
<1> QED
  BY <1>4, <1>5

LEMMA ReplayFailsDoes ==
  ASSUME TypeOK, NEW t \in TabNames, ReplayFails(t)
  PROVE  /\ Waits(t, {"replay"})
         /\ \E online, refused \in BOOLEAN : Ends(t, online, refused) /\ (~online \/ refused)
         /\ lock' = Released(t)
         /\ count' \in Counts /\ count'.made = count.made
         /\ UNCHANGED <<serving, disk, owed, settled>>
<1>1. /\ Waits(t, {"replay"}) /\ Works(t)
      /\ Unauthorized(t) \/ Unanswered(t)
  BY DEF ReplayFails, Answer, Waits, Works
<1> QED
  BY <1>1, FailDoes DEF ReplayFails

\* A job whose request is broken, as it is otherwise.
Cut(job) ==
  [ kind |-> job.kind, phase |-> job.phase, to |-> Null, token |-> job.token,
    op |-> job.op, todo |-> job.todo ]

LEMMA ServeDoes ==
  ASSUME TypeOK, Serve
  PROVE  /\ AllStarted /\ serving' \in Projects \cup {Null}
         /\ tab' = [t \in TabNames |->
                      IF Works(t)
                      THEN TabOf(tab[t].ns, tab[t].token, tab[t].online, tab[t].refused,
                                 tab[t].chain, Cut(tab[t].job), tab[t].overtaken)
                      ELSE tab[t]]
         /\ count' \in Counts /\ count'.made = count.made
         /\ UNCHANGED <<disk, lock, owed, settled>>
<1>1. count' = count \/ count' = [count EXCEPT !.troubles = @ + 1]
  BY DEF Serve, Trouble
<1>2. ASSUME NEW t \in TabNames, Works(t)
      PROVE  [tab[t] EXCEPT !.job.to = Null]
               = TabOf(tab[t].ns, tab[t].token, tab[t].online, tab[t].refused,
                       tab[t].chain, Cut(tab[t].job), tab[t].overtaken)
  <2>1. [tab[t].job EXCEPT !.to = Null] = Cut(tab[t].job)
    BY <1>2, JobFields DEF Jobs, Cut
  <2>2. tab[t] = TabOf(tab[t].ns, tab[t].token, tab[t].online, tab[t].refused,
                       tab[t].chain, tab[t].job, tab[t].overtaken)
    BY <1>2, TabFields DEF Works
  <2>3. [tab[t] EXCEPT !.job.to = Null] = [tab[t] EXCEPT !.job = Cut(tab[t].job)]
    BY <2>1
  <2> QED
    BY <2>2, <2>3 DEF TabOf
<1>3. tab' = Broken
  BY DEF Serve
<1>4. count' \in Counts /\ count'.made = count.made
  BY DEF Serve, Trouble, TypeOK, Counts
<1> QED
  BY <1>1, <1>2, <1>3, <1>4 DEF Broken, Works, Serve, TypeOK


\* A job that sends an operation has one.
HasOp(job) == job # Null /\ job.phase \in {"write", "replay"} => job.op \in Ops

TabsTyped ==
  /\ tab \in [TabNames -> OpenTabs \cup {Null}]
  /\ \A t \in TabNames : Waits(t, {"write", "replay"}) => tab[t].job.op \in Ops

LEMMA BecomesTyped ==
  ASSUME TypeOK, NEW t \in TabNames, NEW value \in OpenTabs \cup {Null}, Becomes(t, value),
         value # Null => HasOp(value.job)
  PROVE  TabsTyped'
<1>1. tab' \in [TabNames -> OpenTabs \cup {Null}]
  BY DEF TypeOK, Becomes
<1>2. ASSUME NEW u \in TabNames, Waits(u, {"write", "replay"})'
      PROVE  tab'[u].job.op \in Ops
  <2>1. CASE u = t
    BY <1>2, <2>1 DEF Waits, Open, Becomes, HasOp
  <2>2. CASE u # t
    BY <1>2, <2>2 DEF Waits, Open, Becomes, TypeOK
  <2> QED
    BY <2>1, <2>2
<1> QED
  BY <1>1, <1>2 DEF TabsTyped

LEMMA TabOfTyped ==
  ASSUME NEW ns \in Namespaces, NEW token \in Projects, NEW online \in BOOLEAN,
         NEW refused \in BOOLEAN, NEW chain \in Seq(Calls), NEW job \in Jobs \cup {Null},
         NEW over \in BOOLEAN
  PROVE  /\ TabOf(ns, token, online, refused, chain, job, over) \in OpenTabs
         /\ TabOf(ns, token, online, refused, chain, job, over).job = job
BY DEF TabOf, OpenTabs

LEMMA GoesOnTyped ==
  ASSUME TypeOK, NEW t \in TabNames, Open(t), NEW chain \in Seq(Calls), NEW job \in Jobs \cup {Null},
         HasOp(job), GoesOn(t, chain, job)
  PROVE  TabsTyped'
<1> DEFINE value == TabOf(tab[t].ns, tab[t].token, tab[t].online, tab[t].refused, chain, job, tab[t].overtaken)
<1>1. value \in OpenTabs /\ value.job = job
  BY TabFields DEF TabOf, OpenTabs
<1>2. Becomes(t, value)
  BY DEF GoesOn
<1> HIDE DEF value
<1> QED
  BY <1>1, <1>2, BecomesTyped

LEMMA EndsTyped ==
  ASSUME TypeOK, NEW t \in TabNames, Open(t), NEW online \in BOOLEAN, NEW refused \in BOOLEAN,
         Ends(t, online, refused)
  PROVE  TabsTyped'
<1> DEFINE value == TabOf(tab[t].ns, tab[t].token, online, refused, tab[t].chain, Null, tab[t].overtaken)
<1>1. value \in OpenTabs /\ value.job = Null
  BY TabFields DEF TabOf, OpenTabs
<1>2. Becomes(t, value)
  BY DEF Ends
<1>3. HasOp(Null)
  BY DEF HasOp
<1> HIDE DEF value
<1> QED
  BY <1>1, <1>2, <1>3, BecomesTyped

LEMMA WriteJob ==
  ASSUME TypeOK, NEW t \in TabNames, Open(t), NEW op \in Ops
  PROVE  /\ Job(t, "write", "write", op, << >>) \in Jobs
         /\ HasOp(Job(t, "write", "write", op, << >>))
<1>1. << >> \in Seq(Ops) /\ "write" \in Phases /\ op \in Ops \cup {Null}
  BY DEF Phases
<1>2. Job(t, "write", "write", op, << >>) \in Jobs
  BY <1>1, JobTyped
<1> QED
  BY <1>2 DEF HasOp, Job

LEMMA AskJob ==
  ASSUME TypeOK, NEW t \in TabNames, Open(t), NEW kind \in {"sync", "adopt", "write"},
         NEW phase \in {"fetch", "refetch"}
  PROVE  /\ Job(t, kind, phase, Null, << >>) \in Jobs
         /\ HasOp(Job(t, kind, phase, Null, << >>))
<1>1. << >> \in Seq(Ops) /\ phase \in Phases /\ Null \in Ops \cup {Null}
  BY DEF Phases
<1>2. Job(t, kind, phase, Null, << >>) \in Jobs
  BY <1>1, JobTyped
<1> QED
  BY <1>2 DEF HasOp, Job

LEMMA LockingJob ==
  ASSUME NEW kind \in {"sync", "adopt", "write"}
  PROVE  Locking(kind) \in Jobs /\ HasOp(Locking(kind))
BY LockingTyped DEF HasOp, Locking

LEMMA ReplayJob ==
  ASSUME TypeOK, NEW t \in TabNames, Works(t), NEW ops \in Seq(Ops), ops # << >>
  PROVE  /\ Job(t, tab[t].job.kind, "replay", Head(ops), Tail(ops)) \in Jobs
         /\ HasOp(Job(t, tab[t].job.kind, "replay", Head(ops), Tail(ops)))
<1>1. Head(ops) \in Ops /\ Tail(ops) \in Seq(Ops)
  BY HeadTailOps
<1>2. Open(t) /\ tab[t].job.kind \in {"sync", "adopt", "write"}
  BY JobFields DEF Works
<1> DEFINE kind == tab[t].job.kind
           first == Head(ops)
           rest == Tail(ops)
<1> HIDE DEF kind, first, rest
<1>3. "replay" \in Phases /\ first \in Ops \cup {Null} /\ rest \in Seq(Ops)
  BY <1>1 DEF Phases, first, rest
<1>4. kind \in {"sync", "adopt", "write"}
  BY <1>2 DEF kind
<1>5. Job(t, kind, "replay", first, rest) \in Jobs
  BY <1>2, <1>3, <1>4, JobTyped
<1>6. HasOp(Job(t, kind, "replay", first, rest))
  BY <1>1 DEF HasOp, Job, first
<1> QED
  BY <1>5, <1>6 DEF kind, first, rest

LEMMA NullJob == HasOp(Null)
BY DEF HasOp

LEMMA TInvOf ==
  ASSUME TabsTyped', serving' \in Projects \cup {Null}, disk' \in Disks,
         lock' \in [Namespaces -> TabNames \cup {Null}],
         owed' \subseteq Nat, settled' \subseteq Nat,
         count' \in Counts
  PROVE  TypeOK'
BY DEF TypeOK, TabsTyped

LEMMA ReleasedTyped ==
  ASSUME TypeOK, NEW t \in TabNames
  PROVE  Released(t) \in [Namespaces -> TabNames \cup {Null}]
BY DEF TypeOK, Released

LEMMA OpIdsTyped == ASSUME NEW ops \in Seq(Ops) PROVE OpIds(ops) \subseteq Nat
<1>1. \A i \in DOMAIN ops : ops[i] \in Ops
  OBVIOUS
<1> QED
  BY <1>1 DEF OpIds, Ops


LEMMA TypeInit == Init => TypeOK
<1> SUFFICES ASSUME Init PROVE TypeOK
  OBVIOUS
<1>1. PICK buffer \in Buffered :
        disk = [outbox |-> [n \in Namespaces |-> << >>], lastProject |-> Null, buffer |-> buffer]
  BY DEF Init
<1>2. buffer \in Seq(Ids)
  <2>1. buffer \in Seq(Range(buffer)) /\ Range(buffer) \subseteq Ids
    BY BuffersAreLists DEF Ids
  <2> HIDE DEF Ids
  <2> QED
    BY <2>1, SeqMonotonic
<1>3. disk \in Disks
  <2>1. [n \in Namespaces |-> << >>] \in [Namespaces -> Seq(Ops)]
    OBVIOUS
  <2> QED
    BY <1>1, <1>2, <2>1 DEF Disks
<1>4. \A t \in TabNames : tab[t] = Null
  BY DEF Init
<1>5. count \in Counts
  BY DEF Init, Counts
<1>6. /\ serving \in Projects \cup {Null} /\ owed \subseteq Nat /\ settled \subseteq Nat
      /\ lock \in [Namespaces -> TabNames \cup {Null}]
      /\ tab \in [TabNames -> OpenTabs \cup {Null}]
  BY DEF Init
<1> QED
  BY <1>3, <1>4, <1>5, <1>6 DEF TypeOK, Waits, Open

LEMMA TypeStep == TypeOK /\ [Next]_vars => TypeOK'
<1> SUFFICES ASSUME TypeOK, [Next]_vars PROVE TypeOK'
  OBVIOUS
<1>0. /\ serving \in Projects \cup {Null} /\ disk \in Disks
      /\ lock \in [Namespaces -> TabNames \cup {Null}]
      /\ owed \subseteq Nat /\ settled \subseteq Nat
      /\ count \in Counts
      /\ Null \in Jobs \cup {Null}
  BY DEF TypeOK
<1>18. ASSUME NEW t \in TabNames, OpenTab(t) \/ MigrationCutOff(t), TabsTyped' PROVE TypeOK'
  <2>1. /\ disk' \in Disks /\ count' \in Counts
        /\ owed' = owed \cup (OpIds(disk'.outbox[Legacy]) \ OpIds(disk.outbox[Legacy]))
        /\ UNCHANGED <<serving, lock, settled>>
    BY <1>18, MigratesDoes DEF Queues
  <2>2. OpIds(disk'.outbox[Legacy]) \subseteq Nat
    BY <2>1, OpIdsTyped DEF Disks, Namespaces
  <2> QED
    BY <1>0, <1>18, <2>1, <2>2, TInvOf
<1>1. ASSUME NEW t \in TabNames, OpenTab(t) PROVE TypeOK'
  <2>1. PICK token \in Projects :
          Becomes(t, TabOf(Namespace(disk), token, TRUE, FALSE, <<[kind |-> "sync"]>>, Null, FALSE))
    BY <1>1, OpenTabDoes
  <2> DEFINE value == TabOf(Namespace(disk), token, TRUE, FALSE, <<[kind |-> "sync"]>>, Null, FALSE)
  <2>2. value \in OpenTabs /\ value.job = Null
    <3>1. <<[kind |-> "sync"]>> \in Seq(Calls)
      BY DEF Calls
    <3>2. Namespace(disk) \in Namespaces
      BY NamespaceTyped
    <3> QED
      BY <3>1, <3>2 DEF TabOf, OpenTabs
  <2>3. TabsTyped'
    <3>1. value \in OpenTabs \cup {Null} /\ HasOp(value.job) /\ Becomes(t, value)
      BY <2>1, <2>2, NullJob
    <3> HIDE DEF value
    <3> QED
      BY <3>1, BecomesTyped
  <2> QED
    BY <1>1, <1>18, <2>3
<1>2. ASSUME NEW t \in TabNames, CloseTab(t) PROVE TypeOK'
  <2>1. TabsTyped'
    BY <1>2, CloseTabDoes, BecomesTyped
  <2> QED
    BY <1>0, <1>2, <2>1, CloseTabDoes, ReleasedTyped, TInvOf
<1>3. ASSUME NEW t \in TabNames, Write(t) \/ Poll(t) \/ CallAdopt(t) PROVE TypeOK'
  <2>1. PICK call \in Calls : GoesOn(t, Append(tab[t].chain, call), tab[t].job)
    BY <1>3, CallDoes
  <2>2. /\ Open(t) /\ Append(tab[t].chain, call) \in Seq(Calls)
        /\ tab[t].job \in Jobs \cup {Null} /\ HasOp(tab[t].job)
    <3>1. Open(t)
      BY <1>3, CallDoes
    <3>2. tab[t].chain \in Seq(Calls) /\ tab[t].job \in Jobs \cup {Null}
      BY <3>1, TabFields
    <3> QED
      BY <3>1, <3>2 DEF HasOp, TypeOK, Waits
  <2>3. TabsTyped'
    BY <2>1, <2>2, GoesOnTyped
  <2> QED
    BY <1>0, <1>3, <2>3, CallDoes, TInvOf
<1>4. ASSUME NEW t \in TabNames, Pair(t) PROVE TypeOK'
  <2> DEFINE chain == Append(tab[t].chain, [kind |-> "sync"])
  <2>1. /\ Open(t) /\ chain \in Seq(Calls) /\ count' \in Counts
        /\ UNCHANGED <<serving, disk, lock, owed, settled>>
    BY <1>4, PairDoes
  <2>2. PICK token \in Projects :
          Becomes(t, TabOf(tab[t].ns, token, tab[t].online, FALSE, chain, tab[t].job, Overtakes(t, token)))
    BY <1>4, PairDoes
  <2> DEFINE ns == tab[t].ns
             online == tab[t].online
             job == tab[t].job
             over == Overtakes(t, token)
             value == TabOf(ns, token, online, FALSE, chain, job, over)
  <2>3. /\ ns \in Namespaces /\ online \in BOOLEAN /\ FALSE \in BOOLEAN /\ job \in Jobs \cup {Null}
        /\ over \in BOOLEAN
    BY <2>1, TabFields DEF Overtakes
  <2>4. HasOp(job)
    BY <2>1 DEF HasOp, TypeOK, Waits
  <2>5. Becomes(t, value)
    BY <2>2
  <2>6. value \in OpenTabs /\ value.job = job
    <3> HIDE DEF ns, online, job, over, chain
    <3>1. TabOf(ns, token, online, FALSE, chain, job, over) \in OpenTabs
      BY <2>1, <2>3, TabOfTyped
    <3>2. TabOf(ns, token, online, FALSE, chain, job, over).job = job
      BY DEF TabOf
    <3> QED
      BY <3>1, <3>2
  <2> HIDE DEF value, job
  <2>7. TabsTyped'
    BY <2>4, <2>5, <2>6, BecomesTyped
  <2> QED
    BY <1>0, <2>1, <2>7, TInvOf
<1>5. ASSUME NEW t \in TabNames, StartWrite(t) PROVE TypeOK'
  <2>1. /\ NextCall(t, "write")
        /\ count' \in Counts
        /\ UNCHANGED <<serving, lock, settled>>
    BY <1>5, StartWriteDoes
  <2>2. PICK op \in Ops :
          \/ /\ GoesOn(t, Tail(tab[t].chain), Job(t, "write", "write", op, << >>))
             /\ UNCHANGED <<disk, owed>>
          \/ /\ GoesOn(t, Tail(tab[t].chain), Null)
             /\ Queue(t, op)
    BY <1>5, StartWriteDoes
  <2>3. Open(t) /\ Tail(tab[t].chain) \in Seq(Calls)
    BY <2>1, NextCallFields
  <2>4. CASE /\ GoesOn(t, Tail(tab[t].chain), Job(t, "write", "write", op, << >>))
             /\ UNCHANGED <<disk, owed>>
    <3>1. TabsTyped'
      BY <2>3, <2>4, WriteJob, GoesOnTyped
    <3> QED
      BY <1>0, <2>1, <2>4, <3>1, TInvOf
  <2>5. CASE /\ GoesOn(t, Tail(tab[t].chain), Null)
             /\ Queue(t, op)
    <3>1. TabsTyped'
      BY <1>0, <2>3, <2>5, NullJob, GoesOnTyped
    <3>2. disk' \in Disks /\ owed' \subseteq Nat
      BY <2>3, <2>5, QueueDoes DEF Queues
    <3> QED
      BY <1>0, <2>1, <3>1, <3>2, TInvOf
  <2> QED
    BY <2>2, <2>4, <2>5
<1>6. ASSUME NEW t \in TabNames, StartSync(t) PROVE TypeOK'
  <2>1. /\ NextCall(t, "sync")
        /\ GoesOn(t, Tail(tab[t].chain), Job(t, "sync", "fetch", Null, << >>))
        /\ UNCHANGED <<serving, disk, lock, owed, settled, count>>
    BY <1>6, StartSyncDoes
  <2>2. Open(t) /\ Tail(tab[t].chain) \in Seq(Calls)
    BY <2>1, NextCallFields
  <2>3. TabsTyped'
    BY <2>1, <2>2, AskJob, GoesOnTyped
  <2> QED
    BY <1>0, <2>1, <2>3, TInvOf
<1>7. ASSUME NEW t \in TabNames, StartAdopt(t) PROVE TypeOK'
  <2>1. /\ NextCall(t, "adopt") /\ disk' \in Disks
        /\ \/ GoesOn(t, Tail(tab[t].chain), Locking("adopt"))
           \/ GoesOn(t, Tail(tab[t].chain), Null)
        /\ UNCHANGED <<serving, lock, owed, settled, count>>
    BY <1>7, StartAdoptDoes
  <2>2. Open(t) /\ Tail(tab[t].chain) \in Seq(Calls)
    BY <2>1, NextCallFields
  <2>3. TabsTyped'
    BY <1>0, <2>1, <2>2, LockingJob, NullJob, GoesOnTyped
  <2> QED
    BY <1>0, <2>1, <2>3, TInvOf
<1>8. ASSUME NEW t \in TabNames, FetchAnswered(t) PROVE TypeOK'
  <2> DEFINE over == StillOvertaken(t)
             value == TabOf(serving, tab[t].token, TRUE, FALSE, tab[t].chain, Locking("sync"), over)
  <2>1. /\ Waits(t, {"fetch"}) /\ serving \in Projects /\ Becomes(t, value) /\ disk' \in Disks
        /\ UNCHANGED <<serving, lock, owed, settled, count>>
    BY <1>8, FetchAnsweredDoes
  <2>2. value \in OpenTabs /\ value.job = Locking("sync")
    <3>1. Open(t) /\ serving \in Namespaces
      BY <2>1 DEF Waits, Namespaces
    <3>2. tab[t].token \in Projects /\ tab[t].chain \in Seq(Calls) /\ Locking("sync") \in Jobs
      BY <3>1, TabFields, LockingJob
    <3>3. over \in BOOLEAN
      BY <3>1, TabFields DEF StillOvertaken
    <3> HIDE DEF over
    <3> QED
      BY <2>1, <3>1, <3>2, <3>3 DEF TabOf, OpenTabs
  <2> HIDE DEF value
  <2>3. TabsTyped'
    BY <2>1, <2>2, LockingJob, BecomesTyped
  <2> QED
    BY <1>0, <2>1, <2>3, TInvOf
<1>9. ASSUME NEW t \in TabNames, RefetchAnswered(t) PROVE TypeOK'
  <2>1. Open(t) /\ Ends(t, TRUE, FALSE) /\ UNCHANGED <<serving, disk, lock, owed, settled, count>>
    BY <1>9, RefetchAnsweredDoes DEF Waits
  <2>2. TabsTyped'
    BY <2>1, EndsTyped
  <2> QED
    BY <1>0, <2>1, <2>2, TInvOf
<1>10. ASSUME NEW t \in TabNames, FetchFails(t) PROVE TypeOK'
  <2>1. /\ Open(t) /\ \E online, refused \in BOOLEAN : Ends(t, online, refused)
        /\ count' \in Counts
        /\ UNCHANGED <<serving, disk, lock, owed, settled>>
    BY <1>10, FetchFailsDoes DEF Waits
  <2>2. TabsTyped'
    BY <2>1, EndsTyped
  <2> QED
    BY <1>0, <2>1, <2>2, TInvOf
<1>11. ASSUME NEW t \in TabNames, WriteAnswered(t) PROVE TypeOK'
  <2>1. /\ Open(t) /\ tab[t].job.op \in Ops
        /\ Ends(t, tab[t].online, tab[t].refused)
        /\ settled' = settled \cup {tab[t].job.op.opId}
        /\ UNCHANGED <<serving, disk, lock, owed, count>>
    BY <1>11, WriteAnsweredDoes DEF Waits, TypeOK
  <2>2. tab[t].online \in BOOLEAN /\ tab[t].refused \in BOOLEAN
    BY <2>1, TabFields
  <2>3. TabsTyped'
    BY <2>1, <2>2, EndsTyped
  <2>4. settled' \subseteq Nat
    BY <1>0, <2>1 DEF Ops
  <2> QED
    BY <1>0, <2>1, <2>3, <2>4, TInvOf
<1>12. ASSUME NEW t \in TabNames, WriteFails(t) PROVE TypeOK'
  <2>1. /\ Open(t) /\ tab[t].job.op \in Ops
        /\ \E online, refused \in BOOLEAN : Ends(t, online, refused)
        /\ Queue(t, tab[t].job.op)
        /\ count' \in Counts
        /\ UNCHANGED <<serving, lock, settled>>
    BY <1>12, WriteFailsDoes DEF Waits, TypeOK
  <2>2. TabsTyped'
    BY <2>1, EndsTyped
  <2>3. disk' \in Disks /\ owed' \subseteq Nat
    BY <2>1, QueueDoes DEF Queues
  <2> QED
    BY <1>0, <2>1, <2>2, <2>3, TInvOf
<1>13. ASSUME NEW t \in TabNames, FlushOutbox(t) PROVE TypeOK'
  <2> DEFINE todo == disk.outbox[tab[t].ns]
  <2>1. /\ Waits(t, {"lock"})
        /\ \/ /\ todo # << >> /\ Replays(t, todo)
              /\ lock' = IF Locks THEN [lock EXCEPT ![tab[t].ns] = t] ELSE lock
           \/ Ends(t, tab[t].online, tab[t].refused) /\ UNCHANGED lock
        /\ UNCHANGED <<serving, disk, owed, settled, count>>
    BY <1>13, FlushOutboxDoes
  <2>2. /\ Open(t) /\ Works(t) /\ tab[t].ns \in Namespaces /\ tab[t].chain \in Seq(Calls)
        /\ tab[t].online \in BOOLEAN /\ tab[t].refused \in BOOLEAN /\ todo \in Seq(Ops)
    <3>1. Open(t) /\ Works(t)
      BY <2>1 DEF Waits, Works
    <3> QED
      BY <3>1, TabFields
  <2>3. lock' \in [Namespaces -> TabNames \cup {Null}]
    BY <1>0, <2>1, <2>2
  <2>4. TabsTyped'
    <3> HIDE DEF todo
    <3>1. CASE todo # << >> /\ Replays(t, todo)
      BY <2>2, <3>1, ReplayJob, GoesOnTyped DEF Replays
    <3>2. CASE Ends(t, tab[t].online, tab[t].refused)
      BY <2>2, <3>2, EndsTyped
    <3> QED
      BY <2>1, <3>1, <3>2
  <2> QED
    BY <1>0, <2>1, <2>3, <2>4, TInvOf
<1>14. ASSUME NEW t \in TabNames, ReplayAnswered(t) PROVE TypeOK'
  <2> DEFINE op == tab[t].job.op
             todo == tab[t].job.todo
  <2>1. /\ Waits(t, {"replay"})
        /\ settled' = settled \cup {op.opId} /\ owed' = owed \ {op.opId}
        /\ disk' \in Disks
        /\ \/ todo # << >> /\ Replays(t, todo) /\ UNCHANGED lock
           \/ /\ \/ GoesOn(t, tab[t].chain, Job(t, tab[t].job.kind, "refetch", Null, << >>))
                 \/ Ends(t, tab[t].online, tab[t].refused)
              /\ lock' = Released(t)
        /\ UNCHANGED <<serving, count>>
    BY <1>14, ReplayAnsweredDoes DEF Queues
  <2>2. /\ Open(t) /\ Works(t) /\ tab[t].chain \in Seq(Calls)
        /\ tab[t].online \in BOOLEAN /\ tab[t].refused \in BOOLEAN
        /\ op \in Ops /\ todo \in Seq(Ops) /\ tab[t].job.kind \in {"sync", "adopt", "write"}
    <3>1. Open(t) /\ Works(t) /\ op \in Ops
      BY <2>1 DEF Waits, Works, TypeOK
    <3> QED
      BY <3>1, TabFields, JobFields
  <2>3. lock' \in [Namespaces -> TabNames \cup {Null}] /\ settled' \subseteq Nat /\ owed' \subseteq Nat
    BY <1>0, <2>1, <2>2, ReleasedTyped DEF Ops
  <2>4. TabsTyped'
    <3> HIDE DEF todo
    <3>1. CASE todo # << >> /\ Replays(t, todo)
      BY <2>2, <3>1, ReplayJob, GoesOnTyped DEF Replays
    <3>2. CASE GoesOn(t, tab[t].chain, Job(t, tab[t].job.kind, "refetch", Null, << >>))
      <4>1. /\ Job(t, tab[t].job.kind, "refetch", Null, << >>) \in Jobs
            /\ HasOp(Job(t, tab[t].job.kind, "refetch", Null, << >>))
        BY <2>2, AskJob
      <4> QED
        BY <2>2, <3>2, <4>1, GoesOnTyped
    <3>3. CASE Ends(t, tab[t].online, tab[t].refused)
      BY <2>2, <3>3, EndsTyped
    <3> QED
      BY <2>1, <3>1, <3>2, <3>3
  <2> QED
    BY <1>0, <2>1, <2>3, <2>4, TInvOf
<1>15. ASSUME NEW t \in TabNames, ReplayFails(t) PROVE TypeOK'
  <2>1. /\ Open(t) /\ \E online, refused \in BOOLEAN : Ends(t, online, refused)
        /\ lock' = Released(t)
        /\ count' \in Counts
        /\ UNCHANGED <<serving, disk, owed, settled>>
    BY <1>15, ReplayFailsDoes DEF Waits
  <2>2. TabsTyped'
    BY <2>1, EndsTyped
  <2> QED
    BY <1>0, <2>1, <2>2, ReleasedTyped, TInvOf
<1>16. ASSUME Serve PROVE TypeOK'
  <2>1. /\ serving' \in Projects \cup {Null}
        /\ tab' = [t \in TabNames |->
                      IF Works(t)
                      THEN TabOf(tab[t].ns, tab[t].token, tab[t].online, tab[t].refused,
                                 tab[t].chain, Cut(tab[t].job), tab[t].overtaken)
                      ELSE tab[t]]
        /\ count' \in Counts
        /\ UNCHANGED <<disk, lock, owed, settled>>
    BY <1>16, ServeDoes
  <2>2. ASSUME NEW t \in TabNames
        PROVE  /\ tab'[t] \in OpenTabs \cup {Null}
               /\ tab'[t] # Null => HasOp(tab'[t].job)
    <3>1. CASE Works(t)
      <4> DEFINE value == TabOf(tab[t].ns, tab[t].token, tab[t].online, tab[t].refused,
                                tab[t].chain, Cut(tab[t].job), tab[t].overtaken)
      <4>1. Cut(tab[t].job) \in Jobs
        BY <3>1, JobFields DEF Cut, Jobs
      <4>2. HasOp(Cut(tab[t].job))
        BY <3>1 DEF HasOp, Cut, TypeOK, Waits, Works
      <4>3. Open(t)
        BY <3>1 DEF Works
      <4>4. value \in OpenTabs /\ value.job = Cut(tab[t].job)
        <5> HIDE DEF Cut
        <5> QED
          BY <4>1, <4>3, TabFields, TabOfTyped
      <4>5. tab'[t] = value
        BY <2>1, <3>1
      <4> QED
        BY <4>2, <4>4, <4>5
    <3>2. CASE ~Works(t)
      <4>1. tab'[t] = tab[t]
        BY <2>1, <3>2
      <4> QED
        BY <3>2, <4>1 DEF TypeOK, Works, Open, HasOp
    <3> QED
      BY <3>1, <3>2
  <2>3. TabsTyped'
    <3>1. tab' \in [TabNames -> OpenTabs \cup {Null}]
      <4>1. tab' = [t \in TabNames |-> tab'[t]]
        BY <2>1
      <4> QED
        BY <2>2, <4>1
    <3> QED
      BY <2>2, <3>1 DEF TabsTyped, Waits, Open, HasOp
  <2> QED
    BY <1>0, <2>1, <2>3, TInvOf
<1>17. CASE UNCHANGED vars
  <2>1. TabsTyped'
    BY <1>17 DEF vars, TypeOK, TabsTyped, Waits, Open
  <2> QED
    BY <1>0, <1>17, <2>1, TInvOf DEF vars
<1>19. ASSUME NEW t \in TabNames, MigrationCutOff(t) PROVE TypeOK'
  <2>1. TabsTyped'
    BY <1>19 DEF MigrationCutOff, TypeOK, TabsTyped, Waits, Open
  <2> QED
    BY <1>18, <1>19, <2>1
<1>20. ASSUME NEW t \in TabNames, AdoptionCutOff(t) PROVE TypeOK'
  <2>1. /\ Becomes(t, Null) /\ disk' \in Disks /\ count' \in Counts
        /\ UNCHANGED <<serving, lock, owed, settled>>
    BY <1>20, AdoptionCutOffDoes
  <2>2. TabsTyped'
    BY <2>1, BecomesTyped
  <2> QED
    BY <1>0, <2>1, <2>2, TInvOf
<1> QED
  BY <1>1, <1>2, <1>3, <1>4, <1>5, <1>6, <1>7, <1>8, <1>9, <1>10, <1>11, <1>12, <1>13, <1>14,
     <1>15, <1>16, <1>17, <1>19, <1>20 DEF Next


-----------------------------------------------------------------------------
(* The theorems. *)

(* TypeOK: the variables have the values they should have, and a request    *)
(* that sends an operation has one.                                         *)
THEOREM TypeCorrect == Spec => []TypeOK
<1>1. Init => TypeOK
  BY TypeInit
<1>2. TypeOK /\ [Next]_vars => TypeOK'
  BY TypeStep
<1> QED
  BY <1>1, <1>2, PTL DEF Spec

LEMMA KeptStep == TypeOK /\ QueueKept /\ [Next]_vars => QueueKept'
<1> SUFFICES ASSUME TypeOK, QueueKept, [Next]_vars,
                    NEW x \in owed'
             PROVE  \E n \in Namespaces : x \in OpIds(disk'.outbox[n])
  BY DEF QueueKept
<1>1. \A y \in owed : \E n \in Namespaces : y \in OpIds(disk.outbox[n])
  BY DEF QueueKept
<1>2. disk.outbox \in [Namespaces -> Seq(Ops)] /\ Legacy \in Namespaces
  BY DEF TypeOK, Disks, Namespaces
<1>3. ASSUME NEW t \in TabNames, Open(t), NEW op \in Ops, Queue(t, op)
      PROVE  \E n \in Namespaces : x \in OpIds(disk'.outbox[n])
  <2> DEFINE ops == disk.outbox[tab[t].ns]
             gone == {ops[i].opId : i \in Replaced(ops, op)}
  <2>1. tab[t].ns \in Namespaces /\ ops \in Seq(Ops)
    BY <1>3, TabFields
  <2>2. OpIds(Enqueue(ops, op)) = (OpIds(ops) \ gone) \cup {op.opId}
    BY <1>3, <2>1, EnqueueOps
  <2>3. owed' = (owed \ gone) \cup {op.opId}
    BY <1>3 DEF Queue
  <2>4. \A n \in Namespaces :
          disk'.outbox[n] = IF n = tab[t].ns THEN Enqueue(ops, op) ELSE disk.outbox[n]
    BY <1>3, QueueDoes, ZenonT(30) DEF Queues
  <2> HIDE DEF ops, gone
  <2>5. CASE x = op.opId
    BY <2>1, <2>2, <2>4, <2>5
  <2>6. CASE x # op.opId
    <3>1. x \in owed /\ x \notin gone
      BY <2>3, <2>6
    <3>2. PICK n \in Namespaces : x \in OpIds(disk.outbox[n])
      BY <1>1, <3>1
    <3>3. x \in OpIds(disk'.outbox[n])
      <4>1. CASE n = tab[t].ns
        BY <2>2, <2>4, <3>1, <3>2, <4>1 DEF ops
      <4>2. CASE n # tab[t].ns
        BY <2>4, <3>2, <4>2
      <4> QED
        BY <4>1, <4>2
    <3> QED
      BY <3>3
  <2> QED
    BY <2>5, <2>6
<1>4. CASE UNCHANGED <<disk, owed>>
  BY <1>1, <1>4
<1>5. ASSUME NEW t \in TabNames, OpenTab(t) \/ MigrationCutOff(t)
      PROVE  \E n \in Namespaces : x \in OpIds(disk'.outbox[n])
  <2> DEFINE moved == Migrated(disk.buffer, count.made)
  <2>1. /\ moved \in Seq(Ops)
        /\ owed' = owed \cup (OpIds(disk'.outbox[Legacy]) \ OpIds(disk.outbox[Legacy]))
        /\ \A n \in Namespaces :
             disk'.outbox[n] = IF n = Legacy THEN disk.outbox[Legacy] \o moved ELSE disk.outbox[n]
    BY <1>5, MigratesDoes DEF Queues
  <2> HIDE DEF moved
  <2>2. OpIds(disk.outbox[Legacy] \o moved) = OpIds(disk.outbox[Legacy]) \cup OpIds(moved)
    BY <1>2, <2>1, ConcatOps
  <2>3. CASE x \in owed
    <3>1. PICK n \in Namespaces : x \in OpIds(disk.outbox[n])
      BY <1>1, <2>3
    <3>2. x \in OpIds(disk'.outbox[n])
      BY <2>1, <2>2, <3>1
    <3> QED
      BY <3>2
  <2>4. CASE x \notin owed
    BY <1>2, <2>1, <2>4
  <2> QED
    BY <2>3, <2>4
<1>6. ASSUME NEW t \in TabNames, Open(t), NEW from, NEW gone,
             from \subseteq Unsent(t), gone \subseteq from, Adopt(t, from, gone), owed' = owed
      PROVE  \E n \in Namespaces : x \in OpIds(disk'.outbox[n])
  <2> DEFINE ns == tab[t].ns
             ops == disk.outbox[ns]
             unknown == Claimed(Taken(Unknown, from), ns)
             legacy == Claimed(Taken(Legacy, from), ns)
  <2>1. \A n \in Namespaces :
          disk'.outbox[n] = CASE n = tab[t].ns -> Adopted(t, from)
                              [] n \in gone -> << >>
                              [] OTHER -> disk.outbox[n]
    BY <1>6, AdoptDoes
  <2>2. ns \in Namespaces /\ ops \in Seq(Ops) /\ ns \notin gone
    BY <1>6, TabFields DEF Unsent
  <2>3. OpIds(Adopted(t, from)) = OpIds(ops) \cup OpIds(Taken(Unknown, from)) \cup OpIds(Taken(Legacy, from))
    <3>1. /\ unknown \in Seq(Ops) /\ OpIds(unknown) = OpIds(Taken(Unknown, from))
          /\ legacy \in Seq(Ops) /\ OpIds(legacy) = OpIds(Taken(Legacy, from))
      BY <2>2, TakenOps, ClaimedOps
    <3>2. Adopted(t, from) = (ops \o unknown) \o legacy
      BY DEF Adopted
    <3> HIDE DEF unknown, legacy, ops
    <3>3. /\ ops \o unknown \in Seq(Ops)
          /\ OpIds(ops \o unknown) = OpIds(ops) \cup OpIds(unknown)
      BY <2>2, <3>1, ConcatOps
    <3>4. OpIds((ops \o unknown) \o legacy) = OpIds(ops \o unknown) \cup OpIds(legacy)
      <4> DEFINE both == ops \o unknown
      <4> HIDE DEF both
      <4>1. both \in Seq(Ops)
        BY <3>3 DEF both
      <4>2. OpIds(both \o legacy) = OpIds(both) \cup OpIds(legacy)
        BY <3>1, <4>1, ConcatOps
      <4> QED
        BY <4>2 DEF both
    <3> QED
      BY <3>1, <3>2, <3>3, <3>4
  <2>4. PICK n \in Namespaces : x \in OpIds(disk.outbox[n])
    BY <1>1, <1>6
  <2>5. CASE n = ns
    BY <2>1, <2>2, <2>3, <2>4, <2>5
  <2>6. CASE n # ns /\ n \in gone
    <3>1. n \in {Unknown, Legacy} /\ Taken(n, from) = disk.outbox[n]
      BY <1>6, <2>6 DEF Unsent, Taken
    <3>2. x \in OpIds(Adopted(t, from))
      BY <2>3, <2>4, <3>1
    <3>3. disk'.outbox[ns] = Adopted(t, from)
      BY <2>1, <2>2
    <3> QED
      BY <2>2, <3>2, <3>3
  <2>7. CASE n # ns /\ n \notin gone
    <3>1. disk'.outbox[n] = disk.outbox[n]
      BY <2>1, <2>7
    <3> QED
      BY <2>4, <3>1
  <2> QED
    BY <2>5, <2>6, <2>7
<1>7. ASSUME NEW t \in TabNames, ReplayAnswered(t)
      PROVE  \E n \in Namespaces : x \in OpIds(disk'.outbox[n])
  <2> DEFINE gone == {tab[t].job.op.opId}
             ops == disk.outbox[tab[t].ns]
  <2>1. /\ Waits(t, {"replay"}) /\ owed' = owed \ gone
        /\ \A n \in Namespaces :
             disk'.outbox[n] = IF n = tab[t].ns THEN WithoutIds(ops, gone) ELSE disk.outbox[n]
    BY <1>7, ReplayAnsweredDoes DEF Queues
  <2> HIDE DEF gone
  <2>2. ops \in Seq(Ops)
    BY <2>1, TabFields DEF Waits
  <2> HIDE DEF ops
  <2>3. OpIds(WithoutIds(ops, gone)) = OpIds(ops) \ gone
    BY <2>2, WithoutOps
  <2>4. PICK n \in Namespaces : x \in OpIds(disk.outbox[n])
    BY <1>1, <2>1
  <2>5. x \in OpIds(disk'.outbox[n])
    BY <2>1, <2>3, <2>4 DEF ops
  <2> QED
    BY <2>5
<1>8. ASSUME NEW t \in TabNames, StartWrite(t)
      PROVE  \E n \in Namespaces : x \in OpIds(disk'.outbox[n])
  <2>1. Open(t)
    BY <1>8, StartWriteDoes, NextCallFields
  <2>2. PICK op \in Ops : UNCHANGED <<disk, owed>> \/ Queue(t, op)
    BY <1>8, StartWriteDoes
  <2> QED
    BY <1>3, <1>4, <2>1, <2>2
<1>9. ASSUME NEW t \in TabNames, WriteFails(t)
      PROVE  \E n \in Namespaces : x \in OpIds(disk'.outbox[n])
  <2>1. Open(t) /\ tab[t].job.op \in Ops /\ Queue(t, tab[t].job.op)
    BY <1>9, WriteFailsDoes DEF Waits, TypeOK
  <2> QED
    BY <1>3, <2>1
<1>10. ASSUME NEW t \in TabNames,
              \/ CloseTab(t) \/ Write(t) \/ Poll(t) \/ CallAdopt(t) \/ Pair(t) \/ StartSync(t)
              \/ RefetchAnswered(t) \/ FetchFails(t) \/ WriteAnswered(t) \/ FlushOutbox(t)
              \/ ReplayFails(t)
       PROVE  UNCHANGED <<disk, owed>>
  BY <1>10 DEF CloseTab, Write, Poll, CallAdopt, Pair, StartSync, RefetchAnswered, FetchFails,
     WriteAnswered, FlushOutbox, ReplayFails
<1>11. ASSUME NEW t \in TabNames, FetchAnswered(t) PROVE disk'.outbox = disk.outbox /\ owed' = owed
  BY <1>11, FetchAnsweredDoes
<1>13. ASSUME NEW t \in TabNames, StartAdopt(t)
       PROVE  \E n \in Namespaces : x \in OpIds(disk'.outbox[n])
  <2>1. Open(t) /\ Adopt(t, Unsent(t), Unsent(t)) /\ owed' = owed
    BY <1>13, StartAdoptDoes
  <2> QED
    BY <1>6, <2>1
<1>14. ASSUME NEW t \in TabNames, AdoptionCutOff(t)
       PROVE  \E n \in Namespaces : x \in OpIds(disk'.outbox[n])
  <2>1. Open(t) /\ owed' = owed
    BY <1>14, AdoptionCutOffDoes
  <2>2. PICK from, gone \in SUBSET Unsent(t) : gone \subseteq from /\ Adopt(t, from, gone)
    BY <1>14, AdoptionCutOffDoes
  <2> QED
    BY <1>6, <2>1, <2>2
<1>12. ASSUME Serve \/ UNCHANGED vars PROVE UNCHANGED <<disk, owed>>
  BY <1>12 DEF Serve, vars
<1> QED
  BY <1>1, <1>4, <1>5, <1>7, <1>8, <1>9, <1>10, <1>11, <1>12, <1>13, <1>14 DEF Next

(* QueueKept: what waits for a server waits in localStorage.                *)
(* http-storage-adapter.ts, the comment at enqueue ("none of the earlier    *)
(* attempts was confirmed"): an operation leaves the queues when a later    *)
(* one has taken its place, or when it is answered, and never else; not by  *)
(* another tab that replays the same queue, a tab that closes, an outbox    *)
(* that is claimed or one that is migrated.                                 *)
THEOREM QueuesKeep == Spec => []QueueKept
<1>1. Init => QueueKept
  BY DEF Init, QueueKept
<1>2. TypeOK /\ QueueKept /\ [Next]_vars => QueueKept'
  BY KeptStep
<1>3. Spec => []TypeOK
  BY TypeCorrect
<1> QED
  BY <1>1, <1>2, <1>3, PTL DEF Spec


-----------------------------------------------------------------------------
(* Whose operations a tab sends. *)

LEMMA HomeBecomes ==
  ASSUME PagesHome, NEW t \in TabNames, NEW value, Becomes(t, value),
         value # Null => PageHome(value), serving' = serving
  PROVE  PagesHome'
<1> SUFFICES ASSUME NEW u \in TabNames, tab'[u] # Null PROVE PageHome(tab[u])'
  BY DEF PagesHome, Open
<1>1. CASE u = t
  <2>1. tab'[u] = value
    BY <1>1 DEF Becomes
  <2> QED
    BY <2>1 DEF PageHome, AsksFirst, WorksAtHome, Connected, RefusedAsk, OpenedWith,
       OnItsProject, Settled, SendsItsOwn
<1>2. CASE u # t
  <2>1. tab'[u] = tab[u] /\ PageHome(tab[u])
    BY <1>2 DEF Becomes, PagesHome, Open
  <2> QED
    BY <2>1 DEF PageHome, AsksFirst, WorksAtHome, Connected, RefusedAsk, OpenedWith,
       OnItsProject, Settled, SendsItsOwn
<1> QED
  BY <1>1, <1>2

\* The same for a tab of these fields.
LEMMA HomeOf ==
  ASSUME PagesHome, NEW t \in TabNames, NEW ns, NEW token, NEW online, NEW refused, NEW chain, NEW job, NEW over,
         Becomes(t, TabOf(ns, token, online, refused, chain, job, over)), serving' = serving,
         \/ At(ns, token, over)
         \/ ~online
         \/ refused
         \/ job # Null /\ job.phase = "fetch"
         \/ job = Null /\ chain # << >> /\ Head(chain).kind = "sync",
         job # Null =>
           /\ job.to \in {Null, serving}
           /\ refused => job.phase = "fetch"
           /\ job.phase # "lock" => over \/ job.token = token
           /\ job.phase # "fetch" => At(ns, token, over)
           /\ job.phase \in {"write", "replay"} => job.op.home = ns
           /\ job.phase = "replay" => Homes(job.todo, ns)
  PROVE  PagesHome'
<1> DEFINE value == TabOf(ns, token, online, refused, chain, job, over)
<1>1. /\ value.ns = ns /\ value.token = token /\ value.online = online
      /\ value.refused = refused /\ value.chain = chain /\ value.job = job
      /\ value.overtaken = over
  BY DEF TabOf
<1>2. Becomes(t, value)
  OBVIOUS
<1> HIDE DEF value
<1>3. AsksFirst(value)
  BY <1>1 DEF AsksFirst, Settled
<1>4. value.job # Null => WorksAtHome(value)
  BY <1>1 DEF WorksAtHome, Connected, RefusedAsk, OpenedWith, OnItsProject, Settled, SendsItsOwn
<1>5. PageHome(value)
  BY <1>3, <1>4 DEF PageHome
<1> QED
  BY <1>2, <1>5, HomeBecomes

\* A tab that learns it may not send.
LEMMA HomeEnds ==
  ASSUME TypeOK, PagesHome, NEW t \in TabNames, Open(t), NEW online, NEW refused,
         Ends(t, online, refused), serving' = serving,
         ~online \/ refused \/ Settled(tab[t])
  PROVE  PagesHome'
<1> DEFINE ns == tab[t].ns
           token == tab[t].token
           chain == tab[t].chain
           over == tab[t].overtaken
<1>1. Becomes(t, TabOf(ns, token, online, refused, chain, Null, over))
  BY DEF Ends
<1>2. At(ns, token, over) \/ ~online \/ refused
  BY DEF Settled
<1> HIDE DEF ns, token, chain, over
<1> QED
  BY <1>1, <1>2, HomeOf

LEMMA HomeGoesOn ==
  ASSUME TypeOK, PagesHome, NEW t \in TabNames, Open(t), NEW chain, NEW job,
         GoesOn(t, chain, job), serving' = serving,
         LET page == tab[t]
         IN  /\ \/ Settled(page)
                \/ ~page.online
                \/ page.refused
                \/ job # Null /\ job.phase = "fetch"
                \/ job = Null /\ chain # << >> /\ Head(chain).kind = "sync"
             /\ job # Null =>
                  /\ job.to \in {Null, serving}
                  /\ page.refused => job.phase = "fetch"
                  /\ job.phase # "lock" => page.overtaken \/ job.token = page.token
                  /\ job.phase # "fetch" => Settled(page)
                  /\ job.phase \in {"write", "replay"} => job.op.home = page.ns
                  /\ job.phase = "replay" => Homes(job.todo, page.ns)
  PROVE  PagesHome'
<1> DEFINE ns == tab[t].ns
           token == tab[t].token
           online == tab[t].online
           refused == tab[t].refused
           over == tab[t].overtaken
<1>1. Becomes(t, TabOf(ns, token, online, refused, chain, job, over))
  BY DEF GoesOn
<1>2. /\ \/ At(ns, token, over)
         \/ ~online
         \/ refused
         \/ job # Null /\ job.phase = "fetch"
         \/ job = Null /\ chain # << >> /\ Head(chain).kind = "sync"
      /\ job # Null =>
           /\ job.to \in {Null, serving}
           /\ refused => job.phase = "fetch"
           /\ job.phase # "lock" => over \/ job.token = token
           /\ job.phase # "fetch" => At(ns, token, over)
           /\ job.phase \in {"write", "replay"} => job.op.home = ns
           /\ job.phase = "replay" => Homes(job.todo, ns)
  BY DEF Settled
<1> HIDE DEF ns, token, online, refused, over
<1> QED
  BY <1>1, <1>2, HomeOf

LEMMA PageFacts ==
  ASSUME PagesHome, NEW t \in TabNames, Open(t)
  PROVE  /\ AsksFirst(tab[t])
         /\ Works(t) => /\ Connected(tab[t]) /\ RefusedAsk(tab[t]) /\ OpenedWith(tab[t])
                        /\ OnItsProject(tab[t]) /\ SendsItsOwn(tab[t])
BY DEF PagesHome, PageHome, WorksAtHome, Works

\* A tab that may send and starts another call than a sync works on a project's queue.
LEMMA SendsAtHome ==
  ASSUME PagesHome, NEW t \in TabNames, NextCall(t, "write") \/ NextCall(t, "adopt")
  PROVE  Settled(tab[t]) \/ ~tab[t].online \/ tab[t].refused
BY PageFacts DEF NextCall, AsksFirst

LEMMA AtHomeQueue ==
  ASSUME TypeOK, AtHome, NEW t \in TabNames, Open(t), NEW op \in Ops, op.home = tab[t].ns, Queue(t, op)
  PROVE  AtHome'
<1> DEFINE ops == disk.outbox[tab[t].ns]
<1>1. tab[t].ns \in Namespaces /\ ops \in Seq(Ops) /\ Homes(ops, tab[t].ns)
  BY TabFields DEF AtHome
<1>2. Homes(Enqueue(ops, op), tab[t].ns)
  BY <1>1, EnqueueOps
<1>3. \A n \in Namespaces :
        disk'.outbox[n] = IF n = tab[t].ns THEN Enqueue(ops, op) ELSE disk.outbox[n]
  BY QueueDoes DEF Queues
<1> QED
  BY <1>1, <1>2, <1>3 DEF AtHome

LEMMA AtHomeStep == TypeOK /\ HomeInv /\ [Next]_vars => AtHome'
<1> SUFFICES ASSUME TypeOK, HomeInv, [Next]_vars PROVE AtHome'
  OBVIOUS
<1>0. AtHome /\ PagesHome /\ disk.outbox \in [Namespaces -> Seq(Ops)] /\ Legacy \in Namespaces
  BY DEF HomeInv, TypeOK, Disks, Namespaces
<1>4. CASE disk'.outbox = disk.outbox
  BY <1>0, <1>4 DEF AtHome
<1>5. ASSUME NEW t \in TabNames, OpenTab(t) \/ MigrationCutOff(t) PROVE AtHome'
  <2> DEFINE moved == Migrated(disk.buffer, count.made)
  <2>1. /\ moved \in Seq(Ops) /\ Homes(moved, Legacy)
        /\ \A n \in Namespaces :
             disk'.outbox[n] = IF n = Legacy THEN disk.outbox[Legacy] \o moved ELSE disk.outbox[n]
    BY <1>5, MigratesDoes DEF Queues
  <2> HIDE DEF moved
  <2>2. Homes(disk.outbox[Legacy] \o moved, Legacy)
    BY <1>0, <2>1, ConcatOps DEF AtHome
  <2> QED
    BY <1>0, <2>1, <2>2 DEF AtHome
<1>6. ASSUME NEW t \in TabNames, Open(t), NEW from, NEW gone,
             from \subseteq Unsent(t), gone \subseteq from, Adopt(t, from, gone)
      PROVE  AtHome'
  <2> DEFINE ns == tab[t].ns
             ops == disk.outbox[ns]
             unknown == Claimed(Taken(Unknown, from), ns)
             legacy == Claimed(Taken(Legacy, from), ns)
  <2>1. \A n \in Namespaces :
          disk'.outbox[n] = CASE n = tab[t].ns -> Adopted(t, from)
                              [] n \in gone -> << >>
                              [] OTHER -> disk.outbox[n]
    BY <1>6, AdoptDoes
  <2>2. ns \in Namespaces /\ ops \in Seq(Ops) /\ ns \notin gone /\ Homes(ops, ns)
    BY <1>0, <1>6, TabFields DEF Unsent, AtHome
  <2>3. Homes(Adopted(t, from), ns)
    <3>1. /\ unknown \in Seq(Ops) /\ Homes(unknown, ns)
          /\ legacy \in Seq(Ops) /\ Homes(legacy, ns)
      BY <2>2, TakenOps, ClaimedOps
    <3>2. Adopted(t, from) = (ops \o unknown) \o legacy
      BY DEF Adopted
    <3> HIDE DEF unknown, legacy, ops
    <3> DEFINE both == ops \o unknown
    <3>3. both \in Seq(Ops) /\ Homes(both, ns)
      BY <2>2, <3>1, ConcatOps
    <3> HIDE DEF both
    <3>4. Homes(both \o legacy, ns)
      BY <3>1, <3>3, ConcatOps
    <3> QED
      BY <3>2, <3>4 DEF both
  <2>4. ASSUME NEW n \in Namespaces PROVE Homes(disk'.outbox[n], n)
    <3>1. CASE n = ns
      BY <2>1, <2>2, <2>3, <3>1
    <3>2. CASE n # ns /\ n \in gone
      BY <2>1, <3>2, NoOps
    <3>3. CASE n # ns /\ n \notin gone
      <4>1. disk'.outbox[n] = disk.outbox[n]
        BY <2>1, <3>3
      <4> QED
        BY <1>0, <4>1 DEF AtHome
    <3> QED
      BY <3>1, <3>2, <3>3
  <2> QED
    BY <2>4 DEF AtHome
<1>7. ASSUME NEW t \in TabNames, ReplayAnswered(t) PROVE AtHome'
  <2> DEFINE gone == {tab[t].job.op.opId}
             ops == disk.outbox[tab[t].ns]
  <2>1. /\ Waits(t, {"replay"})
        /\ \A n \in Namespaces :
             disk'.outbox[n] = IF n = tab[t].ns THEN WithoutIds(ops, gone) ELSE disk.outbox[n]
    BY <1>7, ReplayAnsweredDoes DEF Queues
  <2> HIDE DEF gone
  <2>2. tab[t].ns \in Namespaces /\ ops \in Seq(Ops) /\ Homes(ops, tab[t].ns)
    BY <1>0, <2>1, TabFields DEF Waits, AtHome
  <2> HIDE DEF ops
  <2>3. Homes(WithoutIds(ops, gone), tab[t].ns)
    BY <2>2, WithoutOps DEF Homes
  <2> QED
    BY <1>0, <2>1, <2>3 DEF AtHome
<1>8. ASSUME NEW t \in TabNames, StartWrite(t) PROVE AtHome'
  <2>1. Open(t)
    BY <1>8, StartWriteDoes, NextCallFields
  <2>2. PICK op \in Ops : op.home = tab[t].ns /\ (disk' = disk \/ Queue(t, op))
    BY <1>8, StartWriteDoes
  <2> QED
    BY <1>0, <1>4, <2>1, <2>2, AtHomeQueue
<1>9. ASSUME NEW t \in TabNames, WriteFails(t) PROVE AtHome'
  <2>1. Waits(t, {"write"}) /\ Open(t) /\ Works(t) /\ tab[t].job.op \in Ops /\ Queue(t, tab[t].job.op)
    BY <1>9, WriteFailsDoes DEF Waits, Works, TypeOK
  <2>2. tab[t].job.op.home = tab[t].ns
    BY <1>0, <2>1, PageFacts DEF SendsItsOwn, Waits
  <2> QED
    BY <1>0, <2>1, <2>2, AtHomeQueue
<1>10. ASSUME NEW t \in TabNames,
              \/ CloseTab(t) \/ Write(t) \/ Poll(t) \/ CallAdopt(t) \/ Pair(t) \/ StartSync(t)
              \/ RefetchAnswered(t) \/ FetchFails(t) \/ WriteAnswered(t) \/ FlushOutbox(t)
              \/ ReplayFails(t)
       PROVE  disk' = disk
  BY <1>10 DEF CloseTab, Write, Poll, CallAdopt, Pair, StartSync, RefetchAnswered, FetchFails,
     WriteAnswered, FlushOutbox, ReplayFails
<1>11. ASSUME NEW t \in TabNames, FetchAnswered(t) PROVE disk'.outbox = disk.outbox
  BY <1>11, FetchAnsweredDoes
<1>13. ASSUME NEW t \in TabNames, StartAdopt(t) PROVE AtHome'
  <2>1. Open(t) /\ Adopt(t, Unsent(t), Unsent(t))
    BY <1>13, StartAdoptDoes
  <2> QED
    BY <1>6, <2>1
<1>14. ASSUME NEW t \in TabNames, AdoptionCutOff(t) PROVE AtHome'
  <2>1. Open(t)
    BY <1>14, AdoptionCutOffDoes
  <2>2. PICK from, gone \in SUBSET Unsent(t) : gone \subseteq from /\ Adopt(t, from, gone)
    BY <1>14, AdoptionCutOffDoes
  <2> QED
    BY <1>6, <2>1, <2>2
<1>12. ASSUME Serve \/ UNCHANGED vars PROVE disk' = disk
  BY <1>12 DEF Serve, vars
<1> QED
  BY <1>4, <1>5, <1>7, <1>8, <1>9, <1>10, <1>11, <1>12, <1>13, <1>14 DEF Next


LEMMA PagesHomeStep == TypeOK /\ HomeInv /\ [Next]_vars => PagesHome'
<1> SUFFICES ASSUME TypeOK, HomeInv, [Next]_vars PROVE PagesHome'
  OBVIOUS
<1>0. AtHome /\ PagesHome
  BY DEF HomeInv
<1>1. ASSUME NEW t \in TabNames, OpenTab(t) PROVE PagesHome'
  <2> DEFINE first == <<[kind |-> "sync"]>>
             ns == Namespace(disk)
  <2>1. PICK token \in Projects : Becomes(t, TabOf(ns, token, TRUE, FALSE, first, Null, FALSE))
    BY <1>1, OpenTabDoes
  <2>2. first # << >> /\ Head(first).kind = "sync"
    OBVIOUS
  <2>3. serving' = serving
    BY <1>1, MigratesDoes
  <2> HIDE DEF first, ns
  <2> QED
    BY <1>0, <2>1, <2>2, <2>3, HomeOf
<1>2. ASSUME NEW t \in TabNames, CloseTab(t) PROVE PagesHome'
  BY <1>0, <1>2, CloseTabDoes, HomeBecomes
<1>3. ASSUME NEW t \in TabNames, Write(t) \/ Poll(t) \/ CallAdopt(t) PROVE PagesHome'
  <2>1. PICK call \in Calls : GoesOn(t, Append(tab[t].chain, call), tab[t].job)
    BY <1>3, CallDoes
  <2> DEFINE chain == Append(tab[t].chain, call)
             job == tab[t].job
  <2>2. Open(t) /\ serving' = serving
    BY <1>3, CallDoes
  <2>3. tab[t].chain # << >> => chain # << >> /\ Head(chain) = Head(tab[t].chain)
    BY <2>2, TabFields
  <2>4. /\ AsksFirst(tab[t])
        /\ job # Null => /\ Connected(tab[t]) /\ RefusedAsk(tab[t]) /\ OpenedWith(tab[t])
                         /\ OnItsProject(tab[t]) /\ SendsItsOwn(tab[t])
    BY <1>0, <2>2, PageFacts DEF Works
  <2>5. GoesOn(t, chain, job)
    BY <2>1
  <2> HIDE DEF chain
  <2>6. /\ \/ Settled(tab[t])
           \/ ~tab[t].online
           \/ tab[t].refused
           \/ job # Null /\ job.phase = "fetch"
           \/ job = Null /\ chain # << >> /\ Head(chain).kind = "sync"
        /\ job # Null =>
             /\ job.to \in {Null, serving}
             /\ tab[t].refused => job.phase = "fetch"
             /\ job.phase # "lock" => tab[t].overtaken \/ job.token = tab[t].token
             /\ job.phase # "fetch" => Settled(tab[t])
             /\ job.phase \in {"write", "replay"} => job.op.home = tab[t].ns
             /\ job.phase = "replay" => Homes(job.todo, tab[t].ns)
    BY <2>3, <2>4 DEF AsksFirst, Connected, RefusedAsk, OpenedWith, OnItsProject, SendsItsOwn
  <2> HIDE DEF job
  <2> QED
    BY <1>0, <2>2, <2>5, <2>6, HomeGoesOn
<1>4. ASSUME NEW t \in TabNames, Pair(t) PROVE PagesHome'
  <2> DEFINE chain == Append(tab[t].chain, [kind |-> "sync"])
             job == tab[t].job
             ns == tab[t].ns
             online == tab[t].online
             was == tab[t].overtaken
  <2>1. AllStarted /\ Open(t) /\ serving' = serving
    BY <1>4, PairDoes
  <2>2. PICK token \in Projects :
          Becomes(t, TabOf(ns, token, online, FALSE, chain, job, Overtakes(t, token)))
    BY <1>4, PairDoes
  <2> DEFINE over == Overtakes(t, token)
  <2>3. over = (was \/ (job # Null /\ token # tab[t].token))
    BY DEF Overtakes
  <2>4. Becomes(t, TabOf(ns, token, online, FALSE, chain, job, over))
    BY <2>2
  <2>5. CASE job = Null
    <3>1. tab[t].chain = << >>
      BY <2>1, <2>5 DEF AllStarted
    <3>2. chain # << >> /\ Head(chain).kind = "sync"
      BY <3>1
    <3> HIDE DEF chain, job, ns, online, over
    <3> QED
      BY <1>0, <2>1, <2>4, <2>5, <3>2, HomeOf
  <2>6. CASE job # Null
    <3>1. /\ AsksFirst(tab[t]) /\ Connected(tab[t]) /\ OpenedWith(tab[t])
          /\ OnItsProject(tab[t]) /\ SendsItsOwn(tab[t])
      BY <1>0, <2>1, <2>6, PageFacts DEF Works
    <3>2. over \/ (~was /\ token = tab[t].token)
      BY <2>3, <2>6
    <3>3. At(ns, tab[t].token, was) => At(ns, token, over)
      BY <3>2 DEF At
    <3>4. /\ job.to \in {Null, serving}
          /\ job.phase # "lock" => over \/ job.token = token
          /\ job.phase # "fetch" => At(ns, token, over)
          /\ job.phase \in {"write", "replay"} => job.op.home = ns
          /\ job.phase = "replay" => Homes(job.todo, ns)
      <4> HIDE DEF over
      <4> QED
        BY <3>1, <3>2, <3>3 DEF Connected, OpenedWith, OnItsProject, Settled, SendsItsOwn
    <3> HIDE DEF chain, job, ns, online, over
    <3>5. At(ns, token, over) \/ job.phase = "fetch"
      BY <3>4
    <3> QED
      BY <1>0, <2>1, <2>4, <2>6, <3>4, <3>5, HomeOf
  <2> QED
    BY <2>5, <2>6
<1>5. ASSUME NEW t \in TabNames, StartWrite(t) PROVE PagesHome'
  <2>1. NextCall(t, "write") /\ Open(t) /\ serving' = serving
    BY <1>5, StartWriteDoes, NextCallFields
  <2>2. PICK op \in Ops :
          /\ op.home = tab[t].ns
          /\ \/ /\ CanSend(t)
                /\ GoesOn(t, Tail(tab[t].chain), Job(t, "write", "write", op, << >>))
             \/ /\ ~CanSend(t)
                /\ GoesOn(t, Tail(tab[t].chain), Null)
    BY <1>5, StartWriteDoes
  <2>3. Settled(tab[t]) \/ ~tab[t].online \/ tab[t].refused
    BY <1>0, <2>1, SendsAtHome
  <2> DEFINE chain == Tail(tab[t].chain)
             job == Job(t, "write", "write", op, << >>)
  <2>4. CASE CanSend(t) /\ GoesOn(t, chain, job)
    <3>1. ~tab[t].refused /\ Settled(tab[t])
      BY <2>3, <2>4 DEF CanSend
    <3>2. job.to = serving /\ job.phase = "write" /\ job.token = tab[t].token /\ job.op = op
      BY DEF Job
    <3> HIDE DEF chain, job
    <3> QED
      BY <1>0, <2>1, <2>2, <2>4, <3>1, <3>2, HomeGoesOn
  <2>5. CASE ~CanSend(t) /\ GoesOn(t, chain, Null)
    <3>1. tab[t].refused \/ ~tab[t].online
      BY <2>5 DEF CanSend
    <3> HIDE DEF chain
    <3> QED
      BY <1>0, <2>1, <2>5, <3>1, HomeGoesOn
  <2> QED
    BY <2>2, <2>4, <2>5
<1>6. ASSUME NEW t \in TabNames, StartSync(t) PROVE PagesHome'
  <2> DEFINE chain == Tail(tab[t].chain)
             job == Job(t, "sync", "fetch", Null, << >>)
  <2>1. NextCall(t, "sync") /\ Open(t) /\ serving' = serving /\ GoesOn(t, chain, job)
    BY <1>6, StartSyncDoes, NextCallFields
  <2>2. job.to = serving /\ job.phase = "fetch" /\ job.token = tab[t].token
    BY DEF Job
  <2>3. job # Null
    BY <2>1, AskJob, NullIsNoJob
  <2> HIDE DEF chain, job
  <2> QED
    BY <1>0, <2>1, <2>2, <2>3, HomeGoesOn
<1>7. ASSUME NEW t \in TabNames, StartAdopt(t) PROVE PagesHome'
  <2> DEFINE chain == Tail(tab[t].chain)
             job == Locking("adopt")
  <2>1. /\ NextCall(t, "adopt") /\ Open(t) /\ serving' = serving
        /\ \/ CanSend(t) /\ GoesOn(t, chain, job)
           \/ GoesOn(t, chain, Null)
    BY <1>7, StartAdoptDoes, NextCallFields
  <2>2. Settled(tab[t]) \/ ~tab[t].online \/ tab[t].refused
    BY <1>0, <2>1, SendsAtHome
  <2>3. job.to = Null /\ job.phase = "lock"
    BY DEF Locking
  <2> HIDE DEF chain, job
  <2>4. CASE CanSend(t) /\ GoesOn(t, chain, job)
    <3>1. ~tab[t].refused /\ Settled(tab[t])
      BY <2>2, <2>4 DEF CanSend
    <3> QED
      BY <1>0, <2>1, <2>3, <2>4, <3>1, HomeGoesOn
  <2>5. CASE GoesOn(t, chain, Null)
    BY <1>0, <2>1, <2>2, <2>5, HomeGoesOn
  <2> QED
    BY <2>1, <2>4, <2>5
<1>8. ASSUME NEW t \in TabNames, FetchAnswered(t) PROVE PagesHome'
  <2> DEFINE job == Locking("sync")
             token == tab[t].token
             chain == tab[t].chain
             over == StillOvertaken(t)
  <2>1. /\ Waits(t, {"fetch"}) /\ Accepted(t) /\ serving \in Projects /\ serving' = serving
        /\ Becomes(t, TabOf(serving, token, TRUE, FALSE, chain, job, over))
    BY <1>8, FetchAnsweredDoes
  <2>2. At(serving, token, over)
    <3>1. Open(t) /\ Works(t) /\ tab[t].job.phase = "fetch"
      BY <2>1 DEF Waits, Works
    <3>2. OpenedWith(tab[t])
      BY <1>0, <3>1, PageFacts
    <3>3. tab[t].job.token = serving
      BY <2>1 DEF Accepted
    <3> QED
      BY <2>1, <3>1, <3>2, <3>3 DEF OpenedWith, At, StillOvertaken
  <2>3. job.to = Null /\ job.phase = "lock"
    BY DEF Locking
  <2> HIDE DEF job, token, chain, over
  <2> QED
    BY <1>0, <2>1, <2>2, <2>3, HomeOf
<1>9. ASSUME NEW t \in TabNames, RefetchAnswered(t) PROVE PagesHome'
  <2>1. Waits(t, {"refetch"}) /\ Open(t) /\ Works(t) /\ Ends(t, TRUE, FALSE) /\ serving' = serving
    BY <1>9, RefetchAnsweredDoes DEF Waits, Works
  <2>2. Settled(tab[t])
    BY <1>0, <2>1, PageFacts DEF OnItsProject, Waits
  <2> QED
    BY <1>0, <2>1, <2>2, HomeEnds
<1>10. ASSUME NEW t \in TabNames, FetchFails(t) \/ WriteFails(t) \/ ReplayFails(t) PROVE PagesHome'
  <2>1. /\ Open(t) /\ serving' = serving
        /\ \E online, refused \in BOOLEAN : Ends(t, online, refused) /\ (~online \/ refused)
    BY <1>10, FetchFailsDoes, WriteFailsDoes, ReplayFailsDoes DEF Waits
  <2> QED
    BY <1>0, <2>1, HomeEnds
<1>11. ASSUME NEW t \in TabNames, WriteAnswered(t) PROVE PagesHome'
  <2>1. /\ Waits(t, {"write"}) /\ Open(t) /\ Works(t) /\ serving' = serving
        /\ Ends(t, tab[t].online, tab[t].refused)
    BY <1>11, WriteAnsweredDoes DEF Waits, Works
  <2>2. Settled(tab[t])
    BY <1>0, <2>1, PageFacts DEF OnItsProject, Waits
  <2> QED
    BY <1>0, <2>1, <2>2, HomeEnds
<1>12. ASSUME NEW t \in TabNames, FlushOutbox(t) PROVE PagesHome'
  <2> DEFINE todo == disk.outbox[tab[t].ns]
             chain == tab[t].chain
             kind == tab[t].job.kind
             job == Job(t, kind, "replay", Head(todo), Tail(todo))
  <2>1. /\ Waits(t, {"lock"}) /\ Open(t) /\ Works(t) /\ serving' = serving
        /\ \/ todo # << >> /\ Replays(t, todo)
           \/ Ends(t, tab[t].online, tab[t].refused)
    BY <1>12, FlushOutboxDoes DEF Waits, Works
  <2>2. Settled(tab[t]) /\ ~tab[t].refused
    BY <1>0, <2>1, PageFacts DEF OnItsProject, RefusedAsk, Waits
  <2>3. CASE todo # << >> /\ Replays(t, todo)
    <3>1. todo \in Seq(Ops) /\ Homes(todo, tab[t].ns)
      BY <1>0, <2>1, TabFields DEF AtHome
    <3> HIDE DEF todo
    <3>2. Head(todo).home = tab[t].ns /\ Homes(Tail(todo), tab[t].ns)
      BY <2>3, <3>1, HeadTailOps
    <3>3. /\ job.to = serving /\ job.phase = "replay" /\ job.token = tab[t].token
          /\ job.op = Head(todo) /\ job.todo = Tail(todo)
      BY DEF Job
    <3>4. GoesOn(t, chain, job)
      BY <2>3 DEF Replays
    <3> HIDE DEF job, chain
    <3> QED
      BY <1>0, <2>1, <2>2, <3>2, <3>3, <3>4, HomeGoesOn
  <2>4. CASE Ends(t, tab[t].online, tab[t].refused)
    BY <1>0, <2>1, <2>2, <2>4, HomeEnds
  <2> QED
    BY <2>1, <2>3, <2>4
<1>13. ASSUME NEW t \in TabNames, ReplayAnswered(t) PROVE PagesHome'
  <2> DEFINE todo == tab[t].job.todo
             chain == tab[t].chain
             kind == tab[t].job.kind
             job == Job(t, kind, "replay", Head(todo), Tail(todo))
             asks == Job(t, kind, "refetch", Null, << >>)
  <2>1. /\ Waits(t, {"replay"}) /\ Open(t) /\ Works(t) /\ serving' = serving
        /\ \/ todo # << >> /\ Replays(t, todo)
           \/ GoesOn(t, chain, asks)
           \/ Ends(t, tab[t].online, tab[t].refused)
    BY <1>13, ReplayAnsweredDoes DEF Waits, Works
  <2>2. Settled(tab[t]) /\ ~tab[t].refused
    BY <1>0, <2>1, PageFacts DEF OnItsProject, RefusedAsk, Waits
  <2>3. CASE todo # << >> /\ Replays(t, todo)
    <3>1. todo \in Seq(Ops) /\ Homes(todo, tab[t].ns)
      BY <1>0, <2>1, JobFields, PageFacts DEF SendsItsOwn, Waits
    <3> HIDE DEF todo
    <3>2. Head(todo).home = tab[t].ns /\ Homes(Tail(todo), tab[t].ns)
      BY <2>3, <3>1, HeadTailOps
    <3>3. /\ job.to = serving /\ job.phase = "replay" /\ job.token = tab[t].token
          /\ job.op = Head(todo) /\ job.todo = Tail(todo)
      BY DEF Job
    <3>4. GoesOn(t, chain, job)
      BY <2>3 DEF Replays
    <3> HIDE DEF job, chain
    <3> QED
      BY <1>0, <2>1, <2>2, <3>2, <3>3, <3>4, HomeGoesOn
  <2>4. CASE GoesOn(t, chain, asks)
    <3>1. asks.to = serving /\ asks.phase = "refetch" /\ asks.token = tab[t].token
      BY DEF Job
    <3> HIDE DEF asks, chain
    <3> QED
      BY <1>0, <2>1, <2>2, <2>4, <3>1, HomeGoesOn
  <2>5. CASE Ends(t, tab[t].online, tab[t].refused)
    BY <1>0, <2>1, <2>2, <2>5, HomeEnds
  <2> QED
    BY <2>1, <2>3, <2>4, <2>5
<1>14. ASSUME Serve PROVE PagesHome'
  <2>1. tab' = [t \in TabNames |->
                  IF Works(t)
                  THEN TabOf(tab[t].ns, tab[t].token, tab[t].online, tab[t].refused,
                             tab[t].chain, Cut(tab[t].job), tab[t].overtaken)
                  ELSE tab[t]]
    BY <1>14, ServeDoes
  <2> SUFFICES ASSUME NEW t \in TabNames, tab'[t] # Null PROVE PageHome(tab[t])'
    BY DEF PagesHome, Open
  <2>2. CASE Works(t)
    <3> DEFINE value == tab'[t]
    <3>1. /\ value.ns = tab[t].ns /\ value.token = tab[t].token /\ value.online = tab[t].online
          /\ value.refused = tab[t].refused /\ value.chain = tab[t].chain
          /\ value.job = Cut(tab[t].job) /\ value.overtaken = tab[t].overtaken
      BY <2>1, <2>2 DEF TabOf
    <3>2. /\ value.job.phase = tab[t].job.phase /\ value.job.to = Null
          /\ value.job.token = tab[t].job.token /\ value.job.op = tab[t].job.op
          /\ value.job.todo = tab[t].job.todo
      BY <3>1 DEF Cut
    <3>3. /\ AsksFirst(tab[t]) /\ RefusedAsk(tab[t]) /\ OpenedWith(tab[t])
          /\ OnItsProject(tab[t]) /\ SendsItsOwn(tab[t]) /\ tab[t].job # Null
      BY <1>0, <2>2, PageFacts DEF Works
    <3>4. AsksFirst(tab[t])'
      <4>1. Cut(tab[t].job) \in Jobs
        BY <2>2, JobFields DEF Cut, Jobs
      <4>2. value.job # Null
        BY <3>1, <4>1, NullIsNoJob
      <4> QED
        BY <3>1, <3>2, <3>3, <4>2 DEF AsksFirst, Settled
    <3>5. WorksAtHome(tab[t])'
      BY <3>1, <3>2, <3>3 DEF WorksAtHome, Connected, RefusedAsk, OpenedWith, OnItsProject,
         Settled, SendsItsOwn
    <3> QED
      BY <3>4, <3>5 DEF PageHome
  <2>3. CASE ~Works(t)
    <3>1. tab'[t] = tab[t] /\ tab[t].job = Null
      BY <2>1, <2>3 DEF Works, Open
    <3> QED
      BY <1>0, <3>1 DEF PagesHome, PageHome, AsksFirst, Settled, Open
  <2> QED
    BY <2>2, <2>3
<1>15. CASE UNCHANGED vars
  BY <1>0, <1>15 DEF vars, PagesHome, PageHome, AsksFirst, WorksAtHome, Connected, RefusedAsk,
     OpenedWith, OnItsProject, Settled, SendsItsOwn, Open
<1>16. ASSUME NEW t \in TabNames, MigrationCutOff(t) PROVE PagesHome'
  BY <1>0, <1>16 DEF MigrationCutOff, PagesHome, PageHome, AsksFirst, WorksAtHome, Connected,
     RefusedAsk, OpenedWith, OnItsProject, Settled, SendsItsOwn, Open
<1>17. ASSUME NEW t \in TabNames, AdoptionCutOff(t) PROVE PagesHome'
  BY <1>0, <1>17, AdoptionCutOffDoes, HomeBecomes
<1> QED
  BY <1>1, <1>2, <1>3, <1>4, <1>5, <1>6, <1>7, <1>8, <1>9, <1>10, <1>11, <1>12, <1>13, <1>14,
     <1>15, <1>16, <1>17 DEF Next


LEMMA HomeInit == Init => HomeInv
<1> SUFFICES ASSUME Init PROVE HomeInv
  OBVIOUS
<1>1. \A t \in TabNames : tab[t] = Null
  BY DEF Init
<1>2. \A n \in Namespaces : disk.outbox[n] = << >>
  BY DEF Init
<1> QED
  BY <1>1, <1>2, NoOps DEF HomeInv, AtHome, PagesHome, Open

LEMMA HomeNoStrays == HomeInv => NoStrays
<1> SUFFICES ASSUME HomeInv, NEW t \in TabNames, Waits(t, {"write", "replay"}), Accepted(t),
                    ~tab[t].overtaken
             PROVE  tab[t].job.op.home = serving
  BY DEF NoStrays
<1>1. Open(t) /\ Works(t) /\ tab[t].job.phase \in {"write", "replay"}
  BY DEF Waits, Works
<1>2. OpenedWith(tab[t]) /\ OnItsProject(tab[t]) /\ SendsItsOwn(tab[t])
  BY <1>1, PageFacts DEF HomeInv
<1> QED
  BY <1>1, <1>2 DEF OpenedWith, OnItsProject, Settled, At, SendsItsOwn, Accepted

(* NoStrays: a project's server is never handed an operation of another     *)
(* project, nor one of a queue nobody claimed, whatever servers come and go *)
(* on the port (http-storage-adapter.ts, the namespaces of the constructor  *)
(* and of adoptServer), by a tab that was not given another token in the    *)
(* middle of a job since it fetched the store last.  Tabs are paired at any *)
(* time here; what pair() does to a replay under way is the one way around. *)
(* The invariant says when a tab's queue is not the one of its token:       *)
(* before its first answer, after it was paired while it had no job, and    *)
(* when it was overtaken; one that was not asks before it sends.            *)
THEOREM NothingStrays == Spec => []NoStrays
<1>1. Init => HomeInv
  BY HomeInit
<1>2. TypeOK /\ HomeInv /\ [Next]_vars => HomeInv'
  BY AtHomeStep, PagesHomeStep DEF HomeInv
<1>3. Spec => []TypeOK
  BY TypeCorrect
<1>4. HomeInv => NoStrays
  BY HomeNoStrays
<1> QED
  BY <1>1, <1>2, <1>3, <1>4, PTL DEF Spec


-----------------------------------------------------------------------------
(* Each operation is sent once. *)

\* The tab sends no more than before, and replays on, if it does, what it has replayed.
Quiet(t) ==
  /\ Written(t)' \subseteq Written(t) /\ Snapshot(t)' \subseteq Snapshot(t)
  /\ Waits(t, {"replay"})' =>
       /\ Waits(t, {"replay"}) /\ tab'[t].ns = tab[t].ns
       /\ tab'[t].job.op = tab[t].job.op /\ tab'[t].job.todo = tab[t].job.todo

\* Locks of the tabs that go on replaying are not touched.
LocksStay == \A t \in TabNames : Waits(t, {"replay"})' /\ Waits(t, {"replay"})
                                   => lock'[tab[t].ns] = lock[tab[t].ns]

LEMMA QuietSame ==
  ASSUME NEW t \in TabNames, tab'[t] = tab[t]
  PROVE  /\ Quiet(t) /\ Written(t)' = Written(t) /\ Snapshot(t)' = Snapshot(t)
         /\ \A S : Waits(t, S)' <=> Waits(t, S)
<1>1. \A S : Waits(t, S)' <=> Waits(t, S)
  BY DEF Waits, Open
<1>2. Waits(t, {"write"})' <=> Waits(t, {"write"})
  BY <1>1
<1>3. Waits(t, {"replay"})' <=> Waits(t, {"replay"})
  BY <1>1
<1>4. Written(t)' = Written(t) /\ Snapshot(t)' = Snapshot(t)
  BY <1>2, <1>3 DEF Written, Snapshot
<1> QED
  BY <1>1, <1>3, <1>4 DEF Quiet

LEMMA OthersQuiet ==
  ASSUME NEW t \in TabNames, NEW value, Becomes(t, value), NEW u \in TabNames, u # t
  PROVE  /\ Quiet(u) /\ tab'[u] = tab[u] /\ Written(u)' = Written(u) /\ Snapshot(u)' = Snapshot(u)
         /\ \A S : Waits(u, S)' <=> Waits(u, S)
<1>1. tab'[u] = tab[u]
  BY DEF Becomes
<1> QED
  BY <1>1, QuietSame

LEMMA QuietIdle ==
  ASSUME NEW t \in TabNames,
         \/ tab'[t] = Null
         \/ tab'[t].job = Null
         \/ tab'[t].job.phase \notin {"write", "replay"}
  PROVE  Quiet(t) /\ Written(t)' = {} /\ Snapshot(t)' = {} /\ ~ Waits(t, {"replay"})'
<1>1. ~ Waits(t, {"replay"})' /\ ~ Waits(t, {"write"})'
  BY DEF Waits, Open
<1>2. Written(t)' = {} /\ Snapshot(t)' = {}
  BY <1>1 DEF Written, Snapshot
<1> QED
  BY <1>1, <1>2 DEF Quiet

LEMMA QuietJob ==
  ASSUME NEW t \in TabNames, Open(t), tab'[t].ns = tab[t].ns, tab'[t].job = tab[t].job
  PROVE  Quiet(t)
<1>1. \A S : Waits(t, S)' => Waits(t, S)
  BY DEF Waits, Open
<1>2. Waits(t, {"write"})' => Waits(t, {"write"})
  BY <1>1
<1>3. Waits(t, {"replay"})' => Waits(t, {"replay"})
  BY <1>1
<1>4. Written(t)' \subseteq Written(t) /\ Snapshot(t)' \subseteq Snapshot(t)
  BY <1>2, <1>3 DEF Written, Snapshot
<1> QED
  BY <1>3, <1>4 DEF Quiet

(* The queue of q gains the operations X, that are nowhere else.            *)
LEMMA OnceGains ==
  ASSUME TypeOK, OnceInv, \A t \in TabNames : Quiet(t), LocksStay,
         settled' = settled, count.made \in Nat, count'.made \in Nat, count'.made >= count.made,
         NEW q \in Namespaces, NEW X, X \subseteq 1 .. count'.made,
         \A n \in Namespaces : n # q => disk'.outbox[n] = disk.outbox[n],
         Distinct(disk'.outbox[q]), Queued(q)' \subseteq Queued(q) \cup X,
         X \cap settled = {},
         \A n \in Namespaces : n # q => X \cap Queued(n) = {},
         \A t \in TabNames : X \cap Written(t)' = {} /\ X \cap Snapshot(t)' = {}
  PROVE  OnceInv'
<1>1. \A t \in TabNames : /\ Written(t)' \subseteq Written(t) /\ Snapshot(t)' \subseteq Snapshot(t)
                          /\ Waits(t, {"replay"})' =>
                               /\ Waits(t, {"replay"}) /\ tab'[t].ns = tab[t].ns
                               /\ tab'[t].job.op = tab[t].job.op /\ tab'[t].job.todo = tab[t].job.todo
  BY DEF Quiet
<1>2. \A n \in Namespaces : n # q => Queued(n)' = Queued(n) /\ Distinct(disk'.outbox[n])
  BY DEF OnceInv, InOneQueue, Queued
<1>3. \A n \in Namespaces : Queued(n)' \subseteq Queued(n) \cup (IF n = q THEN X ELSE {})
  BY <1>2
<1>4. 1 .. count.made \subseteq 1 .. count'.made
  OBVIOUS
<1>5. Numbered'
  <2>1. \A n \in Namespaces : Queued(n)' \subseteq 1 .. count'.made
    BY <1>3, <1>4 DEF OnceInv, Numbered
  <2>2. \A t \in TabNames : Written(t)' \cup Snapshot(t)' \subseteq 1 .. count'.made
    BY <1>1, <1>4 DEF OnceInv, Numbered
  <2>3. settled' \subseteq 1 .. count'.made
    BY <1>4 DEF OnceInv, Numbered
  <2> QED
    BY <2>1, <2>2, <2>3 DEF Numbered
<1>6. InOneQueue'
  <2>1. \A n \in Namespaces : Distinct(disk'.outbox[n]) /\ Queued(n)' \cap settled' = {}
    BY <1>2, <1>3 DEF OnceInv, InOneQueue
  <2>2. \A n, m \in Namespaces : n # m => Queued(n)' \cap Queued(m)' = {}
    <3> SUFFICES ASSUME NEW n \in Namespaces, NEW m \in Namespaces, n # m
                 PROVE  Queued(n)' \cap Queued(m)' = {}
      OBVIOUS
    <3>1. Queued(n) \cap Queued(m) = {}
      BY DEF OnceInv, InOneQueue
    <3>2. CASE n # q /\ m # q
      BY <1>2, <3>1, <3>2
    <3>3. CASE n = q
      <4>1. m # q /\ Queued(m)' = Queued(m)
        BY <1>2, <3>3
      <4> QED
        BY <1>3, <3>1, <3>3, <4>1
    <3>4. CASE m = q
      <4>1. n # q /\ Queued(n)' = Queued(n)
        BY <1>2, <3>4
      <4> QED
        BY <1>3, <3>1, <3>4, <4>1
    <3> QED
      BY <3>2, <3>3, <3>4
  <2> QED
    BY <2>1, <2>2 DEF InOneQueue
<1>7. WrittenOnce'
  <2>1. \A t \in TabNames : Written(t)' \cap settled' = {}
    BY <1>1 DEF OnceInv, WrittenOnce
  <2>2. \A t \in TabNames, n \in Namespaces : Written(t)' \cap Queued(n)' = {}
    BY <1>1, <1>3 DEF OnceInv, WrittenOnce
  <2>3. \A t, u \in TabNames : /\ Written(t)' \cap Snapshot(u)' = {}
                               /\ t # u => Written(t)' \cap Written(u)' = {}
    BY <1>1 DEF OnceInv, WrittenOnce
  <2> QED
    BY <2>1, <2>2, <2>3 DEF WrittenOnce
<1>8. ReplayedOnce'
  <2>1. \A t \in TabNames : Snapshot(t)' \cap settled' = {}
    BY <1>1 DEF OnceInv, ReplayedOnce
  <2>2. ASSUME NEW t \in TabNames, NEW n \in Namespaces, Waits(t, {"replay"})', n # tab'[t].ns
        PROVE  Snapshot(t)' \cap Queued(n)' = {}
    <3>1. Snapshot(t) \cap Queued(n) = {}
      BY <1>1, <2>2 DEF OnceInv, ReplayedOnce
    <3> QED
      BY <1>1, <1>3, <3>1
  <2>3. \A t, u \in TabNames : t # u => Snapshot(t)' \cap Snapshot(u)' = {}
    BY <1>1 DEF OnceInv, ReplayedOnce
  <2>4. \A t \in TabNames : Waits(t, {"replay"})' =>
          Distinct(tab'[t].job.todo) /\ tab'[t].job.op.opId \notin OpIds(tab'[t].job.todo)
    BY <1>1 DEF OnceInv, ReplayedOnce
  <2> QED
    BY <2>1, <2>2, <2>3, <2>4 DEF ReplayedOnce
<1>9. ReplayLocks'
  <2>1. \A t \in TabNames : Waits(t, {"replay"})' => lock'[tab'[t].ns] = t
    BY <1>1 DEF OnceInv, ReplayLocks, LocksStay
  <2> QED
    BY <2>1 DEF ReplayLocks
<1> QED
  BY <1>5, <1>6, <1>7, <1>8, <1>9 DEF OnceInv

LEMMA OnceQuiet ==
  ASSUME TypeOK, OnceInv, \A t \in TabNames : Quiet(t), LocksStay,
         disk'.outbox = disk.outbox, settled' = settled,
         count'.made \in Nat, count'.made >= count.made
  PROVE  OnceInv'
<1>1. Unknown \in Namespaces /\ count.made \in Nat
  BY DEF Namespaces, TypeOK, Counts
<1>2. Distinct(disk'.outbox[Unknown]) /\ Queued(Unknown)' \subseteq Queued(Unknown) \cup {}
  BY <1>1 DEF OnceInv, InOneQueue, Queued
<1>3. \A n \in Namespaces : n # Unknown => disk'.outbox[n] = disk.outbox[n]
  OBVIOUS
<1> DEFINE X == {}
<1>4. /\ X \subseteq 1 .. count'.made /\ X \cap settled = {}
      /\ \A n \in Namespaces : n # Unknown => X \cap Queued(n) = {}
      /\ \A t \in TabNames : X \cap Written(t)' = {} /\ X \cap Snapshot(t)' = {}
      /\ Queued(Unknown)' \subseteq Queued(Unknown) \cup X
  BY <1>2
<1> HIDE DEF X
<1> QED
  BY <1>1, <1>2, <1>3, <1>4, OnceGains


LEMMA FieldsAfter ==
  ASSUME NEW t \in TabNames
  PROVE  /\ \A ns, token, online, refused, chain, job, over :
              Becomes(t, TabOf(ns, token, online, refused, chain, job, over))
                => tab'[t].ns = ns /\ tab'[t].job = job
         /\ \A chain, job : GoesOn(t, chain, job) => tab'[t].ns = tab[t].ns /\ tab'[t].job = job
         /\ \A online, refused : Ends(t, online, refused) => tab'[t].ns = tab[t].ns /\ tab'[t].job = Null
<1>1. ASSUME NEW ns, NEW token, NEW online, NEW refused, NEW chain, NEW job, NEW over,
             Becomes(t, TabOf(ns, token, online, refused, chain, job, over))
      PROVE  tab'[t].ns = ns /\ tab'[t].job = job
  <2>1. tab'[t] = TabOf(ns, token, online, refused, chain, job, over)
    BY <1>1 DEF Becomes
  <2> QED
    BY <2>1 DEF TabOf
<1> QED
  BY <1>1 DEF GoesOn, Ends

LEMMA OthersAfter ==
  ASSUME NEW t \in TabNames
  PROVE  /\ \A value : Becomes(t, value) => \A u \in TabNames : u # t => Quiet(u)
         /\ \A chain, job : GoesOn(t, chain, job) => \A u \in TabNames : u # t => Quiet(u)
         /\ \A online, refused : Ends(t, online, refused) => \A u \in TabNames : u # t => Quiet(u)
<1>1. ASSUME NEW value, Becomes(t, value), NEW u \in TabNames, u # t PROVE Quiet(u)
  BY <1>1, OthersQuiet
<1> QED
  BY <1>1 DEF GoesOn, Ends

LEMMA SameLocksStay == lock' = lock => LocksStay
BY DEF LocksStay

LEMMA ReleasedStay ==
  ASSUME TypeOK, OnceInv, NEW t \in TabNames, lock' = Released(t), ~ Waits(t, {"replay"})'
  PROVE  LocksStay
<1> SUFFICES ASSUME NEW u \in TabNames, Waits(u, {"replay"})', Waits(u, {"replay"})
             PROVE  lock'[tab[u].ns] = lock[tab[u].ns]
  BY DEF LocksStay
<1>1. u # t /\ lock[tab[u].ns] = u /\ tab[u].ns \in Namespaces
  BY TabFields DEF OnceInv, ReplayLocks, Waits
<1> QED
  BY <1>1 DEF Released

LEMMA Fresh ==
  ASSUME TypeOK, OnceInv, NEW X, \A x \in X : x \in Nat /\ x > count.made
  PROVE  /\ X \cap settled = {} /\ \A n \in Namespaces : X \cap Queued(n) = {}
         /\ \A t \in TabNames : X \cap Written(t) = {} /\ X \cap Snapshot(t) = {}
<1>1. count.made \in Nat
  BY DEF TypeOK, Counts
<1>2. \A x \in 1 .. count.made : x \notin X
  BY <1>1
<1> QED
  BY <1>2 DEF OnceInv, Numbered

LEMMA OnceOpens ==
  ASSUME TypeOK, OnceInv, NEW t \in TabNames, OpenTab(t) \/ MigrationCutOff(t)
  PROVE  OnceInv'
<1>1. PICK moved : /\ moved = Migrated(disk.buffer, count.made)
                   /\ moved \in Seq(Ops) /\ Distinct(moved)
                   /\ OpIds(moved) \subseteq (count.made + 1) .. count'.made
  BY MigratesDoes
<1>2. PICK X : X = OpIds(moved)
  OBVIOUS
<1>3. /\ \A n \in Namespaces :
           disk'.outbox[n] = IF n = Legacy THEN disk.outbox[Legacy] \o moved ELSE disk.outbox[n]
      /\ count'.made \in Nat /\ count'.made >= count.made /\ settled' = settled /\ lock' = lock
  BY <1>1, MigratesDoes DEF Queues, Counts
<1>4. Legacy \in Namespaces /\ disk.outbox[Legacy] \in Seq(Ops) /\ count.made \in Nat
  BY DEF TypeOK, Disks, Namespaces, Counts
<1>5. ASSUME OpenTab(t) PROVE \A u \in TabNames : Quiet(u)
  <2>1. PICK token, chain : Becomes(t, TabOf(Namespace(disk), token, TRUE, FALSE, chain, Null, FALSE))
    BY <1>5, OpenTabDoes
  <2>2. tab'[t].job = Null
    BY <2>1 DEF Becomes, TabOf
  <2>3. Quiet(t)
    BY <2>2, QuietIdle
  <2> QED
    BY <2>1, <2>3, OthersAfter
<1>6. ASSUME MigrationCutOff(t) PROVE \A u \in TabNames : Quiet(u)
  BY <1>6, QuietSame DEF MigrationCutOff
<1>7. \A u \in TabNames : Quiet(u)
  BY <1>5, <1>6
<1>8. X \subseteq 1 .. count'.made /\ \A x \in X : x \in Nat /\ x > count.made
  BY <1>1, <1>2, <1>3, <1>4
<1>9. /\ X \cap settled = {} /\ \A n \in Namespaces : X \cap Queued(n) = {}
      /\ \A u \in TabNames : X \cap Written(u) = {} /\ X \cap Snapshot(u) = {}
  BY <1>8, Fresh
<1>10. Distinct(disk.outbox[Legacy]) /\ OpIds(disk.outbox[Legacy]) \cap OpIds(moved) = {}
  BY <1>2, <1>4, <1>9 DEF OnceInv, InOneQueue, Queued
<1>11. /\ OpIds(disk.outbox[Legacy] \o moved) = OpIds(disk.outbox[Legacy]) \cup X
       /\ Distinct(disk.outbox[Legacy] \o moved)
  BY <1>1, <1>2, <1>4, <1>10, ConcatOps
<1>12. Distinct(disk'.outbox[Legacy]) /\ Queued(Legacy)' \subseteq Queued(Legacy) \cup X
  BY <1>3, <1>4, <1>11 DEF Queued
<1>13. \A u \in TabNames : X \cap Written(u)' = {} /\ X \cap Snapshot(u)' = {}
  BY <1>7, <1>9 DEF Quiet
<1>14. LocksStay
  BY <1>3, SameLocksStay
<1>15. \A n \in Namespaces : n # Legacy => disk'.outbox[n] = disk.outbox[n]
  BY <1>3
<1> QED
  BY <1>3, <1>4, <1>7, <1>8, <1>9, <1>12, <1>13, <1>14, <1>15, OnceGains

(* An operation that is in no queue, and that nobody else sends, is queued. *)
LEMMA OnceQueues ==
  ASSUME TypeOK, OnceInv, NEW t \in TabNames, Open(t), NEW op \in Ops, Queue(t, op),
         \A u \in TabNames : Quiet(u), LocksStay, settled' = settled,
         count'.made \in Nat, count'.made >= count.made,
         op.opId \in 1 .. count'.made, op.opId \notin settled,
         \A n \in Namespaces : op.opId \notin Queued(n),
         \A u \in TabNames : op.opId \notin Written(u)' /\ op.opId \notin Snapshot(u)'
  PROVE  OnceInv'
<1>1. PICK q \in Namespaces : q = tab[t].ns
  BY TabFields
<1>2. PICK ops \in Seq(Ops) : ops = disk.outbox[q]
  BY <1>1, TabFields
<1>3. PICK X : X = {op.opId}
  OBVIOUS
<1>4. \A n \in Namespaces : disk'.outbox[n] = IF n = q THEN Enqueue(ops, op) ELSE disk.outbox[n]
  <2>1. Queues(tab[t].ns, Enqueue(disk.outbox[tab[t].ns], op))
    BY QueueDoes
  <2>2. Queues(q, Enqueue(ops, op))
    BY <1>1, <1>2, <2>1
  <2> QED
    BY <2>2 DEF Queues
<1>5. Distinct(ops) /\ op.opId \notin OpIds(ops)
  BY <1>2 DEF OnceInv, InOneQueue, Queued
<1>6. OpIds(Enqueue(ops, op)) \subseteq OpIds(ops) \cup X /\ Distinct(Enqueue(ops, op))
  BY <1>3, <1>5, EnqueueOps
<1>7. Distinct(disk'.outbox[q])
  BY <1>4, <1>6
<1>8. Queued(q)' \subseteq Queued(q) \cup X
  BY <1>2, <1>4, <1>6 DEF Queued
<1>9. X \subseteq 1 .. count'.made /\ X \cap settled = {}
  BY <1>3
<1>10. \A n \in Namespaces : n # q => X \cap Queued(n) = {}
  BY <1>3
<1>11. \A u \in TabNames : X \cap Written(u)' = {} /\ X \cap Snapshot(u)' = {}
  BY <1>3
<1>12. \A n \in Namespaces : n # q => disk'.outbox[n] = disk.outbox[n]
  BY <1>4
<1>13. count.made \in Nat
  BY DEF TypeOK, Counts
<1> QED
  BY <1>7, <1>8, <1>9, <1>10, <1>11, <1>12, <1>13, OnceGains


(* What a tab sends is named by its job. *)
LEMMA Sends ==
  ASSUME NEW t \in TabNames
  PROVE  /\ Waits(t, {"write"}) => Written(t) = {tab[t].job.op.opId} /\ Snapshot(t) = {}
         /\ Waits(t, {"replay"}) =>
              /\ Snapshot(t) = {tab[t].job.op.opId} \cup OpIds(tab[t].job.todo)
              /\ Written(t) = {} /\ Open(t) /\ tab[t].job # Null
         /\ ~ Waits(t, {"write", "replay"}) => Written(t) = {} /\ Snapshot(t) = {}
BY DEF Written, Snapshot, Waits

(* A step after which the tab sends nothing, and that changes no queue.     *)
LEMMA OnceIdle ==
  ASSUME TypeOK, OnceInv, NEW t \in TabNames,
         \/ tab'[t] = Null
         \/ tab'[t].job = Null
         \/ tab'[t].job.phase \notin {"write", "replay"},
         \A u \in TabNames : u # t => Quiet(u),
         lock' = lock \/ lock' = Released(t),
         disk'.outbox = disk.outbox, settled' = settled,
         count'.made = count.made
  PROVE  OnceInv'
<1>1. Quiet(t) /\ ~ Waits(t, {"replay"})'
  BY QuietIdle
<1>2. \A u \in TabNames : Quiet(u)
  BY <1>1
<1>3. LocksStay
  BY <1>1, SameLocksStay, ReleasedStay
<1>4. count'.made \in Nat /\ count'.made >= count.made
  BY DEF TypeOK, Counts
<1> QED
  BY <1>2, <1>3, <1>4, OnceQuiet

LEMMA OnceCloses ==
  ASSUME TypeOK, OnceInv, NEW t \in TabNames, CloseTab(t)
  PROVE  OnceInv'
<1>1. /\ Becomes(t, Null) /\ lock' = Released(t) /\ count'.made = count.made
      /\ disk' = disk /\ settled' = settled
  BY CloseTabDoes
<1>2. tab'[t] = Null
  BY <1>1 DEF Becomes
<1> QED
  BY <1>1, <1>2, OthersAfter, OnceIdle

(* A job that sends nothing, or none at all. *)
LEMMA OnceAsks ==
  ASSUME TypeOK, OnceInv, NEW t \in TabNames,
         \/ StartSync(t) \/ FetchAnswered(t) \/ RefetchAnswered(t) \/ FetchFails(t) \/ ReplayFails(t)
  PROVE  OnceInv'
<1>1. CASE StartSync(t)
  <2>1. PICK chain, job : GoesOn(t, chain, job) /\ job.phase = "fetch"
    <3>1. GoesOn(t, Tail(tab[t].chain), Job(t, "sync", "fetch", Null, << >>))
      BY <1>1, StartSyncDoes
    <3>2. Job(t, "sync", "fetch", Null, << >>).phase = "fetch"
      BY DEF Job
    <3> QED
      BY <3>1, <3>2
  <2>2. UNCHANGED <<disk, lock, settled, count>>
    BY <1>1, StartSyncDoes
  <2>3. tab'[t].job = job
    BY <2>1, FieldsAfter
  <2>4. \A u \in TabNames : u # t => Quiet(u)
    BY <2>1, OthersAfter
  <2> QED
    BY <2>1, <2>2, <2>3, <2>4, OnceIdle
<1>2. CASE FetchAnswered(t)
  <2>1. PICK online, refused, job, over :
          /\ Becomes(t, TabOf(serving, tab[t].token, online, refused, tab[t].chain, job, over))
          /\ job.phase = "lock"
    <3>1. Becomes(t, TabOf(serving, tab[t].token, TRUE, FALSE, tab[t].chain, Locking("sync"),
                           StillOvertaken(t)))
      BY <1>2, FetchAnsweredDoes
    <3>2. Locking("sync").phase = "lock"
      BY DEF Locking
    <3> QED
      BY <3>1, <3>2
  <2>2. disk'.outbox = disk.outbox /\ UNCHANGED <<lock, settled, count>>
    BY <1>2, FetchAnsweredDoes
  <2>3. tab'[t].job = job
    BY <2>1, FieldsAfter
  <2>4. \A u \in TabNames : u # t => Quiet(u)
    BY <2>1, OthersAfter
  <2> QED
    BY <2>1, <2>2, <2>3, <2>4, OnceIdle
<1>3. CASE RefetchAnswered(t) \/ FetchFails(t) \/ ReplayFails(t)
  <2>1. \E online, refused : Ends(t, online, refused)
    BY <1>3, RefetchAnsweredDoes, FetchFailsDoes, ReplayFailsDoes
  <2>2. /\ disk' = disk /\ settled' = settled /\ count'.made = count.made
        /\ lock' = lock \/ lock' = Released(t)
    BY <1>3, RefetchAnsweredDoes, FetchFailsDoes, ReplayFailsDoes
  <2>3. tab'[t].job = Null
    BY <2>1, FieldsAfter
  <2>4. \A u \in TabNames : u # t => Quiet(u)
    BY <2>1, OthersAfter
  <2> QED
    BY <2>2, <2>3, <2>4, OnceIdle
<1> QED
  BY <1>1, <1>2, <1>3

LEMMA OnceCalls ==
  ASSUME TypeOK, OnceInv, NEW t \in TabNames, Write(t) \/ Poll(t) \/ CallAdopt(t) \/ Pair(t)
  PROVE  OnceInv'
<1>1. /\ Open(t) /\ tab'[t].ns = tab[t].ns /\ tab'[t].job = tab[t].job
      /\ \A u \in TabNames : u # t => Quiet(u)
      /\ UNCHANGED <<disk, lock, settled>> /\ count'.made = count.made
  <2>1. CASE Write(t) \/ Poll(t) \/ CallAdopt(t)
    <3>1. PICK call : GoesOn(t, Append(tab[t].chain, call), tab[t].job)
      BY <2>1, CallDoes
    <3>2. Open(t) /\ UNCHANGED <<disk, lock, settled>> /\ count'.made = count.made
      BY <2>1, CallDoes
    <3> QED
      BY <3>1, <3>2, FieldsAfter, OthersAfter
  <2>2. CASE Pair(t)
    <3>1. PICK token, refused, chain, over :
            Becomes(t, TabOf(tab[t].ns, token, tab[t].online, refused, chain, tab[t].job, over))
      BY <2>2, PairDoes
    <3>2. Open(t) /\ UNCHANGED <<disk, lock, settled>> /\ count'.made = count.made
      BY <2>2, PairDoes
    <3> QED
      BY <3>1, <3>2, FieldsAfter, OthersAfter
  <2> QED
    BY <2>1, <2>2
<1>2. \A u \in TabNames : Quiet(u)
  BY <1>1, QuietJob
<1>3. LocksStay
  BY <1>1, SameLocksStay
<1>4. count'.made \in Nat /\ count'.made >= count.made
  BY <1>1 DEF TypeOK, Counts
<1> QED
  BY <1>1, <1>2, <1>3, <1>4, OnceQuiet

(* A server that goes breaks requests; what they send stays what it was.    *)
LEMMA OnceServes ==
  ASSUME TypeOK, OnceInv, Serve
  PROVE  OnceInv'
<1>1. ASSUME NEW t \in TabNames PROVE Quiet(t)
  <2>1. CASE Works(t)
    <3>1. tab'[t] = TabOf(tab[t].ns, tab[t].token, tab[t].online, tab[t].refused,
                          tab[t].chain, Cut(tab[t].job), tab[t].overtaken)
      BY <2>1, ServeDoes
    <3>2. /\ tab'[t].ns = tab[t].ns /\ tab'[t].job.phase = tab[t].job.phase
          /\ tab'[t].job.op = tab[t].job.op /\ tab'[t].job.todo = tab[t].job.todo
      BY <3>1 DEF TabOf, Cut
    <3>3. \A S : Waits(t, S)' => Waits(t, S)
      BY <2>1, <3>2 DEF Waits, Works, Open
    <3>4. (Waits(t, {"write"})' => Waits(t, {"write"})) /\ (Waits(t, {"replay"})' => Waits(t, {"replay"}))
      BY <3>3
    <3>5. Written(t)' \subseteq Written(t) /\ Snapshot(t)' \subseteq Snapshot(t)
      BY <3>2, <3>4 DEF Written, Snapshot
    <3> QED
      BY <3>2, <3>4, <3>5 DEF Quiet
  <2>2. CASE ~ Works(t)
    <3>1. tab'[t] = tab[t]
      BY <2>2, ServeDoes
    <3> QED
      BY <3>1, QuietSame
  <2> QED
    BY <2>1, <2>2
<1>2. LocksStay /\ UNCHANGED <<disk, lock, settled>>
  BY ServeDoes, SameLocksStay
<1>3. count'.made \in Nat /\ count'.made >= count.made
  BY ServeDoes DEF TypeOK, Counts
<1> QED
  BY <1>1, <1>2, <1>3, OnceQuiet


(* What a tab sends leaves it for a server.                                 *)
LEMMA OnceSettles ==
  ASSUME TypeOK, OnceInv, NEW t \in TabNames, NEW x, x \in Written(t) \cup Snapshot(t),
         settled' = settled \cup {x}, count' = count,
         \A u \in TabNames : u # t => tab'[u] = tab[u],
         Written(t)' = {}, Snapshot(t)' \subseteq Snapshot(t), x \notin Snapshot(t)',
         Waits(t, {"replay"})' =>
           /\ Waits(t, {"replay"}) /\ tab'[t].ns = tab[t].ns
           /\ Distinct(tab'[t].job.todo) /\ tab'[t].job.op.opId \notin OpIds(tab'[t].job.todo),
         LocksStay,
         \A n \in Namespaces : /\ Distinct(disk'.outbox[n])
                               /\ Queued(n)' \subseteq Queued(n) /\ x \notin Queued(n)'
  PROVE  OnceInv'
<1>1. \A u \in TabNames : u # t =>
        /\ Written(u)' = Written(u) /\ Snapshot(u)' = Snapshot(u)
        /\ x \notin Written(u) /\ x \notin Snapshot(u)
  <2> SUFFICES ASSUME NEW u \in TabNames, u # t
               PROVE  /\ Written(u)' = Written(u) /\ Snapshot(u)' = Snapshot(u)
                      /\ x \notin Written(u) /\ x \notin Snapshot(u)
    OBVIOUS
  <2>1. Written(u)' = Written(u) /\ Snapshot(u)' = Snapshot(u)
    BY QuietSame
  <2>2. /\ Written(t) \cap Written(u) = {} /\ Written(t) \cap Snapshot(u) = {}
        /\ Written(u) \cap Snapshot(t) = {} /\ Snapshot(t) \cap Snapshot(u) = {}
    BY DEF OnceInv, WrittenOnce, ReplayedOnce
  <2> QED
    BY <2>1, <2>2
<1>2. \A u \in TabNames : /\ Written(u)' \subseteq Written(u) /\ Snapshot(u)' \subseteq Snapshot(u)
                          /\ x \notin Written(u)' /\ x \notin Snapshot(u)'
  BY <1>1
<1>3. \A u \in TabNames : Waits(u, {"replay"})' =>
        /\ Waits(u, {"replay"}) /\ tab'[u].ns = tab[u].ns
        /\ Distinct(tab'[u].job.todo) /\ tab'[u].job.op.opId \notin OpIds(tab'[u].job.todo)
  <2> SUFFICES ASSUME NEW u \in TabNames, u # t, Waits(u, {"replay"})'
               PROVE  /\ Waits(u, {"replay"}) /\ tab'[u].ns = tab[u].ns
                      /\ Distinct(tab'[u].job.todo)
                      /\ tab'[u].job.op.opId \notin OpIds(tab'[u].job.todo)
    OBVIOUS
  <2>1. Waits(u, {"replay"}) /\ tab'[u] = tab[u]
    BY QuietSame
  <2> QED
    BY <2>1 DEF OnceInv, ReplayedOnce
<1>4. x \in 1 .. count.made
  BY DEF OnceInv, Numbered
<1>5. Numbered'
  <2>1. settled' \subseteq 1 .. count'.made
    BY <1>4 DEF OnceInv, Numbered
  <2>2. \A n \in Namespaces : Queued(n)' \subseteq 1 .. count'.made
    BY DEF OnceInv, Numbered
  <2>3. \A u \in TabNames : Written(u)' \cup Snapshot(u)' \subseteq 1 .. count'.made
    BY <1>2 DEF OnceInv, Numbered
  <2> QED
    BY <2>1, <2>2, <2>3 DEF Numbered
<1>6. InOneQueue'
  <2>1. \A n \in Namespaces : Distinct(disk'.outbox[n]) /\ Queued(n)' \cap settled' = {}
    BY DEF OnceInv, InOneQueue
  <2>2. \A n, m \in Namespaces : n # m => Queued(n)' \cap Queued(m)' = {}
    BY DEF OnceInv, InOneQueue
  <2> QED
    BY <2>1, <2>2 DEF InOneQueue
<1>7. WrittenOnce'
  <2>1. \A u \in TabNames : Written(u)' \cap settled' = {}
    BY <1>2 DEF OnceInv, WrittenOnce
  <2>2. \A u \in TabNames, n \in Namespaces : Written(u)' \cap Queued(n)' = {}
    BY <1>2 DEF OnceInv, WrittenOnce
  <2>3. \A u, v \in TabNames : /\ Written(u)' \cap Snapshot(v)' = {}
                               /\ u # v => Written(u)' \cap Written(v)' = {}
    BY <1>2 DEF OnceInv, WrittenOnce
  <2> QED
    BY <2>1, <2>2, <2>3 DEF WrittenOnce
<1>8. ReplayedOnce'
  <2>1. \A u \in TabNames : Snapshot(u)' \cap settled' = {}
    BY <1>2 DEF OnceInv, ReplayedOnce
  <2>2. ASSUME NEW u \in TabNames, NEW n \in Namespaces, Waits(u, {"replay"})', n # tab'[u].ns
        PROVE  Snapshot(u)' \cap Queued(n)' = {}
    <3>1. Snapshot(u) \cap Queued(n) = {}
      BY <1>3, <2>2 DEF OnceInv, ReplayedOnce
    <3> QED
      BY <1>2, <3>1
  <2>3. \A u, v \in TabNames : u # v => Snapshot(u)' \cap Snapshot(v)' = {}
    BY <1>2 DEF OnceInv, ReplayedOnce
  <2> QED
    BY <1>3, <2>1, <2>2, <2>3 DEF ReplayedOnce
<1>9. ReplayLocks'
  <2>1. \A u \in TabNames : Waits(u, {"replay"})' => lock'[tab'[u].ns] = u
    BY <1>3 DEF OnceInv, ReplayLocks, LocksStay
  <2> QED
    BY <2>1 DEF ReplayLocks
<1> QED
  BY <1>5, <1>6, <1>7, <1>8, <1>9 DEF OnceInv

LEMMA EndsQuietly ==
  ASSUME NEW t \in TabNames, NEW online, NEW refused, Ends(t, online, refused)
  PROVE  /\ Written(t)' = {} /\ Snapshot(t)' = {} /\ ~ Waits(t, {"replay"})' /\ Quiet(t)
         /\ \A u \in TabNames : u # t => tab'[u] = tab[u] /\ Quiet(u)
<1>1. tab'[t].job = Null
  BY FieldsAfter
<1> QED
  BY <1>1, QuietIdle, OthersQuiet DEF Ends

LEMMA OnceAnswered ==
  ASSUME TypeOK, OnceInv, NEW t \in TabNames, WriteAnswered(t)
  PROVE  OnceInv'
<1>1. PICK x : x = tab[t].job.op.opId
  OBVIOUS
<1>2. /\ Waits(t, {"write"}) /\ Ends(t, tab[t].online, tab[t].refused)
      /\ settled' = settled \cup {x} /\ UNCHANGED <<disk, lock, count>>
  BY <1>1, WriteAnsweredDoes
<1>3. /\ Written(t)' = {} /\ Snapshot(t)' = {} /\ ~ Waits(t, {"replay"})'
      /\ \A u \in TabNames : u # t => tab'[u] = tab[u]
  BY <1>2, EndsQuietly
<1>4. x \in Written(t)
  BY <1>1, <1>2, Sends
<1>5. \A n \in Namespaces : /\ Distinct(disk'.outbox[n])
                            /\ Queued(n)' \subseteq Queued(n) /\ x \notin Queued(n)'
  BY <1>2, <1>4 DEF OnceInv, InOneQueue, WrittenOnce, Queued
<1>6. LocksStay
  BY <1>2, SameLocksStay
<1> QED
  BY <1>2, <1>3, <1>4, <1>5, <1>6, OnceSettles

LEMMA OnceReplayed ==
  ASSUME TypeOK, OnceInv, NEW t \in TabNames, ReplayAnswered(t)
  PROVE  OnceInv'
<1>1. PICK x : x = tab[t].job.op.opId
  OBVIOUS
<1>2. PICK q \in Namespaces : q = tab[t].ns
  BY ReplayAnsweredDoes, TabFields DEF Waits
<1>3. PICK todo \in Seq(Ops) : todo = tab[t].job.todo
  BY ReplayAnsweredDoes, JobFields DEF Waits, Works
<1>4. /\ Waits(t, {"replay"}) /\ settled' = settled \cup {x} /\ count' = count
  BY <1>1, ReplayAnsweredDoes
<1>5. /\ Snapshot(t) = {x} \cup OpIds(todo) /\ Distinct(todo) /\ x \notin OpIds(todo)
      /\ \A n \in Namespaces : n # q => Snapshot(t) \cap Queued(n) = {}
  BY <1>1, <1>2, <1>3, <1>4, Sends DEF OnceInv, ReplayedOnce
<1>6. \A n \in Namespaces : /\ Distinct(disk'.outbox[n])
                            /\ Queued(n)' \subseteq Queued(n) /\ x \notin Queued(n)'
  <2>1. Queues(q, WithoutIds(disk.outbox[q], {x}))
    BY <1>1, <1>2, ReplayAnsweredDoes
  <2>2. disk.outbox[q] \in Seq(Ops) /\ Distinct(disk.outbox[q])
    BY <1>2, <1>4, TabFields DEF Waits, OnceInv, InOneQueue
  <2>3. disk'.outbox[q] = WithoutIds(disk.outbox[q], {x})
    BY <2>1 DEF Queues
  <2>4. Distinct(disk'.outbox[q]) /\ OpIds(disk'.outbox[q]) = OpIds(disk.outbox[q]) \ {x}
    BY <2>2, <2>3, WithoutOps
  <2>5. \A n \in Namespaces : n # q => disk'.outbox[n] = disk.outbox[n]
    BY <2>1 DEF Queues
  <2> SUFFICES ASSUME NEW n \in Namespaces
               PROVE  /\ Distinct(disk'.outbox[n])
                      /\ Queued(n)' \subseteq Queued(n) /\ x \notin Queued(n)'
    OBVIOUS
  <2>6. CASE n = q
    BY <2>4, <2>6 DEF Queued
  <2>7. CASE n # q
    <3>1. Queued(n)' = Queued(n) /\ Distinct(disk'.outbox[n])
      BY <2>5, <2>7 DEF Queued, OnceInv, InOneQueue
    <3> QED
      BY <1>5, <2>7, <3>1
  <2> QED
    BY <2>6, <2>7
<1>7. CASE todo # << >> /\ Replays(t, todo) /\ UNCHANGED lock
  <2>1. PICK job : GoesOn(t, tab[t].chain, job) /\ job = Job(t, tab[t].job.kind, "replay", Head(todo), Tail(todo))
    BY <1>7 DEF Replays
  <2>2. job.phase = "replay" /\ job.op = Head(todo) /\ job.todo = Tail(todo)
    BY <2>1 DEF Job
  <2>3. tab'[t].ns = tab[t].ns /\ tab'[t].job = job
    BY <2>1, FieldsAfter
  <2>4. \A u \in TabNames : u # t => tab'[u] = tab[u]
    BY <2>1, OthersQuiet DEF GoesOn
  <2>5. ~ Waits(t, {"write"})'
    BY <2>2, <2>3 DEF Waits
  <2>6. Written(t)' = {} /\ Snapshot(t)' \subseteq {Head(todo).opId} \cup OpIds(Tail(todo))
    BY <2>2, <2>3, <2>5 DEF Written, Snapshot
  <2>7. /\ OpIds(todo) = {Head(todo).opId} \cup OpIds(Tail(todo))
        /\ Distinct(Tail(todo)) /\ Head(todo).opId \notin OpIds(Tail(todo))
    BY <1>5, <1>7, HeadTailOps
  <2>8. Snapshot(t)' \subseteq Snapshot(t) /\ x \notin Snapshot(t)'
    BY <1>5, <2>6, <2>7
  <2>9. LocksStay
    BY <1>7, SameLocksStay
  <2>10. /\ Waits(t, {"replay"}) /\ tab'[t].ns = tab[t].ns
         /\ Distinct(tab'[t].job.todo) /\ tab'[t].job.op.opId \notin OpIds(tab'[t].job.todo)
    BY <1>4, <2>2, <2>3, <2>7
  <2> QED
    BY <1>4, <1>5, <1>6, <2>4, <2>6, <2>8, <2>9, <2>10, OnceSettles
<1>8. CASE /\ \/ GoesOn(t, tab[t].chain, Job(t, tab[t].job.kind, "refetch", Null, << >>))
              \/ Ends(t, tab[t].online, tab[t].refused)
           /\ lock' = Released(t)
  <2>1. /\ Written(t)' = {} /\ Snapshot(t)' = {} /\ ~ Waits(t, {"replay"})'
        /\ \A u \in TabNames : u # t => tab'[u] = tab[u]
    <3>1. CASE GoesOn(t, tab[t].chain, Job(t, tab[t].job.kind, "refetch", Null, << >>))
      <4>1. PICK job : GoesOn(t, tab[t].chain, job) /\ job = Job(t, tab[t].job.kind, "refetch", Null, << >>)
        BY <3>1
      <4>2. job.phase = "refetch"
        BY <4>1 DEF Job
      <4>3. tab'[t].job = job
        BY <4>1, FieldsAfter
      <4> QED
        BY <4>1, <4>2, <4>3, QuietIdle, OthersQuiet DEF GoesOn
    <3>2. CASE Ends(t, tab[t].online, tab[t].refused)
      BY <3>2, EndsQuietly
    <3> QED
      BY <1>8, <3>1, <3>2
  <2>2. LocksStay
    BY <1>8, <2>1, ReleasedStay
  <2> QED
    BY <1>4, <1>5, <1>6, <2>1, <2>2, OnceSettles
<1> QED
  BY <1>3, <1>7, <1>8, ReplayAnsweredDoes


LEMMA OnceWriteFails ==
  ASSUME TypeOK, OnceInv, NEW t \in TabNames, WriteFails(t)
  PROVE  OnceInv'
<1>1. /\ Waits(t, {"write"}) /\ Open(t) /\ Queue(t, tab[t].job.op) /\ tab[t].job.op \in Ops
      /\ count'.made = count.made /\ settled' = settled /\ lock' = lock
  BY WriteFailsDoes DEF TypeOK, Waits
<1>2. PICK op \in Ops : op = tab[t].job.op
  BY <1>1
<1>3. /\ Written(t)' = {} /\ Snapshot(t)' = {} /\ \A u \in TabNames : Quiet(u)
      /\ \A u \in TabNames : u # t => tab'[u] = tab[u]
  <2>1. PICK online, refused : Ends(t, online, refused)
    BY WriteFailsDoes
  <2> QED
    BY <2>1, EndsQuietly
<1>4. Written(t) = {op.opId}
  BY <1>1, <1>2, Sends
<1>5. /\ op.opId \in 1 .. count.made /\ op.opId \notin settled
      /\ \A n \in Namespaces : op.opId \notin Queued(n)
      /\ \A u \in TabNames : op.opId \notin Snapshot(u) /\ (u # t => op.opId \notin Written(u))
  BY <1>4 DEF OnceInv, Numbered, WrittenOnce
<1>6. \A u \in TabNames : op.opId \notin Written(u)' /\ op.opId \notin Snapshot(u)'
  BY <1>3, <1>5 DEF Quiet
<1>7. LocksStay /\ count'.made \in Nat /\ count'.made >= count.made
  BY <1>1, SameLocksStay DEF TypeOK, Counts
<1> QED
  BY <1>1, <1>2, <1>3, <1>5, <1>6, <1>7, OnceQueues

(* A tab without a job is about to send an operation that is in no queue.    *)
LEMMA OnceSends ==
  ASSUME TypeOK, OnceInv, NEW t \in TabNames,
         NEW x, x = count.made + 1, Written(t)' \subseteq {x}, Snapshot(t)' = {}, ~ Waits(t, {"replay"})',
         \A u \in TabNames : u # t => tab'[u] = tab[u],
         count'.made = count.made + 1, UNCHANGED <<disk, lock, settled>>
  PROVE  OnceInv'
<1>1. count.made \in Nat /\ 1 .. count.made \subseteq 1 .. count'.made /\ x \in 1 .. count'.made
  BY DEF TypeOK, Counts
<1>2. \A u \in TabNames : u # t =>
        /\ Written(u)' = Written(u) /\ Snapshot(u)' = Snapshot(u)
        /\ Waits(u, {"replay"})' <=> Waits(u, {"replay"})
  BY QuietSame
<1>3. /\ x \notin settled /\ \A n \in Namespaces : x \notin Queued(n)
      /\ \A u \in TabNames : x \notin Written(u) /\ x \notin Snapshot(u)
  <2>1. x \notin 1 .. count.made
    BY <1>1
  <2> QED
    BY <2>1 DEF OnceInv, Numbered
<1>4. \A n \in Namespaces : Queued(n)' = Queued(n)
  BY DEF Queued
<1>5. Numbered'
  <2>1. settled' \subseteq 1 .. count'.made /\ \A n \in Namespaces : Queued(n)' \subseteq 1 .. count'.made
    BY <1>1, <1>4 DEF OnceInv, Numbered
  <2>2. \A u \in TabNames : Written(u)' \cup Snapshot(u)' \subseteq 1 .. count'.made
    BY <1>1, <1>2 DEF OnceInv, Numbered
  <2> QED
    BY <2>1, <2>2 DEF Numbered
<1>6. InOneQueue'
  BY <1>4 DEF OnceInv, InOneQueue
<1>7. WrittenOnce'
  <2>1. \A u \in TabNames : Written(u)' \cap settled' = {}
    BY <1>2, <1>3 DEF OnceInv, WrittenOnce
  <2>2. \A u \in TabNames, n \in Namespaces : Written(u)' \cap Queued(n)' = {}
    BY <1>2, <1>3, <1>4 DEF OnceInv, WrittenOnce
  <2>3. \A u, v \in TabNames : Written(u)' \cap Snapshot(v)' = {}
    BY <1>2, <1>3 DEF OnceInv, WrittenOnce
  <2>4. \A u, v \in TabNames : u # v => Written(u)' \cap Written(v)' = {}
    BY <1>2, <1>3 DEF OnceInv, WrittenOnce
  <2> QED
    BY <2>1, <2>2, <2>3, <2>4 DEF WrittenOnce
<1>8. ReplayedOnce'
  <2>1. \A u \in TabNames : Snapshot(u)' \cap settled' = {}
    BY <1>2 DEF OnceInv, ReplayedOnce
  <2>2. ASSUME NEW u \in TabNames, NEW n \in Namespaces, Waits(u, {"replay"})', n # tab'[u].ns
        PROVE  Snapshot(u)' \cap Queued(n)' = {}
    <3>1. u # t /\ Waits(u, {"replay"}) /\ n # tab[u].ns
      BY <1>2, <2>2
    <3> QED
      BY <1>2, <1>4, <3>1 DEF OnceInv, ReplayedOnce
  <2>3. \A u, v \in TabNames : u # v => Snapshot(u)' \cap Snapshot(v)' = {}
    BY <1>2 DEF OnceInv, ReplayedOnce
  <2>4. \A u \in TabNames : Waits(u, {"replay"})' =>
          Distinct(tab'[u].job.todo) /\ tab'[u].job.op.opId \notin OpIds(tab'[u].job.todo)
    BY <1>2 DEF OnceInv, ReplayedOnce
  <2> QED
    BY <2>1, <2>2, <2>3, <2>4 DEF ReplayedOnce
<1>9. ReplayLocks'
  BY <1>2 DEF OnceInv, ReplayLocks
<1> QED
  BY <1>5, <1>6, <1>7, <1>8, <1>9 DEF OnceInv

LEMMA OnceWrites ==
  ASSUME TypeOK, OnceInv, NEW t \in TabNames, StartWrite(t)
  PROVE  OnceInv'
<1>1. PICK op \in Ops :
        /\ op.opId = count.made + 1
        /\ \/ /\ GoesOn(t, Tail(tab[t].chain), Job(t, "write", "write", op, << >>))
              /\ UNCHANGED <<disk, owed>>
           \/ GoesOn(t, Tail(tab[t].chain), Null) /\ Queue(t, op)
  BY StartWriteDoes
<1>2. /\ Open(t) /\ count'.made = count.made + 1 /\ settled' = settled /\ lock' = lock
      /\ count.made \in Nat
  BY StartWriteDoes, NextCallFields DEF TypeOK, Counts
<1>3. PICK x : x = op.opId
  OBVIOUS
<1>4. CASE /\ GoesOn(t, Tail(tab[t].chain), Job(t, "write", "write", op, << >>))
           /\ UNCHANGED <<disk, owed>>
  <2>1. PICK job : GoesOn(t, Tail(tab[t].chain), job) /\ job = Job(t, "write", "write", op, << >>)
    BY <1>4
  <2>2. job.phase = "write" /\ job.op = op
    BY <2>1 DEF Job
  <2>3. tab'[t].job = job /\ \A u \in TabNames : u # t => tab'[u] = tab[u]
    BY <2>1, FieldsAfter, OthersQuiet DEF GoesOn
  <2>4. ~ Waits(t, {"replay"})'
    BY <2>2, <2>3 DEF Waits
  <2>5. Written(t)' \subseteq {x} /\ Snapshot(t)' = {}
    BY <1>3, <2>2, <2>3, <2>4 DEF Written, Snapshot
  <2> QED
    BY <1>1, <1>2, <1>3, <1>4, <2>3, <2>4, <2>5, OnceSends
<1>5. CASE GoesOn(t, Tail(tab[t].chain), Null) /\ Queue(t, op)
  <2>1. tab'[t].job = Null /\ \A u \in TabNames : u # t => Quiet(u)
    BY <1>5, FieldsAfter, OthersAfter
  <2>2. \A u \in TabNames : Quiet(u)
    BY <2>1, QuietIdle
  <2>3. \A y \in {x} : y \in Nat /\ y > count.made
    BY <1>1, <1>2, <1>3
  <2>4. /\ {x} \cap settled = {} /\ \A n \in Namespaces : {x} \cap Queued(n) = {}
        /\ \A u \in TabNames : {x} \cap Written(u) = {} /\ {x} \cap Snapshot(u) = {}
    BY <2>3, Fresh
  <2>5. \A u \in TabNames : op.opId \notin Written(u)' /\ op.opId \notin Snapshot(u)'
    BY <1>3, <2>2, <2>4 DEF Quiet
  <2>6. /\ LocksStay /\ count'.made \in Nat /\ count'.made >= count.made
        /\ op.opId \in 1 .. count'.made /\ op.opId \notin settled
        /\ \A n \in Namespaces : op.opId \notin Queued(n)
    BY <1>1, <1>2, <1>3, <2>4, SameLocksStay
  <2> QED
    BY <1>2, <1>5, <2>2, <2>5, <2>6, OnceQueues
<1> QED
  BY <1>1, <1>4, <1>5


(* With navigator.locks, a queue that a tab begins to replay is replayed by no other. *)
LEMMA OnceFlushes ==
  ASSUME Locks, TypeOK, OnceInv, NEW t \in TabNames, FlushOutbox(t)
  PROVE  OnceInv'
<1>1. PICK q \in Namespaces : q = tab[t].ns
  BY FlushOutboxDoes, TabFields DEF Waits
<1>2. PICK todo \in Seq(Ops) : todo = disk.outbox[q]
  BY <1>1, FlushOutboxDoes, TabFields DEF Waits
<1>3. /\ Waits(t, {"lock"}) /\ Granted(t) /\ UNCHANGED <<serving, disk, owed, settled, count>>
      /\ \/ todo # << >> /\ Replays(t, todo) /\ lock' = [lock EXCEPT ![q] = t]
         \/ Ends(t, tab[t].online, tab[t].refused) /\ lock' = lock
  BY <1>1, <1>2, FlushOutboxDoes
<1>4. CASE Ends(t, tab[t].online, tab[t].refused) /\ lock' = lock
  <2>1. tab'[t].job = Null
    BY <1>4, FieldsAfter
  <2>2. \A u \in TabNames : u # t => Quiet(u)
    BY <1>4, OthersAfter
  <2> QED
    BY <1>3, <1>4, <2>1, <2>2, OnceIdle
<1>5. CASE todo # << >> /\ Replays(t, todo) /\ lock' = [lock EXCEPT ![q] = t]
  <2>1. PICK job : GoesOn(t, tab[t].chain, job) /\ job = Job(t, tab[t].job.kind, "replay", Head(todo), Tail(todo))
    BY <1>5 DEF Replays
  <2>2. job.phase = "replay" /\ job.op = Head(todo) /\ job.todo = Tail(todo)
    BY <2>1 DEF Job
  <2>3. tab'[t].ns = q /\ tab'[t].job = job
    BY <1>1, <2>1, FieldsAfter
  <2>4. \A u \in TabNames : u # t =>
          /\ tab'[u] = tab[u] /\ Written(u)' = Written(u) /\ Snapshot(u)' = Snapshot(u)
          /\ Waits(u, {"replay"})' <=> Waits(u, {"replay"})
    BY <2>1, OthersQuiet DEF GoesOn
  <2>5. /\ OpIds(todo) = {Head(todo).opId} \cup OpIds(Tail(todo))
        /\ Distinct(Tail(todo)) /\ Head(todo).opId \notin OpIds(Tail(todo))
    BY <1>2, <1>5, HeadTailOps DEF OnceInv, InOneQueue
  <2>6. ~ Waits(t, {"write"})'
    BY <2>2, <2>3 DEF Waits
  <2>7. Written(t)' = {} /\ Snapshot(t)' \subseteq Queued(q)
    BY <1>2, <2>2, <2>3, <2>5, <2>6 DEF Written, Snapshot, Queued
  <2>8. \A u \in TabNames : u # t /\ Waits(u, {"replay"}) => tab[u].ns # q
    <3>1. lock[q] = Null
      BY <1>1, <1>3 DEF Granted
    <3>2. \A u \in TabNames : Waits(u, {"replay"}) => lock[tab[u].ns] = u
      BY DEF OnceInv, ReplayLocks
    <3> QED
      BY <3>1, <3>2, NullIsNoTab
  <2>9. \A u \in TabNames : u # t => Snapshot(u) \cap Queued(q) = {}
    <3> SUFFICES ASSUME NEW u \in TabNames, u # t PROVE Snapshot(u) \cap Queued(q) = {}
      OBVIOUS
    <3>1. CASE Waits(u, {"replay"})
      BY <2>8, <3>1 DEF OnceInv, ReplayedOnce
    <3>2. CASE ~ Waits(u, {"replay"})
      BY <3>2 DEF Snapshot
    <3> QED
      BY <3>1, <3>2
  <2>10. \A n \in Namespaces : Queued(n)' = Queued(n)
    BY <1>3 DEF Queued
  <2>11. Numbered'
    <3>1. settled' \subseteq 1 .. count'.made /\ \A n \in Namespaces : Queued(n)' \subseteq 1 .. count'.made
      BY <1>3, <2>10 DEF OnceInv, Numbered
    <3>2. \A u \in TabNames : Written(u)' \cup Snapshot(u)' \subseteq 1 .. count'.made
      BY <1>3, <2>4, <2>7 DEF OnceInv, Numbered
    <3> QED
      BY <3>1, <3>2 DEF Numbered
  <2>12. InOneQueue'
    BY <1>3, <2>10 DEF OnceInv, InOneQueue
  <2>13. WrittenOnce'
    <3>1. \A u \in TabNames : Written(u)' \cap settled' = {}
      BY <1>3, <2>4, <2>7 DEF OnceInv, WrittenOnce
    <3>2. \A u \in TabNames, n \in Namespaces : Written(u)' \cap Queued(n)' = {}
      BY <2>4, <2>7, <2>10 DEF OnceInv, WrittenOnce
    <3>3. ASSUME NEW u \in TabNames, NEW v \in TabNames PROVE Written(u)' \cap Snapshot(v)' = {}
      <4>1. CASE u = t
        BY <2>7, <4>1
      <4>2. CASE u # t
        <5>1. /\ Written(u)' = Written(u) /\ Written(u) \cap Queued(q) = {}
              /\ Written(u) \cap Snapshot(v) = {}
          BY <2>4, <4>2 DEF OnceInv, WrittenOnce
        <5> QED
          BY <2>4, <2>7, <5>1
      <4> QED
        BY <4>1, <4>2
    <3>4. \A u, v \in TabNames : u # v => Written(u)' \cap Written(v)' = {}
      BY <2>4, <2>7 DEF OnceInv, WrittenOnce
    <3> QED
      BY <3>1, <3>2, <3>3, <3>4 DEF WrittenOnce
  <2>14. ReplayedOnce'
    <3>1. ASSUME NEW u \in TabNames PROVE Snapshot(u)' \cap settled' = {}
      <4>1. Queued(q) \cap settled = {} /\ Snapshot(u) \cap settled = {}
        BY DEF OnceInv, InOneQueue, ReplayedOnce
      <4> QED
        BY <1>3, <2>4, <2>7, <4>1
    <3>2. ASSUME NEW u \in TabNames, NEW n \in Namespaces, Waits(u, {"replay"})', n # tab'[u].ns
          PROVE  Snapshot(u)' \cap Queued(n)' = {}
      <4>1. CASE u = t
        <5>1. n # q /\ Queued(q) \cap Queued(n) = {}
          BY <2>3, <3>2, <4>1 DEF OnceInv, InOneQueue
        <5> QED
          BY <2>7, <2>10, <4>1, <5>1
      <4>2. CASE u # t
        BY <2>4, <2>10, <3>2, <4>2 DEF OnceInv, ReplayedOnce
      <4> QED
        BY <4>1, <4>2
    <3>3. ASSUME NEW u \in TabNames, NEW v \in TabNames, u # v PROVE Snapshot(u)' \cap Snapshot(v)' = {}
      <4>1. Snapshot(u) \cap Snapshot(v) = {}
        BY <3>3 DEF OnceInv, ReplayedOnce
      <4>2. CASE u = t
        BY <2>4, <2>7, <2>9, <3>3, <4>2
      <4>3. CASE v = t
        BY <2>4, <2>7, <2>9, <3>3, <4>3
      <4> QED
        BY <2>4, <4>1, <4>2, <4>3
    <3>4. ASSUME NEW u \in TabNames, Waits(u, {"replay"})'
          PROVE  Distinct(tab'[u].job.todo) /\ tab'[u].job.op.opId \notin OpIds(tab'[u].job.todo)
      <4>1. CASE u = t
        BY <2>2, <2>3, <2>5, <4>1
      <4>2. CASE u # t
        BY <2>4, <3>4, <4>2 DEF OnceInv, ReplayedOnce
      <4> QED
        BY <4>1, <4>2
    <3> QED
      BY <3>1, <3>2, <3>3, <3>4 DEF ReplayedOnce
  <2>15. ReplayLocks'
    <3> SUFFICES ASSUME NEW u \in TabNames, Waits(u, {"replay"})' PROVE lock'[tab'[u].ns] = u
      BY DEF ReplayLocks
    <3>1. lock \in [Namespaces -> TabNames \cup {Null}]
      BY DEF TypeOK
    <3>2. CASE u = t
      BY <1>5, <2>3, <3>1, <3>2
    <3>3. CASE u # t
      <4>1. Waits(u, {"replay"}) /\ tab'[u] = tab[u] /\ tab[u].ns # q /\ lock[tab[u].ns] = u
        BY <2>4, <2>8, <3>3 DEF OnceInv, ReplayLocks
      <4>2. tab[u].ns \in Namespaces
        BY <4>1, TabFields DEF Waits
      <4> QED
        BY <1>5, <3>1, <4>1, <4>2
    <3> QED
      BY <3>2, <3>3
  <2> QED
    BY <2>11, <2>12, <2>13, <2>14, <2>15 DEF OnceInv
<1> QED
  BY <1>3, <1>4, <1>5


(* What was unsent moves, and is in one queue as before.                     *)
LEMMA AdoptedOps ==
  ASSUME TypeOK, OnceInv, NEW t \in TabNames, Open(t), NEW from \in SUBSET Unsent(t)
  PROVE  /\ Distinct(Adopted(t, from))
         /\ OpIds(Adopted(t, from)) \subseteq Queued(tab[t].ns) \cup UNION {Queued(n) : n \in from}
<1>1. PICK q \in Namespaces : q = tab[t].ns
  BY TabFields
<1>2. PICK ops : ops = disk.outbox[q] /\ ops \in Seq(Ops)
  BY <1>1, TabFields
<1>3. PICK early : early = Taken(Unknown, from)
  OBVIOUS
<1>4. PICK old : old = Taken(Legacy, from)
  OBVIOUS
<1>5. Unknown \in Namespaces /\ Legacy \in Namespaces /\ Unknown # Legacy
  BY NamespacesApart DEF Namespaces
<1>6. ASSUME NEW n \in {Unknown, Legacy}, NEW taken, taken = Taken(n, from)
      PROVE  /\ taken \in Seq(Ops) /\ OpIds(taken) \subseteq Queued(n) /\ Distinct(taken)
             /\ OpIds(taken) \subseteq UNION {Queued(m) : m \in from}
             /\ OpIds(taken) \cap OpIds(ops) = {}
  <2>1. CASE n \notin from
    <3>1. taken = << >>
      BY <1>6, <2>1 DEF Taken
    <3> QED
      BY <3>1, NoOps
  <2>2. CASE n \in from
    <3>1. taken = disk.outbox[n] /\ taken \in Seq(Ops) /\ n # q
      BY <1>1, <1>6, <2>2, TakenOps DEF Taken, Unsent
    <3>2. Queued(n) \cap Queued(q) = {} /\ Distinct(disk.outbox[n])
      BY <1>5, <3>1 DEF OnceInv, InOneQueue
    <3>3. OpIds(taken) = Queued(n) /\ OpIds(ops) = Queued(q)
      BY <1>2, <3>1 DEF Queued
    <3> QED
      BY <2>2, <3>1, <3>2, <3>3
  <2> QED
    BY <2>1, <2>2
<1>7. /\ early \in Seq(Ops) /\ OpIds(early) \subseteq Queued(Unknown) /\ Distinct(early)
      /\ OpIds(early) \cap OpIds(ops) = {} /\ OpIds(early) \subseteq UNION {Queued(m) : m \in from}
  BY <1>3, <1>6
<1>8. /\ old \in Seq(Ops) /\ OpIds(old) \subseteq Queued(Legacy) /\ Distinct(old)
      /\ OpIds(old) \cap OpIds(ops) = {} /\ OpIds(old) \subseteq UNION {Queued(m) : m \in from}
  BY <1>4, <1>6
<1>9. Queued(Unknown) \cap Queued(Legacy) = {} /\ Distinct(ops) /\ OpIds(ops) = Queued(q)
  BY <1>2, <1>5 DEF OnceInv, InOneQueue, Queued
<1>10. PICK first : first = Claimed(early, q)
  OBVIOUS
<1>11. PICK second : second = Claimed(old, q)
  OBVIOUS
<1>12. /\ first \in Seq(Ops) /\ OpIds(first) = OpIds(early) /\ Distinct(first)
       /\ second \in Seq(Ops) /\ OpIds(second) = OpIds(old) /\ Distinct(second)
  BY <1>7, <1>8, <1>10, <1>11, ClaimedOps
<1>13. /\ ops \o first \in Seq(Ops) /\ OpIds(ops \o first) = OpIds(ops) \cup OpIds(early)
       /\ Distinct(ops \o first)
  BY <1>2, <1>7, <1>9, <1>12, ConcatOps
<1>14. PICK both : both = ops \o first
  OBVIOUS
<1>15. OpIds(both) \cap OpIds(second) = {}
  BY <1>7, <1>8, <1>9, <1>12, <1>13, <1>14
<1>16. OpIds(both \o second) = OpIds(both) \cup OpIds(second) /\ Distinct(both \o second)
  BY <1>12, <1>13, <1>14, <1>15, ConcatOps
<1>17. Adopted(t, from) = both \o second
  BY <1>1, <1>2, <1>3, <1>4, <1>10, <1>11, <1>14 DEF Adopted
<1>18. OpIds(both \o second) \subseteq Queued(q) \cup UNION {Queued(m) : m \in from}
  BY <1>7, <1>8, <1>9, <1>12, <1>13, <1>14, <1>16
<1> QED
  BY <1>1, <1>16, <1>17, <1>18

LEMMA OnceAdopts ==
  ASSUME TypeOK, HomeInv, OnceInv, NEW t \in TabNames, Open(t), NEW from \in SUBSET Unsent(t),
         Adopt(t, from, from), UNCHANGED <<lock, settled>>, count'.made = count.made,
         \/ tab'[t] = Null
         \/ tab'[t].job = Null
         \/ tab'[t].job.phase \notin {"write", "replay"},
         \A u \in TabNames : u # t => tab'[u] = tab[u]
  PROVE  OnceInv'
<1>1. from \subseteq {Unknown, Legacy} /\ from \subseteq Namespaces
  BY DEF Unsent, Namespaces
<1>2. PICK q \in Namespaces : q = tab[t].ns
  BY TabFields
<1>3. PICK U : U = UNION {Queued(n) : n \in from}
  OBVIOUS
<1>4. /\ q \notin from /\ disk'.outbox[q] = Adopted(t, from)
      /\ \A n \in Namespaces : n # q =>
           disk'.outbox[n] = IF n \in from THEN << >> ELSE disk.outbox[n]
  <2>1. q \notin from
    BY <1>2 DEF Unsent
  <2>2. \A n \in Namespaces :
          disk'.outbox[n] = CASE n = tab[t].ns -> Adopted(t, from)
                              [] n \in from -> << >>
                              [] OTHER -> disk.outbox[n]
    BY AdoptDoes
  <2> QED
    BY <1>2, <2>1, <2>2
<1>5. /\ Distinct(Adopted(t, from))
      /\ OpIds(Adopted(t, from)) \subseteq Queued(tab[t].ns) \cup UNION {Queued(n) : n \in from}
  BY AdoptedOps
<1>6. Distinct(disk'.outbox[q]) /\ Queued(q)' \subseteq Queued(q) \cup U
  BY <1>2, <1>3, <1>4, <1>5 DEF Queued
<1>7. ASSUME NEW n \in Namespaces, n # q
      PROVE  /\ Distinct(disk'.outbox[n]) /\ Queued(n)' \subseteq Queued(n)
             /\ Queued(n)' \cap U = {}
  <2>1. CASE n \in from
    <3>1. disk'.outbox[n] = << >>
      BY <1>4, <1>7, <2>1
    <3> QED
      BY <3>1, NoOps DEF Queued
  <2>2. CASE n \notin from
    <3>1. disk'.outbox[n] = disk.outbox[n]
      BY <1>4, <1>7, <2>2
    <3>2. Queued(n)' = Queued(n) /\ Distinct(disk'.outbox[n])
      BY <3>1 DEF Queued, OnceInv, InOneQueue
    <3>3. \A m \in from : Queued(n) \cap Queued(m) = {}
      BY <1>1, <2>2 DEF OnceInv, InOneQueue
    <3> QED
      BY <1>3, <3>2, <3>3
  <2> QED
    BY <2>1, <2>2
<1>8. \A n \in Namespaces : Queued(n)' \subseteq Queued(n) \cup U
  BY <1>6, <1>7
<1>9. /\ Written(t)' = {} /\ Snapshot(t)' = {} /\ ~ Waits(t, {"replay"})'
      /\ \A u \in TabNames : Quiet(u)
  BY QuietIdle, QuietSame
<1>10. \A u \in TabNames :
         /\ Written(u)' \subseteq Written(u) /\ Snapshot(u)' \subseteq Snapshot(u)
         /\ Waits(u, {"replay"})' => Waits(u, {"replay"}) /\ tab'[u] = tab[u]
  BY <1>9 DEF Quiet
<1>11. \A u \in TabNames : Snapshot(u) \cap U = {}
  <2> SUFFICES ASSUME NEW u \in TabNames PROVE Snapshot(u) \cap U = {}
    OBVIOUS
  <2>1. CASE Waits(u, {"replay"})
    <3>1. Open(u) /\ tab[u].job # Null /\ tab[u].job.phase = "replay"
      BY <2>1 DEF Waits
    <3>2. Settled(tab[u])
      BY <3>1, PageFacts DEF HomeInv, Works, OnItsProject
    <3>3. tab[u].ns \in Projects
      BY <3>2 DEF Settled, At
    <3>4. \A m \in from : m \in Namespaces /\ m # tab[u].ns
      BY <1>1, <3>3, NamespacesApart
    <3>5. \A m \in from : Snapshot(u) \cap Queued(m) = {}
      BY <2>1, <3>4 DEF OnceInv, ReplayedOnce
    <3> QED
      BY <1>3, <3>5
  <2>2. CASE ~ Waits(u, {"replay"})
    BY <2>2 DEF Snapshot
  <2> QED
    BY <2>1, <2>2
<1>12. \A u \in TabNames : Written(u) \cap U = {}
  BY <1>1, <1>3 DEF OnceInv, WrittenOnce
<1>13. U \cap settled = {} /\ U \subseteq 1 .. count.made
  BY <1>1, <1>3 DEF OnceInv, InOneQueue, Numbered
<1>14. Numbered'
  <2>1. settled' \subseteq 1 .. count'.made
    BY DEF OnceInv, Numbered
  <2>2. \A n \in Namespaces : Queued(n)' \subseteq 1 .. count'.made
    BY <1>8, <1>13 DEF OnceInv, Numbered
  <2>3. \A u \in TabNames : Written(u)' \cup Snapshot(u)' \subseteq 1 .. count'.made
    BY <1>10 DEF OnceInv, Numbered
  <2> QED
    BY <2>1, <2>2, <2>3 DEF Numbered
<1>15. InOneQueue'
  <2>1. ASSUME NEW n \in Namespaces PROVE Distinct(disk'.outbox[n]) /\ Queued(n)' \cap settled' = {}
    <3>1. Distinct(disk'.outbox[n])
      BY <1>6, <1>7
    <3>2. Queued(n) \cap settled = {}
      BY DEF OnceInv, InOneQueue
    <3> QED
      BY <1>8, <1>13, <3>1, <3>2
  <2>2. ASSUME NEW n \in Namespaces, NEW m \in Namespaces, n # m PROVE Queued(n)' \cap Queued(m)' = {}
    <3>1. Queued(n) \cap Queued(m) = {}
      BY <2>2 DEF OnceInv, InOneQueue
    <3>2. CASE n = q
      <4>1. Queued(m)' \subseteq Queued(m) /\ Queued(m)' \cap U = {}
        BY <1>7, <2>2, <3>2
      <4> QED
        BY <1>6, <3>1, <3>2, <4>1
    <3>3. CASE m = q
      <4>1. Queued(n)' \subseteq Queued(n) /\ Queued(n)' \cap U = {}
        BY <1>7, <2>2, <3>3
      <4> QED
        BY <1>6, <3>1, <3>3, <4>1
    <3>4. CASE n # q /\ m # q
      BY <1>7, <3>1, <3>4
    <3> QED
      BY <3>2, <3>3, <3>4
  <2> QED
    BY <2>1, <2>2 DEF InOneQueue
<1>16. WrittenOnce'
  <2>1. \A u \in TabNames : Written(u)' \cap settled' = {}
    BY <1>10 DEF OnceInv, WrittenOnce
  <2>2. ASSUME NEW u \in TabNames, NEW n \in Namespaces PROVE Written(u)' \cap Queued(n)' = {}
    <3>1. Written(u) \cap Queued(n) = {}
      BY DEF OnceInv, WrittenOnce
    <3> QED
      BY <1>8, <1>10, <1>12, <3>1
  <2>3. \A u, v \in TabNames : /\ Written(u)' \cap Snapshot(v)' = {}
                               /\ u # v => Written(u)' \cap Written(v)' = {}
    BY <1>10 DEF OnceInv, WrittenOnce
  <2> QED
    BY <2>1, <2>2, <2>3 DEF WrittenOnce
<1>17. ReplayedOnce'
  <2>1. \A u \in TabNames : Snapshot(u)' \cap settled' = {}
    BY <1>10 DEF OnceInv, ReplayedOnce
  <2>2. ASSUME NEW u \in TabNames, NEW n \in Namespaces, Waits(u, {"replay"})', n # tab'[u].ns
        PROVE  Snapshot(u)' \cap Queued(n)' = {}
    <3>1. Waits(u, {"replay"}) /\ n # tab[u].ns
      BY <1>10, <2>2
    <3>2. Snapshot(u) \cap Queued(n) = {}
      BY <3>1 DEF OnceInv, ReplayedOnce
    <3> QED
      BY <1>8, <1>10, <1>11, <3>2
  <2>3. \A u, v \in TabNames : u # v => Snapshot(u)' \cap Snapshot(v)' = {}
    BY <1>10 DEF OnceInv, ReplayedOnce
  <2>4. \A u \in TabNames : Waits(u, {"replay"})' =>
          Distinct(tab'[u].job.todo) /\ tab'[u].job.op.opId \notin OpIds(tab'[u].job.todo)
    BY <1>10 DEF OnceInv, ReplayedOnce
  <2> QED
    BY <2>1, <2>2, <2>3, <2>4 DEF ReplayedOnce
<1>18. ReplayLocks'
  BY <1>10 DEF OnceInv, ReplayLocks
<1> QED
  BY <1>14, <1>15, <1>16, <1>17, <1>18 DEF OnceInv

LEMMA OnceInit == Init => OnceInv
<1> SUFFICES ASSUME Init PROVE OnceInv
  OBVIOUS
<1>1. \A n \in Namespaces : disk.outbox[n] = << >>
  BY DEF Init
<1>2. \A n \in Namespaces : Queued(n) = {} /\ Distinct(disk.outbox[n])
  BY <1>1, NoOps DEF Queued
<1>3. \A t \in TabNames : ~ Waits(t, {"write"}) /\ ~ Waits(t, {"replay"})
  BY DEF Init, Waits, Open
<1>4. \A t \in TabNames : Written(t) = {} /\ Snapshot(t) = {}
  BY <1>3 DEF Written, Snapshot
<1>5. settled = {} /\ count.made = 0
  BY DEF Init
<1>6. Numbered /\ InOneQueue
  BY <1>2, <1>4, <1>5 DEF Numbered, InOneQueue
<1>7. WrittenOnce /\ ReplayedOnce /\ ReplayLocks
  BY <1>3, <1>4 DEF WrittenOnce, ReplayedOnce, ReplayLocks
<1> QED
  BY <1>6, <1>7 DEF OnceInv

(* Nothing takes back that an adoption was cut off in the middle of a queue. *)
LEMMA TornStays == TypeOK /\ [Next]_vars => count.torn \in Nat /\ count'.torn >= count.torn
<1> SUFFICES ASSUME TypeOK, [Next]_vars PROVE count.torn \in Nat /\ count'.torn >= count.torn
  OBVIOUS
<1>0. count \in Counts /\ count.torn \in Nat
  BY DEF TypeOK, Counts
<1>1. CASE count' = count
  BY <1>0, <1>1
<1>2. ASSUME count' = count \/ Trouble PROVE count'.torn >= count.torn
  BY <1>0, <1>2 DEF Trouble, Counts
<1>3. ASSUME NEW t \in TabNames,
             \/ OpenTab(t) \/ MigrationCutOff(t) \/ Write(t) \/ Pair(t) \/ StartWrite(t)
      PROVE  count'.torn >= count.torn
  <2>1. \/ \E m : count' = [count EXCEPT !.made = m] \/ count' = [count EXCEPT !.ops = m]
                 \/ count' = [count EXCEPT !.pairs = m]
        \/ \E m, n : count' = [count EXCEPT !.made = m, !.troubles = n]
    <3>1. CASE OpenTab(t) \/ MigrationCutOff(t)
      BY <3>1 DEF OpenTab, MigrationCutOff
    <3>2. CASE Write(t) \/ Pair(t) \/ StartWrite(t)
      BY <3>2 DEF Write, Pair, StartWrite
    <3> QED
      BY <1>3, <3>1, <3>2
  <2>2. count'.torn = count.torn
    BY <1>0, <2>1 DEF Counts
  <2> QED
    BY <1>0, <2>2
<1>4. ASSUME NEW t \in TabNames, AdoptionCutOff(t) PROVE count'.torn >= count.torn
  BY <1>0, <1>4 DEF AdoptionCutOff, Counts
<1>5. ASSUME NEW t \in TabNames,
             \/ Poll(t) \/ CallAdopt(t) \/ StartSync(t) \/ StartAdopt(t) \/ FetchAnswered(t)
             \/ RefetchAnswered(t) \/ WriteAnswered(t) \/ FlushOutbox(t) \/ ReplayAnswered(t)
      PROVE  count' = count
  BY <1>5 DEF Poll, CallAdopt, StartSync, StartAdopt, FetchAnswered, RefetchAnswered, WriteAnswered,
     FlushOutbox, ReplayAnswered
<1>6. ASSUME NEW t \in TabNames, CloseTab(t) \/ FetchFails(t) \/ WriteFails(t) \/ ReplayFails(t)
      PROVE  count' = count \/ Trouble
  BY <1>6 DEF CloseTab, FetchFails, WriteFails, ReplayFails, Unauthorized, Unanswered, OriginRefused,
     Breaks
<1>7. ASSUME Serve \/ UNCHANGED vars PROVE count' = count \/ Trouble
  BY <1>7 DEF Serve, vars
<1> QED
  BY <1>0, <1>1, <1>2, <1>3, <1>4, <1>5, <1>6, <1>7 DEF Next

(* The tab that claims is left without a request, or is gone.                *)
LEMMA OnceClaims ==
  ASSUME TypeOK, HomeInv, OnceInv, NEW t \in TabNames,
         StartAdopt(t) \/ AdoptionCutOff(t), count'.torn = 0
  PROVE  OnceInv'
<1>1. CASE StartAdopt(t)
  <2>1. /\ Open(t) /\ Adopt(t, Unsent(t), Unsent(t)) /\ UNCHANGED <<lock, settled>>
        /\ count'.made = count.made
    BY <1>1, StartAdoptDoes
  <2>2. PICK job : GoesOn(t, Tail(tab[t].chain), job) /\ (job = Null \/ job.phase = "lock")
    <3>1. Locking("adopt").phase = "lock"
      BY DEF Locking
    <3> QED
      BY <1>1, <3>1, StartAdoptDoes
  <2>3. tab'[t].job = job /\ \A u \in TabNames : u # t => tab'[u] = tab[u]
    BY <2>2, FieldsAfter DEF GoesOn, Becomes
  <2> QED
    BY <2>1, <2>2, <2>3, OnceAdopts
<1>2. CASE AdoptionCutOff(t)
  <2>1. /\ Open(t) /\ Becomes(t, Null) /\ UNCHANGED <<lock, settled>> /\ count'.made = count.made
    BY <1>2, AdoptionCutOffDoes
  <2>2. PICK from, gone \in SUBSET Unsent(t) :
          /\ gone \subseteq from /\ Adopt(t, from, gone)
          /\ gone # from => count'.torn = count.torn + 1
    BY <1>2, AdoptionCutOffDoes
  <2>3. gone = from
    <3>1. count.torn \in Nat
      BY DEF TypeOK, Counts
    <3> QED
      BY <2>2, <3>1
  <2>4. tab'[t] = Null /\ \A u \in TabNames : u # t => tab'[u] = tab[u]
    BY <2>1 DEF Becomes
  <2> QED
    BY <2>1, <2>2, <2>3, <2>4, OnceAdopts
<1> QED
  BY <1>1, <1>2

LEMMA OnceStep ==
  ASSUME Locks
  PROVE  TypeOK /\ HomeInv /\ OnceInv /\ [Next]_vars /\ count'.torn = 0 => OnceInv'
<1> SUFFICES ASSUME TypeOK, HomeInv, OnceInv, [Next]_vars, count'.torn = 0 PROVE OnceInv'
  OBVIOUS
<1>1. CASE UNCHANGED vars
  <2>1. \A t \in TabNames : Quiet(t)
    BY <1>1, QuietSame DEF vars
  <2>2. UNCHANGED <<disk, lock, settled, count>> /\ LocksStay
    BY <1>1, SameLocksStay DEF vars
  <2>3. count'.made \in Nat /\ count'.made >= count.made
    BY <2>2 DEF TypeOK, Counts
  <2> QED
    BY <2>1, <2>2, <2>3, OnceQuiet
<1>2. CASE Serve
  BY <1>2, OnceServes
<1>3. ASSUME NEW t \in TabNames, OpenTab(t) \/ MigrationCutOff(t) PROVE OnceInv'
  BY <1>3, OnceOpens
<1>4. ASSUME NEW t \in TabNames, CloseTab(t) PROVE OnceInv'
  BY <1>4, OnceCloses
<1>5. ASSUME NEW t \in TabNames, Write(t) \/ Poll(t) \/ Pair(t) \/ CallAdopt(t) PROVE OnceInv'
  BY <1>5, OnceCalls
<1>6. ASSUME NEW t \in TabNames, StartWrite(t) PROVE OnceInv'
  BY <1>6, OnceWrites
<1>7. ASSUME NEW t \in TabNames, StartAdopt(t) \/ AdoptionCutOff(t) PROVE OnceInv'
  BY <1>7, OnceClaims
<1>8. ASSUME NEW t \in TabNames,
             StartSync(t) \/ FetchAnswered(t) \/ RefetchAnswered(t) \/ FetchFails(t) \/ ReplayFails(t)
      PROVE  OnceInv'
  BY <1>8, OnceAsks
<1>9. ASSUME NEW t \in TabNames, WriteAnswered(t) PROVE OnceInv'
  BY <1>9, OnceAnswered
<1>10. ASSUME NEW t \in TabNames, WriteFails(t) PROVE OnceInv'
  BY <1>10, OnceWriteFails
<1>11. ASSUME NEW t \in TabNames, FlushOutbox(t) PROVE OnceInv'
  BY <1>11, OnceFlushes
<1>12. ASSUME NEW t \in TabNames, ReplayAnswered(t) PROVE OnceInv'
  BY <1>12, OnceReplayed
<1> QED
  BY <1>1, <1>2, <1>3, <1>4, <1>5, <1>6, <1>7, <1>8, <1>9, <1>10, <1>11, <1>12 DEF Next

LEMMA OnceSentOnce == OnceInv => SentOnce
<1> SUFFICES ASSUME OnceInv, NEW t \in TabNames, Waits(t, {"replay"})
             PROVE  settled \cap ({tab[t].job.op.opId} \cup OpIds(tab[t].job.todo)) = {}
  BY DEF SentOnce
<1>1. Snapshot(t) = {tab[t].job.op.opId} \cup OpIds(tab[t].job.todo)
  BY Sends
<1>2. Snapshot(t) \cap settled = {}
  BY DEF OnceInv, ReplayedOnce
<1> QED
  BY <1>1, <1>2

(* SentOnce: under navigator.locks, what a server has answered is not sent  *)
(* once more by a tab that replays the same queue, whatever tabs, projects, *)
(* tokens, buffers of old widgets and closed tabs there are (withLock and   *)
(* flushOutbox read the queue once the lock is held), while no adoption was *)
(* cut off between its two writes.                                          *)
THEOREM SentOnlyOnce == Spec => []SentOnce
<1> DEFINE Inv == TypeOK /\ HomeInv /\ (Locks /\ count.torn = 0 => OnceInv)
<1>1. Init => Inv
  BY TypeInit, HomeInit, OnceInit
<1>2. Inv /\ [Next]_vars => Inv'
  <2> SUFFICES ASSUME Inv, [Next]_vars PROVE Inv'
    OBVIOUS
  <2>1. TypeOK' /\ HomeInv'
    BY TypeStep, AtHomeStep, PagesHomeStep DEF HomeInv
  <2>2. ASSUME Locks, count'.torn = 0 PROVE OnceInv'
    <3>1. count.torn = 0
      <4>1. count.torn \in Nat /\ count'.torn >= count.torn
        BY TornStays
      <4> QED
        BY <2>2, <4>1
    <3> QED
      BY <2>2, <3>1, OnceStep
  <2> QED
    BY <2>1, <2>2
<1>3. Inv => SentOnce
  BY OnceSentOnce DEF SentOnce
<1> QED
  BY <1>1, <1>2, <1>3, PTL DEF Spec
=============================================================================
