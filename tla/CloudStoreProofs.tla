--------------------------- MODULE CloudStoreProofs ---------------------------
(***************************************************************************)
(* Proofs about CloudStore, for any number of tabs, agents, annotations,   *)
(* gestures, imports and faults: a row is only written over by what        *)
(* continues it, an agent is told what became of its transition, and,      *)
(* when failures are thrown and users wait for their calls, a tab at rest  *)
(* shows what the table holds or has held.                                 *)
(***************************************************************************)
EXTENDS CloudStore, Induction

Ops == {"load", "add", "update", "remove", "clear", "importClear", "importSave", "restoreSave"}
Saving == {"add", "update", "importSave", "restoreSave"}
Importing == {"importClear", "importSave", "restoreSave"}

Caches == [Ids -> Records \cup {Null}]

CallRecords ==
  [ op     : Ops,
    id     : Ids \cup {Null},
    body   : Records \cup {Null},
    kept   : Caches,
    step   : {"sent", "refetch", "back"},
    result : {"none", "ok", "conflict", "error", "void"},
    copy   : Records \cup {Null},
    gone   : BOOLEAN ]

\* A call that saves has something to save, only such a call reads a row again, and a call
\* is back once it has a result.
WellFormed(call) ==
  /\ call.op \in Saving => call.id \in Ids /\ call.body # Null
  /\ call.op = "remove" => call.id \in Ids
  /\ call.step = "refetch" => call.op \in Saving
  /\ call.step = "back" <=> call.result # "none"
  /\ call.copy # Null => call.op \in Saving /\ call.step = "back"

MadeCalls == {call \in CallRecords : WellFormed(call)}

Jobs == [previous : Caches, rest : SUBSET Ids]

AgentRecords ==
  [ pc      : {"idle", "read", "write", "ok", "error", "not found", "invalid", "gave up"},
    action  : Actions \cup {Null},
    id      : Ids \cup {Null},
    event   : Nat,
    attempt : Nat,
    current : Records \cup {Null},
    again   : BOOLEAN ]

\* The copy such an agent read does not carry its transition.
ReadWithout(me) == me.pc \in {"write", "invalid", "gave up"}

TInv ==
  /\ rows \in Caches
  /\ lives \in [Ids -> Nat]
  /\ versions \subseteq Ids \X Records
  /\ cache \in [Tabs -> Caches]
  /\ calls \in [Tabs -> Seq(MadeCalls)]
  /\ importing \in [Tabs -> Jobs \cup {Null}]
  /\ agent \in [Agents -> AgentRecords]
  /\ \A a \in Agents : agent[a].pc # "idle" => agent[a].id \in Ids /\ agent[a].action \in Actions
  /\ \A a \in Agents : agent[a].pc = "write" =>
       agent[a].current # Null /\ agent[a].current.status \in Sources[agent[a].action]
  /\ \A a \in Agents : ReadWithout(agent[a]) => ~Carries(agent[a].current, agent[a].event)
  /\ made \in Nat

\* The rows of an id are told apart by their number and revision, and the row that is there
\* is the last.
VInv ==
  /\ \A id \in Ids : rows[id] # Null =>
       <<id, rows[id]>> \in versions /\ rows[id].life = lives[id] /\ rows[id].rev > 0
  /\ \A v \in versions :
       /\ 0 < v[2].life /\ v[2].life <= lives[v[1]]
       /\ rows[v[1]] # Null /\ v[2].life = lives[v[1]] => v[2].rev <= rows[v[1]].rev
  /\ \A v, w \in versions :
       v[1] = w[1] /\ v[2].life = w[2].life /\ v[2].rev = w[2].rev => v = w

-----------------------------------------------------------------------------
(* Where a copy comes from. *)

\* What copies are judged by: the rows there were, the events there are, and the agents.
Past == [versions |-> versions, made |-> made, agent |-> agent]

\* An agent's transition that is not yet written, or was refused, and was not tried before.
Open(me) == me.pc \in {"read", "write", "not found", "invalid", "gave up"} /\ ~me.again

\* A copy with a revision continues the row that had it.
Derived(id, copy, past) ==
  copy.rev = 0 \/ \E v \in past.versions :
                    /\ v[1] = id /\ v[2].life = copy.life /\ v[2].rev = copy.rev
                    /\ IsPrefix(v[2].events, copy.events)

\* In what the table holds at first and what an import reads, the history leads to the status.
OrderlyStart ==
  \A shelf \in Tables \cup {ImportFile}, id \in Ids :
    shelf[id] # Null => Explained(shelf[id].status, shelf[id].events)

\* It holds events of the past, each once, and none that an agent has yet to write or will not;
\* from an orderly start, they lead to its status.
Truthful(copy, past) ==
  /\ RecordedOnce(copy)
  /\ \A i \in DOMAIN copy.events :
       /\ copy.events[i].id <= past.made
       /\ \A a \in Agents : Open(past.agent[a]) => copy.events[i].id # past.agent[a].event
  /\ OrderlyStart => Explained(copy.status, copy.events)

Sound(id, copy, past) == Derived(id, copy, past) /\ Truthful(copy, past)

SoundCache(shown, past) == \A id \in Ids : shown[id] # Null => Sound(id, shown[id], past)

SoundCall(call, past) ==
  /\ call.body # Null => Sound(call.id, call.body, past)
  /\ call.copy # Null => Sound(call.id, call.copy, past)
  /\ SoundCache(call.kept, past)

SInv ==
  /\ \A v \in versions : Sound(v[1], v[2], Past)
  /\ \A t \in Tabs : SoundCache(cache[t], Past)
  /\ \A t \in Tabs : \A i \in DOMAIN calls[t] : SoundCall(calls[t][i], Past)
  /\ \A t \in Tabs : importing[t] # Null => SoundCache(importing[t].previous, Past)
  /\ \A a \in Agents : agent[a].current # Null => Sound(agent[a].id, agent[a].current, Past)

\* Agents' events are their own.
EInv ==
  /\ \A a \in Agents : agent[a].event <= made
  /\ \A a \in Agents : agent[a].pc # "idle" => agent[a].event > 0
  /\ \A a, b \in Agents :
       agent[a].pc # "idle" /\ agent[b].pc # "idle" /\ agent[a].event = agent[b].event => a = b

\* One import runs at a time, and its call is the tab's only one of an import.
Imported(call) == call.op \in Importing /\ ~call.gone

\* Where the records of an import, or of its undoing, are from.
Source(op, job) == IF op = "restoreSave" THEN job.previous ELSE ImportFile

JobOK(mine, job) ==
  /\ \A i, j \in DOMAIN mine : Imported(mine[i]) /\ Imported(mine[j]) => i = j /\ job # Null
  /\ \A i \in DOMAIN mine : Imported(mine[i]) => \A id \in job.rest : Source(mine[i].op, job)[id] # Null

JInv == \A t \in Tabs : JobOK(calls[t], importing[t])

IInv == TInv /\ VInv /\ SInv /\ EInv /\ JInv

-----------------------------------------------------------------------------
(* Sequences of calls. *)

LEMMA PrefixRefl ==
  ASSUME NEW S, NEW s \in Seq(S)
  PROVE  IsPrefix(s, s)
BY DEF IsPrefix

LEMMA PrefixAppend ==
  ASSUME NEW S, NEW r \in Seq(S), NEW s \in Seq(S), NEW e \in S, IsPrefix(r, s)
  PROVE  IsPrefix(r, Append(s, e))
<1>1. Len(r) <= Len(s) /\ SubSeq(r, 1, Len(r)) = SubSeq(s, 1, Len(r))
  BY DEF IsPrefix
<1>2. Len(r) <= Len(Append(s, e)) /\ SubSeq(s, 1, Len(r)) = SubSeq(Append(s, e), 1, Len(r))
  BY <1>1
<1> QED
  BY <1>1, <1>2 DEF IsPrefix

\* What is left when one call is taken out: each of the others, once.
LEMMA Remaining ==
  ASSUME NEW S, NEW s \in Seq(S), NEW i \in DOMAIN s
  PROVE  /\ RemoveAt(s, i) \in Seq(S)
         /\ Len(RemoveAt(s, i)) = Len(s) - 1
         /\ \A j \in DOMAIN RemoveAt(s, i) :
              LET k == IF j < i THEN j ELSE j + 1
              IN  k \in DOMAIN s /\ k # i /\ RemoveAt(s, i)[j] = s[k]
<1>1. /\ SubSeq(s, 1, i - 1) \in Seq(S) /\ Len(SubSeq(s, 1, i - 1)) = i - 1
      /\ \A j \in 1 .. (i - 1) : SubSeq(s, 1, i - 1)[j] = s[j]
  OBVIOUS
<1>2. /\ SubSeq(s, i + 1, Len(s)) \in Seq(S) /\ Len(SubSeq(s, i + 1, Len(s))) = Len(s) - i
      /\ \A j \in 1 .. (Len(s) - i) : SubSeq(s, i + 1, Len(s))[j] = s[i + j]
  OBVIOUS
<1> DEFINE one == SubSeq(s, 1, i - 1)
           two == SubSeq(s, i + 1, Len(s))
<1>3. RemoveAt(s, i) = one \o two
  BY DEF RemoveAt
<1>4. i \in 1 .. Len(s) /\ Len(s) \in Nat
  OBVIOUS
<1> HIDE DEF one, two
<1>5. /\ one \in Seq(S) /\ two \in Seq(S) /\ Len(one) = i - 1 /\ Len(two) = Len(s) - i
      /\ \A j \in 1 .. (i - 1) : one[j] = s[j]
      /\ \A j \in 1 .. (Len(s) - i) : two[j] = s[i + j]
  BY <1>1, <1>2 DEF one, two
<1>6. one \o two \in Seq(S) /\ Len(one \o two) = Len(s) - 1
  BY <1>4, <1>5
<1>7. ASSUME NEW j \in DOMAIN (one \o two)
      PROVE  (one \o two)[j] = s[IF j < i THEN j ELSE j + 1]
  <2>1. j \in 1 .. (Len(s) - 1)
    BY <1>4, <1>6, <1>7
  <2>2. CASE j < i
    BY <1>4, <1>5, <2>1, <2>2
  <2>3. CASE ~(j < i)
    <3>1. j - (i - 1) \in 1 .. (Len(s) - i) /\ (one \o two)[j] = two[j - (i - 1)]
      BY <1>4, <1>5, <2>1, <2>3
    <3>2. i + (j - (i - 1)) = j + 1
      BY <1>4, <2>1
    <3> QED
      BY <1>5, <2>3, <3>1, <3>2
  <2> QED
    BY <2>2, <2>3
<1> QED
  BY <1>3, <1>4, <1>6, <1>7

-----------------------------------------------------------------------------
(* Copies stay sound. *)

\* What is past stays past, and an agent that starts brings a new event.
Goes(past, later) ==
  /\ past.versions \subseteq later.versions
  /\ past.made \in Nat /\ later.made \in Nat /\ past.made <= later.made
  /\ \A a \in Agents : later.agent[a].event \in Nat
  /\ \A a \in Agents : Open(later.agent[a]) =>
       \/ Open(past.agent[a]) /\ later.agent[a].event = past.agent[a].event
       \/ later.agent[a].event > past.made

LEMMA EventsHaveNumbers ==
  ASSUME NEW copy \in Records
  PROVE  /\ copy.events \in Seq([type : EventTypes, id : Nat])
         /\ \A i \in DOMAIN copy.events : copy.events[i].id \in Nat
<1>1. copy.events \in Seq([type : EventTypes, id : Nat])
  BY DEF Records
<1> DEFINE E == [type : EventTypes, id : Nat]
<1>2. \A i \in DOMAIN copy.events : copy.events[i] \in E
  <2> HIDE DEF E
  <2>1. copy.events \in Seq(E)
    BY <1>1 DEF E
  <2> QED
    BY <2>1
<1> QED
  BY <1>1, <1>2

LEMMA GoesSound ==
  ASSUME NEW past, NEW later, Goes(past, later), NEW id, NEW copy \in Records,
         Sound(id, copy, past)
  PROVE  Sound(id, copy, later)
<1>1. Derived(id, copy, later)
  BY DEF Goes, Sound, Derived
<1>2. \A i \in DOMAIN copy.events : copy.events[i].id \in Nat
  BY EventsHaveNumbers
<1>3. Truthful(copy, later)
  BY <1>2 DEF Goes, Sound, Truthful
<1> QED
  BY <1>1, <1>3 DEF Sound

LEMMA GoesSoundCache ==
  ASSUME NEW past, NEW later, Goes(past, later), NEW shown \in Caches, SoundCache(shown, past)
  PROVE  SoundCache(shown, later)
BY GoesSound DEF SoundCache, Caches

LEMMA GoesSoundCall ==
  ASSUME NEW past, NEW later, Goes(past, later), NEW call \in MadeCalls, SoundCall(call, past)
  PROVE  SoundCall(call, later)
BY GoesSound, GoesSoundCache DEF SoundCall, MadeCalls, CallRecords

\* Everything that was sound is, once the past has gone on.
LEMMA GoesOn ==
  ASSUME TInv, SInv, NEW later, Goes(Past, later)
  PROVE  /\ \A v \in versions : Sound(v[1], v[2], later)
         /\ \A t \in Tabs : SoundCache(cache[t], later)
         /\ \A t \in Tabs : \A i \in DOMAIN calls[t] : SoundCall(calls[t][i], later)
         /\ \A t \in Tabs : importing[t] # Null => SoundCache(importing[t].previous, later)
         /\ \A a \in Agents : agent[a].current # Null => Sound(agent[a].id, agent[a].current, later)
<1>1. \A v \in versions : Sound(v[1], v[2], later)
  BY GoesSound DEF TInv, SInv
<1>2. \A t \in Tabs : SoundCache(cache[t], later)
  BY GoesSoundCache DEF TInv, SInv
<1>3. ASSUME NEW t \in Tabs, NEW i \in DOMAIN calls[t] PROVE SoundCall(calls[t][i], later)
  BY GoesSoundCall DEF TInv, SInv
<1>4. \A t \in Tabs : importing[t] # Null => SoundCache(importing[t].previous, later)
  BY GoesSoundCache DEF TInv, SInv, Jobs
<1>5. \A a \in Agents : agent[a].current # Null => Sound(agent[a].id, agent[a].current, later)
  BY GoesSound DEF TInv, SInv, AgentRecords
<1> QED
  BY <1>1, <1>2, <1>3, <1>4, <1>5

\* What an import reads is sound: it has no revisions, and only old events.
LEMMA ImportSound ==
  ASSUME IInv
  PROVE  SoundCache(ImportFile, Past)
<1> SUFFICES ASSUME NEW id \in Ids, ImportFile[id] # Null
             PROVE  Sound(id, ImportFile[id], Past)
  BY DEF SoundCache
<1>1. ImportFile[id].rev = 0 /\ \A i \in DOMAIN ImportFile[id].events : ImportFile[id].events[i].id = 0
  BY ImportsHaveNoRev, OldEvents
<1>2. \A a \in Agents : Open(agent[a]) => agent[a].event # 0
  <2> SUFFICES ASSUME NEW a \in Agents, Open(agent[a]) PROVE agent[a].event # 0
    OBVIOUS
  <2>1. agent[a].event \in Nat
    BY DEF IInv, TInv, AgentRecords
  <2>2. agent[a].event > 0
    BY DEF IInv, EInv, Open
  <2> QED
    BY <2>1, <2>2
<1>3. OrderlyStart => Explained(ImportFile[id].status, ImportFile[id].events)
  BY DEF OrderlyStart
<1>4. RecordedOnce(ImportFile[id])
  BY <1>1 DEF RecordedOnce
<1> QED
  BY <1>1, <1>2, <1>3, <1>4 DEF Sound, Derived, Truthful, Past, IInv, TInv

\* So is a copy whose revision is dropped.
LEMMA WithoutRevSound ==
  ASSUME NEW id, NEW copy \in Records, NEW past, Sound(id, copy, past)
  PROVE  Sound(id, WithoutRev(copy), past) /\ WithoutRev(copy) \in Records
BY DEF Sound, Derived, Truthful, RecordedOnce, WithoutRev, Records

-----------------------------------------------------------------------------
(* The table. *)

\* What every change of the table leaves true of it.
TableOK ==
  /\ rows' \in Caches /\ lives' \in [Ids -> Nat] /\ versions' \subseteq Ids \X Records
  /\ VInv'
  /\ versions \subseteq versions'

LEMMA TableKept ==
  ASSUME TInv, VInv, UNCHANGED table
  PROVE  TableOK
BY DEF table, TInv, VInv, TableOK

\* Rows are removed.
LEMMA RowsRemoved ==
  ASSUME TInv, VInv, UNCHANGED <<versions, lives>>, rows' \in Caches,
         \A id \in Ids : rows'[id] # Null => rows'[id] = rows[id]
  PROVE  TableOK
<1>1. ASSUME NEW v \in versions, rows'[v[1]] # Null, v[2].life = lives[v[1]]
      PROVE  v[2].rev <= rows'[v[1]].rev
  <2>1. v[1] \in Ids
    BY DEF TInv
  <2> QED
    BY <1>1, <2>1 DEF VInv
<1>2. VInv'
  BY <1>1 DEF VInv, TInv
<1> QED
  BY <1>2 DEF TInv, TableOK

\* A row is replaced by the next revision of it.
LEMMA RowReplaced ==
  ASSUME TInv, VInv, NEW id \in Ids, rows[id] # Null, NEW record \in Records,
         record.life = rows[id].life, record.rev = rows[id].rev + 1,
         Put(id, record), UNCHANGED lives
  PROVE  /\ TableOK
         /\ rows'[id] = record
         /\ \A v \in versions' : v \in versions \/ v = <<id, record>>
<1>1. /\ rows' = [rows EXCEPT ![id] = record] /\ versions' = versions \cup {<<id, record>>}
      /\ rows \in Caches /\ rows[id] \in Records /\ lives[id] \in Nat /\ record # Null
  BY NullIsNothing DEF Put, TInv, Caches
<1>2. rows' \in Caches /\ rows'[id] = record /\ versions' \subseteq Ids \X Records
  BY <1>1 DEF Caches, TInv
<1>3. rows[id].rev \in Nat /\ rows[id].life = lives[id] /\ rows[id].rev > 0
  BY <1>1 DEF VInv, Records
<1>4. \A v \in versions : v[1] \in Ids /\ v[2] \in Records /\ v[2].rev \in Nat /\ v[2].life \in Nat
  BY DEF TInv, Records
<1>5. \A v \in versions : v[1] = id /\ v[2].life = record.life => v[2].rev < record.rev
  BY <1>1, <1>3, <1>4 DEF VInv
<1>6. \A i \in Ids : rows'[i] # Null =>
        <<i, rows'[i]>> \in versions' /\ rows'[i].life = lives[i] /\ rows'[i].rev > 0
  BY <1>1, <1>3 DEF VInv, Caches
<1>7. ASSUME NEW v \in versions'
      PROVE  /\ 0 < v[2].life /\ v[2].life <= lives[v[1]]
             /\ rows'[v[1]] # Null /\ v[2].life = lives[v[1]] => v[2].rev <= rows'[v[1]].rev
  <2>1. CASE v = <<id, record>>
    <3>1. v[1] = id /\ v[2] = record
      BY <2>1
    <3>2. 0 < record.life
      BY <1>1, <1>3 DEF VInv
    <3> QED
      BY <1>1, <1>2, <1>3, <3>1, <3>2
  <2>2. CASE v \in versions /\ v[1] = id
    BY <1>1, <1>2, <1>3, <1>4, <1>5, <2>2 DEF VInv
  <2>3. CASE v \in versions /\ v[1] # id
    BY <1>1, <1>4, <2>3 DEF VInv, Caches
  <2> QED
    BY <1>1, <2>1, <2>2, <2>3
<1>8. \A v, w \in versions' :
        v[1] = w[1] /\ v[2].life = w[2].life /\ v[2].rev = w[2].rev => v = w
  <2> SUFFICES ASSUME NEW v \in versions', NEW w \in versions',
                      v[1] = w[1], v[2].life = w[2].life, v[2].rev = w[2].rev
               PROVE  v = w
    OBVIOUS
  <2>1. CASE v \in versions /\ w \in versions
    BY <2>1 DEF VInv
  <2>2. \A x \in versions : ~(x[1] = id /\ x[2].life = record.life /\ x[2].rev = record.rev)
    BY <1>1, <1>3, <1>4, <1>5
  <2> QED
    BY <1>1, <2>1, <2>2
<1> QED
  BY <1>1, <1>2, <1>6, <1>7, <1>8 DEF TableOK, VInv, TInv

\* A row is inserted where there is none.
LEMMA RowInserted ==
  ASSUME TInv, VInv, NEW id \in Ids, rows[id] = Null, NEW record \in Records,
         record.life = lives[id] + 1, record.rev > 0,
         Put(id, record), lives' = [lives EXCEPT ![id] = @ + 1]
  PROVE  /\ TableOK
         /\ rows'[id] = record
         /\ \A v \in versions' : v \in versions \/ v = <<id, record>>
<1>1. /\ rows' = [rows EXCEPT ![id] = record] /\ versions' = versions \cup {<<id, record>>}
      /\ rows \in Caches /\ lives \in [Ids -> Nat] /\ record # Null /\ record.rev \in Nat
  BY NullIsNothing DEF Put, TInv, Caches, Records
<1>2. rows' \in Caches /\ rows'[id] = record /\ versions' \subseteq Ids \X Records
  BY <1>1 DEF Caches, TInv
<1>3. /\ lives' \in [Ids -> Nat] /\ lives'[id] = lives[id] + 1
      /\ \A i \in Ids : i # id => lives'[i] = lives[i]
  BY <1>1
<1>4. \A v \in versions : v[1] \in Ids /\ v[2] \in Records /\ v[2].rev \in Nat /\ v[2].life \in Nat
  BY DEF TInv, Records
<1>5. \A v \in versions : v[1] = id => v[2].life < record.life
  BY <1>1, <1>4 DEF VInv
<1>6. \A i \in Ids : rows'[i] # Null =>
        <<i, rows'[i]>> \in versions' /\ rows'[i].life = lives'[i] /\ rows'[i].rev > 0
  BY <1>1, <1>3 DEF VInv, Caches
<1>7. ASSUME NEW v \in versions'
      PROVE  /\ 0 < v[2].life /\ v[2].life <= lives'[v[1]]
             /\ rows'[v[1]] # Null /\ v[2].life = lives'[v[1]] => v[2].rev <= rows'[v[1]].rev
  <2>1. CASE v = <<id, record>>
    <3>1. v[1] = id /\ v[2] = record
      BY <2>1
    <3> QED
      BY <1>1, <1>2, <1>3, <3>1
  <2>2. CASE v \in versions /\ v[1] = id
    BY <1>1, <1>3, <1>4, <1>5, <2>2 DEF VInv
  <2>3. CASE v \in versions /\ v[1] # id
    BY <1>1, <1>3, <1>4, <2>3 DEF VInv, Caches
  <2> QED
    BY <1>1, <2>1, <2>2, <2>3
<1>8. \A v, w \in versions' :
        v[1] = w[1] /\ v[2].life = w[2].life /\ v[2].rev = w[2].rev => v = w
  <2> SUFFICES ASSUME NEW v \in versions', NEW w \in versions',
                      v[1] = w[1], v[2].life = w[2].life, v[2].rev = w[2].rev
               PROVE  v = w
    OBVIOUS
  <2>1. CASE v \in versions /\ w \in versions
    BY <2>1 DEF VInv
  <2>2. \A x \in versions : ~(x[1] = id /\ x[2].life = record.life)
    BY <1>1, <1>4, <1>5
  <2> QED
    BY <1>1, <2>1, <2>2
<1> QED
  BY <1>1, <1>2, <1>3, <1>6, <1>7, <1>8 DEF TableOK, VInv, TInv

\* A sound copy that has the revision of the row, and was read from it, continues it.
LEMMA SameRow ==
  ASSUME TInv, VInv, NEW id \in Ids, NEW copy \in Records, Derived(id, copy, Past),
         Matches(id, copy.rev), copy.life = rows[id].life
  PROVE  IsPrefix(rows[id].events, copy.events)
<1>1. rows[id] # Null /\ rows[id].rev = copy.rev /\ copy.rev # 0 /\ <<id, rows[id]>> \in versions
  <2>1. rows[id] # Null /\ rows[id].rev = copy.rev
    BY DEF Matches
  <2>2. rows[id] \in Records /\ rows[id].rev > 0
    BY <2>1 DEF TInv, Caches, VInv
  <2> QED
    BY <2>1, <2>2 DEF VInv, Records
<1>2. PICK v \in versions : /\ v[1] = id /\ v[2].life = copy.life /\ v[2].rev = copy.rev
                            /\ IsPrefix(v[2].events, copy.events)
  BY <1>1 DEF Derived, Past
<1>3. v = <<id, rows[id]>>
  <2>1. <<id, rows[id]>>[1] = id /\ <<id, rows[id]>>[2] = rows[id]
    OBVIOUS
  <2> QED
    BY <1>1, <1>2, <2>1 DEF VInv
<1> QED
  BY <1>2, <1>3

\* A record the table holds is sound when its events are.
LEMMA VersionSound ==
  ASSUME NEW id, NEW record \in Records, NEW past, <<id, record>> \in past.versions,
         Truthful(record, past)
  PROVE  Sound(id, record, past)
<1>1. IsPrefix(record.events, record.events)
  BY EventsHaveNumbers, PrefixRefl
<1>2. <<id, record>>[1] = id /\ <<id, record>>[2] = record
  OBVIOUS
<1> QED
  BY <1>1, <1>2 DEF Sound, Derived

-----------------------------------------------------------------------------
(* Steps of a tab. *)

NewVersionsSound == \A v \in versions' : v \in versions \/ Sound(v[1], v[2], Past')

\* What a step of one tab has to show.
LEMMA TabChanges ==
  ASSUME IInv, TableOK, NewVersionsSound, made' \in {made, made + 1}, agent' = agent,
         NEW t \in Tabs, NEW shown \in Caches, NEW mine \in Seq(MadeCalls), NEW job \in Jobs \cup {Null},
         cache' = [cache EXCEPT ![t] = shown],
         calls' = [calls EXCEPT ![t] = mine],
         importing' = [importing EXCEPT ![t] = job],
         shown = cache[t] \/ SoundCache(shown, Past'),
         \A i \in DOMAIN mine :
           (\E j \in DOMAIN calls[t] : mine[i] = calls[t][j]) \/ SoundCall(mine[i], Past'),
         job = Null \/ job = importing[t] \/ SoundCache(job.previous, Past'),
         JobOK(mine, job)
  PROVE  IInv'
<1>0. TInv /\ VInv /\ SInv /\ EInv /\ JInv
  BY DEF IInv
<1>1. TInv'
  BY <1>0 DEF TInv, TableOK
<1>2. Goes(Past, Past')
  <2>1. \A a \in Agents : agent[a].event \in Nat
    BY <1>0 DEF TInv, AgentRecords
  <2> QED
    BY <1>0, <1>1, <2>1 DEF TInv, TableOK, Goes, Past
<1>3. /\ \A v \in versions : Sound(v[1], v[2], Past')
      /\ \A u \in Tabs : SoundCache(cache[u], Past')
      /\ \A u \in Tabs : \A i \in DOMAIN calls[u] : SoundCall(calls[u][i], Past')
      /\ \A u \in Tabs : importing[u] # Null => SoundCache(importing[u].previous, Past')
      /\ \A a \in Agents : agent[a].current # Null => Sound(agent[a].id, agent[a].current, Past')
  BY <1>0, <1>2, GoesOn
<1>4. /\ cache \in [Tabs -> Caches] /\ calls \in [Tabs -> Seq(MadeCalls)]
      /\ importing \in [Tabs -> Jobs \cup {Null}]
  BY <1>0 DEF TInv
<1>5. \A v \in versions' : Sound(v[1], v[2], Past')
  BY <1>3 DEF NewVersionsSound
<1>6. \A u \in Tabs : SoundCache(cache'[u], Past')
  BY <1>3, <1>4
<1>7. \A u \in Tabs : \A i \in DOMAIN calls'[u] : SoundCall(calls'[u][i], Past')
  <2> SUFFICES ASSUME NEW u \in Tabs, NEW i \in DOMAIN calls'[u] PROVE SoundCall(calls'[u][i], Past')
    OBVIOUS
  <2>1. CASE u = t
    BY <1>3, <1>4, <2>1
  <2>2. CASE u # t
    BY <1>3, <1>4, <2>2
  <2> QED
    BY <2>1, <2>2
<1>8. \A u \in Tabs : importing'[u] # Null => SoundCache(importing'[u].previous, Past')
  BY <1>3, <1>4
<1>9. SInv'
  BY <1>3, <1>5, <1>6, <1>7, <1>8 DEF SInv
<1>10. EInv'
  <2>1. \A a \in Agents : agent[a].event \in Nat /\ agent[a].event <= made /\ made \in Nat
    BY <1>0 DEF EInv, TInv, AgentRecords
  <2>2. \A a \in Agents : agent[a].event <= made'
    BY <2>1
  <2> QED
    BY <1>0, <2>2 DEF EInv
<1>11. JInv'
  BY <1>0, <1>4 DEF JInv
<1> QED
  BY <1>1, <1>9, <1>10, <1>11 DEF IInv, TableOK

LEMMA CallTyped ==
  ASSUME NEW op \in Ops, NEW id \in Ids \cup {Null}, NEW body \in Records \cup {Null}, NEW kept \in Caches,
         op \in Saving => id \in Ids /\ body # Null,
         op = "remove" => id \in Ids
  PROVE  /\ Call(op, id, body, kept) \in MadeCalls
         /\ Call(op, id, body, kept).op = op /\ Call(op, id, body, kept).id = id
         /\ Call(op, id, body, kept).body = body /\ Call(op, id, body, kept).kept = kept
         /\ Call(op, id, body, kept).step = "sent" /\ Call(op, id, body, kept).result = "none"
         /\ Call(op, id, body, kept).copy = Null /\ ~Call(op, id, body, kept).gone
BY DEF Call, MadeCalls, CallRecords, WellFormed

LEMMA CameTyped ==
  ASSUME NEW call \in MadeCalls, NEW result \in {"ok", "conflict", "error", "void"},
         NEW copy \in Records \cup {Null}, copy # Null => call.op \in Saving
  PROVE  /\ Came(call, result, copy) \in MadeCalls
         /\ Came(call, result, copy).op = call.op /\ Came(call, result, copy).id = call.id
         /\ Came(call, result, copy).body = call.body /\ Came(call, result, copy).kept = call.kept
         /\ Came(call, result, copy).step = "back" /\ Came(call, result, copy).result = result
         /\ Came(call, result, copy).copy = copy /\ Came(call, result, copy).gone = call.gone
BY DEF Came, MadeCalls, CallRecords, WellFormed

LEMMA NobodyIs == Nobody \in Caches /\ \A past : SoundCache(Nobody, past)
BY DEF Nobody, Caches, SoundCache

LEMMA LoadCallIs ==
  /\ LoadCall \in MadeCalls /\ LoadCall.op = "load" /\ ~LoadCall.gone
  /\ LoadCall.kept = Nobody /\ LoadCall.copy = Null /\ LoadCall.result = "none"
  /\ \A past : SoundCall(LoadCall, past)
<1>1. "load" \in Ops /\ "load" \notin Saving
  BY DEF Ops, Saving
<1>2. /\ LoadCall \in MadeCalls /\ LoadCall.op = "load" /\ ~LoadCall.gone
      /\ LoadCall.kept = Nobody /\ LoadCall.copy = Null /\ LoadCall.body = Null
      /\ LoadCall.result = "none"
  BY <1>1, CallTyped, NobodyIs DEF LoadCall
<1> QED
  BY <1>2, NobodyIs DEF SoundCall

\* One more call.
LEMMA OneMore ==
  ASSUME NEW s \in Seq(MadeCalls), NEW call \in MadeCalls
  PROVE  /\ Append(s, call) \in Seq(MadeCalls)
         /\ DOMAIN Append(s, call) = DOMAIN s \cup {Len(s) + 1} /\ Len(s) + 1 \notin DOMAIN s
         /\ Append(s, call)[Len(s) + 1] = call
         /\ \A i \in DOMAIN s : Append(s, call)[i] = s[i]
OBVIOUS

LEMMA OneMoreJob ==
  ASSUME NEW s \in Seq(MadeCalls), NEW call \in MadeCalls, NEW job, JobOK(s, job), ~Imported(call)
  PROVE  JobOK(Append(s, call), job)
BY OneMore DEF JobOK

LEMMA GestureIInv ==
  ASSUME IInv, NEW t \in Tabs, NEW shown \in Caches, NEW call \in MadeCalls,
         Gesture(t, shown, call), SoundCache(shown, Past'), SoundCall(call, Past'), ~Imported(call)
  PROVE  IInv'
<1>1. /\ cache' = [cache EXCEPT ![t] = shown] /\ calls' = [calls EXCEPT ![t] = Append(calls[t], call)]
      /\ importing' = importing /\ agent' = agent /\ made' = made + 1 /\ UNCHANGED table
  BY DEF Gesture
<1>2. TableOK /\ NewVersionsSound
  BY <1>1, TableKept DEF IInv, table, NewVersionsSound
<1>3. calls[t] \in Seq(MadeCalls) /\ importing \in [Tabs -> Jobs \cup {Null}] /\ JobOK(calls[t], importing[t])
  BY DEF IInv, TInv, JInv
<1> DEFINE mine == Append(calls[t], call)
<1>4. /\ mine \in Seq(MadeCalls) /\ JobOK(mine, importing[t])
      /\ \A i \in DOMAIN mine : (\E j \in DOMAIN calls[t] : mine[i] = calls[t][j]) \/ SoundCall(mine[i], Past')
  BY <1>3, OneMore, OneMoreJob
<1>5. importing' = [importing EXCEPT ![t] = importing[t]] /\ importing[t] \in Jobs \cup {Null}
  BY <1>1, <1>3
<1>6. calls' = [calls EXCEPT ![t] = mine]
  BY <1>1
<1> HIDE DEF mine
<1> QED
  BY <1>1, <1>2, <1>4, <1>5, <1>6, TabChanges, ZenonT(30)

\* One more event, which is of the past and no agent's to write.
LEMMA Continued ==
  ASSUME NEW id, NEW copy \in Records, NEW past, past.versions \subseteq Ids \X Records,
         Sound(id, copy, past), NEW action \in Actions, copy.status \in Sources[action],
         NEW number, number \in Nat, number <= past.made,
         \A a \in Agents : Open(past.agent[a]) => number # past.agent[a].event,
         ~Carries(copy, number), NEW longer,
         longer = [copy EXCEPT !.status = Target[action],
                               !.events = Append(@, [type |-> EventOf[action], id |-> number])]
  PROVE  longer \in Records /\ Sound(id, longer, past)
<1> DEFINE status == Target[action]
           type == EventOf[action]
           e == [type |-> type, id |-> number]
           E == [type : EventTypes, id : Nat]
<1>6. status \in Statuses /\ type \in EventTypes
  BY DEF Target, EventOf, Actions, Statuses, EventTypes, TransitionEvents
<1> HIDE DEF status, type
<1>1. /\ copy.events \in Seq(E) /\ e \in E /\ e.id = number
      /\ longer = [copy EXCEPT !.status = status, !.events = Append(copy.events, e)]
      /\ e.type = type
  BY <1>6, EventsHaveNumbers DEF status, type
<1>2. longer \in Records /\ longer.status = status /\ longer.events = Append(copy.events, e) /\ longer.rev = copy.rev /\ longer.life = copy.life
  <2> HIDE DEF e
  <2>1. Append(copy.events, e) \in Seq(E)
    BY <1>1
  <2> QED
    BY <1>1, <1>6, <2>1 DEF Records
<1> HIDE DEF e, E
<1>7. OrderlyStart => Explained(longer.status, longer.events)
  <2>1. OrderlyStart => Explained(copy.status, copy.events)
    BY DEF Sound, Truthful
  <2>2. Explained(copy.status, copy.events) => Explained(Target[action], Append(copy.events, e))
    BY <1>1, MoveExplained DEF type
  <2> QED
    BY <1>2, <2>1, <2>2 DEF status
<1>3. Truthful(longer, past)
  <2>1. /\ DOMAIN longer.events = DOMAIN copy.events \cup {Len(copy.events) + 1}
        /\ longer.events[Len(copy.events) + 1] = e
        /\ \A i \in DOMAIN copy.events : longer.events[i] = copy.events[i]
    BY <1>1, <1>2
  <2>2. RecordedOnce(longer)
    <3>1. RecordedOnce(copy) /\ \A i \in DOMAIN copy.events : copy.events[i].id # number
      BY DEF Sound, Truthful, Carries
    <3> QED
      BY <1>1, <2>1, <3>1 DEF RecordedOnce
  <2> QED
    BY <1>1, <1>7, <2>1, <2>2 DEF Sound, Truthful
<1>4. ASSUME NEW v \in past.versions, IsPrefix(v[2].events, copy.events)
      PROVE  IsPrefix(v[2].events, longer.events)
  <2>1. v[2].events \in Seq(E)
    BY EventsHaveNumbers DEF E
  <2> QED
    BY <1>1, <1>2, <1>4, <2>1, PrefixAppend
<1>5. Derived(id, longer, past)
  BY <1>2, <1>4 DEF Sound, Derived
<1> QED
  BY <1>2, <1>3, <1>5 DEF Sound

\* A gesture's event is new.
LEMMA PastOfGesture ==
  ASSUME IInv, made' = made + 1, agent' = agent, UNCHANGED table
  PROVE  /\ Past'.made = made + 1 /\ Past'.agent = agent /\ Past'.versions = versions
         /\ versions \subseteq Ids \X Records
         /\ \A a \in Agents : made + 1 # agent[a].event
         /\ Goes(Past, Past')
<1>1. Past'.made = made + 1 /\ Past'.agent = agent /\ Past'.versions = versions
  BY DEF Past, table
<1>2. \A a \in Agents : agent[a].event \in Nat /\ agent[a].event <= made /\ made \in Nat
  BY DEF IInv, TInv, EInv, AgentRecords
<1>3. made \in Nat /\ versions \subseteq Ids \X Records
  BY DEF IInv, TInv
<1>4. Past.made = made /\ Past.agent = agent /\ Past.versions = versions
  BY DEF Past
<1>5. Goes(Past, Past')
  BY <1>1, <1>2, <1>3, <1>4 DEF Goes
<1> QED
  BY <1>1, <1>2, <1>3, <1>5

LEMMA AddsIInv ==
  ASSUME IInv, NEW t \in Tabs, Adds(t)
  PROVE  IInv'
<1>1. PICK id \in Ids :
        Gesture(t, [cache[t] EXCEPT ![id] = Created], Call("add", id, Created, Nobody))
  BY DEF Adds
<1>2. made' = made + 1 /\ agent' = agent /\ UNCHANGED table
  BY <1>1 DEF Gesture
<1> DEFINE e == Event("created")
           E == [type : EventTypes, id : Nat]
<1>3. made \in Nat /\ cache[t] \in Caches /\ SoundCache(cache[t], Past)
  BY DEF IInv, TInv, SInv
<1>4. e \in E /\ e.id = made + 1 /\ e.type = "created"
  BY <1>3 DEF Event, EventTypes
<1>5. /\ Created.status = "pending"
      /\ Created = [status |-> "pending", events |-> <<e>>, rev |-> 0, life |-> 0, read |-> 0]
      /\ Created.events = <<e>> /\ Created.rev = 0
  BY DEF Created
<1> HIDE DEF e
<1>6. <<e>> \in Seq(E) /\ \A i \in DOMAIN <<e>> : <<e>>[i] = e
  BY <1>4
<1>7. Created \in Records /\ Created # Null
  <2> HIDE DEF E
  <2>1. Created \in [status : Statuses, events : Seq(E), rev : Nat, life : Nat, read : Nat]
    BY <1>5, <1>6 DEF Statuses
  <2> QED
    BY <2>1, NullIsNothing DEF Records, E
<1> HIDE DEF E
<1>8. Sound(id, Created, Past')
  <2>1. made + 1 \in Nat /\ \A a \in Agents : made + 1 # agent[a].event
    BY <1>2, <1>3, PastOfGesture
  <2>2. Past'.made = made + 1 /\ Past'.agent = agent
    BY <1>2, PastOfGesture
  <2>3. \A i \in DOMAIN Created.events : Created.events[i].id = made + 1
    BY <1>4, <1>5, <1>6
  <2>4. Explained(Created.status, Created.events)
    BY <1>4, <1>5, CreatedExplained
  <2>5. RecordedOnce(Created)
    <3>1. \A i, j \in DOMAIN Created.events : i = j
      BY <1>5
    <3> QED
      BY <3>1 DEF RecordedOnce
  <2> QED
    BY <1>5, <2>1, <2>2, <2>3, <2>4, <2>5 DEF Sound, Derived, Truthful
<1>9. SoundCache(cache[t], Past')
  BY <1>2, <1>3, PastOfGesture, GoesSoundCache
<1> DEFINE shown == [cache[t] EXCEPT ![id] = Created]
           call == Call("add", id, Created, Nobody)
<1>10. shown \in Caches /\ SoundCache(shown, Past')
  BY <1>3, <1>7, <1>8, <1>9 DEF Caches, SoundCache
<1>11. /\ call \in MadeCalls /\ call.op = "add" /\ call.id = id /\ call.body = Created
       /\ call.kept = Nobody /\ call.copy = Null
  BY <1>7, CallTyped, NobodyIs DEF Ops, Saving
<1>12. SoundCall(call, Past') /\ ~Imported(call)
  BY <1>8, <1>11, NobodyIs DEF SoundCall, Imported, Importing
<1> HIDE DEF shown, call
<1> QED
  BY <1>1, <1>10, <1>11, <1>12, GestureIInv DEF shown, call

LEMMA UpdatesIInv ==
  ASSUME IInv, NEW t \in Tabs, Updates(t)
  PROVE  IInv'
<1>1. PICK id \in Ids, action \in TabMoves :
        /\ cache[t][id] # Null /\ cache[t][id].status \in Sources[action]
        /\ Gesture(t, [cache[t] EXCEPT ![id] = Moved(cache[t][id], action)],
                   Call("update", id, Moved(cache[t][id], action), [Nobody EXCEPT ![id] = cache[t][id]]))
  BY DEF Updates
<1> DEFINE before == cache[t][id]
           moved == Moved(before, action)
           shown == [cache[t] EXCEPT ![id] = moved]
           kept == [Nobody EXCEPT ![id] = before]
           call == Call("update", id, moved, kept)
<1>2. made' = made + 1 /\ agent' = agent /\ UNCHANGED table
  BY <1>1 DEF Gesture
<1>3. made \in Nat /\ cache[t] \in Caches /\ SoundCache(cache[t], Past)
  BY DEF IInv, TInv, SInv
<1>4. SoundCache(cache[t], Past')
  BY <1>2, <1>3, PastOfGesture, GoesSoundCache
<1>5. before \in Records /\ Sound(id, before, Past')
  BY <1>1, <1>3, <1>4 DEF Caches, SoundCache
<1>6. moved \in Records /\ Sound(id, moved, Past')
  <2>1. action \in Actions /\ before.status \in Sources[action]
    BY <1>1, MovesAreActions
  <2>2. moved = [before EXCEPT !.status = Target[action],
                               !.events = Append(@, [type |-> EventOf[action], id |-> made + 1])]
    BY DEF Moved, Event
  <2>3. /\ made + 1 \in Nat /\ made + 1 <= Past'.made
        /\ \A a \in Agents : Open(Past'.agent[a]) => made + 1 # Past'.agent[a].event
        /\ Past'.versions \subseteq Ids \X Records
    BY <1>2, <1>3, PastOfGesture
  <2>4. ~Carries(before, made + 1)
    <3>1. Sound(id, before, Past)
      BY <1>1, <1>3 DEF SoundCache
    <3> HIDE DEF before
    <3>2. \A i \in DOMAIN before.events : before.events[i].id <= made /\ before.events[i].id \in Nat
      BY <1>5, <3>1, EventsHaveNumbers DEF Sound, Truthful, Past
    <3> QED
      BY <1>3, <3>2 DEF Carries
  <2> HIDE DEF moved, before
  <2> QED
    BY <1>5, <2>1, <2>2, <2>3, <2>4, Continued
<1> HIDE DEF moved, before
<1>7. shown \in Caches /\ SoundCache(shown, Past')
  BY <1>3, <1>4, <1>6 DEF Caches, SoundCache
<1>8. kept \in Caches /\ SoundCache(kept, Past')
  BY <1>5 DEF Nobody, Caches, SoundCache
<1> HIDE DEF kept
<1>9. /\ call \in MadeCalls /\ call.op = "update" /\ call.id = id /\ call.body = moved
      /\ call.kept = kept /\ call.copy = Null
  BY <1>6, <1>8, NullIsNothing, CallTyped DEF Ops, Saving
<1>10. SoundCall(call, Past') /\ ~Imported(call)
  BY <1>6, <1>8, <1>9 DEF SoundCall, Imported, Importing
<1>11. Gesture(t, shown, call)
  BY <1>1 DEF before, moved, kept
<1> HIDE DEF shown, call
<1> QED
  BY <1>7, <1>9, <1>10, <1>11, GestureIInv

\* Removing one or all of them.
LEMMA RemovesIInv ==
  ASSUME IInv, NEW t \in Tabs, Removes(t) \/ Clears(t)
  PROVE  IInv'
<1>1. PICK shown, op, id :
        /\ Gesture(t, shown, Call(op, id, Null, cache[t]))
        /\ \/ op = "remove" /\ id \in Ids /\ shown = [cache[t] EXCEPT ![id] = Null]
           \/ op = "clear" /\ id = Null /\ shown = Nobody
  BY DEF Removes, Clears
<1> DEFINE call == Call(op, id, Null, cache[t])
<1>2. made' = made + 1 /\ agent' = agent /\ UNCHANGED table
  BY <1>1 DEF Gesture
<1>3. cache[t] \in Caches /\ SoundCache(cache[t], Past')
  <2>1. cache[t] \in Caches /\ SoundCache(cache[t], Past)
    BY DEF IInv, TInv, SInv
  <2> QED
    BY <1>2, <2>1, PastOfGesture, GoesSoundCache
<1>4. shown \in Caches /\ SoundCache(shown, Past')
  <2>1. CASE shown = Nobody
    BY <2>1, NobodyIs
  <2>2. CASE shown = [cache[t] EXCEPT ![id] = Null]
    BY <1>3, <2>2 DEF Caches, SoundCache
  <2> QED
    BY <1>1, <2>1, <2>2
<1>5. /\ call \in MadeCalls /\ call.op = op /\ call.body = Null /\ call.kept = cache[t] /\ call.copy = Null
  <2>1. op \in Ops /\ op \notin Saving /\ id \in Ids \cup {Null} /\ (op = "remove" => id \in Ids)
    BY <1>1 DEF Ops, Saving
  <2> QED
    BY <1>3, <2>1, CallTyped
<1>6. SoundCall(call, Past') /\ ~Imported(call)
  BY <1>1, <1>3, <1>5 DEF SoundCall, Imported, Importing
<1> HIDE DEF call
<1> QED
  BY <1>1, <1>4, <1>5, <1>6, GestureIInv DEF call

LEMMA ImportsIInv ==
  ASSUME IInv, NEW t \in Tabs, Imports(t)
  PROVE  IInv'
<1> DEFINE call == Call("importClear", Null, Null, Nobody)
           job == [previous |-> cache[t], rest |-> {id \in Ids : ImportFile[id] # Null}]
           mine == Append(calls[t], call)
<1>1. /\ importing[t] = Null /\ made' = made /\ agent' = agent /\ UNCHANGED table
      /\ cache' = [cache EXCEPT ![t] = ImportFile]
      /\ importing' = [importing EXCEPT ![t] = job]
      /\ calls' = [calls EXCEPT ![t] = mine]
  BY DEF Imports
<1>2. TableOK /\ NewVersionsSound /\ Past' = Past
  BY <1>1, TableKept DEF IInv, table, NewVersionsSound, Past
<1>3. ImportFile \in Caches /\ SoundCache(ImportFile, Past')
  BY <1>2, ImportSound, ImportsHaveNoRev DEF Caches
<1>4. /\ calls[t] \in Seq(MadeCalls) /\ cache[t] \in Caches /\ SoundCache(cache[t], Past')
      /\ JobOK(calls[t], Null)
  BY <1>1, <1>2 DEF IInv, TInv, SInv, JInv
<1>5. /\ call \in MadeCalls /\ call.op = "importClear" /\ call.body = Null
      /\ call.kept = Nobody /\ call.copy = Null
  BY CallTyped, NobodyIs DEF Ops, Saving
<1>6. job \in Jobs /\ job # Null /\ job.previous = cache[t]
  BY <1>4, NullIsNoJob DEF Jobs, Caches
<1>7. /\ SoundCall(call, Past') /\ Source(call.op, job) = ImportFile
      /\ \A id \in job.rest : ImportFile[id] # Null
  BY <1>5, NobodyIs DEF SoundCall, Source
<1> HIDE DEF call, job
<1>8. /\ mine \in Seq(MadeCalls) /\ JobOK(mine, job)
      /\ \A i \in DOMAIN mine : (\E j \in DOMAIN calls[t] : mine[i] = calls[t][j]) \/ SoundCall(mine[i], Past')
  BY <1>4, <1>5, <1>6, <1>7, OneMore DEF JobOK
<1> HIDE DEF mine
<1> QED
  BY <1>1, <1>2, <1>3, <1>4, <1>6, <1>8, TabChanges

\* Every call of a page that is left is gone.
LEMMA LeftBehind ==
  ASSUME NEW s \in Seq(MadeCalls), NEW left,
         left = [i \in DOMAIN s |-> [s[i] EXCEPT !.gone = TRUE]]
  PROVE  /\ left \in Seq(MadeCalls) /\ Len(left) = Len(s) /\ DOMAIN left = DOMAIN s
         /\ \A i \in DOMAIN s : /\ left[i] = [s[i] EXCEPT !.gone = TRUE] /\ left[i] \in MadeCalls
                                /\ left[i].gone
                                /\ \A past : SoundCall(s[i], past) => SoundCall(left[i], past)
<1>1. \A i \in DOMAIN s : s[i] \in MadeCalls
  OBVIOUS
<1>2. ASSUME NEW i \in DOMAIN s
      PROVE  /\ left[i] = [s[i] EXCEPT !.gone = TRUE] /\ left[i] \in MadeCalls /\ left[i].gone
             /\ \A past : SoundCall(s[i], past) => SoundCall(left[i], past)
  <2>1. left[i] = [s[i] EXCEPT !.gone = TRUE] /\ s[i] \in MadeCalls
    BY <1>1
  <2>2. left[i] \in MadeCalls /\ left[i].gone
    BY <2>1 DEF MadeCalls, CallRecords, WellFormed
  <2>3. left[i].body = s[i].body /\ left[i].id = s[i].id /\ left[i].copy = s[i].copy /\ left[i].kept = s[i].kept
    BY <2>1 DEF MadeCalls, CallRecords
  <2> QED
    BY <2>1, <2>2, <2>3 DEF SoundCall
<1>3. DOMAIN s = 1 .. Len(s) /\ Len(s) \in Nat
  OBVIOUS
<1>4. left \in [1 .. Len(s) -> MadeCalls]
  BY <1>2, <1>3
<1> QED
  BY <1>2, <1>3, <1>4

LEMMA ReloadIInv ==
  ASSUME IInv, NEW t \in Tabs, Reload(t)
  PROVE  IInv'
<1> DEFINE left == [i \in DOMAIN calls[t] |-> [calls[t][i] EXCEPT !.gone = TRUE]]
           mine == Append(left, LoadCall)
<1>1. /\ cache' = [cache EXCEPT ![t] = Nobody] /\ importing' = [importing EXCEPT ![t] = Null]
      /\ calls' = [calls EXCEPT ![t] = mine]
      /\ made' = made /\ agent' = agent /\ UNCHANGED table
  BY DEF Reload
<1>2. TableOK /\ NewVersionsSound /\ Past' = Past
  BY <1>1, TableKept DEF IInv, table, NewVersionsSound, Past
<1>3. calls[t] \in Seq(MadeCalls) /\ \A i \in DOMAIN calls[t] : SoundCall(calls[t][i], Past')
  BY <1>2 DEF IInv, TInv, SInv
<1>4. /\ left \in Seq(MadeCalls) /\ DOMAIN left = DOMAIN calls[t]
      /\ \A i \in DOMAIN left : left[i].gone /\ SoundCall(left[i], Past')
  BY <1>3, LeftBehind
<1> HIDE DEF left
<1>5. /\ mine \in Seq(MadeCalls)
      /\ \A i \in DOMAIN mine : SoundCall(mine[i], Past') /\ ~Imported(mine[i])
  BY <1>4, OneMore, LoadCallIs DEF Imported, Importing
<1> HIDE DEF mine
<1>6. JobOK(mine, Null)
  BY <1>5 DEF JobOK
<1> QED
  BY <1>1, <1>2, <1>5, <1>6, NobodyIs, TabChanges

\* A call of a tab is answered, or goes on to be.
LEMMA AnsweredIInv ==
  ASSUME IInv, NEW t \in Tabs, NEW i \in DOMAIN calls[t], NEW call \in MadeCalls,
         Answered(t, i, call), TableOK, NewVersionsSound, SoundCall(call, Past'),
         call.op = calls[t][i].op, call.gone = calls[t][i].gone
  PROVE  IInv'
<1> DEFINE mine == [calls[t] EXCEPT ![i] = call]
<1>1. /\ cache' = cache /\ importing' = importing /\ agent' = agent /\ made' = made
      /\ calls' = [calls EXCEPT ![t] = mine]
  BY DEF Answered
<1>2. /\ calls[t] \in Seq(MadeCalls) /\ JobOK(calls[t], importing[t])
      /\ importing \in [Tabs -> Jobs \cup {Null}] /\ cache \in [Tabs -> Caches]
  BY DEF IInv, TInv, JInv
<1>3. /\ mine \in Seq(MadeCalls) /\ DOMAIN mine = DOMAIN calls[t] /\ mine[i] = call
      /\ \A j \in DOMAIN calls[t] : j # i => mine[j] = calls[t][j]
  BY <1>2
<1> HIDE DEF mine
<1>4. JobOK(mine, importing[t])
  BY <1>2, <1>3 DEF JobOK, Imported
<1> DEFINE shown == cache[t]
           job == importing[t]
<1>5. /\ cache' = [cache EXCEPT ![t] = shown] /\ shown \in Caches
      /\ importing' = [importing EXCEPT ![t] = job] /\ job \in Jobs \cup {Null}
  BY <1>1, <1>2
<1>6. /\ shown = cache[t] \/ SoundCache(shown, Past')
      /\ job = Null \/ job = importing[t] \/ SoundCache(job.previous, Past')
      /\ JobOK(mine, job)
  BY <1>4
<1>7. \A j \in DOMAIN mine :
        (\E k \in DOMAIN calls[t] : mine[j] = calls[t][k]) \/ SoundCall(mine[j], Past')
  BY <1>3
<1>8. made' \in {made, made + 1}
  BY <1>1
<1> HIDE DEF shown, job
<1> QED
  BY <1>1, <1>3, <1>5, <1>6, <1>7, <1>8, TabChanges

\* Rewritten and Inserted, field by field.
WithNumbers(body, rev, life, read) == [body EXCEPT !.rev = rev, !.life = life, !.read = read]

LEMMA Renumbered ==
  ASSUME NEW body \in Records, NEW rev, NEW life, NEW read, rev \in Nat, life \in Nat, read \in Nat,
         NEW record, record = WithNumbers(body, rev, life, read)
  PROVE  /\ record \in Records /\ record.rev = rev /\ record.life = life /\ record.read = read
         /\ record.events = body.events /\ record.status = body.status
<1> DEFINE E == Seq([type : EventTypes, id : Nat])
<1>1. body \in [status : Statuses, events : E, rev : Nat, life : Nat, read : Nat]
  BY DEF Records
<1> HIDE DEF E
<1>2. /\ record \in [status : Statuses, events : E, rev : Nat, life : Nat, read : Nat]
      /\ record.rev = rev /\ record.life = life /\ record.read = read
      /\ record.events = body.events /\ record.status = body.status
  BY <1>1 DEF WithNumbers
<1> QED
  BY <1>2 DEF Records, E

LEMMA CallIs ==
  ASSUME IInv, NEW t \in Tabs, NEW i \in DOMAIN calls[t]
  PROVE  /\ calls[t][i] \in MadeCalls /\ calls[t] \in Seq(MadeCalls) /\ SoundCall(calls[t][i], Past)
         /\ calls[t][i] \in CallRecords /\ WellFormed(calls[t][i])
BY DEF IInv, TInv, SInv, MadeCalls

\* The past goes on, or stays, when no gesture is made.
LEMMA PastGoes ==
  ASSUME IInv, versions \subseteq versions', made' = made, agent' = agent
  PROVE  Goes(Past, Past') /\ Past'.made = made /\ Past'.agent = agent /\ Past'.versions = versions'
<1>1. /\ Past'.made = made /\ Past'.agent = agent /\ Past'.versions = versions'
      /\ Past.made = made /\ Past.agent = agent /\ Past.versions = versions
  BY DEF Past
<1>2. \A a \in Agents : agent[a].event \in Nat
  BY DEF IInv, TInv, AgentRecords
<1>3. made \in Nat
  BY DEF IInv, TInv
<1> QED
  BY <1>1, <1>2, <1>3 DEF Goes

\* A sound body that has the row's revision writes over it.
LEMMA Overwritten ==
  ASSUME IInv, NEW id \in Ids, NEW body \in Records, Matches(id, body.rev),
         Put(id, Rewritten(id, body)), UNCHANGED lives, Truthful(body, Past')
  PROVE  TableOK /\ NewVersionsSound /\ rows'[id] \in Records /\ Sound(id, rows'[id], Past')
<1> DEFINE record == Rewritten(id, body)
<1>1. rows[id] # Null /\ rows[id].rev = body.rev /\ rows[id] \in Records
  BY DEF Matches, IInv, TInv, Caches
<1>2. /\ record \in Records /\ record.life = rows[id].life /\ record.rev = rows[id].rev + 1
      /\ record.events = body.events /\ record.status = body.status
  <2> DEFINE rev == body.rev + 1
             life == rows[id].life
             read == body.life
  <2>1. rev \in Nat /\ life \in Nat /\ read \in Nat
    BY <1>1 DEF Records
  <2>2. record = WithNumbers(body, rev, life, read)
    BY DEF Rewritten, WithNumbers
  <2>3. rev = rows[id].rev + 1 /\ life = rows[id].life
    BY <1>1
  <2> HIDE DEF record, rev, life, read
  <2>4. /\ record \in Records /\ record.life = life /\ record.rev = rev
        /\ record.events = body.events /\ record.status = body.status
    BY <2>1, <2>2, Renumbered
  <2> QED
    BY <2>3, <2>4
<1>3. Put(id, record)
  OBVIOUS
<1> HIDE DEF record
<1>4. /\ TableOK /\ rows'[id] = record
      /\ \A v \in versions' : v \in versions \/ v = <<id, record>>
  BY <1>1, <1>2, <1>3, RowReplaced DEF IInv
<1>5. <<id, record>> \in Past'.versions
  BY <1>3 DEF Put, Past
<1>6. Truthful(record, Past')
  BY <1>2 DEF Truthful, RecordedOnce
<1>7. Sound(id, record, Past')
  BY <1>2, <1>5, <1>6, VersionSound
<1>8. NewVersionsSound
  <2>1. <<id, record>>[1] = id /\ <<id, record>>[2] = record
    OBVIOUS
  <2> QED
    BY <1>4, <1>7, <2>1 DEF NewVersionsSound
<1> QED
  BY <1>2, <1>4, <1>7, <1>8

LEMMA ExecuteIInv ==
  ASSUME IInv, NEW t \in Tabs, NEW i \in DOMAIN calls[t], Execute(t, i)
  PROVE  IInv'
<1> DEFINE call == calls[t][i]
           id == call.id
<1>0. /\ call \in MadeCalls /\ call \in CallRecords /\ WellFormed(call) /\ SoundCall(call, Past)
      /\ call.step = "sent"
  BY CallIs DEF Execute
<1>00. call.result = "none" /\ call.copy = Null
  BY <1>0 DEF WellFormed
<1>1. CASE /\ call.op = "load" /\ UNCHANGED table
           /\ Answered(t, i, [Came(call, "ok", Null) EXCEPT !.kept = rows])
  <2> DEFINE came == Came(call, "ok", Null)
             new == [came EXCEPT !.kept = rows]
  <2>1. made' = made /\ agent' = agent /\ TableOK /\ NewVersionsSound /\ Past' = Past
    BY <1>1, TableKept DEF Answered, IInv, NewVersionsSound, table, Past
  <2>2. rows \in Caches /\ SoundCache(rows, Past')
    <3>1. \A j \in Ids : rows[j] # Null => <<j, rows[j]>> \in versions
      BY DEF IInv, VInv
    <3>2. \A v \in versions : Sound(v[1], v[2], Past)
      BY DEF IInv, SInv
    <3>3. \A j \in Ids : <<j, rows[j]>>[1] = j /\ <<j, rows[j]>>[2] = rows[j]
      OBVIOUS
    <3>4. \A j \in Ids : rows[j] # Null => Sound(j, rows[j], Past)
      BY <3>1, <3>2, <3>3
    <3> QED
      BY <2>1, <3>4 DEF SoundCache, IInv, TInv
  <2>3. /\ came \in MadeCalls /\ came.op = "load" /\ came.body = call.body /\ came.copy = Null
        /\ came.id = call.id /\ came.gone = call.gone
    BY <1>0, <1>1, CameTyped
  <2> HIDE DEF came
  <2>4. /\ new \in MadeCalls /\ new.op = call.op /\ new.gone = call.gone /\ new.body = call.body
        /\ new.id = call.id /\ new.copy = Null /\ new.kept = rows
    BY <1>1, <2>2, <2>3 DEF MadeCalls, CallRecords, WellFormed
  <2>5. SoundCall(new, Past')
    BY <1>0, <2>1, <2>2, <2>4 DEF SoundCall
  <2>6. Answered(t, i, new)
    BY <1>1 DEF came
  <2> HIDE DEF new
  <2> QED
    BY <2>1, <2>4, <2>5, <2>6, AnsweredIInv
<1>2. CASE /\ call.op \in {"remove", "clear", "importClear"} /\ UNCHANGED <<versions, lives>>
           /\ rows' = [rows EXCEPT ![id] = Null] \/ rows' = Nobody
           /\ Answered(t, i, Came(call, "ok", Null))
  <2> DEFINE new == Came(call, "ok", Null)
  <2>1. /\ rows' \in Caches
        /\ \A j \in Ids : rows'[j] # Null => rows'[j] = rows[j]
    BY <1>2 DEF IInv, TInv, Caches, Nobody
  <2>2. made' = made /\ agent' = agent /\ TableOK /\ NewVersionsSound /\ Past' = Past
    BY <1>2, <2>1, RowsRemoved DEF Answered, IInv, NewVersionsSound, Past
  <2>3. /\ new \in MadeCalls /\ new.op = call.op /\ new.gone = call.gone /\ new.body = call.body
        /\ new.id = call.id /\ new.copy = Null /\ new.kept = call.kept
    BY <1>0, CameTyped
  <2> HIDE DEF new
  <2>4. SoundCall(new, Past')
    BY <1>0, <2>2, <2>3 DEF SoundCall
  <2> QED
    BY <1>2, <2>2, <2>3, <2>4, AnsweredIInv DEF new
<1>3. CASE /\ call.op \in Saving /\ call.body.rev > 0 /\ Matches(id, call.body.rev)
           /\ Put(id, Rewritten(id, call.body)) /\ UNCHANGED lives
           /\ Answered(t, i, Came(call, "ok", rows'[id]))
  <2> DEFINE new == Came(call, "ok", rows'[id])
  <2>1. made' = made /\ agent' = agent /\ versions \subseteq versions'
    BY <1>3 DEF Answered, Put
  <2>2. Goes(Past, Past')
    BY <2>1, PastGoes
  <2>3. call.body \in Records /\ id \in Ids /\ Sound(id, call.body, Past') /\ SoundCall(call, Past')
    <3>1. call.body \in Records /\ id \in Ids
      BY <1>0, <1>3 DEF WellFormed, CallRecords
    <3>2. SoundCall(call, Past')
      BY <1>0, <2>2, GoesSoundCall
    <3> QED
      BY <3>1, <3>2, NullIsNothing DEF SoundCall
  <2>4. TableOK /\ NewVersionsSound /\ rows'[id] \in Records /\ Sound(id, rows'[id], Past')
    BY <1>3, <2>3, Overwritten DEF Sound
  <2>5. /\ new \in MadeCalls /\ new.op = call.op /\ new.gone = call.gone /\ new.body = call.body
        /\ new.id = call.id /\ new.copy = rows'[id] /\ new.kept = call.kept
    BY <1>0, <1>3, <2>4, CameTyped
  <2> HIDE DEF new
  <2>6. SoundCall(new, Past')
    BY <2>3, <2>4, <2>5 DEF SoundCall
  <2> QED
    BY <1>3, <2>1, <2>4, <2>5, <2>6, AnsweredIInv DEF new
<1>4. CASE /\ call.op \in Saving /\ call.body.rev = 0 /\ rows[id] = Null
           /\ Put(id, Inserted(id, call.body)) /\ lives' = [lives EXCEPT ![id] = @ + 1]
           /\ Answered(t, i, Came(call, "ok", rows'[id]))
  <2> DEFINE new == Came(call, "ok", rows'[id])
             record == Inserted(id, call.body)
  <2>1. made' = made /\ agent' = agent /\ versions \subseteq versions'
    BY <1>4 DEF Answered, Put
  <2>2. Goes(Past, Past')
    BY <2>1, PastGoes
  <2>3. call.body \in Records /\ id \in Ids /\ Sound(id, call.body, Past') /\ SoundCall(call, Past')
    <3>1. call.body \in Records /\ id \in Ids
      BY <1>0, <1>4 DEF WellFormed, CallRecords
    <3>2. SoundCall(call, Past')
      BY <1>0, <2>2, GoesSoundCall
    <3> QED
      BY <3>1, <3>2, NullIsNothing DEF SoundCall
  <2>4. /\ record \in Records /\ record.life = lives[id] + 1 /\ record.rev = 1
        /\ record.events = call.body.events /\ record.status = call.body.status
    <3>1. lives[id] \in Nat
      BY <2>3 DEF IInv, TInv
    <3> DEFINE life == lives[id] + 1
    <3>2. record = WithNumbers(call.body, 1, life, life)
      BY DEF Inserted, WithNumbers
    <3>3. life \in Nat
      BY <3>1
    <3> HIDE DEF record, life
    <3>4. /\ record \in Records /\ record.life = life /\ record.rev = 1
          /\ record.events = call.body.events /\ record.status = call.body.status
      BY <2>3, <3>2, <3>3, Renumbered
    <3> QED
      BY <3>4 DEF life
  <2>5. Put(id, record)
    BY <1>4
  <2> HIDE DEF record
  <2>6. /\ TableOK /\ rows'[id] = record
        /\ \A v \in versions' : v \in versions \/ v = <<id, record>>
    <3>1. TInv /\ VInv /\ id \in Ids /\ rows[id] = Null /\ lives' = [lives EXCEPT ![id] = @ + 1]
      BY <1>4, <2>3 DEF IInv
    <3>2. record.rev > 0
      BY <2>4
    <3> HIDE DEF id
    <3> QED
      BY <2>4, <2>5, <3>1, <3>2, RowInserted
  <2>7. Sound(id, record, Past')
    <3>1. Truthful(record, Past')
      BY <2>3, <2>4 DEF Sound, Truthful, RecordedOnce
    <3>2. <<id, record>> \in Past'.versions
      BY <2>5 DEF Put, Past
    <3> QED
      BY <2>4, <3>1, <3>2, VersionSound
  <2>8. NewVersionsSound
    <3>1. <<id, record>>[1] = id /\ <<id, record>>[2] = record
      OBVIOUS
    <3> QED
      BY <2>6, <2>7, <3>1 DEF NewVersionsSound
  <2>9. /\ new \in MadeCalls /\ new.op = call.op /\ new.gone = call.gone /\ new.body = call.body
        /\ new.id = call.id /\ new.copy = record /\ new.kept = call.kept
    BY <1>0, <1>4, <2>4, <2>6, CameTyped
  <2> HIDE DEF new
  <2>10. SoundCall(new, Past')
    BY <2>3, <2>7, <2>9 DEF SoundCall
  <2> QED
    BY <1>4, <2>1, <2>6, <2>8, <2>9, <2>10, AnsweredIInv DEF new
<1>5. CASE /\ call.op \in Saving /\ UNCHANGED table
           /\ Answered(t, i, [call EXCEPT !.step = "refetch"])
  <2> DEFINE new == [call EXCEPT !.step = "refetch"]
  <2>1. made' = made /\ agent' = agent /\ TableOK /\ NewVersionsSound /\ Past' = Past
    BY <1>5, TableKept DEF Answered, IInv, NewVersionsSound, table, Past
  <2>2. /\ new \in MadeCalls /\ new.op = call.op /\ new.gone = call.gone /\ new.body = call.body
        /\ new.id = call.id /\ new.copy = Null /\ new.kept = call.kept
    BY <1>0, <1>00, <1>5 DEF MadeCalls, CallRecords, WellFormed
  <2> HIDE DEF new
  <2>3. SoundCall(new, Past')
    BY <1>0, <2>1, <2>2 DEF SoundCall
  <2> QED
    BY <1>5, <2>1, <2>2, <2>3, AnsweredIInv DEF new
<1> QED
  BY <1>1, <1>2, <1>3, <1>4, <1>5 DEF Execute, Saving

LEMMA RefetchIInv ==
  ASSUME IInv, NEW t \in Tabs, NEW i \in DOMAIN calls[t], Refetch(t, i)
  PROVE  IInv'
<1> DEFINE call == calls[t][i]
           new == Came(call, "conflict", rows[call.id])
<1>1. /\ Answered(t, i, new) /\ call.step = "refetch" /\ UNCHANGED table
      /\ made' = made /\ agent' = agent
  BY DEF Refetch, Answered
<1>2. TableOK /\ NewVersionsSound /\ Past' = Past
  BY <1>1, TableKept DEF IInv, NewVersionsSound, table, Past
<1>3. call \in MadeCalls /\ SoundCall(call, Past') /\ call.op \in Saving /\ call.id \in Ids
  BY <1>1, <1>2, CallIs DEF WellFormed
<1>4. rows[call.id] \in Records \cup {Null} /\ (rows[call.id] # Null => Sound(call.id, rows[call.id], Past'))
  <2> DEFINE id == call.id
  <2>1. rows[id] # Null => <<id, rows[id]>> \in versions
    BY <1>3 DEF IInv, VInv
  <2>2. \A v \in versions : Sound(v[1], v[2], Past')
    BY <1>2 DEF IInv, SInv
  <2>3. <<id, rows[id]>>[1] = id /\ <<id, rows[id]>>[2] = rows[id]
    OBVIOUS
  <2> QED
    BY <1>3, <2>1, <2>2, <2>3 DEF IInv, TInv, Caches
<1>5. /\ new \in MadeCalls /\ new.op = call.op /\ new.gone = call.gone /\ new.body = call.body
      /\ new.id = call.id /\ new.copy = rows[call.id] /\ new.kept = call.kept
  BY <1>3, <1>4, CameTyped
<1> HIDE DEF new
<1>6. SoundCall(new, Past')
  BY <1>3, <1>4, <1>5 DEF SoundCall
<1> QED
  BY <1>1, <1>2, <1>5, <1>6, AnsweredIInv

\* What a failure makes of a call.
LEMMA FailedIs ==
  ASSUME NEW call \in MadeCalls, NEW past, SoundCall(call, past)
  PROVE  /\ Failed(call) \in MadeCalls /\ Failed(call).op = call.op /\ Failed(call).id = call.id
         /\ Failed(call).gone = call.gone /\ Failed(call).copy = Null
         /\ Failed(call).kept = call.kept \/ Failed(call).kept = Nobody
         /\ OnError = "throw" => Failed(call).result = "error"
         /\ SoundCall(Failed(call), past)
<1>1. CASE OnError = "throw" \/ call.step = "refetch"
  <2>1. PICK result \in {"error", "conflict"} : /\ Failed(call) = Came(call, result, Null)
                                                /\ OnError = "throw" => result = "error"
    BY <1>1 DEF Failed
  <2> DEFINE new == Came(call, result, Null)
  <2>2. /\ new \in MadeCalls /\ new.op = call.op /\ new.gone = call.gone /\ new.body = call.body
        /\ new.id = call.id /\ new.copy = Null /\ new.kept = call.kept /\ new.result = result
    BY CameTyped
  <2> HIDE DEF new
  <2>3. SoundCall(new, past)
    BY <2>2 DEF SoundCall
  <2> QED
    BY <2>1, <2>2, <2>3 DEF new
<1>2. CASE ~(OnError = "throw" \/ call.step = "refetch")
  <2>1. PICK kept : /\ kept = call.kept \/ kept = Nobody
                    /\ Failed(call) = Came([call EXCEPT !.kept = kept], "void", Null)
    BY <1>2 DEF Failed
  <2> DEFINE other == [call EXCEPT !.kept = kept]
             new == Came(other, "void", Null)
  <2>2. kept \in Caches /\ SoundCache(kept, past)
    BY <2>1, NobodyIs DEF SoundCall, MadeCalls, CallRecords
  <2>3. /\ other \in MadeCalls /\ other.op = call.op /\ other.gone = call.gone /\ other.body = call.body
        /\ other.id = call.id /\ other.kept = kept
    BY <2>2 DEF MadeCalls, CallRecords, WellFormed
  <2> HIDE DEF other
  <2>4. /\ new \in MadeCalls /\ new.op = call.op /\ new.gone = call.gone /\ new.body = call.body
        /\ new.id = call.id /\ new.copy = Null /\ new.kept = kept
    BY <2>3, CameTyped
  <2> HIDE DEF new
  <2>5. SoundCall(new, past)
    BY <2>2, <2>4 DEF SoundCall
  <2> QED
    BY <1>2, <2>1, <2>4, <2>5 DEF new, other
<1> QED
  BY <1>1, <1>2

LEMMA FailIInv ==
  ASSUME IInv, NEW t \in Tabs, NEW i \in DOMAIN calls[t], Fail(t, i)
  PROVE  IInv'
<1> DEFINE call == calls[t][i]
           new == Failed(call)
<1>1. Answered(t, i, new) /\ UNCHANGED table /\ made' = made /\ agent' = agent
  BY DEF Fail, Answered
<1>2. TableOK /\ NewVersionsSound /\ Past' = Past
  BY <1>1, TableKept DEF IInv, NewVersionsSound, table, Past
<1>3. call \in MadeCalls /\ SoundCall(call, Past')
  BY <1>2, CallIs
<1>4. new \in MadeCalls /\ new.op = call.op /\ new.gone = call.gone /\ SoundCall(new, Past')
  BY <1>3, FailedIs
<1> HIDE DEF new
<1> QED
  BY <1>1, <1>2, <1>4, AnsweredIInv

\* A call is taken out.
LEMMA OneLess ==
  ASSUME NEW s \in Seq(MadeCalls), NEW i \in DOMAIN s, NEW job, JobOK(s, job)
  PROVE  /\ RemoveAt(s, i) \in Seq(MadeCalls)
         /\ JobOK(RemoveAt(s, i), job)
         /\ \A j \in DOMAIN RemoveAt(s, i) : \E k \in DOMAIN s : k # i /\ RemoveAt(s, i)[j] = s[k]
         /\ Imported(s[i]) => \A other : JobOK(RemoveAt(s, i), other)
         /\ Imported(s[i]) => \A j \in DOMAIN RemoveAt(s, i) : ~Imported(RemoveAt(s, i)[j])
<1> DEFINE rest == RemoveAt(s, i)
           At(j) == IF j < i THEN j ELSE j + 1
<1>1. /\ rest \in Seq(MadeCalls)
      /\ \A j \in DOMAIN rest : At(j) \in DOMAIN s /\ At(j) # i /\ rest[j] = s[At(j)]
  BY Remaining
<1> HIDE DEF rest
<1>2. \A j, k \in DOMAIN rest : At(j) = At(k) => j = k
  BY <1>1
<1>3. JobOK(rest, job)
  BY <1>1, <1>2 DEF JobOK
<1>4. Imported(s[i]) => \A j \in DOMAIN rest : ~Imported(rest[j])
  BY <1>1 DEF JobOK
<1> QED
  BY <1>1, <1>3, <1>4 DEF JobOK, rest

\* What a tab shows after an answer is what it showed, or came with the call.
LEMMA SettledSound ==
  ASSUME NEW shown \in Caches, NEW call \in MadeCalls, NEW past, SoundCache(shown, past), SoundCall(call, past)
  PROVE  Settled(shown, call) \in Caches /\ SoundCache(Settled(shown, call), past)
<1>1. /\ call.kept \in Caches /\ SoundCache(call.kept, past) /\ call.copy \in Records \cup {Null}
      /\ call.copy # Null => Sound(call.id, call.copy, past)
  BY DEF SoundCall, MadeCalls, CallRecords
<1>2. ASSUME NEW copy \in Records \cup {Null}, copy # Null => Sound(call.id, copy, past)
      PROVE  [shown EXCEPT ![call.id] = copy] \in Caches /\ SoundCache([shown EXCEPT ![call.id] = copy], past)
  BY <1>2 DEF Caches, SoundCache
<1>3. [shown EXCEPT ![call.id] = Null] \in Caches /\ SoundCache([shown EXCEPT ![call.id] = Null], past)
  BY <1>2
<1>4. [shown EXCEPT ![call.id] = call.copy] \in Caches /\ SoundCache([shown EXCEPT ![call.id] = call.copy], past)
  BY <1>1, <1>2
<1>5. call.op = "update" =>
        /\ [shown EXCEPT ![call.id] = call.kept[call.id]] \in Caches
        /\ SoundCache([shown EXCEPT ![call.id] = call.kept[call.id]], past)
  <2> SUFFICES ASSUME call.op = "update"
               PROVE  /\ [shown EXCEPT ![call.id] = call.kept[call.id]] \in Caches
                      /\ SoundCache([shown EXCEPT ![call.id] = call.kept[call.id]], past)
    OBVIOUS
  <2>1. call.id \in Ids
    BY DEF MadeCalls, WellFormed, Saving
  <2> QED
    BY <1>1, <1>2, <2>1 DEF Caches, SoundCache
<1> QED
  BY <1>1, <1>3, <1>4, <1>5 DEF Settled

LEMMA SettleIInv ==
  ASSUME IInv, NEW t \in Tabs, NEW i \in DOMAIN calls[t], Settle(t, i)
  PROVE  IInv'
<1> DEFINE call == calls[t][i]
           mine == RemoveAt(calls[t], i)
           shown == IF call.gone THEN cache[t] ELSE Settled(cache[t], call)
           job == importing[t]
<1>1. /\ made' \in {made, made + 1} /\ agent' = agent /\ UNCHANGED table /\ Past' = Past
      /\ calls' = [calls EXCEPT ![t] = mine]
  BY DEF Settle, table, Past
<1>2. TableOK /\ NewVersionsSound
  BY <1>1, TableKept DEF IInv, NewVersionsSound, table
<1>3. /\ calls[t] \in Seq(MadeCalls) /\ JobOK(calls[t], job) /\ cache \in [Tabs -> Caches]
      /\ SoundCache(cache[t], Past') /\ importing \in [Tabs -> Jobs \cup {Null}]
      /\ call \in MadeCalls /\ SoundCall(call, Past')
  BY <1>1, CallIs DEF IInv, TInv, SInv, JInv
<1>4. /\ mine \in Seq(MadeCalls) /\ JobOK(mine, job)
      /\ \A j \in DOMAIN mine : (\E k \in DOMAIN calls[t] : mine[j] = calls[t][k]) \/ SoundCall(mine[j], Past')
  BY <1>3, OneLess
<1>5. shown \in Caches /\ SoundCache(shown, Past')
  BY <1>3, SettledSound
<1>6. cache' = [cache EXCEPT ![t] = shown]
  BY <1>3 DEF Settle
<1>7. importing' = [importing EXCEPT ![t] = job] /\ job \in Jobs \cup {Null} /\ job = importing[t]
  BY <1>3 DEF Settle
<1> HIDE DEF call, mine, shown, job
<1> QED
  BY <1>1, <1>2, <1>4, <1>5, <1>6, <1>7, TabChanges

\* What SaveNext leaves the tab with.
GoesOnImporting(t, job, past) ==
  \E mine \in Seq(MadeCalls), next \in Jobs \cup {Null} :
    /\ calls' = [calls EXCEPT ![t] = mine] /\ importing' = [importing EXCEPT ![t] = next]
    /\ JobOK(mine, next)
    /\ \A j \in DOMAIN mine : SoundCall(mine[j], past)
    /\ next # Null => next.previous = job.previous

LEMMA SaveNextIs ==
  ASSUME NEW t \in Tabs, calls[t] \in Seq(MadeCalls), NEW i \in DOMAIN calls[t],
         NEW op \in {"importSave", "restoreSave"}, NEW job \in Jobs, NEW source \in Caches,
         source = Source(op, job), \A id \in job.rest : source[id] # Null,
         NEW past, SoundCache(source, past), \A j \in DOMAIN calls[t] : SoundCall(calls[t][j], past),
         NEW old, JobOK(calls[t], old), Imported(calls[t][i]),
         SaveNext(t, i, op, job, source)
  PROVE  GoesOnImporting(t, job, past)
<1> DEFINE less == RemoveAt(calls[t], i)
<1>1. /\ less \in Seq(MadeCalls) /\ (\A other : JobOK(less, other))
      /\ \A j \in DOMAIN less : SoundCall(less[j], past) /\ ~Imported(less[j])
  BY OneLess
<1>2. CASE job.rest = {} /\ calls' = [calls EXCEPT ![t] = less] /\ importing' = [importing EXCEPT ![t] = Null]
  BY <1>1, <1>2 DEF GoesOnImporting
<1>3. CASE \E id \in job.rest :
             /\ calls' = [calls EXCEPT ![t] = Append(less, Call(op, id, WithoutRev(source[id]), Nobody))]
             /\ importing' = [importing EXCEPT ![t] = [job EXCEPT !.rest = @ \ {id}]]
  <2>1. PICK id \in job.rest :
             /\ calls' = [calls EXCEPT ![t] = Append(less, Call(op, id, WithoutRev(source[id]), Nobody))]
             /\ importing' = [importing EXCEPT ![t] = [job EXCEPT !.rest = @ \ {id}]]
    BY <1>3
  <2> DEFINE body == WithoutRev(source[id])
             call == Call(op, id, body, Nobody)
             next == [job EXCEPT !.rest = @ \ {id}]
             mine == Append(less, call)
  <2>2. id \in Ids /\ source[id] \in Records /\ Sound(id, source[id], past)
    BY DEF Jobs, Caches, SoundCache
  <2>3. body \in Records /\ Sound(id, body, past)
    BY <2>2, WithoutRevSound
  <2>4. op \in Ops
    BY DEF Ops
  <2> HIDE DEF body
  <2>5. /\ call \in MadeCalls /\ call.op = op /\ call.id = id /\ call.body = body /\ call.kept = Nobody
        /\ call.copy = Null
    BY <2>2, <2>3, <2>4, NullIsNothing, NobodyIs, CallTyped
  <2>6. SoundCall(call, past)
    BY <2>3, <2>5, NobodyIs DEF SoundCall
  <2>7. next \in Jobs /\ next # Null /\ next.previous = job.previous /\ next.rest \subseteq job.rest
    BY NullIsNoJob DEF Jobs, Caches
  <2> HIDE DEF call, next
  <2>71. \A other \in next.rest : Source(call.op, next)[other] # Null
    BY <2>5, <2>7 DEF Source
  <2>8. /\ mine \in Seq(MadeCalls) /\ JobOK(mine, next)
        /\ \A j \in DOMAIN mine : SoundCall(mine[j], past)
    BY <1>1, <2>5, <2>6, <2>7, <2>71, OneMore DEF JobOK
  <2>9. calls' = [calls EXCEPT ![t] = mine] /\ importing' = [importing EXCEPT ![t] = next]
    BY <2>1 DEF next, call, body
  <2> HIDE DEF mine
  <2> QED
    BY <2>7, <2>8, <2>9 DEF GoesOnImporting
<1> QED
  BY <1>2, <1>3 DEF SaveNext

LEMMA SettleImportIInv ==
  ASSUME IInv, NEW t \in Tabs, NEW i \in DOMAIN calls[t], SettleImport(t, i)
  PROVE  IInv'
<1> DEFINE call == calls[t][i]
           job == importing[t]
           restore == [job EXCEPT !.rest = {id \in Ids : job.previous[id] # Null}]
<1>1. /\ made' \in {made, made + 1} /\ agent' = agent /\ UNCHANGED table /\ Past' = Past
      /\ call.step = "back" /\ ~call.gone
  BY DEF SettleImport, table, Past
<1>2. TableOK /\ NewVersionsSound
  BY <1>1, TableKept DEF IInv, NewVersionsSound, table
<1>3. /\ calls[t] \in Seq(MadeCalls) /\ JobOK(calls[t], job) /\ cache \in [Tabs -> Caches]
      /\ SoundCache(cache[t], Past') /\ importing \in [Tabs -> Jobs \cup {Null}]
      /\ call \in MadeCalls /\ SoundCall(call, Past')
      /\ \A j \in DOMAIN calls[t] : SoundCall(calls[t][j], Past')
      /\ job # Null => SoundCache(job.previous, Past')
  BY <1>1, CallIs DEF IInv, TInv, SInv, JInv
<1>4. ASSUME NEW op \in {"importSave", "restoreSave"}, NEW next \in Jobs, NEW source \in Caches,
             NEW shown \in Caches, Imported(call), job # Null,
             SoundCache(source, Past'), SoundCache(shown, Past'),
             source = Source(op, next), next.previous = job.previous,
             \A id \in next.rest : source[id] # Null,
             cache' = [cache EXCEPT ![t] = shown], SaveNext(t, i, op, next, source)
      PROVE  IInv'
  <2>0. GoesOnImporting(t, next, Past')
    BY <1>3, <1>4, SaveNextIs DEF call
  <2> HIDE DEF call, job
  <2>1. PICK mine \in Seq(MadeCalls), after \in Jobs \cup {Null} :
          /\ calls' = [calls EXCEPT ![t] = mine] /\ importing' = [importing EXCEPT ![t] = after]
          /\ JobOK(mine, after)
          /\ \A j \in DOMAIN mine : SoundCall(mine[j], Past')
          /\ after # Null => after.previous = job.previous
    BY <1>4, <2>0 DEF GoesOnImporting
  <2>2. after = Null \/ SoundCache(after.previous, Past')
    BY <1>3, <1>4, <2>1
  <2> QED
    BY <1>1, <1>2, <1>4, <2>1, <2>2, TabChanges
<1>5. ImportFile \in Caches /\ SoundCache(ImportFile, Past')
  BY <1>1, ImportSound, ImportsHaveNoRev DEF Caches
<1>6. Shown(t, call) \in Caches /\ SoundCache(Shown(t, call), Past')
  <2>1. call.copy \in Records \cup {Null} /\ (call.copy # Null => Sound(call.id, call.copy, Past'))
    BY <1>3 DEF MadeCalls, CallRecords, SoundCall
  <2> QED
    BY <1>3, <2>1 DEF Shown, Caches, SoundCache
<1>7. Imported(call) /\ job # Null /\ job \in Jobs /\ \A id \in job.rest : Source(call.op, job)[id] # Null
  <2>1. Imported(call)
    BY <1>1 DEF SettleImport, Imported, Importing
  <2> QED
    BY <1>3, <2>1 DEF JobOK
<1>8. job.previous \in Caches /\ SoundCache(job.previous, Past')
  BY <1>3, <1>7 DEF Jobs
<1>9. CASE /\ call.op \in {"importClear", "importSave"} /\ cache' = [cache EXCEPT ![t] = Shown(t, call)]
           /\ SaveNext(t, i, "importSave", job, ImportFile)
  <2>1. Source(call.op, job) = ImportFile /\ Source("importSave", job) = ImportFile
    BY <1>9 DEF Source
  <2> HIDE DEF call, job
  <2> QED
    BY <1>4, <1>5, <1>6, <1>7, <1>9, <2>1
<1>10. CASE /\ call.op \in {"importClear", "importSave"} /\ cache' = [cache EXCEPT ![t] = job.previous]
            /\ SaveNext(t, i, "restoreSave", restore, job.previous)
  <2>1. /\ restore \in Jobs /\ restore.previous = job.previous
        /\ \A id \in restore.rest : job.previous[id] # Null
    BY <1>7 DEF Jobs
  <2> HIDE DEF restore
  <2>2. Source("restoreSave", restore) = job.previous
    BY <2>1 DEF Source
  <2> HIDE DEF call, job
  <2> QED
    BY <1>4, <1>7, <1>8, <1>10, <2>1, <2>2
<1>11. CASE /\ call.op = "restoreSave" /\ cache' = [cache EXCEPT ![t] = Shown(t, call)]
            /\ SaveNext(t, i, "restoreSave", job, job.previous)
  <2>1. Source(call.op, job) = job.previous /\ Source("restoreSave", job) = job.previous
    BY <1>11 DEF Source
  <2> HIDE DEF call, job
  <2> QED
    BY <1>4, <1>6, <1>7, <1>8, <1>11, <2>1
<1> HIDE DEF restore
<1> QED
  BY <1>9, <1>10, <1>11 DEF SettleImport, restore

-----------------------------------------------------------------------------
(* Steps of an agent. *)

\* What a step of one agent has to show.
LEMMA AgentChanges ==
  ASSUME IInv, TableOK, NewVersionsSound, NEW a \in Agents, NEW me \in AgentRecords,
         agent' = [agent EXCEPT ![a] = me], UNCHANGED <<cache, calls, importing>>,
         made' \in {made, made + 1},
         me.id \in Ids, me.action \in Actions,
         me.pc = "write" => me.current # Null /\ me.current.status \in Sources[me.action],
         ReadWithout(me) => ~Carries(me.current, me.event),
         me.pc # "idle",
         \/ me.event = made + 1 /\ made' = made + 1
         \/ me.event = agent[a].event /\ agent[a].pc # "idle" /\ (Open(me) => Open(agent[a])),
         \/ me.current = Null
         \/ Sound(me.id, me.current, Past')
         \/ me.current = agent[a].current /\ me.id = agent[a].id
  PROVE  IInv'
<1>0. TInv /\ VInv /\ SInv /\ EInv /\ JInv
  BY DEF IInv
<1>1. agent \in [Agents -> AgentRecords] /\ made \in Nat /\ \A b \in Agents : agent[b].event \in Nat
  BY <1>0 DEF TInv, AgentRecords
<1>2. /\ agent' \in [Agents -> AgentRecords] /\ agent'[a] = me
      /\ \A b \in Agents : b # a => agent'[b] = agent[b]
  BY <1>1
<1>3. TInv'
  BY <1>0, <1>1, <1>2 DEF TInv, TableOK
<1>4. me.event \in Nat
  BY DEF AgentRecords
<1>5. Goes(Past, Past')
  BY <1>0, <1>1, <1>2, <1>3, <1>4 DEF TInv, TableOK, Goes, Past
<1>6. /\ \A v \in versions : Sound(v[1], v[2], Past')
      /\ \A u \in Tabs : SoundCache(cache[u], Past')
      /\ \A u \in Tabs : \A i \in DOMAIN calls[u] : SoundCall(calls[u][i], Past')
      /\ \A u \in Tabs : importing[u] # Null => SoundCache(importing[u].previous, Past')
      /\ \A b \in Agents : agent[b].current # Null => Sound(agent[b].id, agent[b].current, Past')
  BY <1>0, <1>5, GoesOn
<1>7. SInv'
  <2>1. \A b \in Agents : agent'[b].current # Null => Sound(agent'[b].id, agent'[b].current, Past')
    BY <1>2, <1>6
  <2>2. \A v \in versions' : Sound(v[1], v[2], Past')
    BY <1>6 DEF NewVersionsSound
  <2> QED
    BY <1>6, <2>1, <2>2 DEF SInv
<1>8. EInv'
  <2>1. \A b \in Agents : agent[b].event <= made
    BY <1>0 DEF EInv
  <2>2. \A b \in Agents : agent'[b].event <= made'
    BY <1>1, <1>2, <1>4, <2>1
  <2>3. \A b \in Agents : agent'[b].pc # "idle" => agent'[b].event > 0
    BY <1>0, <1>1, <1>2, <1>4 DEF EInv
  <2>4. ASSUME NEW b \in Agents, b # a, agent[b].pc # "idle" PROVE agent[b].event # me.event
    BY <1>0, <1>1, <2>1, <2>4 DEF EInv
  <2>5. \A b, c \in Agents :
          agent'[b].pc # "idle" /\ agent'[c].pc # "idle" /\ agent'[b].event = agent'[c].event => b = c
    BY <1>0, <1>2, <2>4 DEF EInv
  <2> QED
    BY <2>2, <2>3, <2>5 DEF EInv
<1>9. JInv'
  BY <1>0 DEF JInv
<1> QED
  BY <1>3, <1>7, <1>8, <1>9 DEF IInv, TableOK

LEMMA AgentIs ==
  ASSUME IInv, NEW a \in Agents
  PROVE  /\ agent[a] \in AgentRecords
         /\ agent[a].pc # "idle" => agent[a].id \in Ids /\ agent[a].action \in Actions
         /\ agent[a].pc = "write" => /\ agent[a].current # Null /\ agent[a].current \in Records
                                     /\ agent[a].current.status \in Sources[agent[a].action]
         /\ ReadWithout(agent[a]) => ~Carries(agent[a].current, agent[a].event)
         /\ agent[a].current # Null => Sound(agent[a].id, agent[a].current, Past)
BY DEF IInv, TInv, SInv, AgentRecords

LEMMA AgentCallsIInv ==
  ASSUME IInv, NEW a \in Agents, AgentCalls(a)
  PROVE  IInv'
<1>1. /\ made' = made + 1 /\ UNCHANGED table /\ UNCHANGED <<cache, calls, importing>> /\ made \in Nat
      /\ made' \in {made, made + 1}
  BY DEF AgentCalls, IInv, TInv
<1>2. PICK next \in AgentRecords :
        /\ next.pc = "read" /\ next.id \in Ids /\ next.action \in Actions
        /\ next.event = made + 1 /\ next.current = Null
        /\ agent' = [agent EXCEPT ![a] = next]
  <2>1. PICK id \in Ids, action \in AgentMoves :
          agent' = [agent EXCEPT ![a] = [Resting EXCEPT !.pc = "read", !.id = id, !.action = action,
                                                        !.event = made + 1]]
    BY DEF AgentCalls
  <2> DEFINE me == [Resting EXCEPT !.pc = "read", !.id = id, !.action = action, !.event = made + 1]
  <2>2. /\ me.pc = "read" /\ me.id = id /\ me.action = action /\ me.event = made + 1
        /\ me.attempt = 0 /\ me.current = Null /\ made + 1 \in Nat /\ action \in Actions
    BY <1>1, MovesAreActions DEF Resting
  <2>3. me \in AgentRecords
    BY <2>2 DEF Resting, AgentRecords
  <2>4. agent' = [agent EXCEPT ![a] = me]
    BY <2>1
  <2> HIDE DEF me
  <2> QED
    BY <2>2, <2>3, <2>4
<1>3. TableOK /\ NewVersionsSound
  BY <1>1, TableKept DEF IInv, NewVersionsSound, table
<1>4. next.event = made + 1 /\ made' = made + 1 /\ ~ReadWithout(next)
  BY <1>1, <1>2 DEF ReadWithout
<1> QED
  BY <1>1, <1>2, <1>3, <1>4, AgentChanges

LEMMA AgentRepeatsIInv ==
  ASSUME IInv, NEW a \in Agents, AgentRepeats(a)
  PROVE  IInv'
<1> DEFINE me == [agent[a] EXCEPT !.pc = "read", !.attempt = 0, !.current = Null, !.again = TRUE]
<1>1. /\ made' = made /\ UNCHANGED table /\ UNCHANGED <<cache, calls, importing>>
      /\ made' \in {made, made + 1} /\ agent[a].pc \notin {"idle", "read", "write"}
      /\ agent' = [agent EXCEPT ![a] = me] /\ agent[a] \in AgentRecords
  BY DEF AgentRepeats, IInv, TInv
<1>2. agent[a].id \in Ids /\ agent[a].action \in Actions
  BY <1>1 DEF IInv, TInv
<1>3. /\ me \in AgentRecords /\ me.pc = "read" /\ me.event = agent[a].event /\ me.current = Null
      /\ me.id = agent[a].id /\ me.action = agent[a].action /\ me.again
  BY <1>1 DEF AgentRecords
<1> HIDE DEF me
<1>4. ~Open(me) /\ ~ReadWithout(me)
  BY <1>3 DEF Open, ReadWithout
<1>5. TableOK /\ NewVersionsSound
  BY <1>1, TableKept DEF IInv, NewVersionsSound, table
<1> QED
  BY <1>1, <1>2, <1>3, <1>4, <1>5, AgentChanges

LEMMA AgentReadsIInv ==
  ASSUME IInv, NEW a \in Agents, AgentReads(a)
  PROVE  IInv'
<1> DEFINE me == agent[a]
           row == rows[me.id]
<1>1. /\ UNCHANGED table /\ UNCHANGED <<cache, calls, importing>> /\ made' \in {made, made + 1}
      /\ made' = made /\ me.pc = "read" /\ me \in AgentRecords /\ me.id \in Ids /\ me.action \in Actions
  BY AgentIs DEF AgentReads
<1>2. TableOK /\ NewVersionsSound
  BY <1>1, TableKept DEF IInv, NewVersionsSound, table
<1>3. row \in Records \cup {Null}
  BY <1>1 DEF IInv, TInv, Caches
<1>4. PICK next :
        /\ agent' = [agent EXCEPT ![a] = next]
        /\ \/ next = [me EXCEPT !.pc = "not found"]
           \/ row # Null /\ next = [me EXCEPT !.pc = AnswerOf(me, row), !.current = row]
  BY DEF AgentReads
<1>5. row # Null => Sound(me.id, row, Past')
  <2>1. row # Null => <<me.id, row>> \in versions
    BY <1>1 DEF IInv, VInv
  <2>2. \A v \in versions : Sound(v[1], v[2], Past)
    BY DEF IInv, SInv
  <2>3. <<me.id, row>>[1] = me.id /\ <<me.id, row>>[2] = row
    OBVIOUS
  <2>4. row # Null => Sound(me.id, row, Past)
    BY <2>1, <2>2, <2>3
  <2>5. Goes(Past, Past')
    <3>1. agent \in [Agents -> AgentRecords] /\ made \in Nat
      BY DEF IInv, TInv
    <3>2. \A b \in Agents : agent'[b].event = agent[b].event /\ agent[b].event \in Nat
      BY <1>4, <3>1 DEF AgentRecords
    <3>3. \A b \in Agents : Open(agent'[b]) => Open(agent[b])
      BY <1>1, <1>4, <3>1 DEF Open, AgentRecords
    <3> QED
      BY <1>1, <3>1, <3>2, <3>3 DEF Goes, Past, table
  <2> QED
    BY <1>3, <2>4, <2>5, GoesSound
<1>6. /\ next \in AgentRecords /\ next.id = me.id /\ next.action = me.action /\ next.event = me.event
      /\ next.pc \in {"not found", "ok", "invalid", "write"} /\ next.again = me.again
      /\ next.current = me.current \/ (row # Null /\ next.current = row)
      /\ next.pc = "write" => next.current # Null /\ next.current.status \in Sources[next.action]
      /\ ReadWithout(next) => ~Carries(next.current, next.event)
  <2> HIDE DEF me, row
  <2>1. CASE next = [me EXCEPT !.pc = "not found"]
    BY <1>1, <2>1 DEF AgentRecords, ReadWithout
  <2>2. CASE row # Null /\ next = [me EXCEPT !.pc = AnswerOf(me, row), !.current = row]
    <3>1. /\ AnswerOf(me, row) \in {"ok", "invalid", "write"}
          /\ AnswerOf(me, row) = "write" => row.status \in Sources[me.action]
          /\ AnswerOf(me, row) \in {"invalid", "write"} => ~Carries(row, me.event)
      BY DEF AnswerOf
    <3> QED
      BY <1>1, <1>3, <2>2, <3>1 DEF AgentRecords, ReadWithout
  <2> QED
    BY <1>4, <2>1, <2>2
<1>7. \/ next.current = Null
      \/ Sound(next.id, next.current, Past')
      \/ next.current = agent[a].current /\ next.id = agent[a].id
  BY <1>5, <1>6
<1>8. Open(next) => Open(agent[a])
  BY <1>1, <1>6 DEF Open
<1> QED
  BY <1>1, <1>2, <1>4, <1>6, <1>7, <1>8, AgentChanges

\* An agent's transition is written and its call is over: what it writes is sound, and
\* continues the row it was read from.
LEMMA AgentPuts ==
  ASSUME IInv, NEW a \in Agents, agent[a].pc = "write", NEW me \in AgentRecords,
         me.event = agent[a].event, ~Open(me), agent' = [agent EXCEPT ![a] = me], made' = made,
         Matches(agent[a].id, agent[a].current.rev),
         Put(agent[a].id, Rewritten(agent[a].id, Applied(agent[a]))), UNCHANGED lives
  PROVE  /\ TableOK /\ NewVersionsSound
         /\ agent[a].id \in Ids /\ agent[a].event \in Nat
         /\ Applied(agent[a]) \in Records /\ Applied(agent[a]).rev = agent[a].current.rev
         /\ Derived(agent[a].id, Applied(agent[a]), Past)
         /\ Carries(Applied(agent[a]), agent[a].event)
<1> DEFINE mid == [versions |-> versions, made |-> made, agent |-> agent']
           copy == agent[a].current
           id == agent[a].id
           applied == Applied(agent[a])
<1>1. /\ agent[a] \in AgentRecords /\ id \in Ids /\ agent[a].action \in Actions
      /\ copy \in Records /\ Sound(id, copy, Past) /\ copy.status \in Sources[agent[a].action]
  BY AgentIs
<1>2. /\ agent \in [Agents -> AgentRecords] /\ made \in Nat /\ versions \subseteq Ids \X Records
      /\ agent[a].event \in Nat /\ agent[a].event <= made
      /\ \A b \in Agents : agent[b].event \in Nat
  BY <1>1 DEF IInv, TInv, EInv, AgentRecords
<1>3. Goes(Past, mid)
  BY <1>2 DEF Goes, Past
<1>4. \A b \in Agents : Open(agent'[b]) => agent[a].event # agent'[b].event
  BY <1>2 DEF Open, IInv, EInv
<1>5. applied = [copy EXCEPT !.status = Target[agent[a].action],
                   !.events = Append(@, [type |-> EventOf[agent[a].action], id |-> agent[a].event])]
  BY DEF Applied
<1>6. EventOf[agent[a].action] \in EventTypes
  BY <1>1 DEF EventTypes, TransitionEvents
<1>7. Sound(id, copy, mid)
  BY <1>1, <1>3, GoesSound
<1> HIDE DEF copy, applied, id
<1>8. applied \in Records /\ Sound(id, applied, mid)
  <2>1. /\ mid.versions \subseteq Ids \X Records /\ agent[a].event <= mid.made
        /\ \A b \in Agents : Open(mid.agent[b]) => agent[a].event # mid.agent[b].event
    BY <1>2, <1>4
  <2> DEFINE action == agent[a].action
             number == agent[a].event
  <2>2. action \in Actions /\ copy.status \in Sources[action] /\ copy \in Records
    BY <1>1
  <2>3. number \in Nat
    BY <1>2
  <2>4. /\ number <= mid.made
        /\ \A b \in Agents : Open(mid.agent[b]) => number # mid.agent[b].event
    BY <2>1
  <2>5. applied = [copy EXCEPT !.status = Target[action],
                      !.events = Append(@, [type |-> EventOf[action], id |-> number])]
    BY <1>5
  <2>6. ~Carries(copy, number)
    BY AgentIs DEF ReadWithout, copy
  <2> HIDE DEF mid, action, number
  <2> QED
    BY <1>7, <2>1, <2>2, <2>3, <2>4, <2>5, <2>6, Continued
<1>9. Truthful(applied, Past') /\ Derived(id, applied, Past)
  BY <1>8 DEF Sound, Truthful, Derived, Past
<1>10. applied.rev = copy.rev
  BY <1>1, <1>5 DEF Records
<1>11. TableOK /\ NewVersionsSound
  BY <1>1, <1>8, <1>9, <1>10, Overwritten DEF id, copy, applied
<1>12. Carries(applied, agent[a].event)
  <2> DEFINE E == [type : EventTypes, id : Nat]
             e == [type |-> EventOf[agent[a].action], id |-> agent[a].event]
  <2>1. copy.events \in Seq(E) /\ e \in E /\ e.id = agent[a].event
    BY <1>1, <1>2, <1>6, EventsHaveNumbers
  <2>2. applied.events = Append(copy.events, e)
    BY <1>1, <1>5 DEF Records
  <2> HIDE DEF E, e
  <2>3. Len(copy.events) + 1 \in DOMAIN Append(copy.events, e) /\ Append(copy.events, e)[Len(copy.events) + 1] = e
    BY <2>1
  <2> QED
    BY <2>1, <2>2, <2>3 DEF Carries
<1> QED
  BY <1>1, <1>2, <1>8, <1>9, <1>10, <1>11, <1>12 DEF id, copy, applied

LEMMA AgentWritesIInv ==
  ASSUME IInv, NEW a \in Agents, AgentWrites(a)
  PROVE  IInv'
<1>1. /\ UNCHANGED <<cache, calls, importing>> /\ made' \in {made, made + 1} /\ made' = made
      /\ agent[a].pc = "write" /\ agent[a] \in AgentRecords /\ agent \in [Agents -> AgentRecords]
      /\ agent[a].id \in Ids /\ agent[a].action \in Actions /\ agent[a].current # Null
  BY AgentIs DEF AgentWrites, IInv, TInv
<1>2. CASE Matches(agent[a].id, agent[a].current.rev)
  <2> DEFINE me == [agent[a] EXCEPT !.pc = "ok"]
  <2>1. /\ agent' = [agent EXCEPT ![a] = me] /\ UNCHANGED lives
        /\ Put(agent[a].id, Rewritten(agent[a].id, Applied(agent[a])))
    BY <1>2 DEF AgentWrites
  <2>2. /\ me \in AgentRecords /\ me.pc = "ok" /\ me.event = agent[a].event /\ me.current = agent[a].current
        /\ me.id = agent[a].id /\ me.action = agent[a].action
    BY <1>1 DEF AgentRecords
  <2>3. ~Open(me) /\ ~ReadWithout(me)
    BY <2>2 DEF Open, ReadWithout
  <2> HIDE DEF me
  <2>4. TableOK /\ NewVersionsSound
    BY <1>1, <1>2, <2>1, <2>2, <2>3, AgentPuts
  <2> QED
    BY <1>1, <2>1, <2>2, <2>3, <2>4, AgentChanges
<1>3. CASE ~Matches(agent[a].id, agent[a].current.rev)
  <2> DEFINE me == Missed(agent[a])
  <2>1. agent' = [agent EXCEPT ![a] = me] /\ UNCHANGED table
    BY <1>3 DEF AgentWrites
  <2>2. /\ me \in AgentRecords /\ me.pc \in {"read", "gave up"} /\ me.event = agent[a].event
        /\ me.current = agent[a].current /\ me.id = agent[a].id /\ me.action = agent[a].action
        /\ me.again = agent[a].again
    <3>1. CASE me = [agent[a] EXCEPT !.pc = "gave up"]
      BY <1>1, <3>1 DEF AgentRecords
    <3>2. CASE me = [agent[a] EXCEPT !.pc = "read", !.attempt = agent[a].attempt + 1]
      <4>1. agent[a].attempt \in Nat
        BY <1>1 DEF AgentRecords
      <4>2. agent[a].attempt + 1 \in Nat
        BY <4>1
      <4> QED
        BY <1>1, <3>2, <4>2 DEF AgentRecords
    <3> QED
      BY <3>1, <3>2 DEF Missed
  <2> HIDE DEF me
  <2>3. TableOK /\ NewVersionsSound
    BY <2>1, TableKept DEF IInv, NewVersionsSound, table
  <2>4. /\ Open(me) => Open(agent[a])
        /\ ~Carries(me.current, me.event)
    BY <1>1, <2>2, AgentIs DEF Open, ReadWithout
  <2> QED
    BY <1>1, <2>1, <2>2, <2>3, <2>4, AgentChanges
<1> QED
  BY <1>2, <1>3

LEMMA AgentFailsIInv ==
  ASSUME IInv, NEW a \in Agents, AgentFails(a)
  PROVE  IInv'
<1>1. /\ UNCHANGED <<cache, calls, importing>> /\ made' \in {made, made + 1} /\ made' = made
      /\ agent[a].pc \in {"read", "write"} /\ agent[a] \in AgentRecords /\ agent \in [Agents -> AgentRecords]
      /\ agent[a].id \in Ids /\ agent[a].action \in Actions
  BY AgentIs DEF AgentFails, IInv, TInv
<1>2. PICK lost \in {"error", "not found", "ok"} :
        /\ agent' = [agent EXCEPT ![a] = [agent[a] EXCEPT !.pc = lost]]
        /\ lost = "not found" => agent[a].pc = "read"
  BY DEF AgentFails
<1> DEFINE me == [agent[a] EXCEPT !.pc = lost]
<1>3. /\ me \in AgentRecords /\ me.pc = lost /\ me.event = agent[a].event /\ me.current = agent[a].current
      /\ me.id = agent[a].id /\ me.action = agent[a].action /\ me.again = agent[a].again
  BY <1>1 DEF AgentRecords
<1>4. agent' = [agent EXCEPT ![a] = me]
  BY <1>2
<1> HIDE DEF me
<1>5. (Open(me) => Open(agent[a])) /\ ~ReadWithout(me)
  BY <1>1, <1>2, <1>3 DEF Open, ReadWithout
<1>6. TableOK /\ NewVersionsSound
  <2>1. CASE UNCHANGED table
    BY <2>1, TableKept DEF IInv, NewVersionsSound, table
  <2>2. CASE ~UNCHANGED table
    <3>1. /\ agent[a].pc = "write" /\ Matches(agent[a].id, agent[a].current.rev) /\ UNCHANGED lives
          /\ Put(agent[a].id, Rewritten(agent[a].id, Applied(agent[a])))
      BY <2>2 DEF AgentFails
    <3>2. ~Open(me)
      BY <1>2, <1>3, <3>1 DEF Open
    <3> QED
      BY <1>1, <1>3, <1>4, <3>1, <3>2, AgentPuts
  <2> QED
    BY <2>1, <2>2
<1> QED
  BY <1>1, <1>2, <1>3, <1>4, <1>5, <1>6, AgentChanges

-----------------------------------------------------------------------------

LEMMA InitIInv == Init => IInv
<1> SUFFICES ASSUME Init PROVE IInv
  OBVIOUS
<1>1. rows \in Caches /\ \A id \in Ids : rows[id] # Null => rows[id] \in Records /\ rows[id].rev > 0 /\ rows[id].life = 1
  BY TablesAreRows DEF Init, Caches
<1>2. /\ versions \subseteq Ids \X Records
      /\ \A v \in versions : \E id \in Ids : v[1] = id /\ v[2] = rows[id] /\ rows[id] # Null
      /\ \A id \in Ids : rows[id] # Null => <<id, rows[id]>> \in versions
  BY <1>1 DEF Init
<1>3. /\ agent = [a \in Agents |-> Resting] /\ made = 0 /\ cache = [t \in Tabs |-> Nobody]
      /\ importing = [t \in Tabs |-> Null] /\ calls = [t \in Tabs |-> <<LoadCall>>]
      /\ lives = [id \in Ids |-> IF rows[id] = Null THEN 0 ELSE 1]
  BY DEF Init
<1>4. /\ Resting \in AgentRecords /\ Resting.pc = "idle" /\ Resting.event = 0 /\ Resting.current = Null
      /\ ~Open(Resting) /\ ~ReadWithout(Resting)
  BY DEF Resting, AgentRecords, Open, ReadWithout
<1>5. <<LoadCall>> \in Seq(MadeCalls) /\ \A i \in DOMAIN <<LoadCall>> : <<LoadCall>>[i] = LoadCall
  BY LoadCallIs
<1>6. TInv
  BY <1>1, <1>2, <1>3, <1>4, <1>5, NobodyIs DEF TInv
<1>7. VInv
  <2>1. \A id \in Ids : rows[id] # Null => lives[id] = 1
    BY <1>3
  <2>2. \A id \in Ids : rows[id] # Null => rows[id].rev \in Nat
    BY <1>1 DEF Records
  <2>3. \A v \in versions :
          /\ 0 < v[2].life /\ v[2].life <= lives[v[1]]
          /\ rows[v[1]] # Null /\ v[2].life = lives[v[1]] => v[2].rev <= rows[v[1]].rev
    <3> SUFFICES ASSUME NEW v \in versions
                 PROVE  /\ 0 < v[2].life /\ v[2].life <= lives[v[1]]
                        /\ rows[v[1]] # Null /\ v[2].life = lives[v[1]] => v[2].rev <= rows[v[1]].rev
      OBVIOUS
    <3>1. PICK id \in Ids : v[1] = id /\ v[2] = rows[id] /\ rows[id] # Null
      BY <1>2
    <3> QED
      BY <1>1, <2>1, <2>2, <3>1
  <2>4. \A v, w \in versions : v[1] = w[1] => v = w
    BY <1>3 DEF Init
  <2> QED
    BY <1>1, <1>2, <2>1, <2>3, <2>4 DEF VInv
<1>8. SInv
  <2>1. \A v \in versions : Sound(v[1], v[2], Past)
    <3> SUFFICES ASSUME NEW v \in versions PROVE Sound(v[1], v[2], Past)
      OBVIOUS
    <3>1. PICK id \in Ids : v[1] = id /\ v[2] = rows[id] /\ rows[id] # Null /\ rows[id] \in Records
      BY <1>1, <1>2
    <3>2. \A i \in DOMAIN rows[id].events : rows[id].events[i].id = 0
      BY <3>1, OldEvents DEF Init
    <3>5. OrderlyStart => Explained(rows[id].status, rows[id].events)
      BY <3>1 DEF OrderlyStart, Init
    <3>6. RecordedOnce(rows[id])
      BY <3>2 DEF RecordedOnce
    <3>3. Truthful(rows[id], Past)
      BY <1>3, <1>4, <3>2, <3>5, <3>6 DEF Truthful, Past
    <3>4. <<id, rows[id]>> \in Past.versions
      BY <1>2, <3>1 DEF Past
    <3> QED
      BY <3>1, <3>3, <3>4, VersionSound
  <2> QED
    BY <1>3, <1>4, <1>5, <2>1, LoadCallIs, NobodyIs DEF SInv
<1>9. EInv
  BY <1>3, <1>4 DEF EInv
<1>10. JInv
  BY <1>3, <1>5, LoadCallIs DEF JInv, JobOK, Imported, Importing
<1> QED
  BY <1>6, <1>7, <1>8, <1>9, <1>10 DEF IInv

LEMMA StepIInv == IInv /\ [Next]_vars => IInv'
<1> SUFFICES ASSUME IInv, [Next]_vars PROVE IInv'
  OBVIOUS
<1>1. CASE \E t \in Tabs : TabStep(t)
  <2>1. PICK t \in Tabs : TabStep(t)
    BY <1>1
  <2> QED
    BY <2>1, AddsIInv, UpdatesIInv, RemovesIInv, ImportsIInv, ReloadIInv, FailIInv DEF TabStep
<1>2. CASE \E t \in Tabs : Answer(t)
  BY <1>2, ExecuteIInv, RefetchIInv, SettleIInv, SettleImportIInv DEF Answer
<1>3. CASE \E a \in Agents : AgentCalls(a) \/ AgentRepeats(a) \/ AgentReads(a) \/ AgentWrites(a) \/ AgentFails(a)
  BY <1>3, AgentCallsIInv, AgentRepeatsIInv, AgentReadsIInv, AgentWritesIInv, AgentFailsIInv
<1>4. CASE UNCHANGED vars
  BY <1>4 DEF vars, table, IInv, TInv, VInv, SInv, EInv, JInv, Past
<1> QED
  BY <1>1, <1>2, <1>3, <1>4 DEF Next

LEMMA Invariance == Spec => []IInv
BY InitIInv, StepIInv, PTL DEF Spec

-----------------------------------------------------------------------------
(* Types, and what is written over a row. *)

\* The table and what tabs show are records, a call has a result when it is back, and the
\* row that is there is the last of its id: TypeOK holds in every state.
THEOREM TypeCorrect == Spec => []TypeOK
<1>1. IInv => TypeOK
  <2> SUFFICES ASSUME IInv PROVE TypeOK
    OBVIOUS
  <2>1. rows \in Caches /\ \A t \in Tabs : cache[t] \in Caches
    BY DEF IInv, TInv
  <2>2. ASSUME NEW t \in Tabs, NEW i \in DOMAIN calls[t]
        PROVE  /\ calls[t][i].step \in {"sent", "refetch", "back"}
               /\ calls[t][i].step = "back" <=> calls[t][i].result # "none"
    <3>1. calls[t][i] \in CallRecords /\ WellFormed(calls[t][i])
      BY CallIs
    <3> QED
      BY <3>1 DEF CallRecords, WellFormed
  <2>3. \A id \in Ids : rows[id] # Null => rows[id].rev > 0 /\ rows[id].life = lives[id]
    BY DEF IInv, VInv
  <2> QED
    BY <2>1, <2>2, <2>3 DEF TypeOK, Caches
<1> QED
  BY <1>1, Invariance, PTL

(* Whatever tabs and agents race for and whatever fails or is imported, the  *)
(* status of every row the table ever held is the one its history leads to,  *)
(* if that is so of what was there and of what is imported.                  *)
THEOREM RowsAreExplained ==
  ASSUME OrderlyStart
  PROVE  Spec => []StatusExplained
<1>1. IInv => StatusExplained
  BY DEF IInv, SInv, Sound, Truthful, StatusExplained
<1> QED
  BY <1>1, Invariance, PTL

\* A row that its writer had is continued by what is written over it.
RowsContinue ==
  \A id \in Ids :
    rows[id] # Null /\ rows'[id] # Null /\ rows'[id] # rows[id] /\ rows'[id].read = rows[id].life
      => IsPrefix(rows[id].events, rows'[id].events) /\ rows'[id].rev = rows[id].rev + 1

LEMMA OverwrittenContinues ==
  ASSUME IInv, NEW id \in Ids, NEW body \in Records, Matches(id, body.rev),
         Put(id, Rewritten(id, body)), Derived(id, body, Past)
  PROVE  RowsContinue
<1> DEFINE record == Rewritten(id, body)
<1>1. rows[id] # Null /\ rows[id].rev = body.rev /\ rows[id] \in Records /\ rows \in Caches
  BY DEF Matches, IInv, TInv, Caches
<1>2. record.events = body.events /\ record.rev = rows[id].rev + 1 /\ record.read = body.life
  <2> DEFINE rev == body.rev + 1
             life == rows[id].life
             read == body.life
  <2>1. rev \in Nat /\ life \in Nat /\ read \in Nat /\ rev = rows[id].rev + 1
    BY <1>1 DEF Records
  <2>2. record = WithNumbers(body, rev, life, read)
    BY DEF Rewritten, WithNumbers
  <2>3. read = body.life
    OBVIOUS
  <2> HIDE DEF record, rev, life, read
  <2>4. record.rev = rev /\ record.events = body.events /\ record.read = read
    BY <2>1, <2>2, Renumbered
  <2> QED
    BY <2>1, <2>3, <2>4
<1>3. rows' = [rows EXCEPT ![id] = record]
  BY DEF Put
<1> HIDE DEF record
<1>4. rows'[id] = record /\ \A j \in Ids : j # id => rows'[j] = rows[j]
  BY <1>1, <1>3 DEF Caches
<1>5. record.read = rows[id].life => IsPrefix(rows[id].events, record.events)
  BY <1>2, SameRow DEF IInv
<1> QED
  BY <1>2, <1>4, <1>5 DEF RowsContinue

LEMMA KeptContinues ==
  ASSUME \A id \in Ids : rows'[id] = rows[id] \/ rows'[id] = Null \/ rows[id] = Null
  PROVE  RowsContinue
BY DEF RowsContinue

LEMMA ExecuteContinues ==
  ASSUME IInv, NEW t \in Tabs, NEW i \in DOMAIN calls[t], Execute(t, i)
  PROVE  RowsContinue
<1> DEFINE call == calls[t][i]
           id == call.id
<1>1. /\ call \in MadeCalls /\ call \in CallRecords /\ WellFormed(call) /\ SoundCall(call, Past)
      /\ rows \in Caches
  BY CallIs DEF IInv, TInv
<1>2. CASE UNCHANGED table
  BY <1>2, KeptContinues DEF table
<1>3. CASE call.op = "remove" /\ rows' = [rows EXCEPT ![id] = Null]
  BY <1>1, <1>3, KeptContinues DEF Caches
<1>4. CASE rows' = Nobody
  BY <1>4, KeptContinues DEF Nobody
<1>5. CASE /\ call.op \in Saving /\ Matches(id, call.body.rev)
           /\ Put(id, Rewritten(id, call.body))
  <2>1. id \in Ids /\ call.body \in Records /\ Derived(id, call.body, Past)
    BY <1>1, <1>5, NullIsNothing DEF WellFormed, CallRecords, SoundCall, Sound
  <2> QED
    BY <1>5, <2>1, OverwrittenContinues
<1>6. CASE call.op \in Saving /\ rows[id] = Null /\ Put(id, Inserted(id, call.body))
  <2>1. id \in Ids
    BY <1>1, <1>6 DEF WellFormed
  <2>2. \A j \in Ids : j # id => rows'[j] = rows[j]
    BY <1>1, <1>6 DEF Put, Caches
  <2> QED
    BY <1>6, <2>2, KeptContinues
<1> QED
  BY <1>2, <1>3, <1>4, <1>5, <1>6 DEF Execute, Saving

LEMMA AgentWritesContinues ==
  ASSUME IInv, NEW a \in Agents, AgentWrites(a) \/ AgentFails(a)
  PROVE  RowsContinue
<1>1. CASE UNCHANGED table
  BY <1>1, KeptContinues DEF table
<1>2. CASE /\ agent[a].pc = "write" /\ Matches(agent[a].id, agent[a].current.rev) /\ UNCHANGED lives
           /\ Put(agent[a].id, Rewritten(agent[a].id, Applied(agent[a]))) /\ made' = made
           /\ agent' = [agent EXCEPT ![a].pc = "ok"] \/ agent' = [agent EXCEPT ![a].pc = "error"]
  <2>1. agent[a] \in AgentRecords
    BY AgentIs
  <2>2. PICK pc \in {"ok", "error"} : agent' = [agent EXCEPT ![a] = [agent[a] EXCEPT !.pc = pc]]
    BY <1>2
  <2> DEFINE me == [agent[a] EXCEPT !.pc = pc]
  <2>3. me \in AgentRecords /\ me.event = agent[a].event /\ ~Open(me)
    BY <2>1, <2>2 DEF AgentRecords, Open
  <2>4. agent' = [agent EXCEPT ![a] = me]
    BY <2>2
  <2> HIDE DEF me
  <2>5. /\ agent[a].id \in Ids /\ Applied(agent[a]) \in Records
        /\ Applied(agent[a]).rev = agent[a].current.rev
        /\ Derived(agent[a].id, Applied(agent[a]), Past)
    BY <1>2, <2>3, <2>4, AgentPuts
  <2> QED
    BY <1>2, <2>5, OverwrittenContinues
<1>3. CASE AgentWrites(a)
  BY <1>1, <1>2, <1>3 DEF AgentWrites
<1>4. CASE AgentFails(a)
  BY <1>1, <1>2, <1>4 DEF AgentFails
<1> QED
  BY <1>3, <1>4

LEMMA StepContinues == IInv /\ [Next]_vars => RowsContinue
<1> SUFFICES ASSUME IInv, [Next]_vars PROVE RowsContinue
  OBVIOUS
<1>1. CASE UNCHANGED table
  BY <1>1, KeptContinues DEF table
<1>2. CASE \E t \in Tabs : TabStep(t)
  BY <1>1, <1>2 DEF TabStep, Adds, Updates, Removes, Clears, Gesture, Imports, Reload, Fail
<1>3. CASE \E t \in Tabs : Answer(t)
  BY <1>1, <1>3, ExecuteContinues DEF Answer, Refetch, Settle, SettleImport
<1>4. CASE \E a \in Agents : AgentCalls(a) \/ AgentRepeats(a) \/ AgentReads(a) \/ AgentWrites(a) \/ AgentFails(a)
  BY <1>1, <1>4, AgentWritesContinues DEF AgentCalls, AgentRepeats, AgentReads
<1>5. CASE UNCHANGED vars
  BY <1>1, <1>5 DEF vars, table
<1> QED
  BY <1>2, <1>3, <1>4, <1>5 DEF Next

\* Concurrent writers of one row cannot both succeed, and a stale copy never overwrites a newer
\* history of the same row: the conditional update (cloud-storage-adapter.ts:75-90) lets
\* only what continues a row be written over it, by whichever clients.
THEOREM RowsAreContinued == Spec => RowContinues
<1>1. IInv /\ [Next]_vars =>
        [\A id \in Ids :
           rows[id] # Null /\ rows'[id] # Null /\ rows'[id] # rows[id] /\ rows'[id].read = rows[id].life
             => IsPrefix(rows[id].events, rows'[id].events) /\ rows'[id].rev = rows[id].rev + 1]_vars
  BY StepContinues DEF RowsContinue
<1> QED
  BY <1>1, Invariance, PTL DEF Spec, RowContinues

-----------------------------------------------------------------------------
(* What agents are told. *)

RInv == OnError = "throw" => \A a \in Agents : agent[a].pc = "ok" => Recorded(agent[a])

LEMMA VersionsGrow == [Next]_vars => versions \subseteq versions'
<1> SUFFICES ASSUME [Next]_vars PROVE versions \subseteq versions'
  OBVIOUS
<1>1. CASE \E t \in Tabs : TabStep(t)
  BY <1>1 DEF TabStep, Adds, Updates, Removes, Clears, Gesture, Imports, Reload, Fail, table
<1>2. CASE \E t \in Tabs : Answer(t)
  BY <1>2 DEF Answer, Execute, Refetch, Settle, SettleImport, Put, table
<1>3. CASE \E a \in Agents : AgentCalls(a) \/ AgentRepeats(a) \/ AgentReads(a) \/ AgentWrites(a) \/ AgentFails(a)
  BY <1>3 DEF AgentCalls, AgentRepeats, AgentReads, AgentWrites, AgentFails, Put, table
<1>4. CASE UNCHANGED vars
  BY <1>4 DEF vars, table
<1> QED
  BY <1>1, <1>2, <1>3, <1>4 DEF Next

\* A step of one agent keeps what the others were told true.
LEMMA OthersRecorded ==
  ASSUME RInv, versions \subseteq versions', NEW a \in Agents,
         \A b \in Agents : b # a => agent'[b] = agent[b],
         OnError = "throw" => (agent'[a].pc = "ok" => Recorded(agent[a])')
  PROVE  RInv'
<1> SUFFICES ASSUME OnError = "throw", NEW b \in Agents, agent'[b].pc = "ok"
             PROVE  Recorded(agent[b])'
  BY DEF RInv
<1>1. CASE b = a
  BY <1>1
<1>2. CASE b # a
  BY <1>2 DEF RInv, Recorded
<1> QED
  BY <1>1, <1>2

\* A transition that is written is on record.
LEMMA WrittenIsRecorded ==
  ASSUME IInv, NEW a \in Agents, AgentWrites(a), agent'[a].pc = "ok"
  PROVE  Recorded(agent[a])'
<1>1. /\ agent[a].pc = "write" /\ agent[a] \in AgentRecords /\ agent \in [Agents -> AgentRecords]
      /\ made' = made
  BY AgentIs DEF AgentWrites, IInv, TInv
<1>2. Matches(agent[a].id, agent[a].current.rev)
  <2> SUFFICES ASSUME ~Matches(agent[a].id, agent[a].current.rev) PROVE FALSE
    OBVIOUS
  <2>1. agent'[a] = Missed(agent[a])
    BY <1>1 DEF AgentWrites
  <2>2. Missed(agent[a]).pc \in {"read", "gave up"}
    BY <1>1 DEF Missed, AgentRecords
  <2> QED
    BY <2>1, <2>2
<1> DEFINE me == [agent[a] EXCEPT !.pc = "ok"]
           id == agent[a].id
           applied == Applied(agent[a])
           record == Rewritten(id, applied)
<1>3. agent' = [agent EXCEPT ![a] = me] /\ UNCHANGED lives /\ Put(id, record)
  BY <1>2 DEF AgentWrites
<1>4. me \in AgentRecords /\ me.id = id /\ me.event = agent[a].event /\ ~Open(me)
  BY <1>1 DEF AgentRecords, Open
<1> HIDE DEF me
<1>5. /\ id \in Ids /\ applied \in Records /\ applied.rev = agent[a].current.rev
      /\ Carries(applied, agent[a].event)
  BY <1>1, <1>2, <1>3, <1>4, AgentPuts
<1>6. record.events = applied.events
  <2> DEFINE rev == applied.rev + 1
             life == rows[id].life
             read == applied.life
  <2>1. rows[id] \in Records
    BY <1>2, <1>5 DEF Matches, IInv, TInv, Caches
  <2>2. rev \in Nat /\ life \in Nat /\ read \in Nat
    BY <1>5, <2>1 DEF Records
  <2>3. record = WithNumbers(applied, rev, life, read)
    BY DEF Rewritten, WithNumbers
  <2> HIDE DEF record, rev, life, read, applied, id
  <2> QED
    BY <1>5, <2>2, <2>3, Renumbered
<1> HIDE DEF record, applied, id
<1>7. <<id, record>> \in versions' /\ <<id, record>>[1] = id /\ <<id, record>>[2] = record
  BY <1>3 DEF Put
<1>8. agent'[a] = me
  BY <1>1, <1>3
<1> QED
  BY <1>4, <1>5, <1>6, <1>7, <1>8 DEF Recorded, Carries

LEMMA StepRInv == IInv /\ RInv /\ [Next]_vars => RInv'
<1> SUFFICES ASSUME IInv, RInv, [Next]_vars PROVE RInv'
  OBVIOUS
<1>1. versions \subseteq versions' /\ agent \in [Agents -> AgentRecords]
  BY VersionsGrow DEF IInv, TInv
<1>2. CASE UNCHANGED agent
  BY <1>1, <1>2 DEF RInv, Recorded
<1>3. CASE \E t \in Tabs : TabStep(t)
  BY <1>2, <1>3 DEF TabStep, Adds, Updates, Removes, Clears, Gesture, Imports, Reload, Fail, Answered
<1>4. CASE \E t \in Tabs : Answer(t)
  BY <1>2, <1>4 DEF Answer, Execute, Refetch, Settle, SettleImport, Answered
<1>5. ASSUME NEW a \in Agents, AgentCalls(a) PROVE RInv'
  <2>1. PICK id \in Ids, action \in AgentMoves :
          agent' = [agent EXCEPT ![a] = [Resting EXCEPT !.pc = "read", !.id = id, !.action = action,
                                                        !.event = made + 1]]
    BY <1>5 DEF AgentCalls
  <2>2. agent'[a].pc = "read" /\ \A b \in Agents : b # a => agent'[b] = agent[b]
    BY <1>1, <2>1 DEF Resting
  <2> QED
    BY <1>1, <2>2, OthersRecorded
<1>6. ASSUME NEW a \in Agents, AgentReads(a) PROVE RInv'
  <2> DEFINE me == agent[a]
             row == rows[me.id]
  <2>1. /\ me \in AgentRecords /\ me.pc = "read" /\ me.id \in Ids /\ UNCHANGED table
        /\ \A b \in Agents : b # a => agent'[b] = agent[b]
    BY <1>1, <1>6, AgentIs DEF AgentReads
  <2>2. CASE row = Null
    <3>1. agent'[a] = [me EXCEPT !.pc = "not found"]
      BY <1>1, <1>6, <2>2 DEF AgentReads
    <3>2. agent'[a].pc = "not found"
      BY <2>1, <3>1 DEF AgentRecords
    <3> QED
      BY <1>1, <2>1, <3>2, OthersRecorded
  <2>3. CASE row # Null
    <3>1. agent'[a] = [me EXCEPT !.pc = AnswerOf(me, row), !.current = row]
      BY <1>1, <1>6, <2>3 DEF AgentReads
    <3>2. agent'[a].pc = AnswerOf(me, row) /\ agent'[a].id = me.id /\ agent'[a].event = me.event
      BY <2>1, <3>1 DEF AgentRecords
    <3>3. AnswerOf(me, row) = "ok" => Carries(row, me.event)
      BY DEF AnswerOf
    <3>4. <<me.id, row>> \in versions' /\ <<me.id, row>>[1] = me.id /\ <<me.id, row>>[2] = row
      BY <2>1, <2>3 DEF IInv, VInv, table
    <3>5. agent'[a].pc = "ok" => Recorded(agent[a])'
      BY <3>2, <3>3, <3>4 DEF Recorded
    <3> QED
      BY <1>1, <2>1, <3>5, OthersRecorded
  <2> QED
    BY <2>2, <2>3
<1>10. ASSUME NEW a \in Agents, AgentRepeats(a) PROVE RInv'
  <2>1. /\ agent' = [agent EXCEPT ![a] = [agent[a] EXCEPT !.pc = "read", !.attempt = 0,
                                                           !.current = Null, !.again = TRUE]]
        /\ agent[a] \in AgentRecords
    BY <1>1, <1>10 DEF AgentRepeats
  <2>2. agent'[a].pc = "read" /\ \A b \in Agents : b # a => agent'[b] = agent[b]
    BY <1>1, <2>1 DEF AgentRecords
  <2> QED
    BY <1>1, <2>2, OthersRecorded
<1>7. ASSUME NEW a \in Agents, AgentWrites(a) PROVE RInv'
  <2>1. \A b \in Agents : b # a => agent'[b] = agent[b]
    BY <1>1, <1>7 DEF AgentWrites
  <2> QED
    BY <1>1, <1>7, <2>1, WrittenIsRecorded, OthersRecorded
<1>8. ASSUME NEW a \in Agents, AgentFails(a) PROVE RInv'
  <2>1. \A b \in Agents : b # a => agent'[b] = agent[b]
    BY <1>1, <1>8 DEF AgentFails
  <2>2. OnError = "throw" => agent'[a].pc = "error"
    BY <1>1, <1>8 DEF AgentFails, AgentRecords
  <2> QED
    BY <1>1, <2>1, <2>2, OthersRecorded
<1>9. CASE UNCHANGED vars
  BY <1>2, <1>9 DEF vars
<1> QED
  BY <1>3, <1>4, <1>5, <1>6, <1>7, <1>8, <1>9, <1>10 DEF Next

\* An agent told that its transition succeeded has it on record, and one told that it was
\* refused, or that it gave up, has not: whoever else wrote, however often it read again
\* (cloud-storage-adapter.ts:150-163).  A call repeated under its operation id records
\* nothing twice, and is not refused by a copy that carries it.
THEOREM AgentsHearTheTruth == Spec => []AgentsAreToldTheTruth
<1>1. IInv /\ RInv => AgentsAreToldTheTruth
  <2>4. IInv => \A v \in versions : RecordedOnce(v[2])
    BY DEF IInv, SInv, Sound, Truthful
  <2>5. IInv => \A a \in Agents : agent[a].pc \in {"invalid", "gave up"} => ~Carries(agent[a].current, agent[a].event)
    BY DEF IInv, TInv, ReadWithout
  <2> SUFFICES ASSUME IInv, RInv, OnError = "throw", NEW a \in Agents,
                      agent[a].pc \in {"not found", "invalid", "gave up"}, ~agent[a].again,
                      Recorded(agent[a])
               PROVE  FALSE
    BY <2>4, <2>5 DEF AgentsAreToldTheTruth, RInv
  <2>1. PICK v \in versions : \E i \in DOMAIN v[2].events : v[2].events[i].id = agent[a].event
    BY DEF Recorded, Carries
  <2>2. Truthful(v[2], Past)
    BY <2>1 DEF IInv, SInv, Sound
  <2>3. Open(Past.agent[a]) /\ Past.agent[a].event = agent[a].event
    BY DEF Open, Past
  <2> QED
    BY <2>1, <2>2, <2>3 DEF Truthful
<1>2. Init => RInv
  BY DEF Init, Resting, RInv
<1> QED
  BY <1>1, <1>2, StepRInv, Invariance, PTL DEF Spec

-----------------------------------------------------------------------------
(* What a tab shows, when failures are thrown and users wait. *)

Patient == OneAtATime /\ OnError = "throw"

AllSaved(shown, past) == \A id \in Ids : shown[id] # Null => <<id, shown[id]>> \in past

\* What a tab may show that no table holds: what its call, or the rest of its import, is
\* about to write.
Unsaved(call, job) ==
  (IF call.op \in {"add", "update", "importSave"} THEN {call.id} ELSE {})
  \cup (IF call.op \in {"importClear", "importSave"} THEN job.rest ELSE {})

SavedBut(shown, ids, past) == \A id \in Ids \ ids : shown[id] # Null => <<id, shown[id]>> \in past

Waits(shown, job, call, past) ==
  /\ job # Null <=> call.op \in Importing
  /\ call.result # "void"
  /\ call.op \in Saving /\ call.result = "ok" => call.copy # Null
  /\ call.copy # Null => <<call.id, call.copy>> \in past
  /\ AllSaved(call.kept, past)
  /\ job # Null => AllSaved(job.previous, past)
  /\ SavedBut(shown, Unsaved(call, job), past)

\* A tab has one call of its own under way, or rests and shows what is saved.
Orderly(mine, shown, job, past) ==
  /\ \A i, j \in DOMAIN mine : ~mine[i].gone /\ ~mine[j].gone => i = j
  /\ (\A i \in DOMAIN mine : mine[i].gone) => job = Null /\ AllSaved(shown, past)
  /\ \A i \in DOMAIN mine : ~mine[i].gone => Waits(shown, job, mine[i], past)

PInv == \A t \in Tabs : Orderly(calls[t], cache[t], importing[t], versions)

LEMMA OrderlyLater ==
  ASSUME NEW mine, NEW shown, NEW job, NEW past, NEW later, past \subseteq later,
         Orderly(mine, shown, job, past)
  PROVE  Orderly(mine, shown, job, later)
<1>1. \A other : AllSaved(other, past) => AllSaved(other, later)
  BY DEF AllSaved
<1>2. \A other, ids : SavedBut(other, ids, past) => SavedBut(other, ids, later)
  BY DEF SavedBut
<1>3. \A call : Waits(shown, job, call, past) => Waits(shown, job, call, later)
  BY <1>1, <1>2 DEF Waits
<1> QED
  BY <1>1, <1>3 DEF Orderly

\* What a step of one tab has to show.
LEMMA TabOrderly ==
  ASSUME TInv, PInv, versions \subseteq versions', NEW t \in Tabs, NEW mine, NEW shown, NEW job,
         calls' = [calls EXCEPT ![t] = mine], cache' = [cache EXCEPT ![t] = shown],
         importing' = [importing EXCEPT ![t] = job],
         Orderly(mine, shown, job, versions')
  PROVE  PInv'
<1> SUFFICES ASSUME NEW u \in Tabs PROVE Orderly(calls'[u], cache'[u], importing'[u], versions')
  BY DEF PInv
<1>1. calls'[t] = mine /\ cache'[t] = shown /\ importing'[t] = job
  BY DEF TInv
<1>2. u # t => calls'[u] = calls[u] /\ cache'[u] = cache[u] /\ importing'[u] = importing[u]
  BY DEF TInv
<1>3. Orderly(calls[u], cache[u], importing[u], versions')
  BY OrderlyLater DEF PInv
<1> QED
  BY <1>1, <1>2, <1>3

\* A call is made by a tab that has none under way.
LEMMA FirstCall ==
  ASSUME NEW mine \in Seq(MadeCalls), \A i \in DOMAIN mine : mine[i].gone,
         NEW call \in MadeCalls, ~call.gone, NEW shown, NEW job, NEW past,
         Waits(shown, job, call, past)
  PROVE  Orderly(Append(mine, call), shown, job, past)
<1>1. /\ DOMAIN Append(mine, call) = DOMAIN mine \cup {Len(mine) + 1}
      /\ Append(mine, call)[Len(mine) + 1] = call
      /\ \A i \in DOMAIN mine : Append(mine, call)[i] = mine[i]
  BY OneMore
<1>2. Len(mine) + 1 \in DOMAIN Append(mine, call)
  BY <1>1
<1>3. \A i \in DOMAIN Append(mine, call) : i = Len(mine) + 1 \/ Append(mine, call)[i].gone
  BY <1>1
<1> QED
  BY <1>1, <1>2, <1>3 DEF Orderly

\* The call that is under way is the only one, and none is left when it is taken out.
LEMMA LastCall ==
  ASSUME NEW mine \in Seq(MadeCalls), NEW i \in DOMAIN mine, ~mine[i].gone,
         NEW shown, NEW job, NEW past, Orderly(mine, shown, job, past)
  PROVE  /\ RemoveAt(mine, i) \in Seq(MadeCalls)
         /\ \A j \in DOMAIN RemoveAt(mine, i) : RemoveAt(mine, i)[j].gone
<1>1. /\ RemoveAt(mine, i) \in Seq(MadeCalls)
      /\ \A j \in DOMAIN RemoveAt(mine, i) :
           \E k \in DOMAIN mine : k # i /\ RemoveAt(mine, i)[j] = mine[k]
  BY Remaining
<1>2. \A k \in DOMAIN mine : k # i => mine[k].gone
  BY DEF Orderly
<1> QED
  BY <1>1, <1>2

\* The call of a page that was left is taken out.
LEMMA GoneCall ==
  ASSUME NEW mine \in Seq(MadeCalls), NEW i \in DOMAIN mine, mine[i].gone,
         NEW shown, NEW job, NEW past, Orderly(mine, shown, job, past)
  PROVE  Orderly(RemoveAt(mine, i), shown, job, past)
<1> DEFINE rest == RemoveAt(mine, i)
           At(j) == IF j < i THEN j ELSE j + 1
<1>1. /\ rest \in Seq(MadeCalls) /\ Len(rest) = Len(mine) - 1
      /\ \A j \in DOMAIN rest : At(j) \in DOMAIN mine /\ rest[j] = mine[At(j)]
  BY Remaining
<1> HIDE DEF rest
<1>2. \A j, k \in DOMAIN rest : At(j) = At(k) => j = k
  BY <1>1
<1>3. \A k \in DOMAIN mine : k # i => \E j \in DOMAIN rest : k = At(j)
  <2> SUFFICES ASSUME NEW k \in DOMAIN mine, k # i
               PROVE  \E j \in DOMAIN rest : k = At(j)
    OBVIOUS
  <2> DEFINE j == IF k < i THEN k ELSE k - 1
  <2>1. k \in 1 .. Len(mine) /\ i \in 1 .. Len(mine) /\ Len(mine) \in Nat
    OBVIOUS
  <2>2. j \in 1 .. Len(rest) /\ k = At(j)
    BY <1>1, <2>1
  <2>3. j \in DOMAIN rest
    BY <1>1, <2>2
  <2> QED
    BY <2>2, <2>3
<1> HIDE DEF At
<1>4. \A j, k \in DOMAIN rest : ~rest[j].gone /\ ~rest[k].gone => j = k
  BY <1>1, <1>2 DEF Orderly
<1>5. (\A j \in DOMAIN rest : rest[j].gone) => \A k \in DOMAIN mine : mine[k].gone
  BY <1>1, <1>3
<1>6. \A j \in DOMAIN rest : ~rest[j].gone => Waits(shown, job, rest[j], past)
  BY <1>1 DEF Orderly
<1>7. Orderly(rest, shown, job, past)
  BY <1>4, <1>5, <1>6 DEF Orderly
<1> QED
  BY <1>7 DEF rest

\* A tab that rests is saved.
LEMMA Rests ==
  ASSUME PInv, OneAtATime, NEW t \in Tabs, Idle(t)
  PROVE  /\ importing[t] = Null /\ AllSaved(cache[t], versions)
         /\ \A i \in DOMAIN calls[t] : calls[t][i].gone
BY DEF PInv, Orderly, Idle

LEMMA GesturePInv ==
  ASSUME TInv, PInv, OneAtATime, NEW t \in Tabs, NEW shown, NEW call \in MadeCalls,
         Gesture(t, shown, call), ~call.gone, call.result = "none", call.copy = Null,
         call.op \notin Importing, AllSaved(call.kept, versions),
         SavedBut(shown, Unsaved(call, Null), versions)
  PROVE  PInv'
<1>1. /\ calls' = [calls EXCEPT ![t] = Append(calls[t], call)] /\ cache' = [cache EXCEPT ![t] = shown]
      /\ importing' = importing /\ versions' = versions /\ Idle(t)
  BY DEF Gesture, table
<1>2. importing[t] = Null /\ \A i \in DOMAIN calls[t] : calls[t][i].gone
  BY <1>1, Rests
<1>3. importing' = [importing EXCEPT ![t] = Null] /\ calls[t] \in Seq(MadeCalls)
  BY <1>1, <1>2 DEF TInv
<1>4. Waits(shown, Null, call, versions)
  BY DEF Waits
<1>5. Orderly(Append(calls[t], call), shown, Null, versions)
  BY <1>2, <1>3, <1>4, FirstCall
<1> QED
  BY <1>1, <1>3, <1>5, TabOrderly

LEMMA GesturesPInv ==
  ASSUME IInv, PInv, OneAtATime, NEW t \in Tabs, Adds(t) \/ Updates(t) \/ Removes(t) \/ Clears(t)
  PROVE  PInv'
<1>1. PICK op, id, body, kept, shown :
        /\ op \in {"add", "update", "remove", "clear"}
        /\ Gesture(t, shown, Call(op, id, body, kept))
        /\ \A i \in Ids : kept[i] = cache[t][i] \/ kept[i] = Null
        /\ \A i \in Ids : shown[i] = cache[t][i] \/ shown[i] = Null \/ (i = id /\ op \in {"add", "update"})
  <2>1. cache[t] \in Caches
    BY DEF IInv, TInv
  <2>2. CASE Adds(t)
    <3>1. PICK id \in Ids : Gesture(t, [cache[t] EXCEPT ![id] = Created], Call("add", id, Created, Nobody))
      BY <2>2 DEF Adds
    <3> DEFINE new == [cache[t] EXCEPT ![id] = Created]
    <3>2. \A i \in Ids : i # id => new[i] = cache[t][i]
      BY <2>1 DEF Caches
    <3>3. Gesture(t, new, Call("add", id, Created, Nobody)) /\ \A i \in Ids : Nobody[i] = Null
      BY <3>1 DEF Nobody
    <3> HIDE DEF new
    <3> QED
      BY <3>2, <3>3
  <2>3. CASE Updates(t)
    <3>1. PICK id \in Ids, action \in TabMoves :
            Gesture(t, [cache[t] EXCEPT ![id] = Moved(cache[t][id], action)],
                    Call("update", id, Moved(cache[t][id], action), [Nobody EXCEPT ![id] = cache[t][id]]))
      BY <2>3 DEF Updates
    <3> DEFINE moved == Moved(cache[t][id], action)
               new == [cache[t] EXCEPT ![id] = moved]
               old == [Nobody EXCEPT ![id] = cache[t][id]]
    <3>2. \A i \in Ids : i # id => new[i] = cache[t][i]
      BY <2>1 DEF Caches
    <3>3. \A i \in Ids : old[i] = cache[t][i] \/ old[i] = Null
      BY DEF Nobody
    <3>4. Gesture(t, new, Call("update", id, moved, old))
      BY <3>1
    <3> HIDE DEF moved, new, old
    <3> QED
      BY <3>2, <3>3, <3>4
  <2>4. CASE Removes(t)
    <3>1. PICK id \in Ids : Gesture(t, [cache[t] EXCEPT ![id] = Null], Call("remove", id, Null, cache[t]))
      BY <2>4 DEF Removes
    <3> DEFINE new == [cache[t] EXCEPT ![id] = Null]
    <3>2. \A i \in Ids : new[i] = cache[t][i] \/ new[i] = Null
      BY <2>1 DEF Caches
    <3>3. Gesture(t, new, Call("remove", id, Null, cache[t]))
      BY <3>1
    <3> HIDE DEF new
    <3> QED
      BY <3>2, <3>3
  <2>5. CASE Clears(t)
    <3>1. Gesture(t, Nobody, Call("clear", Null, Null, cache[t])) /\ \A i \in Ids : Nobody[i] = Null
      BY <2>5 DEF Clears, Nobody
    <3> QED
      BY <3>1
  <2> QED
    BY <2>2, <2>3, <2>4, <2>5
<1> DEFINE call == Call(op, id, body, kept)
<1>2. /\ ~call.gone /\ call.result = "none" /\ call.copy = Null /\ call.op = op /\ call.id = id
      /\ call.kept = kept
  BY DEF Call
<1>3. calls' = [calls EXCEPT ![t] = Append(calls[t], call)] /\ Idle(t)
  BY <1>1 DEF Gesture
<1>4. AllSaved(cache[t], versions)
  BY <1>3, Rests
<1>5. AllSaved(kept, versions)
  BY <1>1, <1>4 DEF AllSaved
<1>6. SavedBut(shown, Unsaved(call, Null), versions)
  BY <1>1, <1>2, <1>4 DEF AllSaved, SavedBut, Unsaved
<1>7. call \in MadeCalls
  <2>1. calls'[t] \in Seq(MadeCalls) /\ calls'[t] = Append(calls[t], call) /\ calls[t] \in Seq(MadeCalls)
    <3>1. IInv'
      BY AddsIInv, UpdatesIInv, RemovesIInv
    <3> QED
      BY <1>3, <3>1 DEF IInv, TInv
  <2> HIDE DEF call
  <2>2. Len(calls[t]) + 1 \in DOMAIN Append(calls[t], call) /\ Append(calls[t], call)[Len(calls[t]) + 1] = call
    BY <2>1
  <2> QED
    BY <2>1, <2>2
<1> HIDE DEF call
<1> QED
  BY <1>1, <1>2, <1>5, <1>6, <1>7, GesturePInv DEF IInv, Importing, call

LEMMA ImportsPInv ==
  ASSUME IInv, PInv, OneAtATime, NEW t \in Tabs, Imports(t)
  PROVE  PInv'
<1> DEFINE job == [previous |-> cache[t], rest |-> {id \in Ids : ImportFile[id] # Null}]
           call == Call("importClear", Null, Null, Nobody)
<1>1. /\ calls' = [calls EXCEPT ![t] = Append(calls[t], call)]
      /\ cache' = [cache EXCEPT ![t] = ImportFile] /\ importing' = [importing EXCEPT ![t] = job]
      /\ versions' = versions /\ Idle(t)
  BY DEF Imports, table
<1>2. AllSaved(cache[t], versions) /\ \A i \in DOMAIN calls[t] : calls[t][i].gone
  BY <1>1, Rests
<1>3. /\ call \in MadeCalls /\ call.op = "importClear" /\ call.kept = Nobody /\ call.result = "none"
      /\ call.copy = Null /\ ~call.gone
  BY NobodyIs, CallTyped DEF Ops, Saving
<1> HIDE DEF call
<1>4. job.previous = cache[t] /\ job.rest = {id \in Ids : ImportFile[id] # Null} /\ job # Null
  <2>1. job \in Jobs
    BY DEF IInv, TInv, Jobs
  <2> QED
    BY <2>1, NullIsNoJob DEF Jobs, Caches
<1> HIDE DEF job
<1>5. SavedBut(ImportFile, Unsaved(call, job), versions)
  BY <1>3, <1>4 DEF SavedBut, Unsaved
<1>6. AllSaved(call.kept, versions)
  BY <1>3 DEF AllSaved, Nobody
<1>7. Waits(ImportFile, job, call, versions)
  BY <1>2, <1>3, <1>4, <1>5, <1>6 DEF Waits, Importing, Saving
<1>8. Orderly(Append(calls[t], call), ImportFile, job, versions)
  BY <1>2, <1>3, <1>7, FirstCall DEF IInv, TInv
<1> QED
  BY <1>1, <1>8, TabOrderly DEF IInv

\* The page is opened again: it loads.
LEMMA LoadWaits == Waits(Nobody, Null, LoadCall, versions)
<1>1. \A id \in Ids : Nobody[id] = Null
  BY DEF Nobody
<1> QED
  BY <1>1, LoadCallIs DEF Waits, AllSaved, SavedBut, Importing, Saving

LEMMA ReloadPInv ==
  ASSUME IInv, PInv, NEW t \in Tabs, Reload(t)
  PROVE  PInv'
<1> DEFINE left == [i \in DOMAIN calls[t] |-> [calls[t][i] EXCEPT !.gone = TRUE]]
<1>1. /\ cache' = [cache EXCEPT ![t] = Nobody] /\ importing' = [importing EXCEPT ![t] = Null]
      /\ calls' = [calls EXCEPT ![t] = Append(left, LoadCall)] /\ versions' = versions
  BY DEF Reload, table
<1>2. left \in Seq(MadeCalls) /\ \A i \in DOMAIN left : left[i].gone
  BY LeftBehind DEF IInv, TInv
<1> HIDE DEF left
<1>3. Orderly(Append(left, LoadCall), Nobody, Null, versions)
  BY <1>2, LoadCallIs, LoadWaits, FirstCall
<1> QED
  BY <1>1, <1>3, TabOrderly DEF IInv

\* A call of a tab comes back, or goes on to.
LEMMA WaitsOn ==
  ASSUME NEW shown, NEW job, NEW call, NEW past, NEW later, past \subseteq later,
         Waits(shown, job, call, past), NEW came, came.op = call.op, came.id = call.id,
         came.result # "void",
         came.op \in Saving /\ came.result = "ok" => came.copy # Null,
         came.copy # Null => <<came.id, came.copy>> \in later,
         AllSaved(came.kept, later)
  PROVE  Waits(shown, job, came, later)
<1>1. job # Null => AllSaved(job.previous, later)
  BY DEF Waits, AllSaved
<1>2. SavedBut(shown, Unsaved(came, job), later)
  BY DEF Waits, SavedBut, Unsaved
<1>3. job # Null <=> came.op \in Importing
  BY DEF Waits
<1> QED
  BY <1>1, <1>2, <1>3 DEF Waits

LEMMA AnsweredPInv ==
  ASSUME IInv, PInv, versions \subseteq versions', NEW t \in Tabs, NEW i \in DOMAIN calls[t],
         NEW came, Answered(t, i, came), came.op = calls[t][i].op, came.id = calls[t][i].id,
         came.gone = calls[t][i].gone, came.result # "void",
         came.op \in Saving /\ came.result = "ok" => came.copy # Null,
         came.copy # Null => <<came.id, came.copy>> \in versions',
         ~came.gone => AllSaved(came.kept, versions')
  PROVE  PInv'
<1> DEFINE mine == [calls[t] EXCEPT ![i] = came]
<1>1. calls[t] \in Seq(MadeCalls) /\ calls \in [Tabs -> Seq(MadeCalls)]
  BY DEF IInv, TInv
<1>2. /\ calls' = [calls EXCEPT ![t] = mine] /\ cache' = [cache EXCEPT ![t] = cache[t]]
      /\ importing' = [importing EXCEPT ![t] = importing[t]]
  BY <1>1 DEF Answered, IInv, TInv
<1>3. /\ DOMAIN mine = DOMAIN calls[t] /\ mine[i] = came
      /\ \A j \in DOMAIN calls[t] : j # i => mine[j] = calls[t][j]
  BY <1>1
<1> HIDE DEF mine
<1>4. Orderly(calls[t], cache[t], importing[t], versions')
  BY OrderlyLater DEF PInv
<1>5. \A j \in DOMAIN mine : mine[j].gone = calls[t][j].gone
  BY <1>3
<1>6. ~came.gone => Waits(cache[t], importing[t], came, versions')
  <2>1. ~came.gone => Waits(cache[t], importing[t], calls[t][i], versions)
    BY DEF PInv, Orderly
  <2> QED
    BY <2>1, WaitsOn
<1>7. Orderly(mine, cache[t], importing[t], versions')
  BY <1>3, <1>4, <1>5, <1>6 DEF Orderly
<1> QED
  BY <1>2, <1>7, TabOrderly DEF IInv

LEMMA KeptSaved ==
  ASSUME PInv, NEW t \in Tabs, NEW i \in DOMAIN calls[t], ~calls[t][i].gone, versions \subseteq versions'
  PROVE  AllSaved(calls[t][i].kept, versions')
BY DEF PInv, Orderly, Waits, AllSaved

LEMMA ExecutePInv ==
  ASSUME IInv, PInv, NEW t \in Tabs, NEW i \in DOMAIN calls[t], Execute(t, i)
  PROVE  PInv'
<1> DEFINE call == calls[t][i]
           id == call.id
<1>1. /\ call \in MadeCalls /\ WellFormed(call) /\ call.step = "sent" /\ versions \subseteq versions'
      /\ call.result = "none" /\ call.copy = Null /\ IInv'
  <2>1. versions \subseteq versions'
    BY DEF Execute, Put, table
  <2> QED
    BY <2>1, CallIs, ExecuteIInv DEF Execute, WellFormed
<1>2. ~call.gone => AllSaved(call.kept, versions')
  BY <1>1, KeptSaved
<1>3. CASE call.op = "load" /\ Answered(t, i, [Came(call, "ok", Null) EXCEPT !.kept = rows])
  <2> DEFINE came == Came(call, "ok", Null)
             new == [came EXCEPT !.kept = rows]
  <2>1. /\ came \in MadeCalls /\ came.op = call.op /\ came.id = call.id /\ came.gone = call.gone
        /\ came.result = "ok" /\ came.copy = Null
    BY <1>1, CameTyped
  <2> HIDE DEF came
  <2>2. /\ new.op = call.op /\ new.id = call.id /\ new.gone = call.gone /\ new.result = "ok"
        /\ new.copy = Null /\ new.kept = rows
    BY <2>1 DEF MadeCalls, CallRecords
  <2>3. Answered(t, i, new)
    BY <1>3 DEF came
  <2> HIDE DEF new
  <2>4. AllSaved(rows, versions')
    BY <1>1 DEF IInv, VInv, AllSaved
  <2> QED
    BY <1>1, <1>3, <2>2, <2>3, <2>4, AnsweredPInv DEF Saving
<1>4. CASE call.op \in {"remove", "clear", "importClear"} /\ Answered(t, i, Came(call, "ok", Null))
  <2> DEFINE new == Came(call, "ok", Null)
  <2>1. /\ new.op = call.op /\ new.id = call.id /\ new.gone = call.gone
        /\ new.result = "ok" /\ new.copy = Null /\ new.kept = call.kept
    BY <1>1, CameTyped
  <2> HIDE DEF new
  <2> QED
    BY <1>1, <1>2, <1>4, <2>1, AnsweredPInv DEF Saving, new
<1>5. ASSUME NEW record, call.op \in Saving, Put(id, record), Answered(t, i, Came(call, "ok", rows'[id]))
      PROVE  PInv'
  <2> DEFINE new == Came(call, "ok", rows'[id])
  <2>1. <<id, record>> \in versions' /\ id \in Ids /\ record \in Records /\ rows'[id] = record
    <3>1. <<id, record>> \in versions' /\ versions' \subseteq Ids \X Records /\ rows \in Caches
      BY <1>1, <1>5 DEF Put, IInv, TInv
    <3> QED
      BY <1>5, <3>1 DEF Put, Caches
  <2>2. record # Null
    BY <2>1, NullIsNothing
  <2>3. /\ new.op = call.op /\ new.id = call.id /\ new.gone = call.gone
        /\ new.result = "ok" /\ new.copy = record /\ new.kept = call.kept
    BY <1>1, <1>5, <2>1, CameTyped
  <2>4. Answered(t, i, new)
    BY <1>5
  <2> HIDE DEF new
  <2> QED
    BY <1>1, <1>2, <2>1, <2>2, <2>3, <2>4, AnsweredPInv
<1>6. CASE Answered(t, i, [call EXCEPT !.step = "refetch"])
  <2> DEFINE new == [call EXCEPT !.step = "refetch"]
  <2>1. /\ new.op = call.op /\ new.id = call.id /\ new.gone = call.gone
        /\ new.result = "none" /\ new.copy = Null /\ new.kept = call.kept
    BY <1>1 DEF MadeCalls, CallRecords
  <2> HIDE DEF new
  <2> QED
    BY <1>1, <1>2, <1>6, <2>1, AnsweredPInv DEF new
<1> QED
  BY <1>3, <1>4, <1>5, <1>6 DEF Execute, Saving

LEMMA RefetchPInv ==
  ASSUME IInv, PInv, NEW t \in Tabs, NEW i \in DOMAIN calls[t], Refetch(t, i)
  PROVE  PInv'
<1> DEFINE call == calls[t][i]
           new == Came(call, "conflict", rows[call.id])
<1>1. /\ call \in MadeCalls /\ WellFormed(call) /\ call.step = "refetch" /\ versions' = versions
      /\ versions \subseteq versions' /\ Answered(t, i, new)
  BY CallIs DEF Refetch, table
<1>2. call.op \in Saving /\ call.id \in Ids
  BY <1>1 DEF WellFormed
<1>3. rows[call.id] \in Records \cup {Null} /\ (rows[call.id] # Null => <<call.id, rows[call.id]>> \in versions)
  BY <1>2 DEF IInv, TInv, VInv, Caches
<1>4. /\ new.op = call.op /\ new.id = call.id /\ new.gone = call.gone
      /\ new.result = "conflict" /\ new.copy = rows[call.id] /\ new.kept = call.kept
  BY <1>1, <1>2, <1>3, CameTyped
<1>5. ~call.gone => AllSaved(call.kept, versions')
  BY <1>1, KeptSaved
<1> HIDE DEF new
<1> QED
  BY <1>1, <1>3, <1>4, <1>5, AnsweredPInv

LEMMA FailPInv ==
  ASSUME IInv, PInv, OnError = "throw", NEW t \in Tabs, NEW i \in DOMAIN calls[t], Fail(t, i)
  PROVE  PInv'
<1> DEFINE call == calls[t][i]
           new == Failed(call)
<1>1. /\ call \in MadeCalls /\ SoundCall(call, Past) /\ versions' = versions
      /\ versions \subseteq versions' /\ Answered(t, i, new)
  BY CallIs DEF Fail, table
<1>2. new = Came(call, "error", Null)
  BY DEF Failed
<1>3. /\ new.op = call.op /\ new.id = call.id /\ new.gone = call.gone
      /\ new.result = "error" /\ new.copy = Null /\ new.kept = call.kept
  BY <1>1, <1>2, CameTyped
<1>4. ~call.gone => AllSaved(call.kept, versions')
  BY <1>1, KeptSaved
<1> HIDE DEF new
<1> QED
  BY <1>1, <1>3, <1>4, AnsweredPInv

\* An answer leaves a tab showing what is saved.
LEMMA SettledSaved ==
  ASSUME NEW shown \in Caches, NEW call \in MadeCalls, NEW past, Waits(shown, Null, call, past),
         call.op \notin Importing, call.step = "back", call.op = "update" => call.id \in Ids
  PROVE  AllSaved(Settled(shown, call), past)
<1>1. /\ WellFormed(call) /\ call \in CallRecords /\ call.result \in {"ok", "conflict", "error"}
  BY DEF MadeCalls, WellFormed, CallRecords, Waits
<1>2. /\ AllSaved(call.kept, past) /\ (call.copy # Null => <<call.id, call.copy>> \in past)
      /\ SavedBut(shown, IF call.op \in {"add", "update"} THEN {call.id} ELSE {}, past)
  BY DEF Waits, Unsaved, Importing
<1>3. call.op \notin {"add", "update"} => AllSaved(shown, past)
  BY <1>2 DEF SavedBut, AllSaved
<1>4. ASSUME NEW copy, copy # Null => <<call.id, copy>> \in past
      PROVE  AllSaved([shown EXCEPT ![call.id] = copy], past)
  <2> DEFINE new == [shown EXCEPT ![call.id] = copy]
  <2>1. \A id \in Ids : id # call.id => new[id] = shown[id]
    BY DEF Caches
  <2>2. \A id \in Ids : id = call.id => new[id] = copy
    BY DEF Caches
  <2> HIDE DEF new
  <2>3. AllSaved(new, past)
    BY <1>2, <1>4, <2>1, <2>2 DEF AllSaved, SavedBut
  <2> QED
    BY <2>3 DEF new
<1>5. CASE call.op = "load"
  <2>1. Settled(shown, call) = IF call.result \in {"ok", "void"} THEN call.kept ELSE shown
    BY <1>1, <1>5 DEF Settled, WellFormed, Saving
  <2> QED
    BY <1>2, <1>3, <1>5, <2>1
<1>6. CASE call.op # "load" /\ call.result = "ok" /\ call.copy # Null
  BY <1>2, <1>4, <1>6 DEF Settled
<1>7. CASE call.op \in {"remove", "clear"} /\ ~(call.result = "ok" /\ call.copy # Null)
  BY <1>1, <1>2, <1>3, <1>7 DEF Settled
<1>8. CASE call.op \in {"add", "update"} /\ call.result = "ok" /\ call.copy = Null
  BY <1>8 DEF Waits, Saving
<1>9. CASE call.op = "add" /\ call.result \in {"error", "conflict"}
  <2>1. Settled(shown, call) = [shown EXCEPT ![call.id] = Null]
    BY <1>9 DEF Settled
  <2> QED
    BY <1>4, <2>1
<1>10. CASE call.op = "update" /\ call.result = "conflict"
  <2>1. Settled(shown, call) = [shown EXCEPT ![call.id] = call.copy]
    BY <1>10 DEF Settled
  <2> QED
    BY <1>2, <1>4, <2>1
<1>11. CASE call.op = "update" /\ call.result = "error"
  <2>1. Settled(shown, call) = [shown EXCEPT ![call.id] = call.kept[call.id]]
    BY <1>11 DEF Settled
  <2>2. call.kept[call.id] # Null => <<call.id, call.kept[call.id]>> \in past
    BY <1>2, <1>11 DEF AllSaved
  <2> QED
    BY <1>4, <2>1, <2>2
<1>12. call.op \in {"load", "add", "update", "remove", "clear"}
  BY <1>1 DEF CallRecords, Ops, Importing
<1> QED
  BY <1>1, <1>5, <1>6, <1>7, <1>8, <1>9, <1>10, <1>11, <1>12

LEMMA SettlePInv ==
  ASSUME IInv, PInv, NEW t \in Tabs, NEW i \in DOMAIN calls[t], Settle(t, i)
  PROVE  PInv'
<1> DEFINE call == calls[t][i]
           mine == RemoveAt(calls[t], i)
<1>1. /\ call \in MadeCalls /\ WellFormed(call) /\ call.step = "back" /\ calls[t] \in Seq(MadeCalls)
      /\ calls' = [calls EXCEPT ![t] = mine] /\ importing' = [importing EXCEPT ![t] = importing[t]]
      /\ versions' = versions /\ (call.gone \/ call.op \notin Importing)
      /\ Orderly(calls[t], cache[t], importing[t], versions) /\ cache[t] \in Caches
  BY CallIs DEF Settle, table, Importing, IInv, TInv, PInv
<1>2. CASE call.gone
  <2>1. cache' = [cache EXCEPT ![t] = cache[t]]
    BY <1>2 DEF Settle, IInv, TInv
  <2>2. Orderly(mine, cache[t], importing[t], versions)
    BY <1>1, <1>2, GoneCall
  <2> HIDE DEF mine
  <2> QED
    BY <1>1, <2>1, <2>2, TabOrderly DEF IInv
<1>3. CASE ~call.gone
  <2>1. cache' = [cache EXCEPT ![t] = Settled(cache[t], call)]
    BY <1>3 DEF Settle, IInv, TInv
  <2>2. \A j \in DOMAIN mine : mine[j].gone
    BY <1>1, <1>3, LastCall
  <2>3. Waits(cache[t], importing[t], call, versions) /\ importing[t] = Null
    BY <1>1, <1>3 DEF Orderly, Waits
  <2>4. AllSaved(Settled(cache[t], call), versions)
    BY <1>1, <1>3, <2>3, SettledSaved DEF WellFormed, Saving
  <2>5. Orderly(mine, Settled(cache[t], call), importing[t], versions)
    BY <2>2, <2>3, <2>4 DEF Orderly
  <2> HIDE DEF mine
  <2> QED
    BY <1>1, <2>1, <2>5, TabOrderly DEF IInv
<1> QED
  BY <1>2, <1>3

\* An import, or its undoing, saves its next record or is over.
LEMMA SaveNextPInv ==
  ASSUME IInv, PInv, NEW t \in Tabs, NEW i \in DOMAIN calls[t], ~calls[t][i].gone, versions' = versions,
         NEW op \in {"importSave", "restoreSave"}, NEW job \in Jobs, NEW source \in Caches, NEW shown,
         cache' = [cache EXCEPT ![t] = shown], SaveNext(t, i, op, job, source),
         \A id \in job.rest : source[id] # Null,
         AllSaved(job.previous, versions),
         SavedBut(shown, IF op = "importSave" THEN job.rest ELSE {}, versions)
  PROVE  PInv'
<1> DEFINE mine == RemoveAt(calls[t], i)
<1>1. /\ calls[t] \in Seq(MadeCalls) /\ mine \in Seq(MadeCalls)
      /\ \A j \in DOMAIN mine : mine[j].gone
  BY LastCall DEF IInv, TInv, PInv
<1>2. CASE /\ job.rest = {}
           /\ calls' = [calls EXCEPT ![t] = mine] /\ importing' = [importing EXCEPT ![t] = Null]
  <2>1. AllSaved(shown, versions)
    BY <1>2 DEF SavedBut, AllSaved
  <2>2. Orderly(mine, shown, Null, versions)
    BY <1>1, <2>1 DEF Orderly
  <2> HIDE DEF mine
  <2> QED
    BY <1>2, <2>2, TabOrderly DEF IInv
<1>3. ASSUME NEW id \in job.rest,
             calls' = [calls EXCEPT ![t] = Append(mine, Call(op, id, WithoutRev(source[id]), Nobody))],
             importing' = [importing EXCEPT ![t] = [job EXCEPT !.rest = @ \ {id}]]
      PROVE  PInv'
  <2> DEFINE call == Call(op, id, WithoutRev(source[id]), Nobody)
             next == [job EXCEPT !.rest = @ \ {id}]
  <2>1. id \in Ids /\ WithoutRev(source[id]) \in Records /\ WithoutRev(source[id]) # Null
    <3>1. id \in Ids /\ source[id] \in Records
      BY DEF Jobs, Caches
    <3>2. WithoutRev(source[id]) \in Records
      BY <3>1 DEF WithoutRev, Records
    <3> QED
      BY <3>1, <3>2, NullIsNothing
  <2>2. /\ call \in MadeCalls /\ call.op = op /\ call.id = id /\ call.kept = Nobody
        /\ call.result = "none" /\ call.copy = Null /\ ~call.gone
    <3> DEFINE body == WithoutRev(source[id])
    <3>1. body \in Records /\ body # Null
      BY <2>1
    <3> HIDE DEF body
    <3>2. /\ Call(op, id, body, Nobody) \in MadeCalls /\ Call(op, id, body, Nobody).op = op
          /\ Call(op, id, body, Nobody).id = id /\ Call(op, id, body, Nobody).kept = Nobody
          /\ Call(op, id, body, Nobody).result = "none" /\ Call(op, id, body, Nobody).copy = Null
          /\ ~Call(op, id, body, Nobody).gone
      BY <2>1, <3>1, NobodyIs, CallTyped DEF Ops, Saving
    <3> QED
      BY <3>2 DEF body
  <2>3. next \in Jobs /\ next.previous = job.previous /\ next.rest = job.rest \ {id}
    BY DEF Jobs
  <2> HIDE DEF call, next
  <2>4. next # Null
    BY <2>3, NullIsNoJob DEF Jobs, Caches
  <2>5. AllSaved(call.kept, versions)
    BY <2>2 DEF AllSaved, Nobody
  <2>6. SavedBut(shown, Unsaved(call, next), versions)
    BY <2>2, <2>3 DEF SavedBut, Unsaved
  <2>7. Waits(shown, next, call, versions)
    BY <2>2, <2>3, <2>4, <2>5, <2>6 DEF Waits, Importing
  <2>8. Orderly(Append(mine, call), shown, next, versions)
    BY <1>1, <2>2, <2>7, FirstCall
  <2> QED
    BY <1>3, <2>8, TabOrderly DEF IInv, call, next
<1> QED
  BY <1>2, <1>3 DEF SaveNext

LEMMA SettleImportPInv ==
  ASSUME IInv, PInv, NEW t \in Tabs, NEW i \in DOMAIN calls[t], SettleImport(t, i)
  PROVE  PInv'
<1> DEFINE call == calls[t][i]
           job == importing[t]
           restore == [job EXCEPT !.rest = {id \in Ids : job.previous[id] # Null}]
           new == Shown(t, call)
<1>1. /\ call \in MadeCalls /\ WellFormed(call) /\ call.step = "back" /\ ~call.gone
      /\ versions' = versions /\ cache[t] \in Caches /\ call.op \in Importing
  BY CallIs DEF SettleImport, table, IInv, TInv, Importing
<1>2. Waits(cache[t], job, call, versions)
  BY <1>1 DEF PInv, Orderly
<1>3. /\ job \in Jobs /\ job.previous \in Caches /\ AllSaved(job.previous, versions)
      /\ \A id \in job.rest : Source(call.op, job)[id] # Null
  <2>1. job # Null /\ job \in Jobs /\ AllSaved(job.previous, versions)
    BY <1>1, <1>2 DEF Waits, IInv, TInv
  <2>2. Imported(call)
    BY <1>1 DEF Imported
  <2> QED
    BY <2>1, <2>2 DEF Jobs, IInv, JInv, JobOK
<1>4. SavedBut(new, IF call.op = "restoreSave" THEN {} ELSE job.rest, versions) \/ call.result # "ok"
  <2> SUFFICES ASSUME call.result = "ok"
               PROVE  SavedBut(new, IF call.op = "restoreSave" THEN {} ELSE job.rest, versions)
    OBVIOUS
  <2>1. SavedBut(cache[t], Unsaved(call, job), versions)
    BY <1>2 DEF Waits
  <2>2. CASE call.copy = Null
    <3>1. call.op # "importSave"
      BY <1>2, <2>2 DEF Waits, Saving
    <3> QED
      BY <1>1, <2>1, <2>2, <3>1 DEF Shown, Unsaved, SavedBut, Importing
  <2>3. CASE call.copy # Null
    <3>1. new = [cache[t] EXCEPT ![call.id] = call.copy] /\ <<call.id, call.copy>> \in versions
      BY <1>2, <2>3 DEF Shown, Waits
    <3>2. \A id \in Ids : /\ id # call.id => new[id] = cache[t][id]
                          /\ id = call.id => new[id] = call.copy
      BY <1>1, <3>1 DEF Caches
    <3> HIDE DEF new
    <3> QED
      BY <1>1, <2>1, <3>1, <3>2 DEF Unsaved, SavedBut, Importing
  <2> QED
    BY <2>2, <2>3
<1>5. ImportFile \in Caches
  BY ImportsHaveNoRev DEF Caches
<1>6. CASE /\ call.op \in {"importClear", "importSave"} /\ call.result = "ok"
           /\ cache' = [cache EXCEPT ![t] = new] /\ SaveNext(t, i, "importSave", job, ImportFile)
  <2>1. /\ \A id \in job.rest : ImportFile[id] # Null
        /\ SavedBut(new, IF "importSave" = "importSave" THEN job.rest ELSE {}, versions)
    BY <1>3, <1>4, <1>6 DEF Source
  <2> HIDE DEF new, job
  <2> QED
    BY <1>1, <1>3, <1>5, <1>6, <2>1, SaveNextPInv
<1>7. CASE /\ cache' = [cache EXCEPT ![t] = job.previous]
           /\ SaveNext(t, i, "restoreSave", restore, job.previous)
  <2>1. /\ restore \in Jobs /\ restore.previous = job.previous
        /\ \A id \in restore.rest : job.previous[id] # Null
    BY <1>3 DEF Jobs
  <2>2. SavedBut(job.previous, IF "restoreSave" = "importSave" THEN restore.rest ELSE {}, versions)
    BY <1>3 DEF AllSaved, SavedBut
  <2> HIDE DEF restore, job
  <2> QED
    BY <1>1, <1>3, <1>7, <2>1, <2>2, SaveNextPInv
<1>8. CASE /\ call.op = "restoreSave" /\ cache' = [cache EXCEPT ![t] = new]
           /\ SaveNext(t, i, "restoreSave", job, job.previous)
  <2>1. SavedBut(new, {}, versions)
    <3>1. CASE call.result = "ok"
      BY <1>4, <1>8, <3>1
    <3>2. CASE call.result # "ok"
      <4>1. SavedBut(cache[t], {}, versions)
        BY <1>2, <1>8 DEF Waits, Unsaved
      <4> QED
        BY <3>2, <4>1 DEF Shown
    <3> QED
      BY <3>1, <3>2
  <2>2. /\ \A id \in job.rest : job.previous[id] # Null
        /\ SavedBut(new, IF "restoreSave" = "importSave" THEN job.rest ELSE {}, versions)
    BY <1>3, <1>8, <2>1 DEF Source
  <2> HIDE DEF new, job
  <2> QED
    BY <1>1, <1>3, <1>8, <2>2, SaveNextPInv
<1>9. call.result # "void"
  BY <1>2 DEF Waits
<1> HIDE DEF new, restore
<1> QED
  BY <1>6, <1>7, <1>8, <1>9 DEF SettleImport, new, restore

LEMMA InitPInv == Init => PInv
<1> SUFFICES ASSUME Init PROVE PInv
  OBVIOUS
<1>1. ASSUME NEW t \in Tabs PROVE Orderly(calls[t], cache[t], importing[t], versions)
  <2>1. calls[t] = <<LoadCall>> /\ cache[t] = Nobody /\ importing[t] = Null
    BY DEF Init
  <2>2. 1 \in DOMAIN <<LoadCall>> /\ \A i \in DOMAIN <<LoadCall>> : i = 1 /\ <<LoadCall>>[i] = LoadCall
    OBVIOUS
  <2> QED
    BY <2>1, <2>2, LoadCallIs, LoadWaits DEF Orderly
<1> QED
  BY <1>1 DEF PInv

LEMMA StepPInv == ASSUME Patient PROVE IInv /\ PInv /\ [Next]_vars => PInv'
<1> SUFFICES ASSUME IInv, PInv, [Next]_vars PROVE PInv'
  OBVIOUS
<1>0. OneAtATime /\ OnError = "throw"
  BY DEF Patient
<1>1. CASE \E t \in Tabs : TabStep(t)
  <2>1. PICK t \in Tabs : TabStep(t)
    BY <1>1
  <2> QED
    BY <1>0, <2>1, GesturesPInv, ImportsPInv, ReloadPInv, FailPInv DEF TabStep
<1>2. CASE \E t \in Tabs : Answer(t)
  BY <1>2, ExecutePInv, RefetchPInv, SettlePInv, SettleImportPInv DEF Answer
<1>3. CASE UNCHANGED <<cache, calls, importing>>
  BY <1>3, VersionsGrow, OrderlyLater DEF PInv
<1>4. CASE \E a \in Agents : AgentCalls(a) \/ AgentRepeats(a) \/ AgentReads(a) \/ AgentWrites(a) \/ AgentFails(a)
  BY <1>3, <1>4 DEF AgentCalls, AgentRepeats, AgentReads, AgentWrites, AgentFails
<1>5. CASE UNCHANGED vars
  BY <1>3, <1>5 DEF vars
<1> QED
  BY <1>1, <1>2, <1>4, <1>5 DEF Next

\* A failed write is never shown as saved (storage.ts:31-39): where failures are thrown and a
\* user waits for a call before the next gesture, a tab with no call under way shows only rows
\* that the table holds or has held, whatever failed, collided or was imported.
THEOREM SettledTabsAreSaved == ASSUME Patient PROVE Spec => []SettledIsSaved
<1>1. PInv => SettledIsSaved
  BY DEF PInv, Orderly, AllSaved, SettledIsSaved
<1> QED
  BY <1>1, InitPInv, StepPInv, Invariance, PTL DEF Spec

=============================================================================
