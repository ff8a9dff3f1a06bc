------------------------- MODULE ServerProcessProofs -------------------------
(***************************************************************************)
(* Proofs about ServerProcess: when starts do not overlap, one process     *)
(* owns the store and the lock names it; then no write is lost, the folder *)
(* follows the store, and the identity of the project never changes.       *)
(***************************************************************************)
EXTENDS ServerProcess, FiniteSetTheorems, TLAPS

-----------------------------------------------------------------------------
(* The inductive invariant, in parts. *)

PidsApart ==
  \A p \in On : /\ proc[p].pid \notin strangers
                /\ \A q \in On : proc[q].pid = proc[p].pid => q = p

OneStarts == \A p, q \in Starting : p = q

\* Whoever is past the check of the lock is the only process there is.
TakesAlone == \A p \in On : Phase(p) \in {"taking", "writing", "binding"} => On = {p}

LockInv == PidsApart /\ OneStarts /\ TakesAlone /\ OwnerHoldsLock

\* Only an owner works, and only on the current store.
Working(r, s) ==
  /\ r.op # Null \/ r.calls > 0 => r.phase = "serving"
  /\ r.op # Null => r.op = s
  /\ r.syncing => r.phase \in {"binding", "serving"}
  /\ r.dirty => r.syncing
  /\ r.syncing /\ ~r.dirty => r.seen = s

WorkInv == \A p \in Procs : Working(proc[p], store)

\* Whoever knows its identity read it from the file, or wrote it there.
Identified == {"checking", "taking", "writing", "binding", "serving"}

Identity(r, c) ==
  /\ r.identity # Null => r.phase \in Identified
  /\ r.phase \in Identified => r.identity = c /\ c \in Procs
  /\ r.phase = "creating" => c = Null
  /\ r.phase = "filling" => c = Torn

IdentityInv == \A p \in Procs : Identity(proc[p], config)

IInv == TypeOK /\ LockInv /\ WorkInv /\ IdentityInv /\ IdleFolderIsCurrent
-----------------------------------------------------------------------------
LEMMA InitIInv == Init => IInv
<1> SUFFICES ASSUME Init PROVE IInv
  OBVIOUS
<1> USE NullIsNoPid, NullIsNoProcess, NullIsNoStatus, WrittenAreStatuses DEF Init
<1>1. \A p \in Procs : proc[p] = Off
  OBVIOUS
<1>2. TypeOK
  BY <1>1 DEF TypeOK, FilesOK, CountOK, ProcOK, ProcRecords, WatchRecords, Stores, Off, Actionable
<1>3. On = {}
  BY <1>1 DEF On, Phase, Off
<1>4. LockInv
  BY <1>3 DEF LockInv, PidsApart, OneStarts, TakesAlone, OwnerHoldsLock, Starting, Owners
<1>5. WorkInv /\ IdentityInv
  BY <1>1 DEF WorkInv, Working, IdentityInv, Identity, Identified, Off
<1>6. IdleFolderIsCurrent
  BY <1>3 DEF IdleFolderIsCurrent, Owners
<1> QED
  BY <1>2, <1>4, <1>5, <1>6 DEF IInv

-----------------------------------------------------------------------------
(* Types. *)

LEMMA ProjectionTyped ==
  ASSUME NEW s \in Stores
  PROVE  /\ Projection(s) \in [Ids -> Actionable \cup {Null, Torn}]
         /\ \A id \in Ids : Projection(s)[id] # Null => Projection(s)[id] \in Actionable
BY DEF Projection, Stores, Actionable

LEMMA MovesTyped ==
  ASSUME NEW by, NEW status
  PROVE  Moves(by, status) \subseteq Statuses \cup {Null}
<1>1. \A a \in {"acknowledge", "claimFix", "dismiss"} : NextStatus(status, a) \in Statuses \cup {NoStatus}
  BY DEF NextStatus, Target, Sources, Statuses
<1> QED
  BY <1>1, WrittenAreStatuses DEF Moves

LEMMA OffTyped == Off \in ProcRecords /\ ProcOK(Off) /\ Off.phase = "off" /\ ~Off.syncing
BY DEF Off, ProcRecords, ProcOK

ProcsTyped == proc \in [Procs -> ProcRecords] /\ \A p \in Procs : ProcOK(proc[p])
WatchesTyped == watch \in [Watches -> WatchRecords]

\* Replacing one process by a well-formed record keeps the processes typed.
LEMMA ProcChanged ==
  ASSUME ProcsTyped, NEW p \in Procs, NEW r \in ProcRecords, ProcOK(r),
         proc' = [proc EXCEPT ![p] = r]
  PROVE  ProcsTyped'
BY DEF ProcsTyped

LEMMA WatchChanged ==
  ASSUME WatchesTyped, NEW w \in Watches, NEW r \in WatchRecords, Set(w, r)
  PROVE  WatchesTyped'
BY DEF WatchesTyped, Set

LEMMA GoneTyped ==
  ASSUME ProcsTyped, WatchesTyped, NEW p \in Procs, Gone(p)
  PROVE  ProcsTyped' /\ WatchesTyped'
<1>1. ProcsTyped'
  BY OffTyped, ProcChanged DEF Gone
<1>2. WatchesTyped'
  BY DEF WatchesTyped, Gone, WatchRecords
<1> QED
  BY <1>1, <1>2

LEMMA CountTyped ==
  ASSUME CountOK, NEW what \in {"starts", "writes", "kills", "faults", "strangers"},
         count' = Counted(what)
  PROVE  CountOK'
BY DEF CountOK, Counted

LEMMA PersistTyped ==
  ASSUME ProcsTyped, NEW p \in Procs, Persist(p) PROVE store' \in Stores
<1>1. proc[p].op \in Stores
  BY DEF ProcsTyped, ProcRecords, Persist
<1>2. CASE store' = [id \in Ids |-> Null]
  BY <1>2 DEF Stores
<1>3. ASSUME NEW id \in Ids, NEW status \in Moves(proc[p].by, proc[p].op[id]),
             store' = [proc[p].op EXCEPT ![id] = status]
      PROVE  store' \in Stores
  BY <1>1, <1>3, MovesTyped DEF Stores
<1> QED
  BY <1>2, <1>3 DEF Persist

\* What a round does: to the files, to the process and to the count.
LEMMA SyncSplit ==
  ASSUME NEW p \in Procs, Sync(p)
  PROVE  /\ \E failed \in BOOLEAN :
              /\ proc' = [proc EXCEPT ![p] = NextRound(proc[p], store, failed)]
              /\ ~failed => tasks' = Projection(proc[p].seen)
         /\ count' = count \/ count' = Counted("faults")
         /\ UNCHANGED <<config, lock, store, watch, strangers>>
<1> DEFINE want == Projection(proc[p].seen)
<1>1. PICK bad \in SUBSET Ids, left \in {"old", "cut"} :
        LET failed == {id \in bad : tasks[id] # want[id]}
        IN  /\ tasks' = [id \in Ids |->
                           IF id \notin failed THEN want[id]
                           ELSE IF left = "cut" /\ want[id] # Null THEN Torn ELSE tasks[id]]
            /\ proc' = [proc EXCEPT ![p] = NextRound(@, store, failed # {})]
            /\ count' = IF failed = {} THEN count ELSE Counted("faults")
  BY DEF Sync
<1> DEFINE failed == {id \in bad : tasks[id] # want[id]}
<1>2. failed = {} => tasks' = [id \in Ids |-> want[id]]
  BY <1>1
<1>3. want = [id \in Ids |-> want[id]]
  BY DEF Projection
<1>4. proc' = [proc EXCEPT ![p] = NextRound(proc[p], store, failed # {})]
  BY <1>1
<1> QED
  BY <1>1, <1>2, <1>3, <1>4 DEF Sync

\* Every step leaves the processes typed ...
LEMMA ProcsStep == TypeOK /\ [Next]_vars => ProcsTyped'
<1> SUFFICES ASSUME TypeOK, [Next]_vars PROVE ProcsTyped'
  OBVIOUS
<1>a. ProcsTyped /\ WatchesTyped /\ store \in Stores /\ config \in Procs \cup {Null, Torn}
  BY DEF TypeOK, ProcsTyped, WatchesTyped, FilesOK
<1>b. CountOK
  BY DEF TypeOK
<1> USE <1>a
<1>p. ASSUME NEW p \in Procs PROVE proc[p] \in ProcRecords /\ ProcOK(proc[p])
  BY DEF ProcsTyped
<1>1. ASSUME NEW p \in Procs, Start(p) PROVE ProcsTyped'
  <2>1. PICK pid \in Pids : proc' = [proc EXCEPT ![p] = [Off EXCEPT !.phase = "reading", !.pid = pid]]
    BY <1>1 DEF Start
  <2>2. [Off EXCEPT !.phase = "reading", !.pid = pid] \in ProcRecords
    BY DEF Off, ProcRecords
  <2>3. ProcOK([Off EXCEPT !.phase = "reading", !.pid = pid])
    BY DEF Off, ProcOK
  <2> QED
    BY <2>1, <2>2, <2>3, ProcChanged
<1>e. ASSUME NEW p \in Procs, NEW phase, Enter(p, phase), Phase(p) # "off",
             phase \in {"creating", "filling", "checking", "taking", "writing", "binding", "serving"}
      PROVE  ProcsTyped'
  <2>1. [proc[p] EXCEPT !.phase = phase] \in ProcRecords
    BY <1>e, <1>p DEF ProcRecords
  <2>2. ProcOK([proc[p] EXCEPT !.phase = phase])
    BY <1>e, <1>p DEF ProcOK, ProcRecords, Phase
  <2>3. proc' = [proc EXCEPT ![p] = [proc[p] EXCEPT !.phase = phase]]
    BY <1>e DEF Enter
  <2> QED
    BY <2>1, <2>2, <2>3, ProcChanged
<1>2. ASSUME NEW p \in Procs, ReadConfig(p) PROVE ProcsTyped'
  <2>1. CASE Gone(p)
    BY <2>1, GoneTyped
  <2>2. CASE Enter(p, "creating")
    BY <1>2, <2>2, <1>e DEF ReadConfig
  <2>3. CASE /\ config \in Procs
             /\ proc' = [proc EXCEPT ![p].phase = "checking", ![p].identity = config]
    <3> DEFINE r == [proc[p] EXCEPT !.phase = "checking", !.identity = config]
    <3>1. r \in ProcRecords /\ ProcOK(r)
      BY <1>2, <2>3, <1>p DEF ProcRecords, ProcOK, ReadConfig, Phase
    <3>2. proc' = [proc EXCEPT ![p] = r]
      BY <2>3, <1>p DEF ProcsTyped
    <3> QED
      BY <3>1, <3>2, ProcChanged
  <2> QED
    BY <1>2, <2>1, <2>2, <2>3 DEF ReadConfig
<1>3. ASSUME NEW p \in Procs, CreateConfig(p) PROVE ProcsTyped'
  <2>1. CASE Phase(p) = "creating" /\ Enter(p, "filling")
    BY <2>1, <1>e
  <2>2. CASE /\ Phase(p) = "filling"
             /\ proc' = [proc EXCEPT ![p].phase = "checking", ![p].identity = p]
    <3> DEFINE r == [proc[p] EXCEPT !.phase = "checking", !.identity = p]
    <3>1. r \in ProcRecords /\ ProcOK(r)
      BY <2>2, <1>p DEF ProcRecords, ProcOK, Phase
    <3>2. proc' = [proc EXCEPT ![p] = r]
      BY <2>2, <1>p DEF ProcsTyped
    <3> QED
      BY <3>1, <3>2, ProcChanged
  <2> QED
    BY <1>3, <2>1, <2>2 DEF CreateConfig
<1>4. ASSUME NEW p \in Procs, CheckLock(p) PROVE ProcsTyped'
  BY <1>4, <1>e, GoneTyped DEF CheckLock
<1>5. ASSUME NEW p \in Procs, TakeLock(p) PROVE ProcsTyped'
  <2>1. CASE Phase(p) = "taking" /\ Enter(p, "writing")
    BY <2>1, <1>e
  <2>2. CASE /\ Phase(p) = "writing"
             /\ proc' = [proc EXCEPT ![p] = Scheduled([@ EXCEPT !.phase = "binding"], store)]
    <3> DEFINE r == Scheduled([proc[p] EXCEPT !.phase = "binding"], store)
    <3>1. r \in ProcRecords /\ ProcOK(r)
      BY <2>2, <1>p DEF ProcRecords, ProcOK, Phase, Scheduled
    <3>2. proc' = [proc EXCEPT ![p] = r]
      BY <2>2, <1>p DEF ProcsTyped
    <3> QED
      BY <3>1, <3>2, ProcChanged
  <2> QED
    BY <1>5, <2>1, <2>2 DEF TakeLock
<1>6. ASSUME NEW p \in Procs, Bind(p) PROVE ProcsTyped'
  BY <1>6, <1>e DEF Bind
<1>7. ASSUME NEW p \in Procs, BindFails(p) \/ Signal(p) \/ Kill(p) PROVE ProcsTyped'
  BY <1>7, GoneTyped DEF BindFails, Signal, Kill
<1>8. ASSUME NEW p \in Procs, BrowserCalls(p) PROVE ProcsTyped'
  <2> DEFINE r == [proc[p] EXCEPT !.calls = 1, !.by = "browser"]
  <2>1. r \in ProcRecords /\ ProcOK(r)
    BY <1>8, <1>p DEF ProcRecords, ProcOK, BrowserCalls, Phase
  <2>2. proc' = [proc EXCEPT ![p] = r]
    BY <1>8, <1>p DEF ProcsTyped, BrowserCalls
  <2> QED
    BY <2>1, <2>2, ProcChanged
<1>9. ASSUME NEW p \in Procs, AgentsCall(p) PROVE ProcsTyped'
  <2>1. MaxWrites \in Nat /\ count.writes \in Nat
    BY <1>b, BoundsAreNumbers DEF CountOK
  <2>2. PICK n \in 1 .. MaxWrites - count.writes :
          proc' = [proc EXCEPT ![p].calls = n, ![p].by = "agent"]
    BY <1>9 DEF AgentsCall
  <2> DEFINE r == [proc[p] EXCEPT !.calls = n, !.by = "agent"]
  <2>n. n \in Nat
    BY <2>1
  <2>3. r \in ProcRecords /\ ProcOK(r)
    BY <1>9, <2>n, <1>p DEF ProcRecords, ProcOK, AgentsCall, Phase
  <2>4. proc' = [proc EXCEPT ![p] = r]
    BY <2>2, <1>p DEF ProcsTyped
  <2> QED
    BY <2>3, <2>4, ProcChanged
<1>10. ASSUME NEW p \in Procs, Load(p) PROVE ProcsTyped'
  <2> DEFINE r == [proc[p] EXCEPT !.op = store, !.calls = @ - 1]
  <2>1. proc[p].phase # "off"
    BY <1>10, <1>p DEF ProcOK, Off, Load
  <2>c. proc[p].calls - 1 \in Nat
    BY <1>10, <1>p DEF ProcRecords, Load
  <2>2. r \in ProcRecords /\ ProcOK(r)
    BY <2>1, <2>c, <1>p DEF ProcRecords, ProcOK
  <2>3. proc' = [proc EXCEPT ![p] = r]
    BY <1>10, <1>p DEF ProcsTyped, Load
  <2> QED
    BY <2>2, <2>3, ProcChanged
<1>11. ASSUME NEW p \in Procs, Persist(p) PROVE ProcsTyped'
  <2> DEFINE r == Scheduled([proc[p] EXCEPT !.op = Null], store')
  <2>1. proc[p].phase # "off"
    BY <1>11, <1>p DEF ProcOK, Off, Persist
  <2>2. store' \in Stores
    BY <1>11, PersistTyped
  <2>3. r \in ProcRecords /\ ProcOK(r)
    BY <2>1, <2>2, <1>p DEF ProcRecords, ProcOK, Scheduled
  <2>4. proc' = [proc EXCEPT ![p] = r]
    BY <1>11 DEF Persist
  <2> QED
    BY <2>3, <2>4, ProcChanged
<1>12. ASSUME NEW p \in Procs, Refuse(p) PROVE ProcsTyped'
  <2> DEFINE r == [proc[p] EXCEPT !.op = Null]
  <2>1. r \in ProcRecords /\ ProcOK(r)
    BY <1>12, <1>p DEF ProcRecords, ProcOK, Refuse, Off
  <2>2. proc' = [proc EXCEPT ![p] = r]
    BY <1>12, <1>p DEF ProcsTyped, Refuse
  <2> QED
    BY <2>1, <2>2, ProcChanged
<1>13. ASSUME NEW p \in Procs, Sync(p) PROVE ProcsTyped'
  <2>1. PICK failed \in BOOLEAN : proc' = [proc EXCEPT ![p] = NextRound(proc[p], store, failed)]
    BY <1>13, SyncSplit
  <2> DEFINE r == NextRound(proc[p], store, failed)
  <2>2. proc[p].phase # "off"
    BY <1>13, <1>p DEF ProcOK, Off, Sync
  <2>3. r \in ProcRecords /\ ProcOK(r)
    BY <2>2, <1>p DEF ProcRecords, ProcOK, NextRound
  <2> QED
    BY <2>1, <2>3, ProcChanged
<1>14. CASE UNCHANGED proc
  BY <1>14 DEF ProcsTyped
<1> QED
  <2>1. (\E w \in Watches : Answer(w) \/ \E p \in Procs : WatchCalls(w, p)) => UNCHANGED proc
    BY DEF Answer, WatchLoads, WatchResumes, DeadlinePasses, TimerFires, WatchCalls
  <2>2. StrangerStarts \/ StrangerEnds \/ UNCHANGED vars => UNCHANGED proc
    BY DEF StrangerStarts, StrangerEnds, vars
  <2> QED
    BY <1>1, <1>2, <1>3, <1>4, <1>5, <1>6, <1>7, <1>8, <1>9, <1>10, <1>11, <1>12, <1>13,
       <1>14, <2>1, <2>2 DEF Next, Step

\* ... and so the files, the calls and the counters.
LEMMA TasksStep == TypeOK /\ [Next]_vars => tasks' \in [Ids -> Actionable \cup {Null, Torn}]
<1> SUFFICES ASSUME TypeOK, [Next]_vars
             PROVE  tasks' \in [Ids -> Actionable \cup {Null, Torn}]
  OBVIOUS
<1>a. tasks \in [Ids -> Actionable \cup {Null, Torn}] /\ \A p \in Procs : ProcOK(proc[p])
  BY DEF TypeOK, FilesOK
<1>1. ASSUME NEW p \in Procs, Kill(p), proc[p].syncing
      PROVE  tasks' \in [Ids -> Actionable \cup {Null, Torn}]
  <2>1. proc[p].seen \in Stores
    BY <1>1, <1>a DEF ProcOK
  <2> DEFINE want == Projection(proc[p].seen)
  <2>2. want \in [Ids -> Actionable \cup {Null, Torn}]
    BY <2>1, ProjectionTyped
  <2>3. PICK done \in SUBSET Ids, cut \in SUBSET Ids :
          tasks' = [id \in Ids |-> IF id \in done THEN want[id]
                                   ELSE IF id \in cut /\ want[id] \notin {tasks[id], Null} THEN Torn
                                   ELSE tasks[id]]
    BY <1>1 DEF Kill
  <2> HIDE DEF want
  <2>4. ASSUME NEW id \in Ids
        PROVE  (IF id \in done THEN want[id]
                ELSE IF id \in cut /\ want[id] \notin {tasks[id], Null} THEN Torn
                ELSE tasks[id]) \in Actionable \cup {Null, Torn}
    BY <2>2, <1>a
  <2> QED
    BY <2>3, <2>4
<1>2. ASSUME NEW p \in Procs, Sync(p) PROVE tasks' \in [Ids -> Actionable \cup {Null, Torn}]
  <2>1. proc[p].seen \in Stores
    BY <1>2, <1>a DEF ProcOK, Sync
  <2> DEFINE want == Projection(proc[p].seen)
  <2>2. want \in [Ids -> Actionable \cup {Null, Torn}]
    BY <2>1, ProjectionTyped
  <2>3. PICK bad \in SUBSET Ids, left \in {"old", "cut"} :
          LET failed == {id \in bad : tasks[id] # want[id]}
          IN  tasks' = [id \in Ids |->
                          IF id \notin failed THEN want[id]
                          ELSE IF left = "cut" /\ want[id] # Null THEN Torn ELSE tasks[id]]
    BY <1>2 DEF Sync
  <2> HIDE DEF want
  <2> QED
    BY <1>a, <2>2, <2>3
<1>3. CASE UNCHANGED tasks
  BY <1>a, <1>3
<1> QED
  <2>1. ASSUME NEW p \in Procs, Step(p) PROVE Sync(p) \/ UNCHANGED tasks
    BY <2>1 DEF Step, ReadConfig, CreateConfig, CheckLock, TakeLock, Bind, Load, Persist, Refuse, disk
  <2>2. ASSUME NEW p \in Procs, Start(p) \/ BindFails(p) \/ Signal(p) \/ BrowserCalls(p) \/ AgentsCall(p)
        PROVE  UNCHANGED tasks
    BY <2>2 DEF Start, BindFails, Signal, BrowserCalls, AgentsCall, disk
  <2>3. ASSUME NEW p \in Procs, Kill(p) PROVE proc[p].syncing \/ UNCHANGED tasks
    BY <2>3 DEF Kill
  <2>4. ASSUME NEW w \in Watches, Answer(w) \/ \E p \in Procs : WatchCalls(w, p) PROVE UNCHANGED tasks
    BY <2>4 DEF Answer, WatchLoads, WatchResumes, DeadlinePasses, TimerFires, WatchCalls, disk
  <2>5. StrangerStarts \/ StrangerEnds \/ UNCHANGED vars => UNCHANGED tasks
    BY DEF StrangerStarts, StrangerEnds, vars, disk
  <2> QED
    BY <1>1, <1>2, <1>3, <2>1, <2>2, <2>3, <2>4, <2>5 DEF Next

LEMMA LocksStep ==
  TypeOK /\ [Next]_vars => /\ config' \in Procs \cup {Null, Torn}
                          /\ lock' \in Pids \cup {Null, Torn}
                          /\ store' \in Stores
                          /\ strangers' \subseteq Pids
<1> SUFFICES ASSUME TypeOK, [Next]_vars
             PROVE  /\ config' \in Procs \cup {Null, Torn}
                    /\ lock' \in Pids \cup {Null, Torn}
                    /\ store' \in Stores
                    /\ strangers' \subseteq Pids
  OBVIOUS
<1>a. /\ config \in Procs \cup {Null, Torn} /\ lock \in Pids \cup {Null, Torn}
      /\ store \in Stores /\ strangers \subseteq Pids /\ ProcsTyped
  BY DEF TypeOK, FilesOK, ProcsTyped
<1>1. ASSUME NEW p \in Procs, CreateConfig(p)
      PROVE  config' \in Procs \cup {Null, Torn} /\ UNCHANGED <<lock, store, strangers>>
  BY <1>1 DEF CreateConfig
<1>2. ASSUME NEW p \in Procs, TakeLock(p)
      PROVE  lock' \in Pids \cup {Null, Torn} /\ UNCHANGED <<config, store, strangers>>
  BY <1>a, <1>2 DEF TakeLock, ProcsTyped, ProcOK, Phase
<1>3. ASSUME NEW p \in Procs, BindFails(p) \/ Signal(p)
      PROVE  lock' \in Pids \cup {Null, Torn} /\ UNCHANGED <<config, store, strangers>>
  BY <1>a, <1>3 DEF BindFails, Signal, Release
<1>4. ASSUME NEW p \in Procs, Persist(p)
      PROVE  store' \in Stores /\ UNCHANGED <<config, lock, strangers>>
  BY <1>a, <1>4, PersistTyped DEF Persist
<1>5. ASSUME NEW p \in Procs,
             \/ Start(p) \/ ReadConfig(p) \/ CheckLock(p) \/ Bind(p) \/ Kill(p) \/ BrowserCalls(p)
             \/ AgentsCall(p) \/ Load(p) \/ Refuse(p) \/ Sync(p)
      PROVE  UNCHANGED <<config, lock, store, strangers>>
  BY <1>5 DEF Start, ReadConfig, CheckLock, Bind, Kill, BrowserCalls, AgentsCall, Load, Refuse, Sync, disk
<1>6. ASSUME NEW w \in Watches, Answer(w) \/ \E p \in Procs : WatchCalls(w, p)
      PROVE  UNCHANGED <<config, lock, store, strangers>>
  BY <1>6 DEF Answer, WatchLoads, WatchResumes, DeadlinePasses, TimerFires, WatchCalls, disk
<1>7. StrangerStarts \/ StrangerEnds \/ UNCHANGED vars
        => strangers' \subseteq Pids /\ UNCHANGED <<config, lock, store>>
  BY <1>a DEF StrangerStarts, StrangerEnds, vars, disk
<1> QED
  BY <1>a, <1>1, <1>2, <1>3, <1>4, <1>5, <1>6, <1>7 DEF Next, Step

LEMMA CallsStep == TypeOK /\ [Next]_vars => WatchesTyped' /\ CountOK'
<1> SUFFICES ASSUME TypeOK, [Next]_vars PROVE WatchesTyped' /\ CountOK'
  OBVIOUS
<1>a. WatchesTyped /\ CountOK /\ ProcsTyped /\ store \in Stores
  BY DEF TypeOK, WatchesTyped, ProcsTyped, FilesOK
<1>1. ASSUME NEW p \in Procs, Start(p) \/ BindFails(p) \/ Signal(p) \/ Kill(p)
      PROVE  WatchesTyped' /\ CountOK'
  <2>1. UNCHANGED watch \/ Gone(p)
    BY <1>1 DEF Start, BindFails, Signal, Kill
  <2>2. \/ UNCHANGED count
        \/ \E what \in {"starts", "writes", "kills", "faults", "strangers"} : count' = Counted(what)
    BY <1>1 DEF Start, BindFails, Signal, Kill
  <2>3. WatchesTyped'
    BY <1>a, <2>1, GoneTyped DEF WatchesTyped
  <2>4. CountOK'
    BY <1>a, <2>2, CountTyped DEF CountOK
  <2> QED
    BY <2>3, <2>4
<1>2. ASSUME NEW p \in Procs, ReadConfig(p) \/ CheckLock(p) PROVE WatchesTyped' /\ CountOK'
  <2>1. UNCHANGED count /\ (UNCHANGED watch \/ Gone(p))
    BY <1>2 DEF ReadConfig, CheckLock
  <2> QED
    BY <1>a, <2>1, GoneTyped DEF WatchesTyped, CountOK
<1>3. ASSUME NEW p \in Procs, CreateConfig(p) \/ TakeLock(p) \/ Bind(p) \/ Load(p) \/ Refuse(p)
      PROVE  UNCHANGED <<watch, count>>
  BY <1>3 DEF CreateConfig, TakeLock, Bind, Load, Refuse
<1>4. ASSUME NEW p \in Procs, BrowserCalls(p) PROVE WatchesTyped' /\ CountOK'
  BY <1>a, <1>4, CountTyped DEF BrowserCalls, WatchesTyped
<1>5. ASSUME NEW p \in Procs, AgentsCall(p) PROVE WatchesTyped' /\ CountOK'
  <2>1. MaxWrites \in Nat /\ count.writes \in Nat
    BY <1>a, BoundsAreNumbers DEF CountOK
  <2>2. PICK n \in 1 .. MaxWrites - count.writes, ws \in SUBSET Watches :
          /\ watch' = [w \in Watches |-> IF w \in ws THEN [watch[w] EXCEPT !.phase = "woken", !.by = p]
                                         ELSE watch[w]]
          /\ count' = [count EXCEPT !.writes = @ + n]
    BY <1>5 DEF AgentsCall
  <2>3. n \in Nat
    BY <2>1
  <2>4. CountOK'
    <3>1. count.writes + n \in Nat
      BY <2>1, <2>3
    <3> QED
      BY <1>a, <2>2, <3>1 DEF CountOK
  <2>5. WatchesTyped'
    BY <1>a, <2>2 DEF WatchesTyped, WatchRecords
  <2> QED
    BY <2>4, <2>5
<1>6. ASSUME NEW p \in Procs, Persist(p) PROVE WatchesTyped' /\ CountOK'
  <2>1. UNCHANGED count /\ watch' = Woken(p)
    BY <1>6 DEF Persist
  <2> QED
    BY <1>a, <2>1 DEF WatchesTyped, WatchRecords, Woken, CountOK
<1>7. ASSUME NEW p \in Procs, Sync(p) PROVE WatchesTyped' /\ CountOK'
  <2>1. UNCHANGED watch /\ (count' = count \/ count' = Counted("faults"))
    BY <1>7, SyncSplit
  <2> QED
    BY <1>a, <2>1, CountTyped DEF WatchesTyped, CountOK
<1>8. ASSUME NEW w \in Watches, Answer(w) \/ \E p \in Procs : WatchCalls(w, p)
      PROVE  WatchesTyped' /\ CountOK'
  <2>1. watch[w] \in WatchRecords
    BY <1>a DEF WatchesTyped
  <2>2. UNCHANGED count
    BY <1>8 DEF Answer, WatchLoads, WatchResumes, DeadlinePasses, TimerFires, WatchCalls
  <2>3. \E r \in WatchRecords : Set(w, r)
    BY <1>a, <1>8, <2>1
       DEF Answer, WatchLoads, WatchResumes, DeadlinePasses, TimerFires, WatchCalls, WatchRecords
  <2> QED
    BY <1>a, <2>2, <2>3, WatchChanged DEF CountOK
<1>9. StrangerStarts => UNCHANGED watch /\ count' = Counted("strangers")
  BY DEF StrangerStarts
<1>10. StrangerEnds \/ UNCHANGED vars => UNCHANGED <<watch, count>>
  BY DEF StrangerEnds, vars
<1>11. UNCHANGED watch => WatchesTyped'
  BY <1>a DEF WatchesTyped
<1>12. UNCHANGED count => CountOK'
  BY <1>a DEF CountOK
<1> QED
  BY <1>a, <1>1, <1>2, <1>3, <1>4, <1>5, <1>6, <1>7, <1>8, <1>9, <1>10, <1>11, <1>12, CountTyped DEF Next, Step

LEMMA TypeStep == TypeOK /\ [Next]_vars => TypeOK'
BY ProcsStep, TasksStep, LocksStep, CallsStep DEF TypeOK, FilesOK, ProcsTyped, WatchesTyped

-----------------------------------------------------------------------------
(* The lock. *)

\* What the others are is not what p does.
LEMMA OthersKept ==
  ASSUME ProcsTyped, NEW p \in Procs, NEW r, proc' = [proc EXCEPT ![p] = r]
  PROVE  proc'[p] = r /\ \A q \in Procs : q # p => proc'[q] = proc[q]
BY DEF ProcsTyped

\* Steps that leave phases, pids and the lock alone.
SameRoles ==
  /\ \A q \in Procs : proc'[q].phase = proc[q].phase /\ proc'[q].pid = proc[q].pid
  /\ lock' = lock /\ strangers' \subseteq strangers

LEMMA RolesKept == LockInv /\ SameRoles => LockInv'
<1> SUFFICES ASSUME LockInv, SameRoles PROVE LockInv'
  OBVIOUS
<1>1. On' = On /\ Starting' = Starting /\ Owners' = Owners
  BY DEF SameRoles, On, Starting, Owners, Phase
<1>2. PidsApart'
  BY <1>1 DEF LockInv, PidsApart, SameRoles, On
<1>3. OneStarts' /\ TakesAlone' /\ OwnerHoldsLock'
  BY <1>1 DEF LockInv, OneStarts, TakesAlone, OwnerHoldsLock, SameRoles, On, Owners, Phase
<1> QED
  BY <1>2, <1>3 DEF LockInv

LEMMA WorkersKeepRoles ==
  ASSUME ProcsTyped, NEW p \in Procs,
         Load(p) \/ Persist(p) \/ Refuse(p) \/ Sync(p) \/ BrowserCalls(p) \/ AgentsCall(p)
  PROVE  SameRoles
<1>a. proc[p] \in ProcRecords
  BY DEF ProcsTyped
<1>1. CASE Load(p) \/ Refuse(p) \/ BrowserCalls(p)
  BY <1>1, <1>a DEF Load, Refuse, BrowserCalls, SameRoles, ProcsTyped, ProcRecords, disk
<1>2. CASE Persist(p)
  <2> DEFINE r == Scheduled([proc[p] EXCEPT !.op = Null], store')
  <2>1. r.phase = proc[p].phase /\ r.pid = proc[p].pid
    BY <1>a DEF Scheduled, ProcRecords
  <2>2. proc' = [proc EXCEPT ![p] = r] /\ lock' = lock /\ strangers' = strangers
    BY <1>2 DEF Persist
  <2> QED
    BY <2>1, <2>2, OthersKept DEF SameRoles
<1>3. CASE Sync(p)
  <2>1. PICK failed \in BOOLEAN : proc' = [proc EXCEPT ![p] = NextRound(proc[p], store, failed)]
    BY <1>3, SyncSplit
  <2>2. /\ NextRound(proc[p], store, failed).phase = proc[p].phase
        /\ NextRound(proc[p], store, failed).pid = proc[p].pid
    BY <1>a DEF NextRound, ProcRecords
  <2>3. lock' = lock /\ strangers' = strangers
    BY <1>3, SyncSplit
  <2> QED
    BY <2>1, <2>2, <2>3, OthersKept DEF SameRoles
<1>4. CASE AgentsCall(p)
  <2>1. PICK n : proc' = [proc EXCEPT ![p].calls = n, ![p].by = "agent"]
    BY <1>4 DEF AgentsCall
  <2> QED
    BY <1>4, <1>a, <2>1 DEF AgentsCall, SameRoles, ProcsTyped, ProcRecords, disk
<1> QED
  BY <1>1, <1>2, <1>3, <1>4

LEMMA OthersKeepRoles ==
  ASSUME NEW w \in Watches, Answer(w) \/ \E p \in Procs : WatchCalls(w, p)
  PROVE  UNCHANGED <<proc, disk, strangers>>
BY DEF Answer, WatchLoads, WatchResumes, DeadlinePasses, TimerFires, WatchCalls

\* A process that goes takes the lock along only if it is its own.
LEMMA GoneLock ==
  ASSUME ProcsTyped, LockInv, NEW p \in On, Gone(p), strangers' = strangers,
         lock' = lock \/ Release(p)
  PROVE  LockInv'
<1>1. proc'[p] = Off /\ \A q \in Procs : q # p => proc'[q] = proc[q]
  BY OthersKept DEF Gone, On
<1>2. On' = On \ {p} /\ Starting' = Starting \ {p} /\ Owners' = Owners \ {p}
  BY <1>1, OffTyped DEF On, Starting, Owners, Phase
<1>3. ASSUME NEW q \in Owners, q # p PROVE lock' = proc[q].pid
  <2>1. lock = proc[q].pid /\ q \in On
    BY <1>3 DEF LockInv, OwnerHoldsLock, Owners
  <2>2. lock # proc[p].pid
    BY <1>3, <2>1 DEF LockInv, PidsApart
  <2> QED
    BY <2>1, <2>2 DEF Release
<1>4. PidsApart'
  BY <1>1, <1>2 DEF LockInv, PidsApart, On
<1>5. OneStarts'
  BY <1>2 DEF LockInv, OneStarts
<1>6. TakesAlone'
  BY <1>1, <1>2 DEF LockInv, TakesAlone, On, Phase
<1>7. OwnerHoldsLock'
  BY <1>1, <1>2, <1>3 DEF OwnerHoldsLock, Owners, On
<1> QED
  BY <1>4, <1>5, <1>6, <1>7 DEF LockInv

\* A process that starts up moves on, before or after it has taken the lock.
LEMMA MoveLock ==
  ASSUME ProcsTyped, LockInv, NEW p \in Starting, strangers' = strangers,
         proc'[p].phase # "off", proc'[p].pid = proc[p].pid,
         \A q \in Procs : q # p => proc'[q] = proc[q],
         \/ proc'[p].phase \in {"creating", "filling", "checking"} /\ lock' = lock
         \/ On = {p} /\ (p \in Owners' => lock' = proc[p].pid)
  PROVE  LockInv'
<1>1. On' = On /\ Starting' \subseteq Starting /\ Owners' \subseteq Owners \cup {p}
  BY DEF On, Starting, Owners, Phase
<1>2. PidsApart'
  BY <1>1 DEF LockInv, PidsApart, On
<1>3. OneStarts'
  BY <1>1 DEF LockInv, OneStarts
<1>4. TakesAlone'
  BY <1>1 DEF LockInv, TakesAlone, On, Phase, Starting
<1>5. OwnerHoldsLock'
  BY <1>1 DEF LockInv, OwnerHoldsLock, Owners, On, Phase
<1> QED
  BY <1>2, <1>3, <1>4, <1>5 DEF LockInv

\* Who finds no live owner is alone: an owner would hold the lock, and nobody
\* else is starting.
LEMMA CheckedIsAlone ==
  ASSUME ProcsTyped, LockInv, NEW p \in On, Phase(p) = "checking", ~Owned(p)
  PROVE  On = {p}
<1> SUFFICES ASSUME NEW q \in On, q # p PROVE FALSE
  OBVIOUS
<1>1. p \in Starting
  BY DEF Starting
<1>2. q \in Owners
  BY <1>1 DEF LockInv, OneStarts, Starting, Owners, On, Phase
<1>3. lock = proc[q].pid
  BY <1>2 DEF LockInv, OwnerHoldsLock
<1>4. lock \in Alive
  BY <1>3 DEF Alive
<1>5. proc[q].pid = proc[p].pid
  BY <1>3, <1>4 DEF Owned
<1> QED
  BY <1>5 DEF LockInv, PidsApart

LEMMA LockStep ==
  ASSUME ~StartsOverlap, TypeOK, LockInv, [Next]_vars PROVE LockInv'
<1>a. ProcsTyped
  BY DEF TypeOK, ProcsTyped
<1> USE <1>a
<1>p. ASSUME NEW p \in Procs PROVE proc[p] \in ProcRecords
  BY DEF ProcsTyped
<1>1. ASSUME NEW p \in Procs, Start(p) PROVE LockInv'
  <2>1. PICK pid \in Pids \ Alive : proc' = [proc EXCEPT ![p] = [Off EXCEPT !.phase = "reading", !.pid = pid]]
    BY <1>1 DEF Start
  <2>2. /\ proc'[p].phase = "reading" /\ proc'[p].pid = pid
        /\ \A q \in Procs : q # p => proc'[q] = proc[q]
    <3> DEFINE r == [Off EXCEPT !.phase = "reading", !.pid = pid]
    <3>1. r.phase = "reading" /\ r.pid = pid
      BY DEF Off
    <3>2. proc'[p] = r /\ \A q \in Procs : q # p => proc'[q] = proc[q]
      BY <2>1, OthersKept
    <3> HIDE DEF r
    <3> QED
      BY <3>1, <3>2
  <2>3. Starting = {} /\ p \notin On /\ lock' = lock /\ strangers' = strangers
    BY <1>1 DEF Start, On, disk
  <2>4. On' = On \cup {p} /\ Starting' = {p} /\ Owners' = Owners
    BY <2>2, <2>3 DEF On, Starting, Owners, Phase
  <2>5. pid \notin strangers /\ \A q \in On : proc[q].pid # pid
    BY DEF Alive
  <2>6. PidsApart'
    BY <2>2, <2>3, <2>4, <2>5 DEF LockInv, PidsApart, On
  <2>7. OneStarts'
    BY <2>4 DEF OneStarts
  <2>8. TakesAlone'
    BY <2>2, <2>3, <2>4 DEF LockInv, TakesAlone, On, Phase, Starting
  <2>9. OwnerHoldsLock'
    BY <2>2, <2>3, <2>4 DEF LockInv, OwnerHoldsLock, Owners, On
  <2> QED
    BY <2>6, <2>7, <2>8, <2>9 DEF LockInv
<1>2. ASSUME NEW p \in Procs, ReadConfig(p) PROVE LockInv'
  <2>1. p \in Starting /\ p \in On /\ lock' = lock /\ strangers' = strangers
    BY <1>2 DEF ReadConfig, Starting, On, disk
  <2>2. CASE Gone(p)
    BY <2>1, <2>2, GoneLock
  <2>3. CASE ~Gone(p)
    <3>1. /\ proc'[p].phase \in {"creating", "checking"} /\ proc'[p].pid = proc[p].pid
          /\ \A q \in Procs : q # p => proc'[q] = proc[q]
      BY <1>2, <2>3, <1>p DEF ReadConfig, Enter, ProcsTyped, ProcRecords
    <3> QED
      BY <2>1, <3>1, MoveLock
  <2> QED
    BY <2>2, <2>3
<1>3. ASSUME NEW p \in Procs, CreateConfig(p) PROVE LockInv'
  <2>1. p \in Starting /\ lock' = lock /\ strangers' = strangers
    BY <1>3 DEF CreateConfig, Starting, On
  <2>2. /\ proc'[p].phase \in {"filling", "checking"} /\ proc'[p].pid = proc[p].pid
        /\ \A q \in Procs : q # p => proc'[q] = proc[q]
    BY <1>3, <1>p DEF CreateConfig, Enter, ProcsTyped, ProcRecords
  <2> QED
    BY <2>1, <2>2, MoveLock
<1>4. ASSUME NEW p \in Procs, CheckLock(p) PROVE LockInv'
  <2>1. p \in Starting /\ p \in On /\ lock' = lock /\ strangers' = strangers
    BY <1>4 DEF CheckLock, Starting, On, disk
  <2>2. CASE Owned(p)
    BY <1>4, <2>1, <2>2, GoneLock DEF CheckLock
  <2>3. CASE ~Owned(p)
    <3>1. On = {p}
      BY <1>4, <2>1, <2>3, CheckedIsAlone DEF CheckLock
    <3>2. /\ proc'[p].phase = "taking" /\ proc'[p].pid = proc[p].pid
          /\ \A q \in Procs : q # p => proc'[q] = proc[q]
      BY <1>4, <2>3, <1>p DEF CheckLock, Enter, ProcsTyped, ProcRecords
    <3>3. p \notin Owners'
      BY <3>2 DEF Owners, Phase
    <3> QED
      BY <2>1, <3>1, <3>2, <3>3, MoveLock
  <2> QED
    BY <2>2, <2>3
<1>5. ASSUME NEW p \in Procs, TakeLock(p) PROVE LockInv'
  <2>1. p \in Starting /\ p \in On /\ strangers' = strangers
    BY <1>5 DEF TakeLock, Starting, On
  <2>2. On = {p}
    BY <1>5, <2>1 DEF TakeLock, LockInv, TakesAlone
  <2>3. CASE Phase(p) = "taking" /\ Enter(p, "writing")
    <3>1. /\ proc'[p].phase = "writing" /\ proc'[p].pid = proc[p].pid
          /\ \A q \in Procs : q # p => proc'[q] = proc[q]
      BY <2>3, <1>p DEF Enter, ProcsTyped, ProcRecords
    <3>2. p \notin Owners'
      BY <3>1 DEF Owners, Phase
    <3> QED
      BY <2>1, <2>2, <3>1, <3>2, MoveLock
  <2>4. CASE /\ Phase(p) = "writing" /\ lock' = proc[p].pid
             /\ proc' = [proc EXCEPT ![p] = Scheduled([@ EXCEPT !.phase = "binding"], store)]
    <3> DEFINE r == Scheduled([proc[p] EXCEPT !.phase = "binding"], store)
    <3>1. r.phase = "binding" /\ r.pid = proc[p].pid
      BY <1>p DEF Scheduled, ProcRecords
    <3>2. proc'[p] = r /\ \A q \in Procs : q # p => proc'[q] = proc[q]
      BY <2>4, OthersKept
    <3> HIDE DEF r
    <3> QED
      BY <2>1, <2>2, <2>4, <3>1, <3>2, MoveLock
  <2> QED
    BY <1>5, <2>3, <2>4 DEF TakeLock
<1>6. ASSUME NEW p \in Procs, Bind(p) PROVE LockInv'
  <2>1. p \in Starting /\ p \in On /\ p \in Owners /\ lock' = lock /\ strangers' = strangers
    BY <1>6 DEF Bind, Starting, On, Owners, disk
  <2>2. On = {p} /\ lock = proc[p].pid
    BY <1>6, <2>1 DEF Bind, LockInv, TakesAlone, OwnerHoldsLock
  <2>3. /\ proc'[p].phase = "serving" /\ proc'[p].pid = proc[p].pid
        /\ \A q \in Procs : q # p => proc'[q] = proc[q]
    BY <1>6, <1>p DEF Bind, Enter, ProcsTyped, ProcRecords
  <2> QED
    BY <2>1, <2>2, <2>3, MoveLock
<1>7. ASSUME NEW p \in Procs, BindFails(p) \/ Signal(p) \/ Kill(p) PROVE LockInv'
  <2>1. p \in On /\ Gone(p) /\ strangers' = strangers /\ (lock' = lock \/ Release(p))
    BY <1>7 DEF BindFails, Signal, Kill, On
  <2> QED
    BY <2>1, GoneLock
<1>8. ASSUME NEW p \in Procs,
             Load(p) \/ Persist(p) \/ Refuse(p) \/ Sync(p) \/ BrowserCalls(p) \/ AgentsCall(p)
      PROVE  LockInv'
  BY <1>8, WorkersKeepRoles, RolesKept
<1>9. ASSUME NEW w \in Watches, Answer(w) \/ \E p \in Procs : WatchCalls(w, p) PROVE LockInv'
  BY <1>9, OthersKeepRoles, RolesKept DEF SameRoles, disk
<1>10. CASE StrangerStarts
  <2>1. PICK pid \in Pids \ Alive : strangers' = strangers \cup {pid}
    BY <1>10 DEF StrangerStarts
  <2>2. UNCHANGED <<proc, lock>>
    BY <1>10 DEF StrangerStarts, disk
  <2>3. On' = On /\ Starting' = Starting /\ Owners' = Owners
    BY <2>2 DEF On, Starting, Owners, Phase
  <2>4. \A q \in On : proc[q].pid # pid
    BY DEF Alive
  <2>5. PidsApart'
    BY <2>1, <2>2, <2>3, <2>4 DEF LockInv, PidsApart
  <2> QED
    BY <2>2, <2>3, <2>5 DEF LockInv, OneStarts, TakesAlone, OwnerHoldsLock, Phase
<1>11. CASE StrangerEnds \/ UNCHANGED vars
  BY <1>11, RolesKept DEF StrangerEnds, SameRoles, vars, disk
<1> QED
  BY <1>1, <1>2, <1>3, <1>4, <1>5, <1>6, <1>7, <1>8, <1>9, <1>10, <1>11 DEF Next, Step

-----------------------------------------------------------------------------
(* What an owner does with the store and the folder. *)

LEMMA OneOwner == ASSUME LockInv PROVE \A p, q \in Owners : p = q
BY DEF LockInv, PidsApart, OwnerHoldsLock, Owners

\* Nobody but p has anything to do with the store when p is an owner.
LEMMA OthersIdle ==
  ASSUME LockInv, WorkInv, NEW p \in Owners, NEW q \in Procs, q # p
  PROVE  q \notin Owners /\ proc[q].op = Null /\ ~proc[q].syncing
<1>1. q \notin Owners
  BY OneOwner
<1> QED
  BY <1>1 DEF WorkInv, Working, Owners, On, Phase

\* One process changes, and neither the store nor the folder does.
FolderOK(r) ==
  r.phase \in {"binding", "serving"} /\ ~r.syncing /\ ~r.failed => tasks = Projection(store)

LEMMA FolderIsOK == IdleFolderIsCurrent <=> \A p \in Procs : FolderOK(proc[p])
BY DEF IdleFolderIsCurrent, FolderOK, Owners, On, Phase

LEMMA StoreKept ==
  ASSUME ProcsTyped, WorkInv, IdleFolderIsCurrent, NEW p \in Procs, NEW r,
         proc' = [proc EXCEPT ![p] = r], UNCHANGED <<store, tasks>>,
         Working(r, store), FolderOK(r)
  PROVE  WorkInv' /\ IdleFolderIsCurrent'
<1>1. proc'[p] = r /\ \A q \in Procs : q # p => proc'[q] = proc[q]
  BY OthersKept
<1>2. WorkInv'
  BY <1>1 DEF WorkInv
<1>3. \A q \in Procs : FolderOK(proc'[q])
  BY <1>1, FolderIsOK
<1>4. IdleFolderIsCurrent'
  BY <1>3 DEF IdleFolderIsCurrent, FolderOK, Owners, On, Phase
<1> QED
  BY <1>2, <1>4

LEMMA WorkStep ==
  ASSUME TypeOK, LockInv, WorkInv, IdleFolderIsCurrent, [Next]_vars
  PROVE  WorkInv' /\ IdleFolderIsCurrent'
<1>a. ProcsTyped
  BY DEF TypeOK, ProcsTyped
<1> USE <1>a
<1>p. ASSUME NEW p \in Procs
      PROVE  proc[p] \in ProcRecords /\ Working(proc[p], store) /\ FolderOK(proc[p])
  BY FolderIsOK DEF ProcsTyped, WorkInv
<1>o. Working(Off, store) /\ FolderOK(Off)
  BY DEF Working, FolderOK, Off
<1>g. ASSUME NEW p \in Procs, Gone(p), UNCHANGED <<store, tasks>>
      PROVE  WorkInv' /\ IdleFolderIsCurrent'
  BY <1>g, <1>o, StoreKept DEF Gone
<1>e. ASSUME NEW p \in Procs, NEW phase, Enter(p, phase), UNCHANGED <<store, tasks>>,
             \/ Phase(p) = "binding" /\ phase = "serving"
             \/ phase \notin {"binding", "serving"} /\ Phase(p) \notin {"binding", "serving"}
      PROVE  WorkInv' /\ IdleFolderIsCurrent'
  <2> DEFINE r == [proc[p] EXCEPT !.phase = phase]
  <2>1. proc' = [proc EXCEPT ![p] = r]
    BY <1>e, <1>p DEF Enter, ProcsTyped
  <2>2. Working(r, store) /\ FolderOK(r)
    BY <1>e, <1>p DEF Working, FolderOK, Phase, ProcRecords
  <2> QED
    BY <1>e, <2>1, <2>2, StoreKept
<1>1. ASSUME NEW p \in Procs, Start(p) PROVE WorkInv' /\ IdleFolderIsCurrent'
  <2>1. PICK pid : proc' = [proc EXCEPT ![p] = [Off EXCEPT !.phase = "reading", !.pid = pid]]
    BY <1>1 DEF Start
  <2> DEFINE r == [Off EXCEPT !.phase = "reading", !.pid = pid]
  <2>2. Working(r, store) /\ FolderOK(r)
    BY DEF Working, FolderOK, Off
  <2>3. UNCHANGED <<store, tasks>>
    BY <1>1 DEF Start, disk
  <2> QED
    BY <2>1, <2>2, <2>3, StoreKept
<1>2. ASSUME NEW p \in Procs, ReadConfig(p) PROVE WorkInv' /\ IdleFolderIsCurrent'
  <2>1. UNCHANGED <<store, tasks>>
    BY <1>2 DEF ReadConfig, disk
  <2>2. CASE Gone(p)
    BY <2>1, <2>2, <1>g
  <2>3. CASE Enter(p, "creating")
    BY <1>2, <2>1, <2>3, <1>e DEF ReadConfig
  <2>4. CASE proc' = [proc EXCEPT ![p].phase = "checking", ![p].identity = config]
    <3> DEFINE r == [proc[p] EXCEPT !.phase = "checking", !.identity = config]
    <3>1. proc' = [proc EXCEPT ![p] = r]
      BY <2>4, <1>p DEF ProcsTyped
    <3>2. Working(r, store) /\ FolderOK(r)
      BY <1>2, <1>p DEF ReadConfig, Working, FolderOK, Phase, ProcRecords
    <3> QED
      BY <2>1, <3>1, <3>2, StoreKept
  <2> QED
    BY <1>2, <2>2, <2>3, <2>4 DEF ReadConfig
<1>3. ASSUME NEW p \in Procs, CreateConfig(p) PROVE WorkInv' /\ IdleFolderIsCurrent'
  <2>1. UNCHANGED <<store, tasks>>
    BY <1>3 DEF CreateConfig
  <2>2. CASE Phase(p) = "creating" /\ Enter(p, "filling")
    BY <2>1, <2>2, <1>e
  <2>3. CASE Phase(p) = "filling" /\ proc' = [proc EXCEPT ![p].phase = "checking", ![p].identity = p]
    <3> DEFINE r == [proc[p] EXCEPT !.phase = "checking", !.identity = p]
    <3>1. proc' = [proc EXCEPT ![p] = r]
      BY <2>3, <1>p DEF ProcsTyped
    <3>2. Working(r, store) /\ FolderOK(r)
      BY <2>3, <1>p DEF Working, FolderOK, Phase, ProcRecords
    <3> QED
      BY <2>1, <3>1, <3>2, StoreKept
  <2> QED
    BY <1>3, <2>2, <2>3 DEF CreateConfig
<1>4. ASSUME NEW p \in Procs, CheckLock(p) PROVE WorkInv' /\ IdleFolderIsCurrent'
  BY <1>4, <1>g, <1>e DEF CheckLock, disk
<1>5. ASSUME NEW p \in Procs, TakeLock(p) PROVE WorkInv' /\ IdleFolderIsCurrent'
  <2>1. UNCHANGED <<store, tasks>>
    BY <1>5 DEF TakeLock
  <2>2. CASE Phase(p) = "taking" /\ Enter(p, "writing")
    BY <2>1, <2>2, <1>e
  <2>3. CASE /\ Phase(p) = "writing"
             /\ proc' = [proc EXCEPT ![p] = Scheduled([@ EXCEPT !.phase = "binding"], store)]
    <3> DEFINE r == Scheduled([proc[p] EXCEPT !.phase = "binding"], store)
    <3>1. Working(r, store) /\ FolderOK(r)
      BY <2>3, <1>p DEF Working, FolderOK, Phase, ProcRecords, Scheduled
    <3> QED
      BY <2>1, <2>3, <3>1, StoreKept
  <2> QED
    BY <1>5, <2>2, <2>3 DEF TakeLock
<1>6. ASSUME NEW p \in Procs, Bind(p) PROVE WorkInv' /\ IdleFolderIsCurrent'
  BY <1>6, <1>e DEF Bind, disk
<1>7. ASSUME NEW p \in Procs, BindFails(p) \/ Signal(p) PROVE WorkInv' /\ IdleFolderIsCurrent'
  BY <1>7, <1>g DEF BindFails, Signal
<1>8. ASSUME NEW p \in Procs, Kill(p) PROVE WorkInv' /\ IdleFolderIsCurrent'
  <2>1. CASE ~proc[p].syncing
    BY <1>8, <2>1, <1>g DEF Kill
  <2>2. CASE proc[p].syncing
    <3>1. p \in Owners
      BY <2>2, <1>p DEF Working, Owners, On, Phase
    <3>2. proc'[p] = Off /\ \A q \in Procs : q # p => proc'[q] = proc[q]
      BY <1>8, OthersKept DEF Kill, Gone
    <3>3. store' = store
      BY <1>8 DEF Kill
    <3>4. WorkInv'
      BY <3>2, <3>3, <1>o DEF WorkInv
    <3>5. Owners' = {}
      BY <3>1, <3>2, OthersIdle, OffTyped DEF Owners, On, Phase
    <3> QED
      BY <3>4, <3>5 DEF IdleFolderIsCurrent
  <2> QED
    BY <2>1, <2>2
<1>9. ASSUME NEW p \in Procs, BrowserCalls(p) PROVE WorkInv' /\ IdleFolderIsCurrent'
  <2> DEFINE r == [proc[p] EXCEPT !.calls = 1, !.by = "browser"]
  <2>1. proc' = [proc EXCEPT ![p] = r] /\ UNCHANGED <<store, tasks>>
    BY <1>9, <1>p DEF BrowserCalls, ProcsTyped, disk
  <2>2. Working(r, store) /\ FolderOK(r)
    BY <1>9, <1>p DEF BrowserCalls, Working, FolderOK, Phase, ProcRecords
  <2> QED
    BY <2>1, <2>2, StoreKept
<1>10. ASSUME NEW p \in Procs, AgentsCall(p) PROVE WorkInv' /\ IdleFolderIsCurrent'
  <2>1. PICK n : proc' = [proc EXCEPT ![p].calls = n, ![p].by = "agent"]
    BY <1>10 DEF AgentsCall
  <2> DEFINE r == [proc[p] EXCEPT !.calls = n, !.by = "agent"]
  <2>2. proc' = [proc EXCEPT ![p] = r] /\ UNCHANGED <<store, tasks>>
    BY <1>10, <2>1, <1>p DEF AgentsCall, ProcsTyped, disk
  <2>3. Working(r, store) /\ FolderOK(r)
    BY <1>10, <1>p DEF AgentsCall, Working, FolderOK, Phase, ProcRecords
  <2> QED
    BY <2>2, <2>3, StoreKept
<1>11. ASSUME NEW p \in Procs, Load(p) PROVE WorkInv' /\ IdleFolderIsCurrent'
  <2> DEFINE r == [proc[p] EXCEPT !.op = store, !.calls = @ - 1]
  <2>1. proc' = [proc EXCEPT ![p] = r] /\ UNCHANGED <<store, tasks>>
    BY <1>11, <1>p DEF Load, ProcsTyped, disk
  <2>2. Working(r, store) /\ FolderOK(r)
    BY <1>11, <1>p DEF Load, Working, FolderOK, ProcRecords
  <2> QED
    BY <2>1, <2>2, StoreKept
<1>12. ASSUME NEW p \in Procs, Refuse(p) PROVE WorkInv' /\ IdleFolderIsCurrent'
  <2> DEFINE r == [proc[p] EXCEPT !.op = Null]
  <2>1. proc' = [proc EXCEPT ![p] = r] /\ UNCHANGED <<store, tasks>>
    BY <1>12, <1>p DEF Refuse, ProcsTyped, disk
  <2>2. Working(r, store) /\ FolderOK(r)
    BY <1>p DEF Working, FolderOK, ProcRecords
  <2> QED
    BY <2>1, <2>2, StoreKept
<1>13. ASSUME NEW p \in Procs, Persist(p) PROVE WorkInv' /\ IdleFolderIsCurrent'
  <2>1. p \in Owners /\ Phase(p) = "serving"
    BY <1>13, <1>p DEF Persist, Working, Owners, On, Phase
  <2> DEFINE r == Scheduled([proc[p] EXCEPT !.op = Null], store')
  <2>2. proc'[p] = r /\ \A q \in Procs : q # p => proc'[q] = proc[q]
    BY <1>13, OthersKept DEF Persist
  <2>3. Working(r, store') /\ r.syncing
    BY <1>13, <2>1, <1>p DEF Working, Scheduled, ProcRecords, Phase
  <2>4. ASSUME NEW q \in Procs, q # p PROVE Working(proc[q], store')
    BY <2>1, <2>4, <1>p, OthersIdle DEF Working
  <2> HIDE DEF r
  <2>5. WorkInv'
    BY <2>2, <2>3, <2>4 DEF WorkInv
  <2>6. IdleFolderIsCurrent'
    BY <2>1, <2>2, <2>3, OthersIdle DEF IdleFolderIsCurrent, Owners, On, Phase
  <2> QED
    BY <2>5, <2>6
<1>14. ASSUME NEW p \in Procs, Sync(p) PROVE WorkInv' /\ IdleFolderIsCurrent'
  <2>1. p \in Owners
    BY <1>14, <1>p DEF Sync, Working, Owners, On, Phase
  <2>2. PICK failed \in BOOLEAN :
          /\ proc' = [proc EXCEPT ![p] = NextRound(proc[p], store, failed)]
          /\ ~failed => tasks' = Projection(proc[p].seen)
    BY <1>14, SyncSplit
  <2>3. store' = store
    BY <1>14, SyncSplit
  <2> DEFINE r == NextRound(proc[p], store, failed)
  <2>4. proc'[p] = r /\ \A q \in Procs : q # p => proc'[q] = proc[q]
    BY <2>2, OthersKept
  <2>5. Working(r, store) /\ r.failed = failed /\ (~r.syncing => proc[p].seen = store)
    BY <1>14, <1>p DEF Sync, Working, NextRound, ProcRecords
  <2> HIDE DEF r
  <2>6. WorkInv'
    BY <2>3, <2>4, <2>5 DEF WorkInv
  <2>7. ASSUME ~r.syncing, ~r.failed PROVE tasks' = Projection(store)
    BY <2>2, <2>5, <2>7
  <2>8. Projection(store)' = Projection(store)
    BY <2>3 DEF Projection
  <2>9. IdleFolderIsCurrent'
    BY <2>1, <2>4, <2>7, <2>8, OthersIdle DEF IdleFolderIsCurrent, Owners, On, Phase
  <2> QED
    BY <2>6, <2>9
<1>15. CASE UNCHANGED <<proc, disk>>
  BY <1>15 DEF WorkInv, Working, IdleFolderIsCurrent, Owners, On, Phase, Projection, disk
<1> QED
  <2>1. StrangerStarts \/ StrangerEnds \/ UNCHANGED vars => UNCHANGED <<proc, disk>>
    BY DEF StrangerStarts, StrangerEnds, vars, disk
  <2> QED
    BY <1>1, <1>2, <1>3, <1>4, <1>5, <1>6, <1>7, <1>8, <1>9, <1>10, <1>11, <1>12, <1>13, <1>14,
       <1>15, <2>1, OthersKeepRoles DEF Next, Step

-----------------------------------------------------------------------------
(* The identity of the project. *)

LEMMA ConfigKept ==
  ASSUME ProcsTyped, IdentityInv, NEW p \in Procs, NEW r,
         proc' = [proc EXCEPT ![p] = r], config' = config, Identity(r, config)
  PROVE  IdentityInv'
BY OthersKept DEF IdentityInv

\* A process whose file is not written yet is the only one that looks at it.
LEMMA CreatesAlone ==
  ASSUME TypeOK, LockInv, IdentityInv, NEW p \in Procs, Phase(p) \in {"creating", "filling"},
         NEW q \in Procs, q # p
  PROVE  proc[q] = Off
<1>1. config \notin Procs
  BY NullIsNoProcess DEF IdentityInv, Identity, Phase
<1>2. Phase(q) \notin Identified
  BY <1>1 DEF IdentityInv, Identity, Phase
<1>3. q \notin Starting
  BY DEF LockInv, OneStarts, Starting, On, Phase
<1>4. Phase(q) = "off"
  BY <1>2, <1>3 DEF Starting, On, Identified
<1> QED
  BY <1>4 DEF TypeOK, ProcOK, Phase

LEMMA IdentityStep ==
  ASSUME TypeOK, LockInv, IdentityInv, [Next]_vars
  PROVE  IdentityInv' /\ (config \in Procs => config' = config)
<1>a. ProcsTyped
  BY DEF TypeOK, ProcsTyped
<1> USE <1>a
<1>p. ASSUME NEW p \in Procs PROVE proc[p] \in ProcRecords /\ Identity(proc[p], config)
  BY DEF ProcsTyped, IdentityInv
<1>o. Identity(Off, config)
  BY DEF Identity, Identified, Off
<1>g. ASSUME NEW p \in Procs, Gone(p), config' = config PROVE IdentityInv'
  BY <1>g, <1>o, ConfigKept DEF Gone
<1>e. ASSUME NEW p \in Procs, NEW phase, Enter(p, phase), config' = config,
             \/ Phase(p) = "reading" /\ phase = "creating" /\ config = Null
             \/ Phase(p) \in Identified /\ phase \in Identified
      PROVE  IdentityInv'
  <2> DEFINE r == [proc[p] EXCEPT !.phase = phase]
  <2>1. proc' = [proc EXCEPT ![p] = r]
    BY <1>e, <1>p DEF Enter, ProcsTyped
  <2>2. Identity(r, config)
    BY <1>e, <1>p DEF Identity, Identified, Phase, ProcRecords
  <2> QED
    BY <1>e, <2>1, <2>2, ConfigKept
<1>1. ASSUME NEW p \in Procs, Start(p) PROVE IdentityInv' /\ config' = config
  <2>1. PICK pid : proc' = [proc EXCEPT ![p] = [Off EXCEPT !.phase = "reading", !.pid = pid]]
    BY <1>1 DEF Start
  <2>2. Identity([Off EXCEPT !.phase = "reading", !.pid = pid], config)
    BY DEF Identity, Identified, Off
  <2>3. config' = config
    BY <1>1 DEF Start, disk
  <2> QED
    BY <2>1, <2>2, <2>3, ConfigKept
<1>2. ASSUME NEW p \in Procs, ReadConfig(p) PROVE IdentityInv' /\ config' = config
  <2>1. config' = config
    BY <1>2 DEF ReadConfig, disk
  <2>2. CASE Gone(p)
    BY <2>1, <2>2, <1>g
  <2>3. CASE config = Null /\ Enter(p, "creating")
    BY <1>2, <2>1, <2>3, <1>e DEF ReadConfig
  <2>4. CASE config \in Procs /\ proc' = [proc EXCEPT ![p].phase = "checking", ![p].identity = config]
    <3> DEFINE r == [proc[p] EXCEPT !.phase = "checking", !.identity = config]
    <3>1. proc' = [proc EXCEPT ![p] = r]
      BY <2>4, <1>p DEF ProcsTyped
    <3>2. Identity(r, config)
      BY <2>4, <1>p DEF Identity, Identified, ProcRecords
    <3> QED
      BY <2>1, <3>1, <3>2, ConfigKept
  <2> QED
    BY <1>2, <2>1, <2>2, <2>3, <2>4 DEF ReadConfig
<1>3. ASSUME NEW p \in Procs, CreateConfig(p) PROVE IdentityInv' /\ config \notin Procs
  <2>1. Phase(p) \in {"creating", "filling"}
    BY <1>3 DEF CreateConfig
  <2>2. config \notin Procs
    BY <2>1, <1>p, NullIsNoProcess DEF Identity, Phase
  <2>3. \A q \in Procs : q # p => proc'[q] = Off
    BY <1>3, <2>1, CreatesAlone DEF CreateConfig, Enter, ProcsTyped
  <2>4. Identity(proc'[p], config')
    <3>1. CASE Phase(p) = "creating" /\ config' = Torn /\ Enter(p, "filling")
      <4>1. proc'[p] = [proc[p] EXCEPT !.phase = "filling"]
        BY <3>1 DEF Enter, ProcsTyped
      <4> QED
        BY <3>1, <4>1, <1>p DEF Identity, Identified, Phase, ProcRecords
    <3>2. CASE /\ Phase(p) = "filling" /\ config' = p
               /\ proc' = [proc EXCEPT ![p].phase = "checking", ![p].identity = p]
      <4>1. proc'[p].phase = "checking" /\ proc'[p].identity = p
        BY <3>2, <1>p DEF ProcsTyped, ProcRecords
      <4> QED
        BY <3>2, <4>1 DEF Identity, Identified
    <3> QED
      BY <1>3, <3>1, <3>2 DEF CreateConfig
  <2>5. Identity(Off, config')
    BY DEF Identity, Identified, Off
  <2> QED
    BY <2>2, <2>3, <2>4, <2>5 DEF IdentityInv
<1>4. ASSUME NEW p \in Procs, CheckLock(p) PROVE IdentityInv' /\ config' = config
  BY <1>4, <1>g, <1>e DEF CheckLock, Identified, disk
<1>5. ASSUME NEW p \in Procs, TakeLock(p) PROVE IdentityInv' /\ config' = config
  <2>1. config' = config
    BY <1>5 DEF TakeLock
  <2>2. CASE Phase(p) = "taking" /\ Enter(p, "writing")
    BY <2>1, <2>2, <1>e DEF Identified
  <2>3. CASE /\ Phase(p) = "writing"
             /\ proc' = [proc EXCEPT ![p] = Scheduled([@ EXCEPT !.phase = "binding"], store)]
    <3>1. Identity(Scheduled([proc[p] EXCEPT !.phase = "binding"], store), config)
      BY <2>3, <1>p DEF Identity, Identified, Phase, Scheduled, ProcRecords
    <3> QED
      BY <2>1, <2>3, <3>1, ConfigKept
  <2> QED
    BY <1>5, <2>1, <2>2, <2>3 DEF TakeLock
<1>6. ASSUME NEW p \in Procs, Bind(p) PROVE IdentityInv' /\ config' = config
  BY <1>6, <1>e DEF Bind, Identified, disk
<1>7. ASSUME NEW p \in Procs, BindFails(p) \/ Signal(p) \/ Kill(p)
      PROVE  IdentityInv' /\ config' = config
  BY <1>7, <1>g DEF BindFails, Signal, Kill
<1>8. ASSUME NEW p \in Procs,
             Load(p) \/ Persist(p) \/ Refuse(p) \/ Sync(p) \/ BrowserCalls(p) \/ AgentsCall(p)
      PROVE  IdentityInv' /\ config' = config
  <2>1. config' = config
    BY <1>8, SyncSplit DEF Load, Persist, Refuse, BrowserCalls, AgentsCall, disk
  <2>2. \A q \in Procs : proc'[q].phase = proc[q].phase
    BY <1>8, WorkersKeepRoles DEF SameRoles
  <2>3. proc'[p].identity = proc[p].identity
    <3>1. CASE Sync(p)
      <4>1. PICK failed \in BOOLEAN : proc' = [proc EXCEPT ![p] = NextRound(proc[p], store, failed)]
        BY <3>1, SyncSplit
      <4>2. NextRound(proc[p], store, failed).identity = proc[p].identity
        BY <1>p DEF NextRound, ProcRecords
      <4> QED
        BY <4>1, <4>2, OthersKept
    <3>2. CASE Persist(p)
      <4>1. proc'[p] = Scheduled([proc[p] EXCEPT !.op = Null], store')
        BY <3>2 DEF Persist, ProcsTyped
      <4> QED
        BY <4>1, <1>p DEF Scheduled, ProcRecords
    <3>3. CASE Load(p) \/ Refuse(p) \/ BrowserCalls(p)
      BY <3>3, <1>p DEF Load, Refuse, BrowserCalls, ProcsTyped, ProcRecords
    <3>4. CASE AgentsCall(p)
      <4>1. PICK n : proc' = [proc EXCEPT ![p].calls = n, ![p].by = "agent"]
        BY <3>4 DEF AgentsCall
      <4> QED
        BY <4>1, <1>p DEF ProcsTyped, ProcRecords
    <3> QED
      BY <1>8, <3>1, <3>2, <3>3, <3>4
  <2>4. \A q \in Procs : q # p => proc'[q] = proc[q]
    <3>1. CASE Sync(p)
      BY <3>1, SyncSplit, OthersKept
    <3>2. CASE ~Sync(p)
      BY <1>8, <3>2 DEF Load, Persist, Refuse, BrowserCalls, AgentsCall, ProcsTyped
    <3> QED
      BY <3>1, <3>2
  <2>5. Identity(proc'[p], config)
    BY <2>2, <2>3, <1>p DEF Identity
  <2> QED
    BY <2>1, <2>4, <2>5 DEF IdentityInv
<1>9. CASE UNCHANGED <<proc, disk>>
  BY <1>9 DEF IdentityInv, disk
<1> QED
  <2>1. StrangerStarts \/ StrangerEnds \/ UNCHANGED vars => UNCHANGED <<proc, disk>>
    BY DEF StrangerStarts, StrangerEnds, vars, disk
  <2>2. UNCHANGED disk => config' = config
    BY DEF disk
  <2> QED
    BY <1>1, <1>2, <1>3, <1>4, <1>5, <1>6, <1>7, <1>8, <1>9, <2>1, <2>2, OthersKeepRoles DEF Next, Step

-----------------------------------------------------------------------------
(* The watches. *)

Awake == {"woken", "loaded"}

\* Whoever waits has a server; what a callback of a browser began is over
\* before a watch of the same process goes on; and what a watch is about to
\* fall asleep on is still true of the store.
Watching(r, ps, s) ==
  /\ r.phase \in Awake \cup {"waiting"} => r.by \in Procs /\ ps[r.by].phase = "serving"
  /\ r.phase \in Awake /\ ps[r.by].by = "browser" => ps[r.by].calls = 0 /\ ps[r.by].op = Null
  /\ r.phase = "loaded" /\ Pending(r.seen) = {} => Pending(s) = {}
  /\ r.phase = "waiting" => Pending(s) = {}

\* A browser's request is one operation.
Solo(r) == r.by = "browser" => r.calls = 0 \/ (r.calls = 1 /\ r.op = Null)

WatchInv ==
  /\ \A p \in Procs : Solo(proc[p])
  /\ \A w \in Watches : Watching(watch[w], proc, store)

\* A process becomes r: it stays where watches need it, and begins nothing for
\* a browser.
Undisturbed(q, r) ==
  /\ proc[q].phase = "serving" => r.phase = "serving"
  /\ Solo(r)
  /\ r.by = "browser" =>
       /\ proc[q].by = "browser"
       /\ proc[q].calls = 0 /\ proc[q].op = Null => r.calls = 0 /\ r.op = Null

LEMMA WatchKept ==
  ASSUME WatchInv, \A q \in Procs : Undisturbed(q, proc'[q]), Pending(store') \subseteq Pending(store),
         NEW w \in Watches, watch'[w] = watch[w]
  PROVE  Watching(watch'[w], proc', store')
<1>1. Watching(watch[w], proc, store)
  BY DEF WatchInv
<1>2. Pending(store) = {} => Pending(store') = {}
  OBVIOUS
<1> QED
  BY <1>1, <1>2 DEF Watching, Undisturbed, Awake

\* One process changes, and neither the watches nor the store do.
LEMMA WatchesKept ==
  ASSUME ProcsTyped, WatchInv, NEW p \in Procs, NEW r, proc' = [proc EXCEPT ![p] = r],
         Undisturbed(p, r), UNCHANGED <<store, watch>>
  PROVE  WatchInv'
<1>1. proc'[p] = r /\ \A q \in Procs : q # p => proc'[q] = proc[q]
  BY OthersKept
<1>2. \A q \in Procs : Undisturbed(q, proc'[q])
  BY <1>1 DEF Undisturbed, WatchInv
<1>3. \A q \in Procs : Solo(proc'[q])
  BY <1>2 DEF Undisturbed
<1>4. \A w \in Watches : Watching(watch'[w], proc', store')
  BY <1>2, WatchKept
<1> QED
  BY <1>3, <1>4 DEF WatchInv

LEMMA GoneWatches ==
  ASSUME ProcsTyped, WatchesTyped, WatchInv, NEW p \in Procs, Gone(p), store' = store
  PROVE  WatchInv'
<1>1. proc'[p] = Off /\ \A q \in Procs : q # p => proc'[q] = proc[q]
  BY OthersKept DEF Gone
<1>2. \A q \in Procs : Solo(proc'[q])
  BY <1>1 DEF WatchInv, Solo, Off
<1>3. ASSUME NEW w \in Watches PROVE Watching(watch'[w], proc', store')
  <2>1. Watching(watch[w], proc, store) /\ watch[w] \in WatchRecords
    BY DEF WatchInv, WatchesTyped
  <2>2. CASE watch[w].by = p /\ watch[w].phase # "answered"
    <3>1. watch'[w].phase = "lost"
      BY <2>1, <2>2 DEF Gone, WatchRecords
    <3> QED
      BY <3>1 DEF Watching, Awake
  <2>3. CASE watch[w].by # p \/ watch[w].phase = "answered"
    <3>1. watch'[w] = watch[w]
      BY <2>3 DEF Gone
    <3> QED
      BY <1>1, <2>1, <2>3, <3>1 DEF Watching, Awake
  <2> QED
    BY <2>2, <2>3
<1> QED
  BY <1>2, <1>3 DEF WatchInv

\* None of the three tools of an agent makes an annotation pending.
LEMMA AgentsMakeNothingPending ==
  ASSUME NEW status PROVE "pending" \notin Moves("agent", status)
BY DEF Moves, NextStatus, Target, NoStatus

LEMMA PersistWatches ==
  ASSUME TypeOK, LockInv, WorkInv, WatchInv, NEW p \in Procs, Persist(p)
  PROVE  WatchInv'
<1>a. ProcsTyped /\ WatchesTyped /\ proc[p] \in ProcRecords /\ store \in Stores
  BY DEF TypeOK, ProcsTyped, WatchesTyped, FilesOK
<1>b. /\ proc[p].phase = "serving" /\ proc[p].op = store /\ proc[p].op # Null
      /\ watch' = Woken(p) /\ Solo(proc[p])
  BY DEF Persist, WorkInv, Working, WatchInv
<1> DEFINE r == Scheduled([proc[p] EXCEPT !.op = Null], store')
<1>c. r.phase = "serving" /\ r.by = proc[p].by /\ r.calls = proc[p].calls /\ r.op = Null
  BY <1>a, <1>b DEF Scheduled, ProcRecords
<1>d. proc'[p] = r /\ \A q \in Procs : q # p => proc'[q] = proc[q]
  BY <1>a, OthersKept DEF Persist
<1> HIDE DEF r
<1>e. \A q \in Procs : proc[q].phase = "serving" => q = p
  BY <1>b, OneOwner DEF Owners, On, Phase
<1>f. proc[p].by = "agent" => Pending(store') \subseteq Pending(store)
  <2> SUFFICES ASSUME proc[p].by = "agent", NEW id \in Ids, store'[id] = "pending"
               PROVE  store[id] = "pending"
    BY DEF Pending
  <2>0. PICK i \in Ids :
          \E status : status \in Moves("agent", store[i]) /\ store' = [store EXCEPT ![i] = status]
    BY <1>b DEF Persist
  <2>1. PICK status : status \in Moves("agent", store[i]) /\ store' = [store EXCEPT ![i] = status]
    BY <2>0
  <2>2. status # "pending"
    BY <2>1, AgentsMakeNothingPending
  <2> QED
    BY <1>a, <2>1, <2>2 DEF Stores
<1>g. \A q \in Procs : Undisturbed(q, proc'[q])
  BY <1>b, <1>c, <1>d DEF Undisturbed, Solo, WatchInv
<1>1. ASSUME NEW w \in Watches PROVE Watching(watch'[w], proc', store')
  <2>1. watch[w] \in WatchRecords /\ Watching(watch[w], proc, store)
    BY <1>a DEF WatchesTyped, WatchInv
  <2>2. CASE watch[w].phase = "waiting"
    <3>1. watch'[w].phase = "woken" /\ watch'[w].by = p
      BY <1>b, <1>e, <2>1, <2>2 DEF Woken, WatchRecords, Watching
    <3> QED
      BY <1>b, <1>c, <1>d, <3>1 DEF Watching, Awake, Solo
  <2>3. CASE watch[w].phase # "waiting"
    <3>1. watch'[w] = watch[w]
      BY <1>b, <2>3 DEF Woken
    <3>2. CASE proc[p].by = "browser"
      <4>1. watch[w].phase \notin Awake
        BY <1>b, <1>e, <2>1, <3>2 DEF Watching, Awake
      <4> QED
        BY <2>3, <3>1, <4>1 DEF Watching, Awake
    <3>3. CASE proc[p].by = "agent"
      BY <1>f, <1>g, <3>1, <3>3, WatchKept
    <3> QED
      BY <1>a, <3>2, <3>3 DEF ProcRecords
  <2> QED
    BY <2>2, <2>3
<1> QED
  BY <1>1, <1>g DEF WatchInv, Undisturbed

LEMMA WatchStep ==
  ASSUME TypeOK, LockInv, WorkInv, WatchInv, [Next]_vars
  PROVE  WatchInv'
<1>a. ProcsTyped /\ WatchesTyped
  BY DEF TypeOK, ProcsTyped, WatchesTyped
<1> USE <1>a
<1>p. ASSUME NEW p \in Procs
      PROVE  proc[p] \in ProcRecords /\ ProcOK(proc[p]) /\ Solo(proc[p]) /\ Working(proc[p], store)
  BY DEF ProcsTyped, WatchInv, WorkInv
<1>g. ASSUME NEW p \in Procs, Gone(p), store' = store PROVE WatchInv'
  BY <1>g, GoneWatches
<1>e. ASSUME NEW p \in Procs, NEW phase, Enter(p, phase), UNCHANGED <<store, watch>>,
             Phase(p) # "serving"
      PROVE  WatchInv'
  <2> DEFINE r == [proc[p] EXCEPT !.phase = phase]
  <2>1. proc' = [proc EXCEPT ![p] = r]
    BY <1>e, <1>p DEF Enter, ProcsTyped
  <2>2. Undisturbed(p, r)
    BY <1>e, <1>p DEF Undisturbed, Solo, Phase, ProcRecords
  <2> QED
    BY <1>e, <2>1, <2>2, WatchesKept
<1>1. ASSUME NEW p \in Procs, Start(p) PROVE WatchInv'
  <2>1. PICK pid : proc' = [proc EXCEPT ![p] = [Off EXCEPT !.phase = "reading", !.pid = pid]]
    BY <1>1 DEF Start
  <2>2. Undisturbed(p, [Off EXCEPT !.phase = "reading", !.pid = pid])
    BY <1>1, <1>p DEF Start, Phase, ProcOK, Undisturbed, Solo, Off
  <2>3. UNCHANGED <<store, watch>>
    BY <1>1 DEF Start, disk
  <2> QED
    BY <2>1, <2>2, <2>3, WatchesKept
<1>2. ASSUME NEW p \in Procs, ReadConfig(p) PROVE WatchInv'
  <2>1. CASE Gone(p)
    BY <1>2, <2>1, <1>g DEF ReadConfig, disk
  <2>2. CASE Enter(p, "creating") /\ UNCHANGED watch
    BY <1>2, <2>2, <1>e DEF ReadConfig, disk
  <2>3. CASE proc' = [proc EXCEPT ![p].phase = "checking", ![p].identity = config] /\ UNCHANGED watch
    <3> DEFINE r == [proc[p] EXCEPT !.phase = "checking", !.identity = config]
    <3>1. proc' = [proc EXCEPT ![p] = r] /\ UNCHANGED <<store, watch>>
      BY <1>2, <2>3, <1>p DEF ProcsTyped, ReadConfig, disk
    <3>2. Undisturbed(p, r)
      BY <1>2, <1>p DEF ReadConfig, Undisturbed, Solo, Phase, ProcRecords
    <3> QED
      BY <3>1, <3>2, WatchesKept
  <2> QED
    BY <1>2, <2>1, <2>2, <2>3 DEF ReadConfig
<1>3. ASSUME NEW p \in Procs, CreateConfig(p) PROVE WatchInv'
  <2>1. CASE Phase(p) = "creating" /\ Enter(p, "filling")
    BY <1>3, <2>1, <1>e DEF CreateConfig
  <2>2. CASE Phase(p) = "filling" /\ proc' = [proc EXCEPT ![p].phase = "checking", ![p].identity = p]
    <3> DEFINE r == [proc[p] EXCEPT !.phase = "checking", !.identity = p]
    <3>1. proc' = [proc EXCEPT ![p] = r] /\ UNCHANGED <<store, watch>>
      BY <1>3, <2>2, <1>p DEF ProcsTyped, CreateConfig
    <3>2. Undisturbed(p, r)
      BY <2>2, <1>p DEF Undisturbed, Solo, Phase, ProcRecords
    <3> QED
      BY <3>1, <3>2, WatchesKept
  <2> QED
    BY <1>3, <2>1, <2>2 DEF CreateConfig
<1>4. ASSUME NEW p \in Procs, CheckLock(p) PROVE WatchInv'
  BY <1>4, <1>g, <1>e DEF CheckLock, disk
<1>5. ASSUME NEW p \in Procs, TakeLock(p) PROVE WatchInv'
  <2>1. UNCHANGED <<store, watch>>
    BY <1>5 DEF TakeLock
  <2>2. CASE Phase(p) = "taking" /\ Enter(p, "writing")
    BY <2>1, <2>2, <1>e
  <2>3. CASE /\ Phase(p) = "writing"
             /\ proc' = [proc EXCEPT ![p] = Scheduled([@ EXCEPT !.phase = "binding"], store)]
    <3>1. Undisturbed(p, Scheduled([proc[p] EXCEPT !.phase = "binding"], store))
      BY <2>3, <1>p DEF Undisturbed, Solo, Phase, ProcRecords, Scheduled
    <3> QED
      BY <2>1, <2>3, <3>1, WatchesKept
  <2> QED
    BY <1>5, <2>2, <2>3 DEF TakeLock
<1>6. ASSUME NEW p \in Procs, Bind(p) PROVE WatchInv'
  BY <1>6, <1>e DEF Bind, disk, Phase
<1>7. ASSUME NEW p \in Procs, BindFails(p) \/ Signal(p) \/ Kill(p) PROVE WatchInv'
  BY <1>7, <1>g DEF BindFails, Signal, Kill
<1>8. ASSUME NEW p \in Procs, Sync(p) PROVE WatchInv'
  <2>1. PICK failed \in BOOLEAN : proc' = [proc EXCEPT ![p] = NextRound(proc[p], store, failed)]
    BY <1>8, SyncSplit
  <2>2. Undisturbed(p, NextRound(proc[p], store, failed))
    BY <1>p DEF Undisturbed, Solo, NextRound, ProcRecords
  <2>3. UNCHANGED <<store, watch>>
    BY <1>8, SyncSplit
  <2> QED
    BY <2>1, <2>2, <2>3, WatchesKept
<1>9. ASSUME NEW p \in Procs, Load(p) PROVE WatchInv'
  <2> DEFINE r == [proc[p] EXCEPT !.op = store, !.calls = @ - 1]
  <2>1. proc' = [proc EXCEPT ![p] = r] /\ UNCHANGED <<store, watch>>
    BY <1>9, <1>p DEF Load, ProcsTyped, disk
  <2>2. Undisturbed(p, r)
    BY <1>9, <1>p DEF Load, Undisturbed, Solo, ProcRecords
  <2> QED
    BY <2>1, <2>2, WatchesKept
<1>10. ASSUME NEW p \in Procs, Refuse(p) PROVE WatchInv'
  <2> DEFINE r == [proc[p] EXCEPT !.op = Null]
  <2>1. proc' = [proc EXCEPT ![p] = r] /\ UNCHANGED <<store, watch>>
    BY <1>10, <1>p DEF Refuse, ProcsTyped, disk
  <2>2. Undisturbed(p, r)
    BY <1>10, <1>p DEF Refuse, Undisturbed, Solo, ProcRecords
  <2> QED
    BY <2>1, <2>2, WatchesKept
<1>11. ASSUME NEW p \in Procs, Persist(p) PROVE WatchInv'
  BY <1>11, PersistWatches
<1>12. ASSUME NEW p \in Procs, BrowserCalls(p) PROVE WatchInv'
  <2> DEFINE r == [proc[p] EXCEPT !.calls = 1, !.by = "browser"]
  <2>1. /\ proc'[p] = r /\ \A q \in Procs : q # p => proc'[q] = proc[q]
        /\ UNCHANGED <<store, watch>>
    BY <1>12, <1>p, OthersKept DEF BrowserCalls, ProcsTyped, disk
  <2>2. Solo(r) /\ r.phase = "serving"
    BY <1>12, <1>p DEF BrowserCalls, Quiet, Solo, Phase, ProcRecords
  <2>3. ASSUME NEW w \in Watches PROVE Watching(watch'[w], proc', store')
    <3>1. watch[w].by = p => watch[w].phase \notin Awake
      BY <1>12 DEF BrowserCalls, Quiet, Awake
    <3> QED
      BY <2>1, <2>2, <3>1 DEF WatchInv, Watching, Awake
  <2> QED
    BY <2>1, <2>2, <2>3 DEF WatchInv
<1>13. ASSUME NEW p \in Procs, AgentsCall(p) PROVE WatchInv'
  <2>1. PICK n \in 1 .. MaxWrites - count.writes,
             ws \in SUBSET {w \in Watches : watch[w].phase = "idle"} :
          /\ proc' = [proc EXCEPT ![p].calls = n, ![p].by = "agent"]
          /\ watch' = [w \in Watches |-> IF w \in ws THEN [watch[w] EXCEPT !.phase = "woken", !.by = p]
                                         ELSE watch[w]]
    BY <1>13 DEF AgentsCall
  <2> DEFINE r == [proc[p] EXCEPT !.calls = n, !.by = "agent"]
  <2>2. proc'[p] = r /\ (\A q \in Procs : q # p => proc'[q] = proc[q]) /\ store' = store
    BY <1>13, <1>p, <2>1, OthersKept DEF AgentsCall, ProcsTyped, disk
  <2>3. r.phase = "serving" /\ r.by = "agent"
    BY <1>13, <1>p DEF AgentsCall, Phase, ProcRecords
  <2>4. \A q \in Procs : Undisturbed(q, proc'[q])
    BY <2>2, <2>3 DEF Undisturbed, Solo, WatchInv
  <2>5. ASSUME NEW w \in Watches PROVE Watching(watch'[w], proc', store')
    <3>1. CASE w \in ws
      <4>1. watch'[w].phase = "woken" /\ watch'[w].by = p
        BY <2>1, <3>1 DEF WatchesTyped, WatchRecords
      <4> QED
        BY <2>2, <2>3, <4>1 DEF Watching, Awake
    <3>2. CASE w \notin ws
      <4>1. watch'[w] = watch[w]
        BY <2>1, <3>2
      <4> QED
        BY <2>2, <2>4, <4>1, WatchKept
    <3> QED
      BY <3>1, <3>2
  <2> QED
    BY <2>4, <2>5 DEF WatchInv, Undisturbed
<1>14. ASSUME NEW w \in Watches, Answer(w) \/ \E p \in Procs : WatchCalls(w, p) PROVE WatchInv'
  <2>1. UNCHANGED <<proc, store>>
    BY <1>14, OthersKeepRoles DEF disk
  <2>2. watch[w] \in WatchRecords /\ Watching(watch[w], proc, store)
    BY DEF WatchesTyped, WatchInv
  <2>3. ASSUME NEW r, Set(w, r), Watching(r, proc, store) PROVE WatchInv'
    BY <2>1, <2>3 DEF Set, WatchesTyped, WatchInv
  <2>4. CASE \E p \in Procs : WatchCalls(w, p)
    <3>1. PICK p \in Procs : WatchCalls(w, p)
      BY <2>4
    <3> DEFINE r == [watch[w] EXCEPT !.phase = "woken", !.by = p]
    <3>2. Watching(r, proc, store)
      BY <2>2, <3>1 DEF WatchCalls, Watching, WatchRecords, Awake, Phase, Quiet
    <3> QED
      BY <2>3, <3>1, <3>2 DEF WatchCalls
  <2>5. CASE WatchLoads(w)
    <3>1. Watching([watch[w] EXCEPT !.phase = "loaded", !.seen = store], proc, store)
      BY <2>2, <2>5 DEF WatchLoads, Watching, WatchRecords, Awake
    <3> QED
      BY <2>3, <2>5, <3>1 DEF WatchLoads
  <2>6. CASE WatchResumes(w)
    <3>1. Watching([watch[w] EXCEPT !.phase = "answered"], proc, store)
      BY <2>2 DEF Watching, WatchRecords, Awake
    <3>2. Pending(watch[w].seen) = {} => Watching([watch[w] EXCEPT !.phase = "waiting", !.seen = Null], proc, store)
      BY <2>2, <2>6 DEF WatchResumes, Watching, WatchRecords, Awake
    <3> QED
      BY <2>3, <2>6, <3>1, <3>2 DEF WatchResumes
  <2>7. CASE DeadlinePasses(w)
    <3>1. Watching([watch[w] EXCEPT !.late = TRUE], proc, store)
      BY <2>2 DEF Watching, WatchRecords
    <3> QED
      BY <2>3, <2>7, <3>1 DEF DeadlinePasses
  <2>8. CASE TimerFires(w)
    <3>1. Watching([watch[w] EXCEPT !.phase = "woken"], proc, store)
      BY <2>2, <2>8 DEF TimerFires, Quiet, Watching, WatchRecords, Awake
    <3> QED
      BY <2>3, <2>8, <3>1 DEF TimerFires
  <2> QED
    BY <1>14, <2>4, <2>5, <2>6, <2>7, <2>8 DEF Answer
<1>15. StrangerStarts \/ StrangerEnds \/ UNCHANGED vars => WatchInv'
  <2>1. StrangerStarts \/ StrangerEnds \/ UNCHANGED vars => UNCHANGED <<proc, watch, store>>
    BY DEF StrangerStarts, StrangerEnds, vars, disk
  <2> QED
    BY <2>1 DEF WatchInv
<1> QED
  BY <1>1, <1>2, <1>3, <1>4, <1>5, <1>6, <1>7, <1>8, <1>9, <1>10, <1>11, <1>12, <1>13, <1>14,
     <1>15 DEF Next, Step

-----------------------------------------------------------------------------
(* The theorems. *)

(* Types hold whether starts overlap or not. *)
THEOREM ServerTypeCorrect == Spec => []TypeOK
<1>1. Init => TypeOK
  BY InitIInv DEF IInv
<1>2. TypeOK /\ [Next]_vars => TypeOK'
  BY TypeStep
<1> QED
  BY <1>1, <1>2, PTL DEF Spec

LEMMA Inductive == ASSUME ~StartsOverlap PROVE Spec => []IInv
<1>1. Init => IInv
  BY InitIInv
<1>2. IInv /\ [Next]_vars => IInv'
  BY TypeStep, LockStep, WorkStep, IdentityStep DEF IInv
<1> QED
  BY <1>1, <1>2, PTL DEF Spec

(* When starts do not overlap at most one process owns the store, and the  *)
(* lock names it, whatever the number of processes, crashes and reused     *)
(* pids (acquireStoreLock).                                                *)
THEOREM LockExcludes == ASSUME ~StartsOverlap PROVE Spec => [](OneServer /\ OwnerHoldsLock)
<1>1. IInv => OneServer /\ OwnerHoldsLock
  <2> SUFFICES ASSUME IInv PROVE Cardinality(Owners) <= 1
    BY DEF IInv, LockInv, OneServer
  <2>1. \A p, q \in Owners : p = q
    BY OneOwner DEF IInv
  <2>2. CASE Owners = {}
    BY <2>2, FS_EmptySet
  <2>3. ASSUME NEW p \in Owners PROVE Cardinality(Owners) <= 1
    <3>1. Owners = {p}
      BY <2>1
    <3> QED
      BY <3>1, FS_Singleton
  <2> QED
    BY <2>2, <2>3
<1> QED
  BY <1>1, Inductive, PTL

(* Then the in-process queue is enough: no operation persists what it made *)
(* of a store that has changed meanwhile (FileStorageAdapter).             *)
THEOREM NoWriteIsLost == ASSUME ~StartsOverlap PROVE Spec => []WritesOnCurrent
<1>1. IInv => WritesOnCurrent
  BY DEF IInv, WorkInv, Working, WritesOnCurrent
<1> QED
  BY <1>1, Inductive, PTL

(* And the folder of the owner is exact whenever it is not being           *)
(* regenerated and its last round met no error (TaskFolder).               *)
THEOREM FolderFollows == ASSUME ~StartsOverlap PROVE Spec => []IdleFolderIsCurrent
<1>1. IInv => IdleFolderIsCurrent
  BY DEF IInv
<1> QED
  BY <1>1, Inductive, PTL

(* And the project's identity, once written, is never replaced, and is the *)
(* one every process works under (readOrCreateLocalConfig).                *)
THEOREM IdentityLasts == ASSUME ~StartsOverlap PROVE Spec => IdentityKept
<1>1. IInv /\ [Next]_vars => [IdentityIsStable]_vars
  <2> SUFFICES ASSUME IInv, [Next]_vars PROVE IdentityIsStable
    OBVIOUS
  <2>1. \A p \in Procs : proc[p].identity # Null => config = proc[p].identity
    BY DEF IInv, IdentityInv, Identity
  <2>2. config \in Procs => config' = config
    BY IdentityStep DEF IInv
  <2> QED
    BY <2>1, <2>2 DEF IdentityIsStable
<1> QED
  BY <1>1, Inductive, PTL DEF Spec, IdentityKept

(* A call of watch_annotations sleeps only while nothing is pending, with   *)
(* any number of watches, processes and annotations: what it found before   *)
(* its await is still so when it begins to listen (handleWatchAnnotations). *)
THEOREM NobodySleepsOnWork == ASSUME ~StartsOverlap PROVE Spec => []SleepsWhileNothingIsPending
<1>1. Init => WatchInv
  BY DEF Init, WatchInv, Solo, Watching, Awake, Off
<1>2. IInv /\ WatchInv /\ [Next]_vars => WatchInv'
  BY WatchStep DEF IInv
<1>3. WatchInv => SleepsWhileNothingIsPending
  BY DEF WatchInv, Watching, SleepsWhileNothingIsPending
<1> QED
  BY <1>1, <1>2, <1>3, Inductive, PTL DEF Spec
=============================================================================
