---------------------------- MODULE ServerProcess ----------------------------
(***************************************************************************)
(* The processes of the MCP server in local mode: how one of them becomes  *)
(* the owner of a store (server.ts, local-config.ts), how the owner keeps  *)
(* the folder of task files in step with it (task-folder.ts), and how its  *)
(* agents wait for work (watch-annotations.ts).                            *)
(*                                                                         *)
(* A process may be killed between any two steps, and the system may give  *)
(* its pid to somebody else.  writeFileSync truncates the file and then    *)
(* fills it, in two steps, so that a file may be found `Torn`.  The store  *)
(* is replaced by rename and never is.                                     *)
(*                                                                         *)
(* Within a process, a callback of the event loop (a browser's request, a  *)
(* chunk of agents' messages, a timer, a signal) starts only when the one  *)
(* before has run out of continuations.  Nothing on the way from a request *)
(* to its answer waits for anything but promises, so what a callback has   *)
(* begun interleaves with what the same callback began, and with nothing   *)
(* else.  An operation on the store loads it, awaits, and persists; the    *)
(* folder and a watch load it, await, and act on what they saw.            *)
(*                                                                         *)
(* An annotation is its status here (FileStore has the operations), and so *)
(* is its task file: renderTaskFile prints the status.                     *)
(*                                                                         *)
(* Not modelled here: cloud mode, where none of this runs, other files in  *)
(* the folder, hand-edited task files, and the reading and unlinking of    *)
(* the lock on exit as two steps.                                          *)
(***************************************************************************)
EXTENDS Lifecycle, FiniteSets

CONSTANTS
  Procs,          \* processes somebody may start on the store
  Pids,           \* the pids the system hands out
  Port,           \* the port a process is configured for
  Ids,            \* annotation ids
  Written,        \* bound: the statuses browsers write
  Watches,        \* calls of watch_annotations
  StartsOverlap,  \* whether a process may be started while another is starting
  MaxStarts, MaxWrites, MaxKills, MaxFaults, MaxStrangers,  \* bounds
  Null, Torn      \* no file; a file cut short

ASSUME NullIsNoPid == Null \notin Pids /\ Torn \notin Pids /\ Null # Torn
ASSUME NullIsNoProcess == Null \notin Procs /\ Torn \notin Procs

ASSUME BoundsAreNumbers == {MaxStarts, MaxWrites, MaxKills, MaxFaults, MaxStrangers} \subseteq Nat
ASSUME WrittenAreStatuses == Written \subseteq Statuses
ASSUME NullIsNoStatus == Null \notin Statuses /\ Torn \notin Statuses

VARIABLES
  config,     \* config.json: the process whose identity it holds
  lock,       \* server.lock: the pid it names
  store,      \* annotations.json: the status of each annotation
  tasks,      \* tasks/<id>.md: the status each file shows
  proc,       \* the processes
  watch,      \* the calls of watch_annotations
  strangers,  \* pids that other programs run under
  count       \* bounded counters

vars == <<config, lock, store, tasks, proc, watch, strangers, count>>
disk == <<config, lock, store, tasks>>

Stores == [Ids -> Statuses \cup {Null}]

\* actionableOnly, and one file for each annotation it keeps.
Actionable == {"pending", "in_progress"}
Projection(s) == [id \in Ids |-> IF s[id] \in Actionable THEN s[id] ELSE Null]

Off == [ phase |-> "off", pid |-> Null, identity |-> Null, calls |-> 0, by |-> "browser",
         op |-> Null, syncing |-> FALSE, dirty |-> FALSE, seen |-> Null, failed |-> FALSE ]

Init ==
  /\ config = Null /\ lock = Null
  /\ store \in [Ids -> Written \cup {Null}]
  /\ tasks = [id \in Ids |-> Null]
  /\ proc = [p \in Procs |-> Off]
  /\ watch = [w \in Watches |-> [phase |-> "idle", by |-> Null, seen |-> Null, late |-> FALSE]]
  /\ strangers = {}
  /\ count = [starts |-> 0, writes |-> 0, kills |-> 0, faults |-> 0, strangers |-> 0]

Phase(p) == proc[p].phase
On == {p \in Procs : Phase(p) # "off"}
Starting == {p \in On : Phase(p) # "serving"}
Owners == {p \in On : Phase(p) \in {"binding", "serving"}}
Alive == {proc[p].pid : p \in On} \cup strangers

\* Nothing is left of the callback that ran last.
Quiet(p) ==
  /\ proc[p].calls = 0 /\ proc[p].op = Null /\ ~proc[p].syncing
  /\ \A w \in Watches : watch[w].by = p => watch[w].phase \notin {"loaded", "woken"}

Counted(what) == [count EXCEPT ![what] = @ + 1]
Enter(p, phase) == proc' = [proc EXCEPT ![p].phase = phase]

-----------------------------------------------------------------------------
(* Start-up: main() up to the point where the process serves. *)

Start(p) ==
  /\ Phase(p) = "off"
  /\ count.starts < MaxStarts
  /\ StartsOverlap \/ Starting = {}
  /\ \E pid \in Pids \ Alive :
       proc' = [proc EXCEPT ![p] = [Off EXCEPT !.phase = "reading", !.pid = pid]]
  /\ count' = Counted("starts")
  /\ UNCHANGED <<disk, watch, strangers>>

\* The calls of a process die with it.
Gone(p) ==
  /\ proc' = [proc EXCEPT ![p] = Off]
  /\ watch' = [w \in Watches |-> IF watch[w].by = p /\ watch[w].phase # "answered"
                                 THEN [watch[w] EXCEPT !.phase = "lost", !.seen = Null] ELSE watch[w]]

\* Bug: the file is not looked for before a new identity is made.
ReadConfigAnew(p) ==
  /\ Phase(p) = "reading"
  /\ Enter(p, "creating")
  /\ UNCHANGED <<disk, watch, strangers, count>>

ReadConfig(p) ==
  /\ Phase(p) = "reading"
  /\ \/ config = Null /\ Enter(p, "creating") /\ UNCHANGED watch
     \/ config = Torn /\ Gone(p)
     \/ /\ config \in Procs
        /\ proc' = [proc EXCEPT ![p].phase = "checking", ![p].identity = config]
        /\ UNCHANGED watch
  /\ UNCHANGED <<disk, strangers, count>>

CreateConfig(p) ==
  /\ \/ /\ Phase(p) = "creating"
        /\ config' = Torn
        /\ Enter(p, "filling")
     \/ /\ Phase(p) = "filling"
        /\ config' = p
        /\ proc' = [proc EXCEPT ![p].phase = "checking", ![p].identity = p]
  /\ UNCHANGED <<lock, store, tasks, watch, strangers, count>>

\* Bug: the test for the own pid is the wrong way round.
OwnedBySelf(p) == lock \in Alive /\ lock = proc[p].pid

\* A lock that cannot be read, or names this process, is no live owner's.
Owned(p) == lock \in Alive /\ lock # proc[p].pid

\* Bug: who is refused cleans up on its way out.
CheckLockCleans(p) ==
  /\ Phase(p) = "checking"
  /\ IF Owned(p) THEN Gone(p) /\ lock' = Null
     ELSE Enter(p, "taking") /\ UNCHANGED <<watch, lock>>
  /\ UNCHANGED <<config, store, tasks, strangers, count>>

CheckLock(p) ==
  /\ Phase(p) = "checking"
  /\ IF Owned(p) THEN Gone(p) ELSE Enter(p, "taking") /\ UNCHANGED watch
  /\ UNCHANGED <<disk, strangers, count>>

\* Bug: a change during a round is forgotten.
ScheduledAlone(r, s) ==
  IF r.syncing THEN r ELSE [r EXCEPT !.syncing = TRUE, !.seen = s]

\* run() of the folder when nothing is being regenerated: it loads the store at once.
Scheduled(r, s) ==
  IF r.syncing THEN [r EXCEPT !.dirty = TRUE] ELSE [r EXCEPT !.syncing = TRUE, !.seen = s]

\* Once the lock is written, everything up to the bind runs without a pause.
TakeLock(p) ==
  /\ \/ /\ Phase(p) = "taking"
        /\ lock' = Torn
        /\ Enter(p, "writing")
     \/ /\ Phase(p) = "writing"
        /\ lock' = proc[p].pid
        /\ proc' = [proc EXCEPT ![p] = Scheduled([@ EXCEPT !.phase = "binding"], store)]
  /\ UNCHANGED <<config, store, tasks, watch, strangers, count>>

PortTaken(p) == \E q \in Procs : Phase(q) = "serving" /\ Port[q] = Port[p]

Bind(p) ==
  /\ Phase(p) = "binding"
  /\ Quiet(p)
  /\ ~PortTaken(p)
  /\ Enter(p, "serving")
  /\ UNCHANGED <<disk, watch, strangers, count>>

\* release() unlinks the lock only when it still names this process.
Release(p) == lock' = IF lock = proc[p].pid THEN Null ELSE lock

\* The port is another program's: startHttpServer rejects and main() exits.
BindFails(p) ==
  /\ Phase(p) = "binding"
  /\ Quiet(p)
  /\ \/ PortTaken(p) /\ UNCHANGED count
     \/ count.faults < MaxFaults /\ count' = Counted("faults")
  /\ Gone(p)
  /\ Release(p)
  /\ UNCHANGED <<config, store, tasks, strangers>>

\* SIGINT or SIGTERM: the handler is there once the lock is written.
Signal(p) ==
  /\ p \in On
  /\ Quiet(p)
  /\ count.kills < MaxKills
  /\ Gone(p)
  /\ IF p \in Owners THEN Release(p) ELSE UNCHANGED lock
  /\ count' = Counted("kills")
  /\ UNCHANGED <<config, store, tasks, strangers>>

\* Killed: what was being written stays as it is, half of the folder included.
Kill(p) ==
  /\ p \in On
  /\ count.kills < MaxKills
  /\ Gone(p)
  /\ IF proc[p].syncing
     THEN \E done, cut \in SUBSET Ids :
            tasks' = [id \in Ids |->
                        LET want == Projection(proc[p].seen)[id]
                        IN  IF id \in done THEN want
                            ELSE IF id \in cut /\ want \notin {tasks[id], Null} THEN Torn
                            ELSE tasks[id]]
     ELSE UNCHANGED tasks
  /\ count' = Counted("kills")
  /\ UNCHANGED <<config, lock, store, strangers>>

StrangerStarts ==
  /\ count.strangers < MaxStrangers
  /\ \E pid \in Pids \ Alive : strangers' = strangers \cup {pid}
  /\ count' = Counted("strangers")
  /\ UNCHANGED <<disk, proc, watch>>

StrangerEnds ==
  /\ \E pid \in strangers : strangers' = strangers \ {pid}
  /\ UNCHANGED <<disk, proc, watch, count>>

-----------------------------------------------------------------------------
(* Operations on the store, and the folder that follows it. *)

\* A browser's write is a callback of its own; agents' messages may share one,
\* and a watch may come with them.
BrowserCalls(p) ==
  /\ Phase(p) = "serving"
  /\ Quiet(p)
  /\ count.writes < MaxWrites
  /\ proc' = [proc EXCEPT ![p].calls = 1, ![p].by = "browser"]
  /\ count' = Counted("writes")
  /\ UNCHANGED <<disk, watch, strangers>>

AgentsCall(p) ==
  /\ Phase(p) = "serving"
  /\ Quiet(p)
  /\ \E n \in 1 .. MaxWrites - count.writes, ws \in SUBSET {w \in Watches : watch[w].phase = "idle"} :
       /\ proc' = [proc EXCEPT ![p].calls = n, ![p].by = "agent"]
       /\ watch' = [w \in Watches |-> IF w \in ws THEN [watch[w] EXCEPT !.phase = "woken", !.by = p]
                                      ELSE watch[w]]
       /\ count' = [count EXCEPT !.writes = @ + n]
  /\ UNCHANGED <<disk, strangers>>

Load(p) ==
  /\ proc[p].calls > 0
  /\ proc[p].op = Null
  /\ proc' = [proc EXCEPT ![p].op = store, ![p].calls = @ - 1]
  /\ UNCHANGED <<disk, watch, strangers, count>>

\* What an operation may make of an annotation: a browser writes or deletes it
\* as it likes, an agent moves it with one of its three tools.
Moves(by, status) ==
  IF by = "browser" THEN Written \cup {Null}
  ELSE {NextStatus(status, a) : a \in {"acknowledge", "claimFix", "dismiss"}} \ {NoStatus}

\* Bug: the listener is not there.
WokenNobody(p) == watch

\* emit('change'): who waits is woken, the folder is scheduled.
Woken(p) == [w \in Watches |-> IF watch[w].by = p /\ watch[w].phase = "waiting"
                               THEN [watch[w] EXCEPT !.phase = "woken"] ELSE watch[w]]

Persist(p) ==
  /\ proc[p].op # Null
  /\ \/ \E id \in Ids : \E status \in Moves(proc[p].by, proc[p].op[id]) :
            store' = [proc[p].op EXCEPT ![id] = status]
     \/ proc[p].by = "browser" /\ store' = [id \in Ids |-> Null]
  /\ proc' = [proc EXCEPT ![p] = Scheduled([@ EXCEPT !.op = Null], store')]
  /\ watch' = Woken(p)
  /\ UNCHANGED <<config, lock, tasks, strangers, count>>

\* The operation refuses, changes nothing, or cannot be written: no event.
Refuse(p) ==
  /\ proc[p].op # Null
  /\ proc' = [proc EXCEPT ![p].op = Null]
  /\ UNCHANGED <<disk, watch, strangers, count>>

\* Bugs: the next round does not load the store; there is no next round.
NextRoundUnread(r, s, failed) ==
  IF r.dirty THEN [r EXCEPT !.dirty = FALSE, !.seen = Null, !.failed = failed]
  ELSE [r EXCEPT !.syncing = FALSE, !.seen = Null, !.failed = failed]

NextRoundNever(r, s, failed) == [r EXCEPT !.syncing = FALSE, !.seen = Null, !.failed = failed]

\* The end of one round of run(): another one if the folder is dirty.
NextRound(r, s, failed) ==
  IF r.dirty THEN [r EXCEPT !.dirty = FALSE, !.seen = s, !.failed = failed]
  ELSE [r EXCEPT !.syncing = FALSE, !.seen = Null, !.failed = failed]

\* sync() after its await: each file on its own, failures logged and forgotten.
\* A write that fails may leave the file as it was or cut short.
Sync(p) ==
  /\ proc[p].syncing
  /\ \E bad \in SUBSET Ids, left \in {"old", "cut"} :
       LET want == Projection(proc[p].seen)
           failed == {id \in bad : tasks[id] # want[id]}
       IN  /\ failed = {} => bad = {} /\ left = "old"
           /\ failed # {} => count.faults < MaxFaults
           /\ tasks' = [id \in Ids |->
                          IF id \notin failed THEN want[id]
                          ELSE IF left = "cut" /\ want[id] # Null THEN Torn ELSE tasks[id]]
           /\ proc' = [proc EXCEPT ![p] = NextRound(@, store, failed # {})]
           /\ count' = IF failed = {} THEN count ELSE Counted("faults")
  /\ UNCHANGED <<config, lock, store, watch, strangers>>

-----------------------------------------------------------------------------
(* handleWatchAnnotations. *)

Set(w, r) == watch' = [watch EXCEPT ![w] = r]

WatchCalls(w, p) ==
  /\ watch[w].phase = "idle"
  /\ Phase(p) = "serving"
  /\ Quiet(p)
  /\ Set(w, [watch[w] EXCEPT !.phase = "woken", !.by = p])
  /\ UNCHANGED <<disk, proc, strangers, count>>

\* The head of the loop.
WatchLoads(w) ==
  /\ watch[w].phase = "woken"
  /\ Set(w, [watch[w] EXCEPT !.phase = "loaded", !.seen = store])
  /\ UNCHANGED <<disk, proc, strangers, count>>

Pending(s) == {id \in Ids : s[id] = "pending"}

\* Bug: the loop does not look at the time.
WatchResumesAgain(w) ==
  /\ watch[w].phase = "loaded"
  /\ Set(w, IF Pending(watch[w].seen) # {} THEN [watch[w] EXCEPT !.phase = "answered"]
            ELSE [watch[w] EXCEPT !.phase = "waiting", !.seen = Null])
  /\ UNCHANGED <<disk, proc, strangers, count>>

WatchResumes(w) ==
  /\ watch[w].phase = "loaded"
  /\ Set(w, IF Pending(watch[w].seen) # {} \/ watch[w].late
            THEN [watch[w] EXCEPT !.phase = "answered"]
            ELSE [watch[w] EXCEPT !.phase = "waiting", !.seen = Null])
  /\ UNCHANGED <<disk, proc, strangers, count>>

\* The deadline passes, and the timer of waitForChange wakes who still waits.
DeadlinePasses(w) ==
  /\ watch[w].phase \in {"loaded", "waiting", "woken"}
  /\ ~watch[w].late
  /\ Set(w, [watch[w] EXCEPT !.late = TRUE])
  /\ UNCHANGED <<disk, proc, strangers, count>>

TimerFires(w) ==
  /\ watch[w].phase = "waiting"
  /\ watch[w].late
  /\ Quiet(watch[w].by)
  /\ Set(w, [watch[w] EXCEPT !.phase = "woken"])
  /\ UNCHANGED <<disk, proc, strangers, count>>

-----------------------------------------------------------------------------

\* What a process has begun goes on; what others do to it may happen or not.
Step(p) ==
  \/ ReadConfig(p) \/ CreateConfig(p) \/ CheckLock(p) \/ TakeLock(p) \/ Bind(p)
  \/ Load(p) \/ Persist(p) \/ Refuse(p) \/ Sync(p)

Answer(w) == WatchLoads(w) \/ WatchResumes(w) \/ DeadlinePasses(w) \/ TimerFires(w)

Next ==
  \/ \E p \in Procs : \/ Start(p) \/ Step(p) \/ BindFails(p) \/ Signal(p) \/ Kill(p)
                      \/ BrowserCalls(p) \/ AgentsCall(p)
  \/ \E w \in Watches, p \in Procs : WatchCalls(w, p)
  \/ \E w \in Watches : Answer(w)
  \/ StrangerStarts \/ StrangerEnds

Fairness ==
  /\ \A p \in Procs : WF_vars(Step(p))
  /\ \A w \in Watches : WF_vars(Answer(w))

Spec == Init /\ [][Next]_vars /\ Fairness

-----------------------------------------------------------------------------
(* Correctness. *)

(* The shape of the state: what the files, the processes and the calls are. *)
ProcRecords ==
  [ phase : {"off", "reading", "creating", "filling", "checking", "taking", "writing",
             "binding", "serving"},
    pid : Pids \cup {Null}, identity : Procs \cup {Null},
    calls : Nat, by : {"browser", "agent"}, op : Stores \cup {Null},
    syncing : BOOLEAN, dirty : BOOLEAN, seen : Stores \cup {Null}, failed : BOOLEAN ]

WatchRecords ==
  [ phase : {"idle", "loaded", "waiting", "woken", "answered", "lost"},
    by : Procs \cup {Null}, seen : Stores \cup {Null}, late : BOOLEAN ]

FilesOK ==
  /\ config \in Procs \cup {Null, Torn}
  /\ lock \in Pids \cup {Null, Torn}
  /\ store \in Stores
  /\ tasks \in [Ids -> Actionable \cup {Null, Torn}]

CountOK == count \in [{"starts", "writes", "kills", "faults", "strangers"} -> Nat]

ProcOK(r) ==
  /\ r.phase = "off" => r = Off
  /\ r.phase # "off" => r.pid \in Pids
  /\ r.syncing => r.seen \in Stores

TypeOK ==
  /\ FilesOK /\ CountOK
  /\ proc \in [Procs -> ProcRecords]
  /\ \A p \in Procs : ProcOK(proc[p])
  /\ watch \in [Watches -> WatchRecords]
  /\ strangers \subseteq Pids

(* One process owns the store, whatever crashes, stale locks and reused    *)
(* pids came before: the in-process queue relies on it                     *)
(* (local-config.ts:120-147).  Only when starts do not overlap: see        *)
(* ServerOverlap.                                                          *)
OneServer == Cardinality(Owners) <= 1

(* For as long as the owner lives server.lock names it: nobody who exits   *)
(* takes it away.                                                          *)
OwnerHoldsLock == \A p \in Owners : lock = proc[p].pid

(* The identity a server answers with is the one on disk, and it is never  *)
(* replaced: widgets keep their outboxes under it (local-config.ts:73-77). *)
(* Like OneServer it needs starts that do not overlap: two that do could   *)
(* each write one.                                                         *)
IdentityIsStable ==
  /\ \A p \in Procs : proc[p].identity # Null => config = proc[p].identity
  /\ config \in Procs => config' = config

IdentityKept == [][IdentityIsStable]_vars

(* No write is lost: what an operation has loaded is still the store when  *)
(* it persists, across processes too (file-storage-adapter.ts:16-20).      *)
WritesOnCurrent == \A p \in Procs : proc[p].op # Null => proc[p].op = store

(* When the owner is not regenerating the folder and the last round met no *)
(* error, the files are exactly the actionable annotations, in whatever    *)
(* state a crash or an earlier owner left the folder (task-folder.ts:91).  *)
IdleFolderIsCurrent ==
  \A p \in Owners : ~proc[p].syncing /\ ~proc[p].failed => tasks = Projection(store)

(* An owner that stays brings the folder to the actionable annotations,    *)
(* if no file of its last round failed (task-folder.ts:91, 132-143).       *)
FolderConverges ==
  \A p \in Procs : p \in Owners ~> p \notin Owners \/ proc[p].failed \/ tasks = Projection(store)

(* The same without the exception.  Violated: a round that failed is not   *)
(* repeated, see ServerFolder.                                             *)
FolderAlwaysConverges ==
  \A p \in Procs : p \in Owners ~> p \notin Owners \/ tasks = Projection(store)

(* A watch is answered, or its server dies (watch-annotations.ts:26-45).   *)
WatchesEnd == \A w \in Watches : watch[w].phase \in {"loaded", "waiting", "woken"}
                                   ~> watch[w].phase \in {"answered", "lost"}

(* "Otherwise blocks until one appears" (tools/index.ts:73): a watch sleeps *)
(* only while nothing is pending, although it loads the store and listens   *)
(* for changes in two steps: nothing that makes an annotation pending runs  *)
(* in the same callback.                                                    *)
SleepsWhileNothingIsPending ==
  \A w \in Watches : watch[w].phase = "waiting" => Pending(store) = {}
=============================================================================
