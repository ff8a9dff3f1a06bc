# web-remarq in TLA+

web-remarq lets a designer annotate a running web page and hands the annotations
to a coding agent. A widget in the page keeps them in a store; a local MCP server
keeps the store in a file and offers it both to browsers (HTTP on loopback) and to
agents (MCP tools); a cloud table can take the server's place. Everything that is
hard in it is about *two parties who hold copies of one annotation*: browsers that
work offline, agents that retry, a server that crashes, a page that is reloaded.
This project models that part, checks it with TLC and proves its centre with TLAPS.

Run `tlc -config X.cfg M` for any run below and `tlapm M.tla` for the proofs of
`FileStoreProofs`, `HttpSyncProofs`, `WidgetProofs`, `TabsProofs`, `CloudStoreProofs`, `ServerProcessProofs`,
`InstallerProofs` and the lemmas of `Induction`. Paths are relative to `src/packages/`.

## 1. The system

| Part | Source | State | Operations | What makes it correct |
|---|---|---|---|---|
| Lifecycle | `core/src/core/lifecycle.ts` | status and event list of an annotation | `transition`, `replayEvent` | one table; the status is the one the history leads to |
| Merge | `core/src/core/merge.ts` | none (pure) | `mergeAnnotation(base, local, server)` | keeps the server's history and edits, loses no local intent unreported, idle when repeated |
| File store | `mcp/src/file-storage-adapter.ts` | the JSON file, the promise queue | `save`, `saveIfMatch`, `remove(IfMatch)`, `clear`, `mutate`, `load`, `waitForChange` | each call takes effect at one instant, a stale write is refused, a crash loses no answered call |
| Agent transitions | `mcp/src/tools/transition-tool.ts` | none | `acknowledge`, `claim_fix`, `dismiss` with `operationId` | one winner; a retry is recognised and recorded once |
| HTTP server | `mcp/src/http-server.ts` | none | `GET /store`, `PUT`/`DELETE /annotations/:id`, `DELETE /annotations` | revisions by `If-Match`; access checks |
| Browser sync | `core/src/core/http-storage-adapter.ts` | promise chain, known copies, cache, outbox, parked and conflict journals in localStorage, in-memory overlay | `load`, `save`, `remove`, `clear`, `poll`, `pair`, `adoptUnsent`, `clearParked` | nothing the user did is lost, nothing others did is undone, the dot is true, what is queued does not wait unseen, the page converges |
| Domain store | `core/src/core/storage.ts` | the shown copies | `add`, `update`, `remove`, `clearAll`, `importJSON`, events from the adapter | a failed write is not shown as saved |
| Widget and its interface | `core/src/web-remarq.ts`, `core/src/spa.ts`, `core/src/ui/` | modes, popup, markers, selection, chips, detached panel, scheduled refresh | gestures, refreshes, routes, public API | what is shown follows store and page; typed text is not lost |
| Quality runner | `core/src/core/quality-runner.ts` | sequence number and pending flag per annotation | `run`, `forget`, `clear` | a verdict is only applied to the comment it judges |
| Task folder | `mcp/src/task-folder.ts` | `syncing`, `dirty`, one file per open annotation | `sync`, `schedule` | the folder ends up equal to the open annotations |
| Store lock, config | `mcp/src/local-config.ts` | lock file, token file | `acquireStoreLock`, `readOrCreateLocalConfig` | one server per store; one token |
| Watch tool | `mcp/src/tools/watch-annotations.ts` | deadline | long poll | a pending annotation is reported by the deadline |
| Cloud adapter | `cloud/src/cloud-storage-adapter.ts` | a remote table with a `rev` column | `load`, `save`, `remove`, `clear`, `mutate` | compare-and-swap; bounded retries |
| localStorage adapter | `core/src/core/local-storage-adapter.ts` | one key | `load`, `save`, `remove`, `clear` | falls back to memory when the quota is full |
| Matching | `core/src/core/{matcher,fingerprint,hash-detect,source-detect,viewport}.ts` | none | scoring of DOM candidates | best candidate above a threshold |
| Validation, export | `core/src/core/{validate,agent-export}.ts` | none | parsing, formatting | |
| CLI installer | `cli/src/` | `.mcp.json`, `.remarq/`, `index.html`, installed packages | `init`, `doctor` | a green check is true; `init` may be run again; the advice leads to a paired page |
| Build plugins | `{unplugin,next,babel-plugin,swc-plugin}` | token read at start (Next) | source transforms, the config endpoint | stamps what its include accepts |

**How they interact.** The widget calls the domain store, which changes what is shown
at once and calls its adapter; the adapter's answers and its polls come back as
events (`add`, `update`, `remove`) that replace what is shown. Over HTTP the adapter
queues jobs on one promise chain; a job is a series of requests with `await`s in
between, during which the user goes on working. The server runs each operation in a
slot of its own promise queue: load the file, decide, write the file by rename, bump
`rev`, emit `change`. The task folder and the watch tool listen to `change`. Agents go
through `mutate`, browsers through `saveIfMatch`; both end in the same queue. Which process runs that
queue is decided by a lock file in the same folder; which token a page may use by
`.remarq/config.json`, which the installer or the server creates, whichever comes first, and
which the dev server hands to the page.

**Which behaviours are hard.** A copy that is stale when it is written. A write whose
answer is lost and is sent again, merged with what happened meanwhile. Operations that
replace each other in the outbox while one of them is in flight. A crash or a reload
between two writes that belong together. localStorage failing between them. State read
when a job *runs* and not when the user acted. Two tabs on one localStorage, two servers on one
folder, two projects on one port. A popup, a check and a repaint that each hold an annotation
another handler has changed. A process killed between two files. `PROJECT.json` lists these hazards with
their lines, and the properties that watch them.

## 2. The modules

| Module | Models |
|---|---|
| `Lifecycle` | the status table (`Sources`, `Target`), `ReplayEvent`, `Explained(status, history)` |
| `Lists` | `filter` |
| `History` | two histories of one annotation: where they part, and the replay of one on the other |
| `Outbox` | the queue of unconfirmed writes: what a new operation replaces, what an answer takes out |
| `Merge` | `mergeAnnotation` over records `[fields, status, lifecycle, rev]` |
| `Divergence` | a state machine that drives a base, a browser's and a server's copy apart and merges in every state |
| `StoreOps` | the decision and the effect of each store operation, as functions of a store |
| `AtomicStore` | the abstract store: a call arrives, takes effect at one instant, is answered |
| `FileStore` | the server: promise queue, load and finish of an operation, failing persist, crash; its callers |
| `HttpSync` | one tab: view, adapter memory, localStorage, promise chain, jobs; the server; others; faults |
| `Tabs` | several tabs on one localStorage: the queues of projects, of no project and of an old widget, the navigator lock, servers that take turns on one port |
| `Widget` | the widget of a page over an adapter that may reject: modes, popup, markers, chips, quality runner, detached panel, refreshes |
| `CloudStore` | tabs with their domain stores, and agents, over one table with revisions |
| `ServerProcess` | server processes on one folder: identity, lock, store, task folder, watches |
| `Installer` | `init` and `doctor`, the files of a repository, the server beside them, the dev server and the page |
| `MC...` | instances of these |
| `Induction` | lemmas: induction as facts about sets, folds over sequences, what a history leads to, what a filter and a replay keep |
| `FileStoreProofs` | theorems about `FileStore`: types, exclusion, refinement, what revisions protect, what histories say |
| `HttpSyncProofs` | theorems about `HttpSync`: the queue survives, what the user meant is kept, the dot is true, what can shorten a history; and about `Divergence`: what a merge keeps |
| `WidgetProofs` | theorems about `Widget`: what is shown or will be, popups and their highlight, checks that are awaited, texts that are kept |
| `TabsProofs` | theorems about `Tabs`: whose operations are sent, how often, and where they wait |
| `CloudStoreProofs` | theorems about `CloudStore`: rows, what agents are told, what tabs show |
| `ServerProcessProofs` | theorems about `ServerProcess`: types, exclusion, and what rests on it |
| `InstallerProofs` | theorems about `Installer`: running `init` again, what `doctor` calls ok |

`FileStore` and `AtomicStore` share `StoreOps`, `HttpSync` and `Tabs` the queue of `Outbox`; `HttpSync` uses `StoreOps` for what the
server does with a request and `Merge` for what the browser does with a refusal.
`FileStore` shows that the server takes each request at one instant, which is what lets
`HttpSync` serve a request in the step that sends it.

### Lifecycle, Merge, Divergence

An event is `[type, id]`; the id stands for actor, timestamp, reason and `opId`, which is
what `eventKey` compares. `Divergence` starts from one annotation, with the base the
browser still holds or with `Null` (a legacy or adopted queue entry), and lets the browser
and the server edit and move their copies; `WriteBack` is a merged write that reached
the server although its answer was lost. The properties are about
`MergeAnnotation(base, local, server)` in every state so reached.

### FileStore

| In the code | In the model |
|---|---|
| the JSON file | `file`: id to record or `Null` |
| `this.queue` | `queue`: the head is running when `loaded # Null` |
| the `store` an operation loaded | `loaded` |
| a request of a browser or agent | `call[c]`, with the record its caller had read in `base` |
| its progress | `stage[c]`: idle, sent, arrived, done, or lost in a crash |
| its answer | `answer[c]` |

`Load` and `Finish` are the two halves of an operation around its `await`. `Finish` decides
(`Outcome`) and persists (`Effect`); `FailPersist` is a `writeFileSync` or `renameSync`
that throws, after which the file is unchanged. `Crash` keeps only the file. Callers compose
a call from the record they read and may send it much later, or again (`RetryCall`). With
`Recreate = FALSE` an id is never created twice and no edit goes without a revision, which
is what widgets do; with `TRUE` they may, as an import of an export, a retried creation or an
edit of a copy no server has confirmed can.

### HttpSync

| In the code | In the model |
|---|---|
| `AnnotationStorage.cache` | `tab.shown` |
| `known`, `online`, `memoryOnly`, `heldOps` | `tab.known`, `tab.online`, `tab.memoryOnly`, `tab.held` |
| `authFailed`, `originRefused`, `incompatible` | `tab.refused` |
| localStorage through `getItem` (with the `mem` overlay) | `tab.cache`, `tab.outbox`, `tab.conflicts`, `tab.parked` |
| localStorage itself | `disk` |
| `this.chain` | `chain`, and `job` for the job that is running |
| a request and its answer | one step of the job: `Fetch`, `SendSave`, `SendMerged`, `SendRemove`, `SendClear`, `Refetch`, or one of `Faults` |

The server is quiet between a request and its answer as far as this request is concerned:
its part touches nothing of the tab, and the tab does nothing but wait for the answer, so
one step stands for both. Each can fail as the code sees it fail: the connection breaks before or after the server
has served the request (`ConnectionLost`; for a `GET` the page then asks `/health`, and takes an answer there for a
refusal of its origin), the body of an answer cannot be read (`AnswerUnread`), the page is refused
(`AccessRefused`), a merged write is (`MergeRefused`), or the operation is (`WriteRejected`). `Pair` may come at any time, as
`pair()` may be called at any time. Everything else (the user, other writers, a reload, a failing
localStorage) may come between any two steps. `Become` writes localStorage the way a handler
does, journals first, and lets it fail at every point in between. `intents` and `landed` are
history variables: what the user last wrote and did to each annotation, and what of it the
server has taken. `lives` counts how often a record was created under an id.

`Pace` says when the user acts. `"any"`: whenever the page can take a click. `"idle"`: when no
job is waiting or running. `"shown"`: when, besides, the page still shows what is queued. The
two weaker paces are not assumptions about users but the boundary of what the code
guarantees: the violation runs below show what happens beyond it.

### Tabs

| In the code | In the model |
|---|---|
| the outbox keys, `lastProject`, the legacy buffer in localStorage | `disk.outbox[namespace]`, `disk.lastProject`, `disk.buffer` |
| `this.namespace`, the token | `tab[t].ns`, `tab[t].token` |
| `this.chain`, the job that runs and the request it waits for | `tab[t].chain`, `tab[t].job` |
| `navigator.locks` on an outbox | `lock[namespace]` |
| the project whose server has the port | `serving` |

What a tab does between two requests is one step, as a browser runs it. An operation is its
identity, the annotation it is about and whether it clears; `op.home` remembers the project it
was made for (or was adopted into), so that `NoStrays` can tell when it reaches another. `MigrateLegacyKeys` and
`adoptUnsent` write a queue and then remove another; each has an action that ends in between
(`MigrationCutOff`, `AdoptionCutOff`), the tab closed. A tab is paired at any time, with any project's token, and each
request carries the token of its moment. `owed`, `settled`, `count.torn` (adoptions cut off between the two writes) and
`overtaken` (the tab got another token in the middle of a job, and has not fetched the store with it) are history. What a write says, conflicts and a failing localStorage are
`HttpSync`'s.

### Widget

`w` is what the modules of the widget hold: the cache and its writes under way (`cache`,
`writes`), `popup`, `markers`, `selected`, `suppressed`, `chips`, the quality runner's `pending`,
`seqs` and `checks`, the panel's `detached` and `other`, and whether a repaint is `scheduled`. One
action is one handler; the operators nest the way the handlers call each other (a press outside
a popup hides it, which flushes its edit, which updates the store, and then what was pressed
happens). `page.dom` says which annotations' elements the matcher finds. `copy` tells
JavaScript objects apart that stand for the same annotation, because the store's rollback puts back an
*object*, which others may have changed. Writes are answered in the order they were made.

### CloudStore

A call of a tab goes out, its statement executes at the database, a missed one reads the row
again, and the answer comes back; `calls` holds it in between, with what a failure would put
back (`kept`). An agent's `mutate` reads, writes if the revision matches, and tries again; a call that has ended, well or
not, may be made once more under the same operation id (`AgentRepeats`), which the row may already carry.
`versions` and `lives` are history variables: every row there ever was. `OneAtATime` is a pace:
a user makes the next gesture when the last is answered. Without it two quick updates of one
annotation carry one revision, and the rollback of the second restores a copy no row ever
held, and `importJSON` works on the live array, to which such an update would add; with it everything the runs check holds.

### ServerProcess

| In the code | In the model |
|---|---|
| `config.json`, `server.lock`, `annotations.json`, `tasks/*.md` | `config`, `lock`, `store`, `tasks` |
| a process between `main()` and its end | `proc[p]`: `phase`, the pid, its identity, the operation and the folder's round it runs |
| a call of `watch_annotations` | `watch[w]` |
| pids other programs run under | `strangers` |

`writeFileSync` truncates and then fills: two steps, and a process killed in between leaves `Torn`.
`acquireStoreLock` is three (check, truncate, fill). Within a process a callback runs until its
continuations are through, so that an operation interleaves with the folder's round and the
watches it woke, and with nothing else.

### Installer

`init` writes one file after another and may be killed between two of them or within one;
`doctor` runs before, after or without an `init`, reads the files, then asks the server twice, and reports even of files that
changed under it (`report.mixed`: such a report may be green by accident, and `GreenIsTrue` excepts it); the user, or the agent that sets the
project up, does what the last report, or the failure of the last `init`, says. A build config is a *form*: how it mentions the
plugin, how its options are written, and what its include comes to when it is run; doctor sees the
first two, the bundler the third. The Next check looks only for a mention, so configs that go
wrong are Vite's here.

## 3. The runs

| Run | Checks | Shows |
|---|---|---|
| `MCMergePass` | `HistoryKept`, `NothingLost`, `ServerEditsKept`, `RetryNotDuplicated` | what the merge guarantees |
| `FileStore` | `TypeOK`, `LoadedIsCurrent`, `EventOnce`, `StatusExplained`, `WinIsDurable`, `HistoryGrows`, `StaleNeverOverwrites`, `Linearizable`, `EveryCallSettles` | the store under retries, late calls, failing persists and a crash; `FileStore` implements `AtomicStore`; no call blocks the ones behind it |
| `HttpSyncHistory` | `OnlyStaleSavesRewrite` | at any pace, with refusals, a pairing and a reload: merges, retries and replays undo nothing others did |
| `HttpSyncFaulty` | `NothingDiscarded`, `SyncedIsTrue`, `QueueIsDurable` | a localStorage that fails at any write, a server that refuses the page at any request, and pairing again |
| `HttpSyncLive` | `QueuedEnds`, `GreenIsCurrent` | the dot does not say "queued" for ever, and the view catches up |
| `Tabs` | `NoStrays`, `QueueKept`, `SentOnce` | queues shared by two tabs and kept apart by project, adoptions and migrations cut off, a tab paired at any time |
| `Widget` | `PendingIsAwaited`, `ShownOrScheduled`, `EditsAreKept`, `ChecksEnd` | no typed text is lost, whoever changes what is to be shown sees to a refresh, checks end |
| `CloudStore` | `SettledIsSaved`, `AgentsAreToldTheTruth`, `RowContinues`, `CallsAreAnswered`, `MutateEnds` | races for one row, rollbacks, a failing import, a repeated call of an agent |
| `ServerProcess` | `OneServer`, `WritesOnCurrent`, `IdleFolderIsCurrent`, `SleepsWhileNothingIsPending`, `IdentityKept`, `FolderConverges` | one owner after another, whatever was killed |
| `Installer` | `GreenIsTrue`, `RerunKeeps`, `SetupEnds` | reports that are true and advice that leads to a paired page |
| `HttpSyncAnyPace` | `HistoryGrows` (violated) | a stale copy gets a current revision |
| `WidgetRejected` | `FailedIsNotShown` (violated) | a rejected transition stays on the screen |

Every property of a passing run has a mutant in `PROJECT.json`: one definition replaced by
a plausible bug (the operators marked "Defect" next to it), under which TLC finds the
property violated in the very same run.

**More instances.** Sixteen configurations are not in the table, because what they show is known:
each one violates one property, and section 5 says why. They run the same way:
`MCMergeNeverRolledBack` (module `Divergence`), `FileStoreRecreated` (`MCFileStore`),
`HttpSyncPair`, `HttpSyncIdlePace`, `HttpSyncGhost`, `HttpSyncRecreated`, `HttpSyncRefused` (`MCHttpSync`), `TabsPair` (`MCTabs`), `CloudReimported` (`MCCloudStore`),
`ServerOverlap`, `ServerFolder` (`MCServerProcess`), `InstallerHtml`, `InstallerSpread` (`MCInstaller`), `WidgetHighlight`,
`WidgetVerdict`, `WidgetWidth` (`MCWidget`). The modules state a few invariants more that hold in the
instances of the table, and that are handy when the model is changed: `TypeOK` of each module, `RetryIsIdle`, `OutboxCoalesced`,
`OwnerHoldsLock`, `PopupIsHighlighted` and `StatusExplained` of `CloudStore`, which section 4 proves, and `WatchesEnd`.

**Bounds.** Annotations, contents and callers are interchangeable for everything the code
does with them, so one or two of each already give every relation between them: same record
or another, own event or another's, first attempt or retry. `MaxUser`, `MaxOther`, `MaxFaults` of 2 to 3
in `HttpSync` are enough for the longest stories the code knows: an edit that is lost, merged, and
overtaken again, and what `HttpSyncFaulty` and `HttpSyncHistory` check is proved for any bounds; one pairing in each, at any moment.
In `HttpSyncLive` the user adds, edits and removes but makes no transitions, which a queue does not tell from edits; nobody pairs,
since pairing is what would rescue a page that is refused. `Tabs` has two tabs (a replay and somebody else), two projects, one write
and one old buffer, one pairing, and two *troubles*, a bound shared by servers that stop or change (which breaks the
requests under way), tabs closed and requests that break; what it checks is proved for any number of them. `Widget`'s three gestures open a popup, type and press elsewhere, beside one change of
the page, one by others and one fault; what it checks of single steps is proved for any number of them. `WidgetWidth` has two changes of the page, because a
width that changes and changes back is not always seen (section 5). `CloudStore`'s two gestures or agent calls, one import and one fault
beside two tabs and an agent give each race of two writers on a row; `MaxAttempts` is 2 so that giving up
happens. `ServerProcess` has three starts of two processes under two pids, two writes, one kill, one failing file, and a
stranger that takes a pid. `Installer` makes one slip and is killed once, which is enough to put anything between any two
of its steps. Bounds are CONSTANTS named in
the modules, and cut only the callers, the user, the others and the faults; the code's own steps are
never cut.

**Deadlock** is not checked: once the bounds are used up and all is answered there is nothing
left to do.

**Fairness.** `FileStore`: weak fairness of `Load` and `Finish`, the microtasks of one event
loop. Not of callers, and not of crashes. `HttpSync`: weak fairness of starting a job, of the
answer to a request, and of the poll timer (`setInterval`). Not of the user, others, faults,
`Pair` or `Reload`; a fault is an alternative to the answer, and there are finitely many.
`Widget`: promises, timers and animation frames (`Load`, `WriteLands`, checks, `RefreshFires`,
`ResizeSettles`). `CloudStore`: the database answers, and an agent that has begun goes on.
`ServerProcess`: a process that was not killed runs on, a watch's callbacks fire. `Installer`: processes run on,
the client starts the server, and the user, who is the one who wants the setup to end, does what reports say and
loads the page; not slips, kills or failing installs. `Tabs` states safety only, and none.

## 4. The proofs

`FileStoreProofs` proves for every `Ids`, `Contents`, `Calls`, `OpIds`, `EventIds`, every
choice of moves and of `Initial`, with and without `Recreate`, and any number of crashes:

| Theorem | Says |
|---|---|
| `TypeCorrect` | `Spec => []TypeOK` |
| `QueueExcludes` | `Spec => []LoadedIsCurrent`: the promise queue is a mutual exclusion |
| `StoreIsAtomic` | `Spec => Linearizable`: `FileStore` implements `AtomicStore` |

They rest on the assumptions of the modules: calls and operationIds are event identities,
moves are actions, there is an id, `Null` is none of the values it stands beside, initial
files are stores. TLC evaluates all of them in every run.

`TypeOK` and `LoadedIsCurrent` are not inductive alone. `IInv` adds that every call that is no
longer idle is composed (`CallsReady`: otherwise `Finish` would decide on `Null`), that what
waits in the queue has arrived and waits once (`QueueArrived`: otherwise a settled call could
run again), and that a call runs only at the head of a non-empty queue (`RunningIsFirst`).
One lemma per action shows that it preserves `IInv`. The refinement maps `file` to `records`
and keeps `call`, `stage` and `answer`: composing and arriving map to their namesakes, `Load`
stutters, `Finish` and `FailPersist` map to `AbsTakeEffect`, where `LoadedIsCurrent` is what makes the
outcome computed on the loaded copy the outcome on the file, and `Crash` to `AbsCrash`.

Its second half proves what protects a record from callers that are late, stale or repeat themselves:

| Theorem | Says | Assumes |
|---|---|---|
| `StaleIsRefused` | `Spec => StaleNeverOverwrites`: an accepted update was composed from the very record it replaces | `CarefulCallers` |
| `HistoriesGrow` | `Spec => HistoryGrows`: every change of a living record continues its history under the next revision | `CarefulCallers` |
| `WinsLast` | `Spec => []WinIsDurable`: a transition answered with success stays in the history | `CarefulCallers` |
| `EventsAreOnce` | `Spec => []EventOnce`: no event stands twice in a history | `OrderlyStart` |
| `StatusIsExplained` | `Spec => []StatusExplained`: the history leads to the status | `OrderlyStart` |

`CarefulCallers`: `Recreate` is false (an
id is created once, and every edit names the revision it was made on), nobody uses the
unconditional `save`, and a file the server starts with holds no record of revision 0 (`load`
gives those 1). `OrderlyStart`: in the file the server starts with, histories are in order and hold no
event of the calls to come.

A revision is only a number, so that equal numbers mean equal records needs an invariant of its
own, `HInv`: the base of an update has a revision at most that of the record on disk, and if they are
equal it *is* that record (`UpdatesFollow`); a creation that has not taken effect is the only one of
its id, and no record has that id yet (`CreationsAreFirst`: otherwise it could start the
revisions over below a pending update); ids of records and calls are used up
(`RecordsAreUsed`, which keeps the next creation away from them). The run `FileStoreRecreated` shows that
without `~Recreate` the conclusion fails, and TLC found `IInv` and `HInv` true in
every state of the instance of `FileStore` and of one with two ids, one of them new. `WinsLast` needs
`WinsRecorded` besides: who won is never overtaken by a creation that starts its record over.

`EventOnce` and `StatusExplained` hold of the file because they hold of every record in sight, those that
callers are about to write included (`OInv`), and because the event of a call that has not yet taken effect
stands nowhere (`Unborn`): what `operationId` is checked for in the file is all that can be there. The status is
a fold over the history; `Induction` proves that a fold has a trace of intermediate statuses and that a trace
can be continued, by induction stated with sets (`SetInduction`: a set of numbers that holds 0 and
every successor is all of them), which the provers can instantiate.

`HttpSyncProofs` also proves of `Divergence`, for every set of fields, values, actions and ids, and however long base, browser and server
have been apart:

| Theorem | Says |
|---|---|
| `HistoryIsKept` | `DriftSpec => []HistoryKept`: the server's history is a prefix of the merged one, which leads to the merged status |
| `LocalIntentIsKept` | `DriftSpec => []NothingLost`: a field or an event of the browser is in the merged copy or reported as dropped |
| `ServerEditsSurvive` | `DriftSpec => []ServerEditsKept`: what only the server changed stays |
| `RetriesAreOnce` | `DriftSpec => []RetryNotDuplicated`: an event the server recorded of a write whose answer was lost is not replayed |
| `RetriesAreIdle` | `DriftSpec => []RetryIsIdle`: merging such a write again into what the server made of it changes nothing |

The lemmas say what the operators compute for any two histories: `Begins` and `EventsAfterIs` where two histories
part, `UnrecordedKeeps` which of the browser's events are left when the server's are taken out, `ReplayKeeps` what
becomes of each when they are replayed (`NothingToReplay`: nothing, when the server has recorded them all). The invariant `MInv` of the machine that drives the copies apart
adds that event ids come from one clock and that equal ids are equal events (`SameEvents`: otherwise taking out
the server's would take out others), that the server's status is explained, and that nothing stands twice in
the histories that are merged. TLC found `MInv` true in every state of `MCMergePass`.

`HttpSyncProofs` proves, for every set of ids, fields and values, every choice of moves, any number of
writes, faults, reloads and changes by others, with a localStorage that fails and a server that refuses the page or without:

| Theorem | Says | Assumes |
|---|---|---|
| `TypeCorrect` | `Spec => []TypeOK` | |
| `QueueSurvives` | `Spec => QueueIsDurable`: a queued operation leaves localStorage only when the server has taken it, a newer one has replaced it, or a journal *in localStorage* has it | |
| `OutboxStaysCoalesced` | `Spec => []OutboxCoalesced`: the queue holds one operation per annotation, and nothing from before a clear | |
| `IntentIsKept` | `Spec => []NothingDiscarded`: what the user wrote last, and every move the user made, has landed, is on its way, or is kept for review | `Pace = "shown"` |
| `GreenIsTrue` | `Spec => []SyncedIsTrue`: with the dot green and nothing on its way, all of it has landed | `Pace = "shown"` |
| `HistoriesGrow` | `Spec => OnlyStaleSavesRewrite`: nothing but a stale save takes an event out of a history on the server or rewrites one | |

All but two hold at any pace. `Pace = "shown"` (the user writes when no job waits or runs and the page
shows what is queued) is where the guarantee of those two ends: `HttpSyncIdlePace`, in section 5, is the
same claim at the next weaker pace, and TLC refutes it there. The assumptions of the module are that `Null`
is no copy, no operation and no job, that annotations have content (`FieldsExist`), that moves are actions, that `Null` is no annotation, and
that the server starts with stores in which this user has written nothing. TLC evaluates them in every run.

`QueueIsDurable` is about one step, but what a step writes depends on what was decided several requests before.
`JournalInv` says what of it still holds. The disk is the page's view of its keys unless the page has fallen back to
memory. Copies that came from the server, known ones and merge bases alike, hold nothing of the user's that has not
landed (`Landed`), so that dropping one loses nothing. Identities are given out once, and the queue holds each at
most once and coalesced (`QueueOK`, where `ReplacesAll` says that a new operation displaces every older one of its
annotation, which needs that `Null` is no annotation: it stands for "all" in a clear). A live write is newer than all that is queued, what a flush has in hand or still to send *is* in the
queue, and what a merge is about to drop is already on record (`JobOK`, `MergeOK`), because the code
writes the conflict journal before it sends the merged copy. All of it is claimed twice, of the page's keys and of
the disk's, since a failing write leaves them apart and a reload goes on from the disk.

`IntentInv` adds to `NothingDiscarded` that at most one write is on its way and that it takes along whatever is
wanted of the queued operation it will replace (`OneWrite`, `Covers`): this is the fact that fails at a faster pace. The
proof has one lemma per answer a request can get, each in two parts: the page the handler leaves
*follows* from the one before (`Follows`, `Sound`: what it no longer holds has landed, was replaced or is on
record), and such a page keeps the invariants whichever of its writes to localStorage fails (`Become`). What
a merge keeps of the user's part comes from the same lemmas of `Induction` that the theorems about `Divergence` use. TLC
found `JournalInv` and `IntentInv` true in every state of `HttpSyncFaulty`.

`OnlyStaleSavesRewrite` says how far the server may trust a revision. The contract's claim, `HistoryGrows`, is false of the
code (`HttpSyncAnyPace`, `HttpSyncPair`, `HttpSyncRecreated`), in one way only: a save is sent under a revision whose history
neither the copy it carries nor the base it is said to be made from has (`Stale`). Whatever else the page does (a merge, its
retry, the replay of a queue after a reload, after lost or unreadable answers, after a pairing) continues what the server had. The
invariant is `PastInv`: what the page shows, knows, has cached, has queued and is sending is a *past* of the server's record
(`HasBeen`): a copy that carries a revision carries an older one than the record's, which the server will refuse, or that one and all of the
record's history (`Continues`). So a copy, or a base, at the revision a save names has the history that goes with it, and only
a save made from neither can miss some. A merge ends in what the server had, and more. Records that were created again under
an id start over at revision 1 and prove nothing, so the claim is about the first life of an id (`Lived`); a record the
tab creates itself is a past of none (`Unborn`). One lemma per handler shows that pasts stay pasts; what they lean on is that every step
removes a record, keeps it, or raises its revision (`MovesOn`). No assumption on the pace, on refusals or on what exists at
the start is left. The assumption that `Null` is no revision (`NullIsNoRev`) is used here alone. TLC found `PastInv` true in
every state of `HttpSyncHistory`.

`TabsProofs` proves, for every set of tabs and projects, any initial buffer of an old widget, and any
number of writes, pairings, server changes, broken requests, closed tabs and adoptions or migrations cut off:

| Theorem | Says |
|---|---|
| `TypeCorrect` | `Spec => []TypeOK` |
| `QueuesKeep` | `Spec => []QueueKept`: what is owed waits in a queue until it is answered or replaced |
| `NothingStrays` | `Spec => []NoStrays`: no project's server is handed another project's operation, but by a tab that got another token in the middle of a job and has not fetched the store with it |
| `SentOnlyOnce` | `Spec => []SentOnce`: what was answered is not sent again by another replay, under locks, unless an adoption was cut off |

`NoStrays` is about the moment of sending, and the token is looked up long before. `HomeInv` says that every operation is
owned by the queue it is in (`AtHome`) and sent by a tab that works on that queue, paired or not (`SendsItsOwn`). A tab's queue is that of its
token's project (`Settled`, `OnItsProject`) and its requests carry that token (`OpenedWith`), but before its first answer and after
a pairing, and then it asks before it sends (`AsksFirst`). The exception is a tab that is paired in the middle of a job, since
the job goes on with the old queue and the new token: `TabsPair`, in section 5, is what `NoStrays` says without it. `OnceInv` says where an operation
can be: in one queue (`InOneQueue`) or with one writer (`WrittenOnce`), or in a queue *and* with the one replay
that holds the queue's lock (`ReplayedOnce`, `ReplayLocks`). An adoption that is cut off between its writes leaves an
operation in two queues, so `OnceInv` holds while none was (`TornStays`).

`CloudStoreProofs` proves, for every set of tabs, agents, ids and imports, any number of attempts, gestures, faults and imports:

| Theorem | Says |
|---|---|
| `TypeCorrect` | `Spec => []TypeOK` |
| `RowsAreContinued` | `Spec => RowContinues`: what replaces a row of the same life continues its history under the next revision |
| `RowsAreExplained` | `Spec => []StatusExplained`: the history of a row leads to its status, if it does in the rows there are at first (`OrderlyStart`) |
| `AgentsHearTheTruth` | `Spec => []AgentsAreToldTheTruth`: an agent whose first call was refused or gave up has no event on record, one that succeeded, at first or on repeating the call, has it recorded once |
| `SettledTabsAreSaved` | `Spec => []SettledIsSaved`, if users wait for a call and errors are thrown (`Patient`) |

`RowContinues` needs that a copy with a revision continues the row that had it (`SInv`) and that a life and a
revision name one row (`VInv`); what agents are told needs besides that no copy in sight holds an event an agent
has not written (`Truthful`, `EInv`). A call that is repeated (`again`) may find its event in the row it reads; `RecordedOnce`, of every copy in sight, says that it is
there once. `Truthful` also holds what `StatusExplained` rests on: every copy in sight, shown, kept for a
rollback, read by an agent or on its way, is explained by its own history, and an agent decides on the status of the copy it read. `PInv` says of a tab at rest, and of each kind of call under way, what of its
view is not yet in the table (`Unsaved`), and that what a failure would put back is (`kept`).

`ServerProcessProofs` proves, for every set of processes, pids, ids, watches and statuses and all
bounds, `TypeOK` outright, and under `~StartsOverlap` (a process is started only when no other is between
its start and its serving):

| Theorem | Says |
|---|---|
| `ServerTypeCorrect` | `Spec => []TypeOK` |
| `LockExcludes` | `Spec => [](OneServer /\ OwnerHoldsLock)`: one owner, and the lock names it |
| `NoWriteIsLost` | `Spec => []WritesOnCurrent`: what an operation loaded is still the store when it persists |
| `FolderFollows` | `Spec => []IdleFolderIsCurrent`: an idle, unfailed folder is the projection of the store |
| `IdentityLasts` | `Spec => IdentityKept`: the identity on disk is never replaced |
| `NobodySleepsOnWork` | `Spec => []SleepsWhileNothingIsPending`: a watch sleeps only while nothing is pending |

`IInv` is `TypeOK`, `LockInv`, `WorkInv`, `IdentityInv` and `IdleFolderIsCurrent`. `LockInv` needs more than
one owner: running processes have pids of their own (`PidsApart`, else a release could take
another's lock), at most one is starting (`OneStarts`), and one that has passed the check of the lock is alone
(`TakesAlone`, because a living owner's pid would have been found alive). `WorkInv` says that only
an owner works, that a loaded copy is the store, and that the folder's round saw the present store
unless it is marked dirty. `IdentityInv` says in which phases a process knows an identity, and that it is the file's.
`ServerOverlap.cfg` shows that the condition is needed. `WatchInv` says that what a watch has read and
is about to fall asleep on is still true of the store: the callback that woke it is over, and one operation is all it ran.

`InstallerProofs` proves, for every set of repositories, installed plugins, build configs, servers and all bounds:

| Theorem | Says |
|---|---|
| `RerunIsSafe` | `Spec => RerunKeeps`: another `init` takes nothing away |
| `GreenIsSound` | `Spec => []GreenIsTrue`, if no spread hides an include (`IncludesAreRead`) |

`RerunInv` says what the repository, the counters and a running `init` can be, and `IdentityStays`: an `init`
that found an identity is never about to create one, and the identity is still there, which needs that a
server creates one only where it found none. `GreenInv` says that `doctor` does not run beside `init`, nor where no app is found (`StagesApart`), that what `doctor` found is about the present files unless they changed under it, and that a
report of files that did not change is about the present files and server; `GreenBuildStamps` then shows that what can be read of a config
is what the bundler does with it. `InstallerSpread` shows that `IncludesAreRead` is needed. The module's ASSUMEs say what repositories and configs are made of, and that
`Null` and `Torn` are none of it.

`WidgetProofs` proves, for every set of ids, records, routes, drafts and options, with a quality gate or without, and any number of
gestures, changes of the page, its route and its width, writes by others, rejected writes and failed checks:

| Theorem | Says |
|---|---|
| `TypeCorrect` | `Spec => []TypeOK` |
| `PendingChecksAreAwaited` | `Spec => []PendingIsAwaited`: what is shown as being checked has an answer coming that will be taken |
| `PopupsAreLit` | `Spec => []PopupIsHighlighted`: a popup about an annotation stands at a highlighted element whose chip is hidden |
| `PageIsShown` | `Spec => []ShownOrScheduled`: markers, badges and panel show store and page, or a refresh is scheduled |
| `TextIsKept` | `Spec => EditsAreKept`: no popup goes with a text that is not written |

A gesture is a nest of calls, and the proof follows it: for each operator of the model one lemma says that it takes a `Sound`
widget to a sound one and adds to the writes under way without touching them (`Leads`, `Proceeds`), and that one that closes a popup has
its open edit among the writes it added (`Closes`, which whatever follows in the same gesture keeps: `ClosesOn`). `Sound` is the type, with `PopupOK` (only a popup about an annotation
has an id, an open edit or a reason asked for: this makes the flush of an edit find its annotation), `WritesOK`, `Awaited` and `Lights`, which ties the highlight and the hidden chip to the
popup's annotation: a handler may drop the highlight only after the popup is gone (`UnselectedIs`). The
invariant `WInv` adds `Fine`, that the page is shown or will be, and what the page and the backend can be. Two things are less simple than
they look. A status written into the marker's object may reach the objects that pending writes keep (`Relabelled`), so the lemmas
about writes speak of their ids and bodies, not of what they keep. And submitting all drafts is a fold over a set: `SetFoldExists` shows that a
finite set has one, `SubmittedIs` that each step of it keeps what the steps before have kept. Ids are finitely many (`IdsAreFinite`), stores
hold records, and `Null` is none of the values: TLC evaluates these assumptions in every run. TLC
found the parts of `WInv` that the theorems name true in `Widget` and in an instance with two changes of the page.

Only model-checked, because the proof system has no fairness: `EveryCallSettles`, `QueuedEnds`, `GreenIsCurrent`,
`ChecksEnd`, `CallsAreAnswered`, `MutateEnds`, `FolderConverges` and `SetupEnds`.

## 5. Where code and documents disagree

| Run or configuration | What the text says | What happens |
|---|---|---|
| `HttpSyncAnyPace` (run) | root `README.md:97`: a stale copy can never truncate history | `save()` reads the revision when its job runs, after a poll that came in between |
| `WidgetRejected` (run) | `storage.ts:34`: a failed write is never shown as saved | `markers.ts:95` writes the new status into the very object the rollback puts back |
| `MCMergeNeverRolledBack` | `merge.ts:40-41`: a stale local copy can never roll `verified` back to `pending` | a local history with a `reopened` in it is replayed on `verified` and leads to `pending` |
| `FileStoreRecreated` | `file-storage-adapter.ts:69-71`: a stale copy can never overwrite a newer one | a record created again starts at `rev` 1, which an old expectation matches |
| `CloudReimported` | `cloud-storage-adapter.ts:77-78`: the same of a row | an import removes and inserts the row, under `rev` 1 |
| `HttpSyncPair` | root `README.md:97` | `pair()`, whenever it is called, refreshes what is known but not what is shown |
| `HttpSyncRefused` | `http-storage-adapter.ts:97-98`: queued operations are replayed as soon as the server answers | one `GET /store` that breaks while `/health` answers is taken for a refused origin, and `poll()` (359) returns until somebody pairs or reloads; the dot says so (`QueuedEnds`) |
| `TabsPair` | `http-storage-adapter.ts:101-103`: another project served on the port never receives a project's queue | `pair()` (299-306) changes the token at once and `headers()` (416-419) reads it at each request: a replay under way goes on with one project's queue and the other's token, and its server accepts it |
| `HttpSyncIdlePace` | `http-storage-adapter.ts:116`: never silently discarded | an edit of the server's copy replaces the queued edit it does not contain |
| `HttpSyncRecreated` | root `README.md:97` | the answer to a creation is lost and somebody removes the record; the queued copy creates it again under `rev` 1, and an older copy of that revision, still known after a failed fetch, is then taken for current |
| `HttpSyncGhost` | `core/README.md:134`: polls for external changes | what is shown from the cache was never known, so its removal is never noticed |
| `ServerOverlap` | `local-config.ts:117-123`, `mcp/README.md:121`: one owner of a store | two servers that start together both find no owner: the lock is looked at and written in two steps |
| `ServerFolder` | `task-folder.ts:92`: the folder converges to the actionable set | a round whose files failed is not repeated until the next change |
| `WidgetHighlight` | `web-remarq.ts:372-373`: no highlight without a popup | `popup.ts:387-393` hides the popup for a transition without `onClose` |
| `WidgetVerdict` | `quality-runner.ts:13-15`: verdicts of an old comment are discarded | an edit starts a new check, and when that one fails the old comment's verdict stays with the new comment (`quality-runner.ts:43-48`) |
| `WidgetWidth` | `core/README.md:257`: automatic reconnection when returning to the annotation's viewport | a window that is made narrow and wide again within the listener's 300 ms, with another client's change in between, keeps the panel of the narrow width until the next refresh (`viewport.ts:25-31`) |
| `InstallerHtml` | root `README.md:40`: `init` completes a plain HTML page on its own | it installs nothing (`install.ts:5-8`), and `doctor` fails for the missing package (`checks.ts:54-55`) |
| `InstallerSpread` | `checks.ts:212-214`, `vite-config.ts:169`, `cli/README.md:54`: an include that cannot be read (a spread) is reported as not verified, never as ok | `vite-config.ts:137` reads options without the word include as the default |

Smaller ones met on the way, without a configuration of their own: a malformed `.mcp.json` is reported as a failed install;
`init` reports a page without `</body>` as complete; "check again" in a popup whose annotation was cleared sets a
chip where no marker is (`web-remarq.ts:445-450`, `quality-bubble.ts:54`); a torn `config.json` is "present" to `init` and
"no token" to `doctor`, each sending the user to the other; two workspace patterns that name one package are "2 apps"; two tabs
that edit one annotation offline replace each other's queued edit; `migrateLegacyKeys` removes the old buffer even
if the copy could not be written, and queues it again, under new identities, if the tab was closed in between;
`adoptUnsent`, closed in between, leaves operations in two queues, which both replay; a refused delete of an annotation
without a base, whose answer cannot be read, or which is rejected, is put aside without a copy to name (`QueueIsDurable` excepts it: `Unnamed`); the
body of an accepted `PUT` that cannot be read leaves the page with the old revision.

`RetryNotDuplicated` and `RetryIsIdle` are stated for merges that have their base. Without one (an
adopted or legacy queue entry) the origin is the server's copy, nothing on the server counts as
extra, and an event the server already recorded behind somebody else's is replayed once more.
`Converges` and `HistoryGrows` hold in the cases the violation runs do not show: `GreenIsCurrent` is
what is left of the first under faults, and `OnlyStaleSavesRewrite` of the second.

## 6. The plan

Done, in the order of the plan: lifecycle and merge; the server store with its callers,
its abstract specification and the refinement; the tab against the server; the domain store over an
adapter that rejects, and the cloud; the server process with lock, folder and watch; the quality
runner within the widget; tabs and projects on one localStorage; the installer; the proofs of section 4.

Next, most important first:

1. In `Tabs`: a localStorage that fails, and the composition with `HttpSync` (what two tabs do to one
   view, and the coalescing of one tab's edit by another's); `clearParked`.
2. `ServerProcess` composed with `FileStore`, whose queue it abstracts to one operation at a time.
3. In `Widget`: `destroy` with writes under way, import through the toolbar.
4. The matcher's scoring as a pure algorithm, and the include filter's patterns.

Of what the modules state only liveness (`WatchesEnd` among it) is left without a theorem, apart from what section 5 refutes.

## 7. Not modelled

The geometry and styles of the user interface, the spacing overlay's measuring, the matching of elements
(DOM scoring: no state that evolves), validation, formatting and exports (pure text), how the build
plugins rewrite JSX, the cloud preflight and key tools (one-shot checks), the localStorage adapter (one
key, last writer wins), the read-only agent tools, HTTP parsing, CORS and size limits.

Within the modules: in `FileStore`, an unreadable file and the counter of the whole store; the
unconditional `save` is in the model, but `StaleNeverOverwrites` is checked without its callers, who have no
revision to name. In `HttpSync`, what the plan names, the token lookup, and the texts of the status. In
`Tabs`, what parks or journals an operation counts as an answer. In `Widget`, `destroy`, exports, import, themes, toasts,
and focus; the adapter answers in order. In `CloudStore`, row policies, and any pace but `OneAtATime` in the
run. In `ServerProcess`, cloud mode, hand-edited task files, and the read and the unlink of a release as two
steps; overlapping starts only in `ServerOverlap`. In `Installer`, flags and wording, repositories without
git, the read and the write of `.mcp.json` as two steps; a config that calls the plugin is taken to register it.
