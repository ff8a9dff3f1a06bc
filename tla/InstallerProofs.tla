---------------------------- MODULE InstallerProofs ----------------------------
(***************************************************************************)
(* Proofs about Installer: running init again takes nothing away, and what *)
(* doctor reports as green is true, for every repository, build config,    *)
(* server and number of interruptions.                                     *)
(***************************************************************************)
EXTENDS Installer, TLAPS

Phases == {"exec", "mcp", "local", "create", "page"}
Locals == Identities \cup {Null, Torn}
Inits == [phase : Phases, had : Locals]
Configs == Forms \cup {NoMention, Printed}
Repos ==
  [ web : BOOLEAN, plugin : PluginVersions,
    config : Configs, files : Seq(SourceFiles), entry : BOOLEAN, tags : {0, 1},
    mcp : McpStates, others : BOOLEAN, local : Locals, ignored : BOOLEAN ]

-----------------------------------------------------------------------------
(* The inductive invariant of init. *)

RepoOK == repo \in Repos
CountOK == count \in [slips : Nat, kills : Nat, made : Nat]
InitOK == init = Null \/ init \in Inits

\* An init that found an identity does not make another, and the identity is there.
IdentityStays ==
  init # Null /\ Readable(init.had) => Readable(repo.local) /\ init.phase # "create"

RerunInv == RepoOK /\ CountOK /\ InitOK /\ IdentityStays

LEMMA ConfigsOfInit == NoMention \in Configs /\ Printed \in Configs /\ Configs \subseteq BuildConfigs
BY ReposAreKnown DEF Configs, NoMention, Printed, Form, BuildConfigs

LEMMA NewLocalReadable ==
  ASSUME CountOK
  PROVE  NewLocal \in Identities /\ Readable(NewLocal) /\ Made \in Nat
BY NullIsNothing DEF CountOK, NewLocal, Made, Identities, Readable

LEMMA RerunInit == Init => RerunInv
<1> SUFFICES ASSUME Init PROVE RerunInv
  OBVIOUS
<1>1. RepoOK
  <2>1. PICK plugin \in Plugins, mcp \in McpFiles :
          repo = [ web |-> FALSE, plugin |-> plugin, config |-> NoMention, files |-> ws.files,
                   entry |-> FALSE, tags |-> 0, mcp |-> mcp, others |-> mcp # "missing",
                   local |-> Null, ignored |-> FALSE ]
    BY DEF Init
  <2>2. plugin \in PluginVersions /\ mcp \in McpStates
    BY ReposAreKnown
  <2>3. ws.files \in Seq(SourceFiles)
    BY WorkspacesHaveFiles DEF Init
  <2>4. (mcp # "missing") \in BOOLEAN /\ Null \in Locals
    BY DEF Locals
  <2> QED
    BY <2>1, <2>2, <2>3, <2>4, ConfigsOfInit DEF RepoOK, Repos
<1>2. CountOK /\ InitOK /\ IdentityStays
  BY DEF Init, CountOK, InitOK, IdentityStays
<1> QED
  BY <1>1, <1>2 DEF RerunInv

\* Every step leaves the repository, the counters and the running init well formed.
LEMMA RepoStep == RepoOK /\ CountOK /\ [Next]_vars => RepoOK'
<1> SUFFICES ASSUME RepoOK, CountOK, [Next]_vars PROVE RepoOK'
  OBVIOUS
<1> USE DEF RepoOK, Repos
<1>0. CASE UNCHANGED repo
  BY <1>0
<1>1. ASSUME Exec \/ ExecFails PROVE RepoOK'
  BY <1>1 DEF Exec, ExecFails, Become, PluginVersions
<1>2. CASE WriteMcpConfig
  BY <1>2 DEF WriteMcpConfig, MergeMcpConfig, Become, McpStates
<1>3. CASE CreateLocalConfig
  BY <1>3, NewLocalReadable DEF CreateLocalConfig, Become, Locals
<1>4. CASE InjectScriptTag
  BY <1>4 DEF InjectScriptTag, Become
<1>5. CASE Kill
  BY <1>5 DEF Kill, Become, Locals, McpStates
<1>6. CASE FixBuild
  <2>1. \A file \in SourceFiles : <<file>> \o repo.files \in Seq(SourceFiles)
    OBVIOUS
  <2>2. Component(Stack) \in SourceFiles
    BY DEF Component, SourceFiles
  <2>3. CASE repo' = [repo EXCEPT !.config = Printed]
    BY <2>3, ConfigsOfInit
  <2>4. CASE repo' = [repo EXCEPT !.files = <<Component(Stack)>> \o @]
    BY <2>4, <2>1, <2>2
  <2>5. CASE repo' = [repo EXCEPT !.plugin = "current"]
    BY <2>5 DEF PluginVersions
  <2> QED
    BY <1>6, <2>3, <2>4, <2>5 DEF FixBuild, Edits, Become
<1>7. CASE VerifyBuild
  BY <1>7, ConfigsOfInit DEF VerifyBuild, Edits, Become
<1>8. CASE AddWidget
  BY <1>8 DEF AddWidget, Edits, Become
<1>9. CASE ReplaceServer
  BY <1>9 DEF ReplaceServer, Become, McpStates
<1>10. CASE RepairMcp
  BY <1>10 DEF RepairMcp, Edits, Become, McpStates
<1>11. CASE RepairLocal
  BY <1>11 DEF RepairLocal, Edits, Become, Locals
<1>12. CASE ServerCreates
  BY <1>12, NewLocalReadable DEF ServerCreates, Become, Locals
<1>13. CASE EditConfig
  BY <1>13 DEF EditConfig, Become, Configs
<1>14. CASE RotateToken
  <2>1. [repo.local EXCEPT !.token = Made] \in Identities
    BY <1>14, NewLocalReadable DEF RotateToken, Readable, Locals, Identities
  <2> QED
    BY <1>14, <2>1 DEF RotateToken, Become, Locals
<1>15. CASE AddOtherServer
  BY <1>15 DEF AddOtherServer, Become, McpStates
<1>16. ASSUME StartInit \/ PickApp \/ EnsureLocalConfig \/ Doctor \/ ServerStarts \/ App \/ ServerStops
       PROVE  UNCHANGED repo
  BY <1>16 DEF StartInit, PickApp, EnsureLocalConfig, Doctor, StartDoctor, FinishDoctor, ServerStarts,
               App, StartNextDev, LoadPage, PairByHand, ServerStops
<1> QED
  BY <1>0, <1>1, <1>2, <1>3, <1>4, <1>5, <1>6, <1>7, <1>8, <1>9, <1>10, <1>11, <1>12, <1>13, <1>14,
     <1>15, <1>16 DEF Next, InitSteps, Fixes, Repairs, ServerSteps, Slips, vars

LEMMA CountStep == CountOK /\ [Next]_vars => CountOK'
<1> SUFFICES ASSUME CountOK, [Next]_vars PROVE CountOK'
  OBVIOUS
<1> USE DEF CountOK
<1>0. CASE UNCHANGED count
  BY <1>0
<1>1. ASSUME Interrupted PROVE CountOK'
  BY <1>1 DEF Interrupted
<1>2. CASE Slips
  <2>1. Slip
    BY <1>2 DEF Slips, EditConfig, RotateToken, AddOtherServer, ServerStops
  <2>2. count' = [slips |-> count.slips + 1, kills |-> count.kills, made |-> count.made + 1]
    BY <2>1 DEF Slip, Made
  <2> QED
    BY <2>2
<1>3. ASSUME CreateLocalConfig \/ ServerCreates PROVE CountOK'
  BY <1>3 DEF CreateLocalConfig, ServerCreates
<1>4. ASSUME \/ StartInit \/ Exec \/ WriteMcpConfig \/ EnsureLocalConfig \/ InjectScriptTag \/ Doctor
             \/ Fixes \/ Repairs \/ RepairLocal \/ ServerStarts \/ App
      PROVE  UNCHANGED count
  BY <1>4 DEF StartInit, Exec, WriteMcpConfig, EnsureLocalConfig, InjectScriptTag, Doctor, StartDoctor,
              FinishDoctor, Fixes, FixBuild, VerifyBuild, AddWidget, ReplaceServer, Repairs, RepairMcp,
              PickApp, RepairLocal, Edits, ServerStarts, App, StartNextDev, LoadPage, PairByHand
<1>5. ASSUME ExecFails \/ Kill PROVE Interrupted
  BY <1>5 DEF ExecFails, Kill
<1> QED
  BY <1>0, <1>1, <1>2, <1>3, <1>4, <1>5 DEF Next, InitSteps, ServerSteps, vars

LEMMA Started ==
  ASSUME StartInit
  PROVE  /\ init = Null /\ UNCHANGED <<repo, count>>
         /\ init' \in {Null, [phase |-> IF NeedsPackages THEN "exec" ELSE "mcp", had |-> repo.local]}
BY DEF StartInit

LEMMA InitStep ==
  RepoOK /\ InitOK /\ IdentityStays /\ [Next]_vars => InitOK' /\ (init' # init => init' = Null \/ init = Null \/ init'.had = init.had)
<1> SUFFICES ASSUME RepoOK, InitOK, [Next]_vars
             PROVE  InitOK' /\ (init' # init => init' = Null \/ init = Null \/ init'.had = init.had)
  OBVIOUS
<1> USE DEF InitOK, Inits
<1>0. CASE UNCHANGED init
  BY <1>0
<1>1. CASE StartInit
  <2>1. repo.local \in Locals
    BY DEF RepoOK, Repos
  <2>2. [phase |-> IF NeedsPackages THEN "exec" ELSE "mcp", had |-> repo.local] \in Inits
    BY <2>1 DEF Phases
  <2> QED
    BY <1>1, <2>2, Started
<1>2. CASE InitSteps
  BY <1>2 DEF InitSteps, Exec, WriteMcpConfig, EnsureLocalConfig, CreateLocalConfig, InjectScriptTag, In, Goto, Ends, Phases
<1>3. ASSUME ExecFails \/ Kill PROVE init' = Null
  BY <1>3 DEF ExecFails, Kill, Ends
<1>4. ASSUME Doctor \/ Fixes \/ Repairs \/ RepairLocal \/ ServerSteps \/ App \/ Slips
      PROVE  UNCHANGED init
  BY <1>4 DEF Doctor, StartDoctor, FinishDoctor, Fixes, FixBuild, VerifyBuild, AddWidget, ReplaceServer,
              Repairs, RepairMcp, PickApp, RepairLocal, Edits, ServerSteps, ServerStarts, ServerCreates, App,
              StartNextDev, LoadPage, PairByHand, Slips, EditConfig, RotateToken, AddOtherServer, ServerStops
<1> QED
  BY <1>0, <1>1, <1>2, <1>3, <1>4 DEF Next, vars

\* Who changes an identity that is there: nobody but an init about to create one and the
\* user who rotates its token; and what a server creates is an identity.
LEMMA LocalChanges ==
  ASSUME RepoOK, CountOK, InitOK, Readable(repo.local), [Next]_vars, init' = init \/ ~(InitSteps \/ Kill)
  PROVE  Readable(repo'.local)
<1> USE DEF RepoOK, Repos
<1>0. CASE UNCHANGED repo
  BY <1>0
<1>1. ASSUME InitSteps \/ Kill \/ ExecFails PROVE Readable(repo'.local)
  BY <1>1 DEF InitSteps, Exec, WriteMcpConfig, EnsureLocalConfig, CreateLocalConfig, InjectScriptTag,
              Kill, ExecFails, Become, In, Goto, Ends, InitOK, Inits
<1>2. CASE Fixes
  BY <1>2 DEF Fixes, FixBuild, VerifyBuild, AddWidget, ReplaceServer, Edits, Become
<1>3. CASE RepairMcp \/ RepairLocal
  BY <1>3 DEF RepairMcp, RepairLocal, Edits, Become, Readable
<1>4. CASE ServerCreates
  BY <1>4, NewLocalReadable DEF ServerCreates, Become
<1>5. CASE RotateToken
  <2>1. [repo.local EXCEPT !.token = Made] \in Identities
    BY <1>5, NewLocalReadable DEF RotateToken, Readable, Locals, Identities
  <2> QED
    BY <1>5, <2>1, NullIsNothing DEF RotateToken, Become, Readable
<1>6. CASE EditConfig \/ AddOtherServer
  BY <1>6 DEF EditConfig, AddOtherServer, Become
<1>7. ASSUME StartInit \/ PickApp \/ Doctor \/ ServerStarts \/ App \/ ServerStops
      PROVE  UNCHANGED repo
  BY <1>7 DEF StartInit, PickApp, Doctor, StartDoctor, FinishDoctor, ServerStarts, App, StartNextDev,
              LoadPage, PairByHand, ServerStops
<1> QED
  BY <1>0, <1>1, <1>2, <1>3, <1>4, <1>5, <1>6, <1>7 DEF Next, Repairs, ServerSteps, Slips, vars

\* An identity that is there goes only when it is made anew, which an init that found
\* one does not do, and a server that starts without one cannot.
LEMMA IdentityStep == RerunInv /\ [Next]_vars => IdentityStays'
<1> SUFFICES ASSUME RerunInv, [Next]_vars, init' # Null, Readable(init'.had)
             PROVE  Readable(repo'.local) /\ init'.phase # "create"
  BY DEF IdentityStays, Readable
<1> USE DEF RerunInv
<1>0. CASE StartInit
  BY <1>0, Started
<1>1. init' = init \/ InitSteps \/ StartInit
  BY DEF Next, vars, ExecFails, Kill, Ends, Doctor, StartDoctor, FinishDoctor, Fixes, FixBuild, VerifyBuild,
         AddWidget, ReplaceServer, Repairs, RepairMcp, PickApp, RepairLocal, Edits, ServerSteps, ServerStarts,
         ServerCreates, App, StartNextDev, LoadPage, PairByHand, Slips, EditConfig, RotateToken,
         AddOtherServer, ServerStops
<1>2. CASE InitSteps
  <2> USE <1>2 DEF IdentityStays, RepoOK, Repos, InitOK, Inits, Phases
  <2>1. CASE Exec
    BY <2>1 DEF Exec, Become, Goto, In
  <2>2. CASE WriteMcpConfig
    BY <2>2 DEF WriteMcpConfig, Become, Goto, Ends, In, MergeMcpConfig
  <2>3. CASE EnsureLocalConfig
    BY <2>3 DEF EnsureLocalConfig, Goto, In, Readable
  <2>4. CASE CreateLocalConfig
    BY <2>4, NewLocalReadable DEF CreateLocalConfig, Become, Goto, In
  <2>5. CASE InjectScriptTag
    BY <2>5 DEF InjectScriptTag, Ends
  <2> QED
    BY <2>1, <2>2, <2>3, <2>4, <2>5 DEF InitSteps
<1>3. CASE init' = init
  <2>1. Readable(repo.local) /\ init'.phase # "create"
    BY <1>3 DEF IdentityStays
  <2>2. Readable(repo'.local)
    BY <1>3, <2>1, LocalChanges
  <2> QED
    BY <2>1, <2>2
<1> QED
  BY <1>0, <1>1, <1>2, <1>3

LEMMA RerunStep == RerunInv /\ [Next]_vars => RerunInv'
BY RepoStep, CountStep, InitStep, IdentityStep DEF RerunInv

LEMMA NothingTaken == RerunInv /\ [Next]_vars => [TakesNothingAway]_vars
<1> SUFFICES ASSUME RerunInv, [Next]_vars, init # Null, init' # init
             PROVE  /\ Readable(init.had) => repo'.local = repo.local
                    /\ repo.others /\ count' = count => repo'.others
                    /\ repo'.tags <= 1
  BY DEF TakesNothingAway
<1>1. repo'.tags <= 1
  BY RepoStep DEF RerunInv, RepoOK, Repos
<1> USE DEF RerunInv, RepoOK, Repos
<1>2. InitSteps \/ ExecFails \/ Kill
  BY DEF Next, vars, StartInit, Doctor, StartDoctor, FinishDoctor, Fixes, FixBuild, VerifyBuild, AddWidget,
         ReplaceServer, Repairs, RepairMcp, PickApp, RepairLocal, Edits, ServerSteps, ServerStarts,
         ServerCreates, App, StartNextDev, LoadPage, PairByHand, Slips, EditConfig, RotateToken,
         AddOtherServer, ServerStops
<1>3. CASE InitSteps
  <2>1. repo'.local = repo.local \/ init.phase = "create"
    BY <1>3 DEF InitSteps, Exec, WriteMcpConfig, EnsureLocalConfig, CreateLocalConfig, InjectScriptTag,
                Become, In
  <2>2. repo'.others = repo.others
    BY <1>3 DEF InitSteps, Exec, WriteMcpConfig, MergeMcpConfig, EnsureLocalConfig, CreateLocalConfig,
                InjectScriptTag, Become
  <2> QED
    BY <1>1, <2>1, <2>2 DEF IdentityStays
<1>4. CASE ExecFails \/ Kill
  <2>0. count'.kills = count.kills + 1 /\ count.kills \in Nat
    BY <1>4 DEF ExecFails, Kill, Interrupted, CountOK
  <2>1. count' # count
    BY <2>0
  <2>2. repo'.local = repo.local \/ init.phase = "create"
    BY <1>4 DEF ExecFails, Kill, Become, In
  <2> QED
    BY <1>1, <2>1, <2>2 DEF IdentityStays
<1> QED
  BY <1>2, <1>3, <1>4

(* Running init again takes nothing away (local-config.ts:75, mcp-config.ts, vanilla.ts),   *)
(* whatever server, user or other tool changes the repository in between.                   *)
THEOREM RerunIsSafe == Spec => RerunKeeps
<1>1. RerunInv /\ [Next]_vars => RerunInv' /\ [TakesNothingAway]_vars
  BY RerunStep, NothingTaken
<1> QED
  BY <1>1, RerunInit, PTL DEF Spec, RerunKeeps

-----------------------------------------------------------------------------
(* What doctor found and what it reported are about the files as they are. *)

\* Options that name no include hold none.  doctor takes options that are spread for such
\* (vite-config.ts:131-138), which is why they are excepted.
IncludesAreRead ==
  \A form \in Forms :
    form.text = "call" /\ form.options \notin {"literal", "variable"} => form.include = "default"

Verdicts == {"ok", "fail", "skipped", "blocked"}
Probes == {"ok", "down", "no-token", "unauthorized", "incompatible"}

\* doctor does not run beside init, nor where no app is found.
StagesApart ==
  /\ doctor # Null \/ report # Null => init = Null /\ outcome # "no app"
  /\ outcome = "no app" => ~Detected.ok

Doctors ==
  [ checks : [packages : Verdicts, build : Verdicts, widget : Verdicts, mcp : Verdicts],
    problem : Problems \cup {Null}, token : Nat \cup {Null}, health : {"ok", "down", "incompatible"},
    mixed : BOOLEAN ]

FoundIsCurrent ==
  doctor # Null =>
    /\ doctor \in Doctors
    /\ ~doctor.mixed => /\ doctor.checks.build = CheckBuildPlugin
                        /\ doctor.token = ReadLocalToken(repo.local)

ServesThis == server # Null /\ server.protocol = 2 /\ server.token = ReadLocalToken(repo.local)

ReportIsCurrent ==
  report # Null =>
    /\ report.checks.server = CheckMcpServer(report.probe)
    /\ report.probe \in Probes
    /\ ~report.mixed => /\ report.checks.build = CheckBuildPlugin
                        /\ report.probe = "ok" => ServesThis

GreenInv == StagesApart /\ FoundIsCurrent /\ ReportIsCurrent

\* The check of the build depends on the layout, the --app option and the files alone.
LEMMA SameFilesSameCheck ==
  ASSUME UNCHANGED <<ws, app, repo>> PROVE CheckBuildPlugin' = CheckBuildPlugin
<1>1. Detected' = Detected
  BY DEF Detected
<1>2. Stack' = Stack
  BY <1>1 DEF Stack
<1>3. SampleSourceFile' = SampleSourceFile
  BY <1>2 DEF SampleSourceFile
<1>4. BuildProblem' = BuildProblem
  BY <1>2, <1>3 DEF BuildProblem
<1> QED
  BY <1>2, <1>3, <1>4 DEF CheckBuildPlugin

LEMMA ChecksTyped ==
  ASSUME RepoOK
  PROVE  /\ BuildProblem \in Problems \cup {Null} /\ ReadLocalToken(repo.local) \in Nat \cup {Null}
         /\ {CheckPackages, CheckBuildPlugin, CheckWidgetInit, CheckMcpConfig} \subseteq Verdicts
         /\ Health \in {"ok", "down", "incompatible"}
<1>1. BuildProblem \in Problems \cup {Null}
  BY DEF BuildProblem, Problems
<1>2. ReadLocalToken(repo.local) \in Nat \cup {Null}
  BY DEF ReadLocalToken, Readable, RepoOK, Repos, Locals, Identities
<1>3. CheckPackages \in Verdicts /\ CheckWidgetInit \in Verdicts /\ CheckMcpConfig \in Verdicts
  BY DEF CheckPackages, CheckWidgetInit, CheckMcpConfig, Verdicts
<1>4. CheckBuildPlugin \in Verdicts
  BY DEF CheckBuildPlugin, Verdicts
<1>5. Health \in {"ok", "down", "incompatible"}
  BY DEF Health
<1> QED
  BY <1>1, <1>2, <1>3, <1>4, <1>5

\* What doctor can read of a config is what the bundler will do with it.
LEMMA GreenBuildStamps ==
  ASSUME IncludesAreRead, RepoOK, CheckBuildPlugin = "ok", Stack # "next" PROVE Stamped
<1> DEFINE reading == ReadRemarqInclude(repo.config)
<1>1. BuildProblem = Null /\ Stack # "plain-html" /\ ~(Stack = "vanilla-vite" /\ SampleSourceFile = Null)
  BY DEF CheckBuildPlugin
<1>2. reading # "unreadable"
  BY <1>1 DEF CheckBuildPlugin
<1>3. /\ reading # "not-registered" /\ SampleSourceFile # Null
      /\ "createFilter" \in TransformModule(repo.plugin)
      /\ CreateFilter(repo.plugin, TestedInclude(repo.config)) /\ Stamps(SampleSourceFile)
  <2>1. reading # "not-registered"
    BY <1>1, NullIsNothing DEF BuildProblem, Problems
  <2>2. SampleSourceFile # Null
    BY <1>1, <2>1, NullIsNothing DEF BuildProblem, Problems
  <2>3. "createFilter" \in TransformModule(repo.plugin)
    BY <1>1, <2>1, <2>2, NullIsNothing DEF BuildProblem, Problems
  <2>4. CreateFilter(repo.plugin, TestedInclude(repo.config))
    BY <1>1, <1>2, <2>1, <2>2, <2>3, NullIsNothing DEF BuildProblem, Problems
  <2>5. Stamps(SampleSourceFile)
    BY <1>1, <1>2, <2>1, <2>2, <2>3, <2>4, NullIsNothing DEF BuildProblem, Problems
  <2> QED
    BY <2>1, <2>2, <2>3, <2>4, <2>5
<1>4. repo.plugin = "current"
  BY <1>3 DEF TransformModule, RepoOK, Repos, PluginVersions
<1>5. repo.config \in Configs /\ repo.config \in BuildConfigs
  BY ConfigsOfInit DEF RepoOK, Repos
<1>6. repo.config.text = "call" /\ repo.config.options # "variable"
  BY <1>2, <1>3, <1>5 DEF ReadRemarqInclude, Mentioned, Bound, Called, ReadIncludeOption, BuildConfigs
<1>7. CASE repo.config.options = "literal"
  BY <1>3, <1>4, <1>6, <1>7 DEF Stamped, TestedInclude, ReadRemarqInclude, Mentioned, Bound, Called, ReadIncludeOption
<1>8. CASE repo.config.options # "literal"
  <2>1. repo.config.include = "default"
    BY <1>5, <1>6, <1>8 DEF IncludesAreRead, Configs, NoMention, Printed, Form
  <2> QED
    BY <2>1, <1>3, <1>4, <1>6 DEF Stamped, CreateFilter
<1> QED
  BY <1>7, <1>8

\* A step that leaves the app and the stage alone keeps what was found, or marks it as
\* mixed, and keeps the report, or drops it.
LEMMA BecomeKeeps ==
  ASSUME GreenInv, Become(repo'), UNCHANGED <<ws, app, init, outcome>>,
         \/ server' = server
         \/ report # Null => report.probe # "ok"
         \/ ServesThis'
  PROVE  GreenInv'
<1> USE DEF GreenInv
<1>1. StagesApart'
  BY DEF Become, StagesApart, Detected
<1>2. repo' = repo => CheckBuildPlugin' = CheckBuildPlugin
  BY SameFilesSameCheck
<1>3. FoundIsCurrent'
  BY <1>2 DEF Become, FoundIsCurrent, Doctors, ReadLocalToken, Readable
<1>4. ReportIsCurrent'
  BY <1>2 DEF Become, ReportIsCurrent, ServesThis, ReadLocalToken, Readable
<1> QED
  BY <1>1, <1>3, <1>4

LEMMA NothingFoundYet ==
  ASSUME doctor' = Null, report' = Null, (outcome = "no app" => ~Detected.ok)' PROVE GreenInv'
BY DEF GreenInv, StagesApart, FoundIsCurrent, ReportIsCurrent

LEMMA StartDoctorGreen == RepoOK /\ GreenInv /\ StartDoctor => GreenInv'
<1> SUFFICES ASSUME RepoOK, GreenInv, StartDoctor PROVE GreenInv'
  OBVIOUS
<1>1. UNCHANGED <<ws, app, repo, init, outcome, report, server>> /\ init = Null /\ Detected.ok
  BY DEF StartDoctor
<1>2. /\ doctor' \in Doctors
      /\ doctor'.checks.build = CheckBuildPlugin
      /\ doctor'.token = ReadLocalToken(repo.local)
  BY ChecksTyped DEF StartDoctor, Doctors
<1>3. CheckBuildPlugin' = CheckBuildPlugin
  BY <1>1, SameFilesSameCheck
<1>4. FoundIsCurrent'
  BY <1>1, <1>2, <1>3 DEF FoundIsCurrent, ReadLocalToken, Readable
<1>5. StagesApart'
  BY <1>1 DEF StagesApart, GreenInv, Detected
<1>6. ReportIsCurrent'
  BY <1>1, <1>3 DEF ReportIsCurrent, GreenInv, ServesThis, ReadLocalToken, Readable
<1> QED
  BY <1>4, <1>5, <1>6 DEF GreenInv

LEMMA FinishDoctorGreen == GreenInv /\ FinishDoctor => GreenInv'
<1> SUFFICES ASSUME GreenInv, FinishDoctor PROVE GreenInv'
  OBVIOUS
<1> DEFINE probe == ProbeMcpServer(doctor)
<1>1. UNCHANGED <<ws, app, repo, init, outcome, server>> /\ doctor' = Null /\ doctor # Null
  BY DEF FinishDoctor
<1>2. CheckBuildPlugin' = CheckBuildPlugin
  BY <1>1, SameFilesSameCheck
<1>3. StagesApart' /\ FoundIsCurrent'
  BY <1>1 DEF StagesApart, FoundIsCurrent, GreenInv, Detected
<1>4. /\ doctor \in Doctors
      /\ ~doctor.mixed => /\ doctor.checks.build = CheckBuildPlugin
                          /\ doctor.token = ReadLocalToken(repo.local)
  BY <1>1 DEF GreenInv, FoundIsCurrent
<1>5. probe \in Probes /\ (probe = "ok" /\ ~doctor.mixed => ServesThis)
  BY <1>4 DEF ProbeMcpServer, Probes, ServesThis, Doctors
<1>6. /\ report'.checks.build = doctor.checks.build /\ report'.mixed = doctor.mixed
      /\ report'.checks.server = CheckMcpServer(probe)
      /\ report'.probe = probe
  BY DEF FinishDoctor, Report
<1>7. ServesThis' = ServesThis
  BY <1>1 DEF ServesThis, ReadLocalToken, Readable
<1>8. ReportIsCurrent'
  BY <1>2, <1>4, <1>5, <1>6, <1>7 DEF ReportIsCurrent
<1> QED
  BY <1>3, <1>8 DEF GreenInv

LEMMA GreenStep == RepoOK /\ CountOK /\ GreenInv /\ [Next]_vars => GreenInv'
<1> SUFFICES ASSUME RepoOK, CountOK, GreenInv, [Next]_vars PROVE GreenInv'
  OBVIOUS
<1>0. CASE UNCHANGED vars
  BY <1>0, BecomeKeeps DEF vars, Become
<1>1. CASE StartInit
  <2>1. doctor' = Null /\ report' = Null /\ Detected' = Detected
    BY <1>1 DEF StartInit, Detected
  <2>2. outcome' = "no app" => ~Detected.ok
    BY <1>1, NullIsNothing DEF StartInit, Outcomes
  <2> QED
    BY <2>1, <2>2, NothingFoundYet
<1>2. CASE PickApp
  BY <1>2, NothingFoundYet, NullIsNothing DEF PickApp, GreenInv, StagesApart, Outcomes
<1>3. CASE Doctor
  BY <1>3, StartDoctorGreen, FinishDoctorGreen DEF Doctor
<1>4. ASSUME InitSteps \/ ExecFails \/ Kill PROVE GreenInv'
  <2>1. doctor = Null /\ report = Null
    BY <1>4 DEF GreenInv, StagesApart, InitSteps, Exec, WriteMcpConfig, EnsureLocalConfig,
                CreateLocalConfig, InjectScriptTag, ExecFails, Kill, In
  <2>2. doctor' = Null /\ report' = Null
    BY <1>4, <2>1 DEF InitSteps, Exec, WriteMcpConfig, EnsureLocalConfig, CreateLocalConfig,
                      InjectScriptTag, ExecFails, Kill, Become
  <2>3. UNCHANGED <<ws, app>> /\ outcome' \in {outcome, "install failed", "setup failed", "done", "killed"}
    BY <1>4 DEF InitSteps, Exec, WriteMcpConfig, EnsureLocalConfig, CreateLocalConfig, InjectScriptTag,
                ExecFails, Kill, Interrupted, Ends, Goto
  <2>4. (outcome = "no app" => ~Detected.ok)'
    BY <2>3 DEF GreenInv, StagesApart, Detected
  <2> QED
    BY <2>2, <2>4, NothingFoundYet
<1>5. ASSUME FixBuild \/ VerifyBuild \/ AddWidget \/ RepairMcp \/ RepairLocal PROVE GreenInv'
  <2>1. Become(repo') /\ UNCHANGED <<ws, app, init, outcome, server>>
    BY <1>5 DEF FixBuild, VerifyBuild, AddWidget, RepairMcp, RepairLocal, Edits, Become
  <2> QED
    BY <2>1, BecomeKeeps
<1>6. ASSUME EditConfig \/ RotateToken \/ AddOtherServer PROVE GreenInv'
  <2>1. Become(repo') /\ UNCHANGED <<ws, app, init, outcome, server>>
    BY <1>6 DEF EditConfig, RotateToken, AddOtherServer, Become
  <2> QED
    BY <2>1, BecomeKeeps
<1>7. CASE App
  <2>1. Become(repo') /\ UNCHANGED <<ws, app, init, outcome, server>>
    BY <1>7 DEF App, StartNextDev, LoadPage, PairByHand, Become
  <2> QED
    BY <2>1, BecomeKeeps
<1>8. CASE ReplaceServer
  <2>1. Become(repo') /\ UNCHANGED <<ws, app, init, outcome>> /\ report.probe # "ok"
    BY <1>8 DEF ReplaceServer, Become
  <2> QED
    BY <2>1, BecomeKeeps
<1>9. CASE ServerCreates
  <2>1. Become(repo') /\ UNCHANGED <<ws, app, init, outcome>>
    BY <1>9 DEF ServerCreates, Become
  <2>2. repo'.local = NewLocal /\ server' = [token |-> Made, protocol |-> 2]
    BY <1>9 DEF ServerCreates, Become, RepoOK, Repos
  <2>3. ReadLocalToken(repo'.local) = server'.token /\ server'.protocol = 2
    BY <2>2, NewLocalReadable DEF ReadLocalToken, NewLocal
  <2>4. server' # Null
    BY <2>2, NewLocalReadable, NullIsNothing DEF Answers
  <2> QED
    BY <2>1, <2>3, <2>4, BecomeKeeps DEF ServesThis
<1>10. ASSUME ServerStarts \/ ServerStops PROVE GreenInv'
  <2>1. CASE server' = server /\ report' = report
    <3>1. Become(repo') /\ UNCHANGED <<ws, app, init, outcome>>
      BY <1>10, <2>1 DEF ServerStarts, ServerStops, Become
    <3> QED
      BY <2>1, <3>1, BecomeKeeps
  <2>2. CASE report' = Null
    <3>1. UNCHANGED <<ws, app, repo, init, outcome, doctor>>
      BY <1>10 DEF ServerStarts, ServerStops
    <3>2. CheckBuildPlugin' = CheckBuildPlugin
      BY <3>1, SameFilesSameCheck
    <3>3. StagesApart' /\ FoundIsCurrent' /\ ReportIsCurrent'
      BY <2>2, <3>1, <3>2 DEF GreenInv, StagesApart, FoundIsCurrent, ReportIsCurrent, ReadLocalToken, Readable,
                              Detected
    <3> QED
      BY <3>3 DEF GreenInv
  <2> QED
    BY <1>10, <2>1, <2>2 DEF ServerStarts, ServerStops, Serves
<1> QED
  BY <1>0, <1>1, <1>2, <1>3, <1>4, <1>5, <1>6, <1>7, <1>8, <1>9, <1>10
  DEF Next, Fixes, Repairs, ServerSteps, Slips

(* A green check of doctor is true of the repository and of the server as they are          *)
(* (checks.ts:208-214, cli/README.md:18-19), if options that name no include hold none.     *)
THEOREM GreenIsSound == ASSUME IncludesAreRead PROVE Spec => []GreenIsTrue
<1>1. Init => GreenInv
  BY NullIsNothing DEF Init, GreenInv, Outcomes, StagesApart, FoundIsCurrent, ReportIsCurrent
<1>2. RepoOK /\ GreenInv => GreenIsTrue
  <2> SUFFICES ASSUME RepoOK, GreenInv, report # Null, ~report.mixed
               PROVE  /\ report.checks.build = "ok" /\ Stack # "next" => Stamped
                      /\ report.checks.server = "ok" => ServesThis
    BY DEF GreenIsTrue, ServesThis
  <2>1. report.checks.build = "ok" /\ Stack # "next" => Stamped
    BY GreenBuildStamps DEF GreenInv, ReportIsCurrent
  <2>2. report.checks.server = "ok" => report.probe = "ok"
    BY DEF GreenInv, ReportIsCurrent, CheckMcpServer, Probes
  <2> QED
    BY <2>1, <2>2 DEF GreenInv, ReportIsCurrent
<1>3. RerunInv => RepoOK /\ CountOK
  BY DEF RerunInv
<1> QED
  BY <1>1, <1>2, <1>3, GreenStep, RerunInit, RerunStep, PTL DEF Spec
=============================================================================
