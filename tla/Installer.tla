------------------------------ MODULE Installer ------------------------------
(***************************************************************************)
(* Setting web-remarq up in a repository: `init` and `doctor` of the       *)
(* installer (cli/src), the files they share with the MCP server, and what *)
(* the dev server and the page make of the result.                         *)
(*                                                                         *)
(* `init` is a process that writes one file after another and can be       *)
(* killed between two of them or while it writes one.  The MCP server,     *)
(* which the agent's client starts, creates .remarq/config.json as well    *)
(* (mcp/src/local-config.ts).  `doctor` reads the files, then asks the     *)
(* server twice.  A user, or the agent that sets the project up, runs      *)
(* `init`, does what the last report says and runs `doctor` again.         *)
(*                                                                         *)
(* The text of a build config is abstracted to a form: how it mentions the *)
(* plugin, how its options are written, and what its include comes to when *)
(* the bundler runs it.  Project id and token are numbers.  Not modelled:  *)
(* the install command's text, the flags, the wording of the reports, and  *)
(* repositories that are not under git.                                    *)
(***************************************************************************)
EXTENDS Naturals, FiniteSets, Sequences

CONSTANTS
  Null,
  Torn,        \* a .remarq/config.json that is cut short or not understood
  Workspaces,  \* repositories `init` may be run in
  Plugins,     \* build plugin a repository may have at first: "absent" or a version
  McpFiles,    \* states .mcp.json may be in at first
  Servers,     \* what may answer on the port at first
  Forms,       \* build configs a user may write
  MaxSlips,    \* bound: things the user or another tool gets wrong or changes
  MaxKills     \* bound: runs of init that are killed, or whose install fails

BuildConfigs ==
  [ text : {"nothing", "comment", "import", "call", "preset"},
    options : {"bare", "literal", "variable", "spread"},
    include : {"default", "perExt", "brace", "misses"} ]
SourceFiles == [ext : {"vue", "tsx", "jsx"}, elements : BOOLEAN]
PluginVersions == {"absent", "noTransform", "noFilter", "current"}
McpStates == {"missing", "without", "stale", "current", "torn"}
Identities == [id : Nat, token : Nat]
Problems == {"config", "sample", "plugin"}
Answers == [token : Nat \cup {Null}, protocol : {1, 2}]
Outcomes == {"done", "killed", "no app", "install failed", "setup failed"}

ASSUME WorkspacesHaveFiles == \A w \in Workspaces : w.files \in Seq(SourceFiles)
ASSUME ReposAreKnown ==
  Plugins \subseteq PluginVersions /\ McpFiles \subseteq McpStates /\ Forms \subseteq BuildConfigs
ASSUME NullIsNothing ==
  Null \notin Identities \cup Answers \cup Problems \cup Outcomes \cup {Torn} /\ Torn \notin Identities

VARIABLES
  ws,      \* the repository's layout: never changes
  app,     \* the --app option, Null when not given
  repo,    \* the files of the repository
  init,    \* the running init, Null when none runs
  outcome, \* how the last init ended: Null before the first and while one runs
  doctor,  \* the running doctor: what it has found so far
  report,  \* the last report of doctor, Null once something has changed since
  server,  \* what answers on the port: Null, or [token, protocol]
  starting,\* the MCP server is about to create its config
  dev,     \* Next's dev server: the token it read when it started
  page,    \* the app's page: the token it has, and the one pasted into it before
  count    \* counters: slips, kills, and the project ids and tokens made up

vars == <<ws, app, repo, init, outcome, doctor, report, server, starting, dev, page, count>>

Dirs == {"root", "a", "b"}
Bundled == {"next", "vue", "react", "vanilla-vite"}
Stacks == Bundled \cup {"plain-html"}

\* A build config: how it mentions the plugin, how it writes the options, and the
\* include the plugin is given when the config is run.
Form(text, options, include) == [text |-> text, options |-> options, include |-> include]

NoMention == Form("nothing", "bare", "default")
\* What init prints: one plain pattern for each extension.
Printed == Form("call", "literal", "perExt")

-----------------------------------------------------------------------------
(* Which app. *)

Candidates(w) ==
  {named \in w.globs \X Dirs : named[2] \in named[1].paths /\ w.stacks[named[2]] \in Bundled}

Chosen(dir) == [ok |-> TRUE, dir |-> dir, choices |-> {}]

\* The directory we are in or pointed at; failing that, the only app of the
\* workspace.  A package that two patterns name counts twice.
Detect(w, a) ==
  LET start == IF a # Null THEN a ELSE w.cwd
      found == Candidates(w)
  IN  IF w.stacks[start] # Null THEN Chosen(start)
      ELSE IF a = Null /\ Cardinality(found) = 1 THEN Chosen((CHOOSE p \in found : TRUE)[2])
      ELSE [ok |-> FALSE, dir |-> Null,
            choices |-> IF a = Null THEN {p[2] : p \in found} ELSE {}]

Detected == Detect(ws, app)

Stack == IF Detected.ok THEN ws.stacks[Detected.dir] ELSE Null

NeedsPackages == Stack # "plain-html"

Init ==
  /\ ws \in Workspaces
  /\ app = Null
  /\ \E plugin \in Plugins, mcp \in McpFiles :
       repo = [ web |-> FALSE, plugin |-> plugin, config |-> NoMention, files |-> ws.files,
                entry |-> FALSE, tags |-> 0, mcp |-> mcp, others |-> mcp # "missing",
                local |-> Null, ignored |-> FALSE ]
  /\ init = Null /\ outcome = Null
  /\ doctor = Null /\ report = Null
  /\ server \in Servers /\ starting = FALSE
  /\ dev = Null /\ page = [token |-> Null, pasted |-> Null]
  /\ count = [slips |-> 0, kills |-> 0, made |-> 0]

\* The repository becomes r: a report is about an older one now.
Become(r) ==
  /\ repo' = r
  /\ report' = IF r = repo THEN report ELSE Null
  /\ doctor' = IF doctor = Null \/ r = repo THEN doctor ELSE [doctor EXCEPT !.mixed = TRUE]

Made == count.made + 1

NewLocal == [id |-> Made, token |-> Made]

Readable(local) == local \notin {Null, Torn}

\* The token as the tools read it: an unreadable config is no config.
ReadLocalToken(local) == IF Readable(local) THEN local.token ELSE Null

-----------------------------------------------------------------------------
(* init *)

Failing(id) == report # Null /\ report.checks[id] = "fail"

Unfinished == outcome \in {"install failed", "setup failed"}

\* The last run asks to have .mcp.json repaired first.
WantsRepair == Unfinished /\ repo.mcp = "torn"

\* What the report or the last run asks for: run init (again).
WantsInit ==
  /\ ~WantsRepair
  /\ \/ outcome \in {Null, "killed"} \/ Unfinished
     \/ Failing("packages") \/ Failing("mcp")
     \/ Failing("widget") /\ ~NeedsPackages
     \/ report # Null /\ report.probe = "no-token"

StartInit ==
  /\ init = Null /\ doctor = Null
  /\ WantsInit
  /\ IF Detected.ok
     THEN /\ init' = [phase |-> IF NeedsPackages THEN "exec" ELSE "mcp", had |-> repo.local]
          /\ outcome' = Null
     ELSE init' = Null /\ outcome' = "no app"
  /\ report' = Null
  /\ UNCHANGED <<ws, app, repo, doctor, server, starting, dev, page, count>>

\* Pass one of the candidates, or some directory, as --app.
PickApp ==
  /\ outcome = "no app"
  /\ app' \in IF Detected.choices # {} THEN Detected.choices
              ELSE {d \in Dirs : ws.stacks[d] # Null}
  /\ outcome' = Null
  /\ UNCHANGED <<ws, repo, init, doctor, report, server, starting, dev, page, count>>

In(phase) == init # Null /\ init.phase = phase

Goto(phase) == init' = [init EXCEPT !.phase = phase] /\ UNCHANGED outcome

Ends(how) == init' = Null /\ outcome' = how

Exec ==
  /\ In("exec")
  /\ Become([repo EXCEPT !.web = TRUE, !.plugin = "current"])
  /\ Goto("mcp")
  /\ UNCHANGED <<ws, app, server, starting, dev, page, count>>

Interrupted ==
  /\ count.kills < MaxKills
  /\ count' = [count EXCEPT !.kills = @ + 1]
  /\ UNCHANGED <<ws, app, server, starting, dev, page>>

\* The package manager fails, with some of the packages in place or none.
ExecFails ==
  /\ In("exec")
  /\ Interrupted
  /\ \E web \in {repo.web, TRUE}, plugin \in {repo.plugin, "current"} :
       Become([repo EXCEPT !.web = web, !.plugin = plugin])
  /\ Ends("install failed")

\* Our entry is merged into .mcp.json beside the others.
MergeMcpConfig(mcp, others) == [mcp |-> "current", others |-> others]

\* A malformed .mcp.json throws.  Whatever is thrown once the install command has
\* run is reported as a failure of that command.
WriteMcpConfig ==
  /\ In("mcp")
  /\ IF repo.mcp = "torn"
     THEN Become(repo) /\ Ends(IF NeedsPackages THEN "install failed" ELSE "setup failed")
     ELSE /\ LET m == MergeMcpConfig(repo.mcp, repo.others)
             IN  Become([repo EXCEPT !.mcp = m.mcp, !.others = m.others])
          /\ Goto("local")
  /\ UNCHANGED <<ws, app, server, starting, dev, page, count>>

\* Defect: a config that is there is made anew.
EnsureLocalConfigAnew ==
  /\ In("local")
  /\ Goto("create")
  /\ UNCHANGED <<ws, app, repo, doctor, report, server, starting, dev, page, count>>

EnsureLocalConfig ==
  /\ In("local")
  /\ Goto(IF repo.local # Null THEN "page" ELSE "create")
  /\ UNCHANGED <<ws, app, repo, doctor, report, server, starting, dev, page, count>>

\* The file is written whatever has appeared there since init looked.
CreateLocalConfig ==
  /\ In("create")
  /\ Become([repo EXCEPT !.local = NewLocal, !.ignored = TRUE])
  /\ Goto("page")
  /\ count' = [count EXCEPT !.made = @ + 1]
  /\ UNCHANGED <<ws, app, server, starting, dev, page>>

\* A page without a bundler gets its script tag, if it has none and a place for it.
InjectScriptTag ==
  /\ In("page")
  /\ Become(IF Stack = "plain-html" /\ repo.tags = 0 /\ ws.body
            THEN [repo EXCEPT !.tags = 1] ELSE repo)
  /\ Ends("done")
  /\ UNCHANGED <<ws, app, server, starting, dev, page, count>>

\* init is killed: a file it was writing is cut short.
Kill ==
  /\ init # Null
  /\ Interrupted
  /\ Ends("killed")
  /\ \/ Become(repo)
     \/ /\ In("mcp")
        /\ \E left \in {"torn", "without"} : Become([repo EXCEPT !.mcp = left, !.others = FALSE])
     \/ In("create") /\ Become([repo EXCEPT !.local = Torn, !.ignored = TRUE])

InitSteps ==
  Exec \/ WriteMcpConfig \/ EnsureLocalConfig \/ CreateLocalConfig \/ InjectScriptTag

-----------------------------------------------------------------------------
(* doctor *)

CheckPackages ==
  IF repo.web /\ (NeedsPackages => repo.plugin # "absent") THEN "ok" ELSE "fail"

(* How the config registers the plugin, read without running it. *)

Mentioned(config) == config.text \notin {"nothing", "comment"}

\* The file imports the plugin itself, and calls it.
Bound(config) == config.text \in {"import", "call"}
Called(config) == config.text = "call"

ReadIncludeOption(config) ==
  CASE config.options = "variable" -> "unreadable"
    [] config.options = "literal"  -> "explicit"
    [] OTHER                       -> "default"

ReadRemarqInclude(config) ==
  IF ~Mentioned(config) THEN "not-registered"
  ELSE IF Bound(config) /\ Called(config) THEN ReadIncludeOption(config) ELSE "unreadable"

\* The first source file of the stack, in the order of the directory walk.
FirstSource(stack, files) ==
  LET exts  == IF stack = "vue" THEN {"vue"} ELSE {"tsx", "jsx"}
      found == SelectSeq(files, LAMBDA f : f.ext \in exts)
  IN  IF found = <<>> THEN Null ELSE Head(found)

SampleSourceFile == FirstSource(Stack, repo.files)

\* What the installed plugin exports: nothing, a transform, or its filter as well.
TransformModule(plugin) ==
  CASE plugin \in {"absent", "noTransform"} -> {}
    [] plugin = "noFilter"                  -> {"transform"}
    [] plugin = "current"                   -> {"transform", "createFilter"}

Stamps(file) == file # Null /\ file.elements

\* The filter of the installed plugin; versions before 0.2.0 know no {a,b} groups.
CreateFilter(plugin, include) ==
  \/ include \in {"default", "perExt"}
  \/ include = "brace" /\ plugin = "current"

\* Defect: the include init suggests is tested instead of the one that is written.
TestedSuggested(config) == Printed.include

\* The include that doctor puts to the test.
TestedInclude(config) ==
  IF ReadRemarqInclude(config) = "explicit" THEN config.include ELSE "default"

\* Why the build plugin check fails, if it does.
BuildProblem ==
  LET reading == ReadRemarqInclude(repo.config)
  IN  IF Stack = "plain-html" THEN Null
      ELSE IF Stack = "next" THEN IF repo.config.text = "nothing" THEN "config" ELSE Null
      ELSE IF reading = "not-registered" THEN "config"
      ELSE IF SampleSourceFile = Null THEN IF Stack = "vanilla-vite" THEN Null ELSE "sample"
      ELSE IF "createFilter" \notin TransformModule(repo.plugin) THEN "plugin"
      ELSE IF reading # "unreadable" /\ ~CreateFilter(repo.plugin, TestedInclude(repo.config)) THEN "config"
      ELSE IF ~Stamps(SampleSourceFile) THEN "sample"
      ELSE Null

CheckBuildPlugin ==
  IF BuildProblem # Null THEN "fail"
  ELSE IF Stack = "plain-html" \/ (Stack = "vanilla-vite" /\ SampleSourceFile = Null) THEN "skipped"
  ELSE IF Stack # "next" /\ ReadRemarqInclude(repo.config) = "unreadable" THEN "blocked"
  ELSE "ok"

CheckWidgetInit ==
  IF IF Stack = "plain-html" THEN repo.tags > 0 ELSE repo.entry THEN "ok" ELSE "fail"

CheckMcpConfig == IF repo.mcp \in {"stale", "current"} THEN "ok" ELSE "fail"

\* GET /health: liveness and protocol.
Health ==
  IF server = Null THEN "down" ELSE IF server.protocol # 2 THEN "incompatible" ELSE "ok"

\* Before init, after it, or after one that failed; again once something may have changed
\* since the last report, which it would only repeat.
StartDoctor ==
  /\ doctor = Null /\ init = Null /\ Detected.ok
  /\ report # Null => report.mixed
  /\ doctor' = [ checks |-> [ packages |-> CheckPackages, build |-> CheckBuildPlugin,
                              widget |-> CheckWidgetInit, mcp |-> CheckMcpConfig ],
                 problem |-> BuildProblem, token |-> ReadLocalToken(repo.local),
                 health |-> Health, mixed |-> FALSE ]
  /\ UNCHANGED <<ws, app, repo, init, outcome, report, server, starting, dev, page, count>>

\* Defect: that something answers is taken for enough.
ProbeHealthOnly(d) == IF d.health # "ok" THEN d.health ELSE "ok"

\* GET /store with the token: it pairs with this server, not just with any.
ProbeMcpServer(d) ==
  IF d.health # "ok" THEN d.health
  ELSE IF d.token = Null THEN "no-token"
  ELSE IF server = Null THEN "down"
  ELSE IF server.token # d.token THEN "unauthorized"
  ELSE IF server.protocol # 2 THEN "incompatible"
  ELSE "ok"

CheckMcpServer(probe) ==
  CASE probe = "ok"   -> "ok"
    [] probe = "down" -> "blocked"
    [] OTHER          -> "fail"

Report(d, probe) ==
  [ checks |-> [ packages |-> d.checks.packages, build |-> d.checks.build,
                 widget |-> d.checks.widget, mcp |-> d.checks.mcp,
                 server |-> CheckMcpServer(probe) ],
    problem |-> d.problem, probe |-> probe, mixed |-> d.mixed ]

\* It reports what it found, even of files that changed under it.
FinishDoctor ==
  /\ doctor # Null
  /\ report' = Report(doctor, ProbeMcpServer(doctor))
  /\ doctor' = Null
  /\ UNCHANGED <<ws, app, repo, init, outcome, server, starting, dev, page, count>>

-----------------------------------------------------------------------------
(* The MCP server, started by the agent's client from .mcp.json. *)

Serves(s) == server' = s /\ report' = Null

Launches == server = Null /\ ~starting /\ repo.mcp \in {"stale", "current"}

\* A config that is not understood is refused; the server of an old entry reads none.
ServerStarts ==
  /\ Launches
  /\ \/ /\ repo.mcp = "stale"
        /\ Serves([token |-> Null, protocol |-> 1])
        /\ UNCHANGED starting
     \/ /\ repo.mcp = "current" /\ Readable(repo.local)
        /\ Serves([token |-> repo.local.token, protocol |-> 2])
        /\ UNCHANGED starting
     \/ /\ repo.mcp = "current" /\ repo.local = Null
        /\ starting' = TRUE
        /\ UNCHANGED <<server, report>>
  /\ UNCHANGED <<ws, app, repo, init, outcome, doctor, dev, page, count>>

\* The server found no config: it writes one, and serves under what it wrote.
ServerCreates ==
  /\ starting
  /\ starting' = FALSE
  /\ Become([repo EXCEPT !.local = NewLocal, !.ignored = TRUE])
  /\ server' = [token |-> Made, protocol |-> 2]
  /\ count' = [count EXCEPT !.made = @ + 1]
  /\ UNCHANGED <<ws, app, init, outcome, dev, page>>

-----------------------------------------------------------------------------
(* The app: does the build stamp, does the page get the server's token. *)

\* The plugin runs in the build, and its filter lets the sample file through.
Stamped ==
  IF Stack = "next" THEN repo.config.text = "call"
  ELSE /\ repo.config.text \in {"call", "preset"}
       /\ repo.plugin # "absent"
       /\ CreateFilter(repo.plugin, repo.config.include)
       /\ Stamps(SampleSourceFile)

\* withRemarq reads the token when Next reads its config.
StartNextDev ==
  /\ Stack = "next" /\ repo.config.text = "call"
  /\ dev # ReadLocalToken(repo.local)
  /\ dev' = ReadLocalToken(repo.local)
  /\ UNCHANGED <<ws, app, repo, init, outcome, doctor, report, server, starting, page, count>>

\* Vite's dev server reads the config at every request for it.
Endpoint == IF repo.config.text \in {"call", "preset"} THEN ReadLocalToken(repo.local) ELSE Null

\* The token a page starts with: the one in its options, which Next fills in, one
\* pasted before, or the one that the dev server offers.
GivenToken ==
  CASE Stack = "plain-html" -> page.pasted
    [] Stack = "next"       -> IF dev # Null THEN dev ELSE page.pasted
    [] OTHER                -> IF page.pasted # Null THEN page.pasted ELSE Endpoint

Mounted == IF Stack = "plain-html" THEN repo.tags > 0 ELSE repo.entry /\ repo.web

LoadPage ==
  /\ Mounted
  /\ page.token # GivenToken
  /\ page' = [page EXCEPT !.token = GivenToken]
  /\ UNCHANGED <<ws, app, repo, init, outcome, doctor, report, server, starting, dev, count>>

Paired == server # Null /\ server.protocol = 2 /\ page.token # Null /\ page.token = server.token

\* The page says that it is not paired, or that its token is refused: paste the
\* token of the config.
PairByHand ==
  /\ Mounted /\ server # Null /\ ~Paired
  /\ page.token = GivenToken
  /\ ReadLocalToken(repo.local) \notin {Null, page.token}
  /\ page' = [token |-> ReadLocalToken(repo.local), pasted |-> ReadLocalToken(repo.local)]
  /\ UNCHANGED <<ws, app, repo, init, outcome, doctor, report, server, starting, dev, count>>

-----------------------------------------------------------------------------
(* The user. *)

Edits(r) ==
  /\ Become(r)
  /\ UNCHANGED <<ws, app, init, outcome, server, starting, dev, page, count>>

\* A component with elements, where the walk finds it first.
Component(stack) == [ext |-> IF stack = "vue" THEN "vue" ELSE "tsx", elements |-> TRUE]

FixBuild ==
  /\ Failing("build")
  /\ \/ report.problem = "config" /\ Edits([repo EXCEPT !.config = Printed])
     \/ /\ report.problem = "sample" /\ ~Stamps(SampleSourceFile)
        /\ Edits([repo EXCEPT !.files = <<Component(Stack)>> \o @])
     \/ report.problem = "plugin" /\ Edits([repo EXCEPT !.plugin = "current"])

\* Doctor could not read the include: the user looks for the stamp in the page.
VerifyBuild ==
  /\ report # Null /\ report.checks.build = "blocked"
  /\ ~Stamped
  /\ Edits([repo EXCEPT !.config = Printed])

AddWidget == Failing("widget") /\ NeedsPackages /\ Edits([repo EXCEPT !.entry = TRUE])

RepairMcp ==
  /\ WantsRepair
  /\ Edits([repo EXCEPT !.mcp = "without"])

\* The server that is started says what is wrong with its config.
RepairLocal ==
  /\ repo.local = Torn /\ repo.mcp = "current"
  /\ Edits([repo EXCEPT !.local = Null])

\* Restart the server, or upgrade it first.
ReplaceServer ==
  /\ report # Null /\ report.probe \in {"unauthorized", "incompatible"}
  /\ server' = Null
  /\ Become([repo EXCEPT !.mcp = IF @ = "stale" THEN "current" ELSE @])
  /\ UNCHANGED <<ws, app, init, outcome, starting, dev, page, count>>

Slip ==
  /\ count.slips < MaxSlips
  /\ count' = [count EXCEPT !.slips = @ + 1, !.made = Made]

\* The plugin is registered in some other way, or no longer.
EditConfig ==
  /\ Slip /\ Stack \in Bundled \ {"next"}
  /\ \E form \in Forms : Become([repo EXCEPT !.config = form])
  /\ UNCHANGED <<ws, app, init, outcome, server, starting, dev, page>>

RotateToken ==
  /\ Slip /\ Readable(repo.local)
  /\ Become([repo EXCEPT !.local.token = Made])
  /\ UNCHANGED <<ws, app, init, outcome, server, starting, dev, page>>

AddOtherServer ==
  /\ Slip /\ repo.mcp # "torn"
  /\ Become([repo EXCEPT !.others = TRUE, !.mcp = IF @ = "missing" THEN "without" ELSE @])
  /\ UNCHANGED <<ws, app, init, outcome, server, starting, dev, page>>

ServerStops ==
  /\ Slip /\ server # Null
  /\ Serves(Null)
  /\ UNCHANGED <<ws, app, repo, init, outcome, doctor, starting, dev, page>>

Doctor == StartDoctor \/ FinishDoctor
Fixes == FixBuild \/ VerifyBuild \/ AddWidget \/ ReplaceServer
Repairs == RepairMcp \/ PickApp
ServerSteps == ServerStarts \/ ServerCreates
App == StartNextDev \/ LoadPage \/ PairByHand
Slips == EditConfig \/ RotateToken \/ AddOtherServer \/ ServerStops

Next ==
  \/ StartInit \/ InitSteps \/ ExecFails \/ Kill
  \/ Doctor \/ Fixes \/ Repairs \/ RepairLocal
  \/ ServerSteps \/ App \/ Slips

Spec == Init /\ [][Next]_vars

\* Processes run on, and the user does what the reports say until they are content.
Fairness ==
  /\ WF_vars(StartInit) /\ WF_vars(InitSteps) /\ WF_vars(Doctor)
  /\ WF_vars(Fixes) /\ WF_vars(Repairs) /\ WF_vars(RepairLocal)
  /\ WF_vars(ServerSteps)
  /\ WF_vars(StartNextDev) /\ WF_vars(LoadPage) /\ WF_vars(PairByHand)

FairSpec == Spec /\ Fairness

-----------------------------------------------------------------------------
(* Properties. *)

\* A green check is true of the files as they are, unless they changed while doctor read
\* them, and the report goes when they change after it: the build really stamps the
\* sample file ("a forgotten plugin, a mistyped include, or a package too old must
\* not report the same result as a correct setup", cli/src/checks.ts:208-214), and
\* the server that answers takes the token of this repository (cli/README.md:18-19).
GreenIsTrue ==
  report # Null /\ ~report.mixed =>
    /\ report.checks.build = "ok" /\ Stack # "next" => Stamped
    /\ report.checks.server = "ok" => /\ server # Null /\ server.protocol = 2
                                      /\ server.token = ReadLocalToken(repo.local)

\* Running init again takes nothing away: an identity that was there when it began
\* stays ("silently regenerating would orphan every widget outbox", local-config.ts:75),
\* other servers stay in .mcp.json, and a page has one widget.  Being killed in the
\* middle of a write is the exception.
TakesNothingAway ==
  init # Null /\ init' # init =>
    /\ Readable(init.had) /\ Readable(repo.local) => repo'.local = repo.local
    /\ repo.others /\ count' = count => repo'.others
    /\ repo'.tags <= 1

RerunKeeps == [][TakesNothingAway]_vars

\* Whoever does what init and doctor say ends up, in an app with a bundler, with a
\* report without a failure and a page that is paired with the server, however
\* often a run was killed, an install failed or a file was changed on the way.
SetupEnds ==
  <>[](Stack \in Bundled /\ report # Null /\ Paired
         /\ \A id \in DOMAIN report.checks : report.checks[id] # "fail")
    \/ <>[](Stack = "plain-html")

\* "On a plain HTML page with no bundler, init completes the whole setup on its own"
\* (README.md:40): doctor finds nothing to fail after it.
InitCompletesHtml ==
  report # Null /\ Stack = "plain-html"
    => \A id \in DOMAIN report.checks : report.checks[id] # "fail"
=============================================================================
