------------------------------- MODULE Runtime ------------------------------
(***************************************************************************)
(* The runtime of a checkout (runtime, readiness): the configured roots    *)
(* with the commands on them, and the readiness of the host.               *)
(***************************************************************************)
EXTENDS Calls, Integers, SequencesExt, FiniteSets

-----------------------------------------------------------------------------
(* The services of a request (runtime/service_plan.py).                    *)
ProfileServices ==
  [core |-> {"database"}, graph |-> {"database", "age-viewer"}, ui |-> {"database", "grafana"},
   observability |-> {"database", "postgres-exporter", "prometheus"},
   vllm |-> {"vllm"}, cadvisor |-> {"cadvisor"}]
ProfileAliases == [pipeline |-> {"core", "ui", "observability"}]
StateServices == {"age-viewer", "grafana", "prometheus"}

Known(requested) == requested \subseteq DOMAIN ProfileServices \cup DOMAIN ProfileAliases
ParseProfiles(requested) ==
  LET asked == IF requested = {} THEN {"pipeline"} ELSE requested
  IN  UNION {IF p \in DOMAIN ProfileAliases THEN ProfileAliases[p] ELSE {p} : p \in asked}
ServicesFor(profiles) == UNION {ProfileServices[p] : p \in profiles}
HasDatabase(profiles) == "database" \in ServicesFor(profiles)
IsPipeline(profiles) == ProfileAliases["pipeline"] \subseteq profiles
NeedsInference(profiles) == IsPipeline(profiles) \/ "vllm" \in ServicesFor(profiles)
ExtensionsFor(profiles, ageEnabled) ==
  IF ~HasDatabase(profiles) THEN {}
  ELSE {"pg_search", "vector"} \cup (IF "graph" \in profiles /\ ageEnabled THEN {"age"} ELSE {})
GraphAgeRefused(profiles, ageEnabled) == "graph" \in profiles /\ ~ageEnabled

-----------------------------------------------------------------------------
(***************************************************************************)
(* The configured roots of a checkout (runtime/config.py, path_model.py,   *)
(* paths.py, containment.py) and the commands that write to them or erase  *)
(* them: make services-up, services-config, services-down and              *)
(* services-reset (compose.py, service_reset.py) and make readiness        *)
(* (readiness/run.py).  Each command resolves the roots when it starts.  A *)
(* directory that does not hold the checkout may be replaced by a link at  *)
(* any time; the check of a path and the deletion or the write that        *)
(* follows it are one step.                                                *)
(***************************************************************************)

CONSTANTS MaxCommands,       \* bound: commands
          MaxSwaps           \* bound: directories that become links

VARIABLE roots

\* The data directory is where it is by default, in the checkout.
Checkout == <<"p">>
DataDir == <<"p", "data">>
SiloRoots == {"ARCHIVE_DIR", "ARCHIVE_SILO"}
Database == {"PGDATA_DIR", "PG_WAL_DIR", "PG_TABLESPACE"}
Derived == {"RUNS_DIR", "SERVICE_STATE_DIR", "MODEL_CACHE_DIR", "TMP_DIR"}
Outputs == {"RESULTS_DIR"} \cup Database \cup Derived

\* site: what .env says (placed: the values of the roots; password; gate: the AGE
\* gate is open) and flaws: pairs of a root and what is wrong where it is.
\* links: the directory that is a link, to where.  config: the roots as the
\* command has resolved them; erased, made, wrote: trees, directories and
\* reports, with the links of the time.  An erased tree is made anew, empty.
RootsInit ==
  roots = [site |-> <<>>, links |-> {}, config |-> <<>>, command |-> [at |-> "none"],
           running |-> {}, erased |-> {}, made |-> {}, wrote |-> {}, vouched |-> {}, commands |-> 0, swaps |-> 0]

-----------------------------------------------------------------------------
(* Paths.                                                                  *)
Resolve(links, path) ==
  IF \E l \in links : IsPrefix(l.at, path)
  THEN LET l == CHOOSE k \in links : IsPrefix(k.at, path)
       IN  l.to \o SubSeq(path, Len(l.at) + 1, Len(path))
  ELSE path
Within(root, candidate) == IsPrefix(root, candidate)
Overlaps(left, right) == Within(left, right) \/ Within(right, left)

\* load_runtime_config: a silo, the results and the cluster are required; the
\* write-ahead log, a tablespace and a second silo are optional; roots that are
\* not set are derived from the results.
Unset == <<"unset">>
Suffix == [RUNS_DIR |-> "runs", SERVICE_STATE_DIR |-> "services", MODEL_CACHE_DIR |-> "models", TMP_DIR |-> "tmp"]
Configured(placed) ==
  /\ \E s \in SiloRoots : placed[s] # Unset
  /\ placed["RESULTS_DIR"] # Unset /\ placed["PGDATA_DIR"] # Unset
LoadConfig(placed, links) ==
  [v \in {r \in DOMAIN placed : placed[r] # Unset} \cup Derived |->
     Resolve(links, IF placed[v] = Unset THEN Append(placed["RESULTS_DIR"], Suffix[v]) ELSE placed[v])]

\* containment_violation: strictly below the results is allowed.
Violates(candidate, root, belowAllowed) ==
  /\ ~(belowAllowed /\ candidate # root /\ Within(root, candidate))
  /\ Overlaps(candidate, root)
Now(config, links, variables) == {Resolve(links, config[v]) : v \in variables \cap DOMAIN config}
SourceRoots(config, links) == {Resolve(links, Checkout)} \cup Now(config, links, SiloRoots)

\* _configured_data_paths: what the services write, one path for each tree.
Served == <<"PGDATA_DIR", "SERVICE_STATE_DIR", "MODEL_CACHE_DIR", "PG_WAL_DIR", "PG_TABLESPACE">>
DataPaths(config, links) ==
  LET set == {k \in DOMAIN Served : Served[k] \in DOMAIN config}
      tree(k) == Resolve(links, config[Served[k]])
  IN  {config[Served[k]] : k \in {i \in set : \A j \in set : j < i => tree(j) # tree(i)}}
\* _assert_erasable.
ErasureRefused(config, links, path) ==
  LET target == Resolve(links, path)
  IN  \/ target = <<>>
      \/ \E root \in SourceRoots(config, links) : Violates(target, root, FALSE)
      \/ Violates(target, Resolve(links, config["RESULTS_DIR"]), TRUE)
      \/ target \notin {Resolve(links, p) : p \in DataPaths(config, links)}

-----------------------------------------------------------------------------
(* validate_runtime_paths: all roots for where they are, the chosen ones   *)
(* for the storage they are on.                                            *)
Misfit(config, group, Clash(_, _)) == \E v, w \in group \cap DOMAIN config : v # w /\ Clash(config[v], config[w])
DangerousTargets(config) ==
  \/ \E v \in DOMAIN config : config[v] = <<>>
  \/ \E v \in Outputs \cap DOMAIN config : Overlaps(config[v], Checkout)
Overlapping(config, group) == Misfit(config, group, Overlaps)
Primary == SiloRoots \cup {"RESULTS_DIR"} \cup Database
DerivedMisplaced(config) ==
  \E v \in Derived : \/ config[v] = config["RESULTS_DIR"]
                     \/ \E w \in (Primary \ {"RESULTS_DIR"}) \cap DOMAIN config : Overlaps(config[v], config[w])
Misplaced(config) ==
  \/ DangerousTargets(config) \/ Overlapping(config, Primary) \/ DerivedMisplaced(config)
  \/ Overlapping(config, Derived)

\* A flaw: a file is where the directory should be; it is not writable, writable
\* for others, full, or (a silo) not readable; it is on a network file system, or
\* on one that PostgreSQL does not support; or it cannot be inspected at all.
StorageFlaw == {"file", "readonly", "shared", "full", "unreadable", "network", "foreign", "lost"}
FlawsOf(flaws, v) == {f \in StorageFlaw : <<v, f>> \in flaws}
PermissionBlocked(v, flaws) ==
  IF v \in SiloRoots THEN FlawsOf(flaws, v) \cap {"file", "unreadable"} # {}
  ELSE \/ FlawsOf(flaws, v) \cap {"file", "readonly", "full"} # {}
       \/ v \in Database /\ "shared" \in FlawsOf(flaws, v)
StorageStatus(v, flaws) ==
  IF v \in Database /\ FlawsOf(flaws, v) \cap {"network", "foreign"} # {} THEN "blocked"
  ELSE IF v = "SERVICE_STATE_DIR" /\ "network" \in FlawsOf(flaws, v) THEN "degraded"
  ELSE "ready"
Inspectable(flaws, variables) == \A v \in variables : "lost" \notin FlawsOf(flaws, v)
PathsBlocked(config, flaws, variables) ==
  Misplaced(config) \/ \E v \in variables : PermissionBlocked(v, flaws) \/ StorageStatus(v, flaws) = "blocked"

\* ServicePlan.path_variables.
PathVariables(config, profiles, readiness) ==
  LET services == ServicesFor(profiles)
  IN  IF readiness /\ IsPipeline(profiles) THEN DOMAIN config
      ELSE {"RESULTS_DIR", "RUNS_DIR", "TMP_DIR"}
           \cup (IF "database" \in services THEN Database \cap DOMAIN config ELSE {})
           \cup (IF services \cap StateServices # {} THEN {"SERVICE_STATE_DIR"} ELSE {})
           \cup (IF "vllm" \in services THEN {"MODEL_CACHE_DIR"} ELSE {})

-----------------------------------------------------------------------------
Command(at) == call.op = "roots" /\ roots.command.at = at /\ UNCHANGED call
CanStart ==
  /\ call.op \in {"none", "roots"} /\ call' = [op |-> "roots"]
  /\ roots.site # <<>> /\ roots.command.at \in {"none", "ended"} /\ roots.commands < MaxCommands
End(r, answer) == [r EXCEPT !.command.at = "ended", !.command.answer = answer]
\* Without the required roots there is no command, nor with a profile unknown.
Began(kind, requested, todo) ==
  LET next == [roots EXCEPT !.commands = @ + 1, !.erased = {}, !.made = {}, !.wrote = {}, !.config = <<>>,
                            !.command = [at |-> kind, kind |-> kind, profiles |-> ParseProfiles(requested), todo |-> todo,
                                         answer |-> "none", swaps |-> roots.swaps, running |-> roots.running]]
  IN  IF ~Configured(roots.site.placed) THEN End(next, "unconfigured")
      ELSE [next EXCEPT !.config = LoadConfig(roots.site.placed, roots.links)]

\* .env is written, and the storage is what it is.
Place(site) ==
  /\ call = Ready /\ call' = [op |-> "roots"] /\ roots.site = <<>>
  /\ roots' = [roots EXCEPT !.site = site]

\* The commands of the CLI that prepare a layout or call Compose; a reset is below.
AskConfig == CanStart /\ roots' = Began("compose", {}, "config")
AskCompose(action, requested) == CanStart /\ Known(requested) /\ roots' = Began("compose", requested, action)
\* What a command checks and makes: config prepares every root, a start what its
\* services need.
Prepared(config, action, profiles) ==
  CASE action = "config" -> DOMAIN config
    [] action \in {"up", "services-config"} -> PathVariables(config, profiles, FALSE)
    [] OTHER -> {}
\* create_results_layout and prepare_service_layout: children of the results, the
\* roots, the directories of services, in this order, as far as they can be made;
\* then the data directory, for the temporary file of mounts that Compose is given
\* when the database has roots besides its cluster.
LayoutOrder == <<"RESULTS_DIR", "PGDATA_DIR", "RUNS_DIR", "SERVICE_STATE_DIR", "MODEL_CACHE_DIR", "TMP_DIR", "PG_WAL_DIR",
                 "PG_TABLESPACE", "age-viewer", "grafana", "prometheus", "DATA_DIR">>
DirectoryOf(config, name) ==
  CASE name = "RESULTS_DIR" -> Append(config["RESULTS_DIR"], "normalized")
    [] name \in StateServices -> Append(config["SERVICE_STATE_DIR"], name)
    [] name = "DATA_DIR" -> DataDir
    [] OTHER -> config[name]
HasMounts(config, profiles) == HasDatabase(profiles) /\ {"PG_WAL_DIR", "PG_TABLESPACE"} \cap DOMAIN config # {}
Layout(config, action, profiles, n) ==
  LET chosen == Prepared(config, action, profiles)
      others == IF action \in {"config", "down"} THEN {}
                ELSE (StateServices \cap ServicesFor(profiles)) \cup (IF HasMounts(config, profiles) THEN {"DATA_DIR"} ELSE {})
  IN  {DirectoryOf(config, LayoutOrder[k]) : k \in {i \in 1 .. n : LayoutOrder[i] \in chosen \cup others}}
\* Where a link is, nothing is made.
LinkAt(r, path) == \E l \in r.links : l.at = path
LaidOut(r, directories) ==
  [r EXCEPT !.made = {[path |-> Resolve(r.links, d), links |-> r.links] : d \in {e \in directories : ~LinkAt(r, e)}}]
\* What cannot be inspected fails the command before it is found unsafe.
ComposeRefused(action, profiles) ==
  LET prepared == Prepared(roots.config, action, profiles)
  IN  IF action = "up" /\ HasDatabase(profiles) /\ roots.site.password = "none" THEN "no password"
      ELSE IF action = "up" /\ GraphAgeRefused(profiles, roots.site.gate) THEN "closed gate"
      ELSE IF ~Inspectable(roots.site.flaws, prepared) THEN "failed"
      ELSE IF action # "down" /\ PathsBlocked(roots.config, roots.site.flaws, prepared) THEN "unsafe roots"
      ELSE "none"
RunningAfter(action, services) ==
  CASE action = "up" -> roots.running \cup services
    [] action = "down" -> roots.running \ services
    [] OTHER -> roots.running
\* A directory may be impossible to make; and what Compose does not do to all of
\* the services it may have done to some.
Compose ==
  /\ Command("compose")
  /\ LET action == roots.command.todo
         profiles == roots.command.profiles
         refused == ComposeRefused(action, profiles)
         laid(n) == LaidOut(roots, Layout(roots.config, action, profiles, n))
         after(services) == [laid(Len(LayoutOrder)) EXCEPT !.running = RunningAfter(action, services)]
     IN  \/ refused # "none" /\ roots' = End(roots, refused)
         \/ /\ refused = "none"
            /\ \/ \E n \in 0 .. Len(LayoutOrder) - 1 : roots' = End(laid(n), "failed")
               \/ \E some \in SUBSET ServicesFor(profiles) : roots' = End(after(some), "failed")
               \/ roots' = End(after(ServicesFor(profiles)), "done")

\* make readiness: the roots are checked, then the report is written, to where it
\* was asked for or below the results, unless no file is wanted.
NoReport == <<"no report">>
AskReadiness(requested, file) == CanStart /\ roots' = Began("readiness", IF Known(requested) THEN requested ELSE {}, file)
ReportRefused(config, links, flaws, file) ==
  LET results == Resolve(links, config["RESULTS_DIR"])
      protected == SourceRoots(config, links) \cup Now(config, links, Database)
  IN  \/ results = <<>> \/ ~Within(results, file)
      \/ \E root \in protected : Violates(file, root, FALSE) \/ Violates(results, root, FALSE)
      \/ "readonly" \in FlawsOf(flaws, "RESULTS_DIR") \/ <<"REPORT", "file">> \in flaws
InspectRoots ==
  /\ Command("readiness")
  /\ LET config == roots.config
         variables == PathVariables(config, roots.command.profiles, TRUE)
         clear == /\ Inspectable(roots.site.flaws, variables) /\ ~PathsBlocked(config, roots.site.flaws, variables)
                  /\ ~HasDatabase(roots.command.profiles) \/ roots.site.password = "secret"
         next == [roots EXCEPT !.vouched = IF clear THEN {roots.command.profiles} ELSE {}]
         named == roots.command.todo
         file == Resolve(roots.links, IF named = Unset THEN config["RESULTS_DIR"] \o <<"reports", "readiness">> ELSE named)
     IN  roots' = IF named = NoReport THEN End(next, "done")
                  ELSE IF ReportRefused(config, roots.links, roots.site.flaws, file) THEN End(next, "no report")
                  ELSE [next EXCEPT !.command.at = "report", !.command.todo = file]
\* _persist_report: its directory is made, and the destination is checked again.
WriteReport ==
  /\ Command("report")
  /\ LET named == roots.command.todo
         directory == Resolve(roots.links, Front(named))
         file == Append(directory, Last(named))
         next == [roots EXCEPT !.made = {[path |-> directory, links |-> roots.links]}]
     IN  \/ roots' = End(roots, "no report")
         \/ roots' = End(next, "no report")
         \/ /\ ~ReportRefused(roots.config, roots.links, roots.site.flaws, file)
            /\ roots' = End([next EXCEPT !.wrote = {[path |-> file, links |-> roots.links]}], "done")

\* make services-reset: all targets are accepted before a service is stopped, and
\* again after; with APPLY=1 each is accepted once more and erased.
AskReset(requested, apply) ==
  CanStart /\ Known(requested) /\ roots' = Began("reset", requested, IF apply THEN "apply" ELSE "plan")
Accepted(r) == \A p \in DataPaths(r.config, r.links) : ~ErasureRefused(r.config, r.links, p)
CheckTargets ==
  /\ Command("reset")
  /\ roots' = IF Accepted(roots) THEN [roots EXCEPT !.command.at = "stop"] ELSE End(roots, "refused")
StopServices ==
  /\ Command("stop")
  /\ \/ \E some \in SUBSET ServicesFor(roots.command.profiles) : roots' = End([roots EXCEPT !.running = @ \ some], "failed")
     \/ LET stopped == [roots EXCEPT !.running = @ \ ServicesFor(roots.command.profiles)]
        IN  roots' = IF ~Accepted(roots) THEN End(stopped, "refused")
                     ELSE IF roots.command.todo = "plan" THEN End(stopped, "planned")
                     ELSE [stopped EXCEPT !.command.at = "erase", !.command.todo = DataPaths(roots.config, roots.links)]
Erased(r, path) ==
  LET left == r.command.todo \ {path}
      next == [r EXCEPT !.command.todo = left, !.erased = @ \cup {[tree |-> Resolve(r.links, path), links |-> r.links]}]
  IN  IF left = {} THEN End(next, "done") ELSE next
EraseAccepted(path) ==
  Command("erase") /\ path \in roots.command.todo /\ roots' = Erased(roots, path)
IsFile(path) == \E v \in DOMAIN roots.config : roots.config[v] = path /\ "file" \in FlawsOf(roots.site.flaws, v)
\* What is not a directory is not erased; a deletion that fails has erased a part.
Erase(path) ==
  /\ Command("erase") /\ path \in roots.command.todo
  /\ IF ErasureRefused(roots.config, roots.links, path) THEN roots' = End(roots, "refused")
     ELSE IF IsFile(path) THEN roots' = End(roots, "not a directory")
     ELSE roots' = Erased(roots, path) \/ roots' = End(Erased(roots, path), "failed")

Swap(link) ==
  /\ call.op = "roots" /\ roots.swaps < MaxSwaps /\ roots.links # {link} /\ ~Within(link.at, Checkout) /\ UNCHANGED call
  /\ roots' = [roots EXCEPT !.links = {link}, !.swaps = @ + 1]

RootsNext(sites, profiles, files, links) ==
  \/ \E site \in sites : Place(site)
  \/ AskConfig
  \/ \E requested \in profiles, action \in {"up", "services-config", "down"} : AskCompose(action, requested)
  \/ \E requested \in profiles, apply \in BOOLEAN : AskReset(requested, apply)
  \/ \E requested \in profiles, file \in files : AskReadiness(requested, file)
  \/ Compose \/ InspectRoots \/ WriteReport \/ CheckTargets \/ StopServices
  \/ roots.command.at = "erase" /\ \E path \in roots.command.todo : Erase(path)
  \/ \E link \in links : Swap(link)

-----------------------------------------------------------------------------
(* A reset erases no tree of the checkout or of the archive, none that     *)
(* holds one of them, and never the results root, though directories       *)
(* become links while it runs (record 0005).                               *)
SourcesKept ==
  \A e \in roots.erased :
    /\ \A s \in SourceRoots(roots.config, e.links) : ~Overlaps(e.tree, s)
    /\ ~Within(e.tree, Resolve(e.links, roots.config["RESULTS_DIR"]))

(* Of roots that the checks of the other commands would let pass, a reset  *)
(* erases no part of the run journal or of the scratch space.              *)
RunsKept ==
  roots.erased # {} /\ roots.swaps = 0 /\ ~Misplaced(roots.config) =>
    \A e \in roots.erased, v \in {"RUNS_DIR", "TMP_DIR"} : ~Overlaps(e.tree, roots.config[v])

(* A reset of roots that are not safe stops no service and erases nothing, *)
(* and one that is only planned erases nothing.                            *)
RefusedIsWhole ==
  roots.command.at = "ended" =>
    /\ roots.command.answer = "refused" /\ roots.command.swaps = roots.swaps =>
         roots.running = roots.command.running /\ roots.erased = {}
    /\ roots.command.answer = "planned" => roots.erased = {}

(* A readiness report is written below the results only, and never into    *)
(* sources or a database, though directories become links before it is.    *)
ReportInside ==
  \A w \in roots.wrote :
    /\ Within(Resolve(w.links, roots.config["RESULTS_DIR"]), w.path)
    /\ \A s \in SourceRoots(roots.config, w.links) \cup Now(roots.config, w.links, Database) : ~Overlaps(w.path, s)

(* A start makes no directory in the checkout or in the archive but its    *)
(* data directory, unless one becomes a link while it runs, and none for a *)
(* request it refuses.                                                     *)
LayoutOutside ==
  roots.command.at = "ended" /\ roots.command.kind = "compose" /\ roots.command.swaps = roots.swaps =>
    \A m \in roots.made :
      m.path = Resolve(m.links, DataDir) \/ \A s \in SourceRoots(roots.config, m.links) : ~Overlaps(m.path, s)

(* The roots and the password that readiness does not block for a request  *)
(* do not keep its services from being started.                            *)
UpFollowsReadiness ==
  roots.command.at = "ended" /\ roots.command.kind = "compose" /\ roots.command.todo = "up" /\ roots.command.profiles \in roots.vouched
  /\ roots.swaps = 0 => roots.command.answer \notin {"unsafe roots", "no password"}

-----------------------------------------------------------------------------
(***************************************************************************)
(* make readiness (readiness/): what is found on a host for the profiles   *)
(* asked for, and the actions the report advises.  A host is a set of      *)
(* pairs: a part of it, and what is the matter with it.  The placement of  *)
(* the roots and the file of the report are modelled above.                *)
(***************************************************************************)
Services == UNION {ProfileServices[p] : p \in DOMAIN ProfileServices}
Extensions == {"pg_search", "vector", "age"}
Amiss == {"root", "python", "compose", "memory", "profiles", "config", "report", "gate", "migrations", "query", "models",
          "served"}
Trouble ==
  (Amiss \X {"amiss"}) \cup ({"git", "make", "uv", "docker", "gpu"} \X {"missing", "failing"})
  \cup ({"paths"} \X {"unsafe", "network", "elsewhere"})
  \cup ({"password"} \X {"none", "placeholder"}) \cup ({"contracts"} \X {"none", "no extra", "invalid"})
  \cup ({"backend"} \X {"vllm", "unknown"}) \cup ({"ollama"} \X {"foreign", "down", "garbled"}) \cup ({"others"} \X {"unset"})
  \cup (Services \X {"absent", "starting"}) \cup ({"database"} \X {"unreported"})
  \cup (Extensions \X {"missing", "not installed"})
About(d, part) == {x[2] : x \in {y \in d : y[1] = part}}

Finding(name, status, action) == [name |-> name, status |-> status, action |-> action]
Good(name) == {Finding(name, "ready", "none")}
Check(troubled, name, status, action) ==
  IF troubled THEN {Finding(name, status, action)} ELSE Good(name)

-----------------------------------------------------------------------------
\* Compose is a command of docker.
Responds(d, tool) ==
  IF tool = "compose" THEN About(d, "compose") = {} /\ "missing" \notin About(d, "docker") ELSE About(d, tool) = {}
CheckTools(d) ==
  UNION {Check(~Responds(d, t), t, "blocked", t) : t \in {"python", "git", "make", "uv", "docker", "compose"}}
CheckResources(profiles, d) ==
  LET required == "vllm" \in ServicesFor(profiles)
  IN  Check(About(d, "memory") # {}, "ram", "degraded", "none") \cup
      (IF "missing" \in About(d, "gpu")
       THEN {Finding("gpu", IF required THEN "blocked" ELSE "ready", IF required THEN "gpu" ELSE "none")}
       ELSE Check("failing" \in About(d, "gpu"), "gpu", IF required THEN "blocked" ELSE "degraded", "gpu"))
CheckPassword(profiles, d) ==
  IF HasDatabase(profiles) THEN Check(About(d, "password") # {}, "password", "blocked", "password") ELSE {}

\* _check_paths: roots that are not fit, or that a request does not inspect and are
\* misplaced, of which it is not said what to do.
CheckPaths(profiles, d) ==
  IF "elsewhere" \in About(d, "paths") THEN {Finding("paths", "blocked", IF IsPipeline(profiles) THEN "paths" ELSE "none")}
  ELSE IF "unsafe" \in About(d, "paths") THEN {Finding("paths", "blocked", "paths")}
  ELSE Check("network" \in About(d, "paths"), "paths", "degraded", "paths")

\* check_services: the services of the request, and whether the database is healthy;
\* one whose health is not reported is ready, but not healthy.
ComposeAnswers(d) == Responds(d, "docker") /\ Responds(d, "compose")
CheckServices(profiles, d) ==
  IF "missing" \in About(d, "docker") THEN {Finding("services", "degraded", "none")}
  ELSE IF ~ComposeAnswers(d) THEN {Finding("services", "degraded", "docker")}
  ELSE UNION {Check(About(d, s) \cap {"absent", "starting"} # {}, s, "degraded", "services-up") : s \in ServicesFor(profiles)}
DatabaseHealthy(profiles, d) == HasDatabase(profiles) /\ ComposeAnswers(d) /\ About(d, "database") = {}

\* check_database: the closed gate ends the check, as does a database not healthy.
CheckDatabase(profiles, d) ==
  LET ageEnabled == About(d, "gate") = {}
      lacking == {e \in ExtensionsFor(profiles, ageEnabled) : About(d, e) # {}}
  IN  IF ~HasDatabase(profiles) THEN {}
      ELSE Check(About(d, "migrations") # {}, "migrations", "degraded", "none") \cup
           (IF GraphAgeRefused(profiles, ageEnabled) THEN {Finding("extensions", "degraded", "gate")}
            ELSE IF ~DatabaseHealthy(profiles, d) THEN {Finding("extensions", "degraded", "pipeline-up")}
            ELSE IF About(d, "query") # {} THEN {Finding("extensions", "degraded", "pipeline-up")}
            ELSE Check(lacking # {}, "extensions", "blocked", "image"))
CheckContracts(profiles, d) ==
  IF ~IsPipeline(profiles) THEN {}
  ELSE IF "none" \in About(d, "contracts") THEN Good("contracts")
  ELSE IF "no extra" \in About(d, "contracts") THEN {Finding("contracts", "degraded", "contracts")}
  ELSE Check("invalid" \in About(d, "contracts"), "contracts", "blocked", "contracts")

\* The model that Compose passes to vLLM when it starts, and the one that
\* readiness asks it for.
Backend(d) == IF About(d, "backend") = {} THEN "ollama" ELSE CHOOSE b \in {"vllm", "unknown"} : b \in About(d, "backend")
PassedModel(backend) == IF backend = "vllm" THEN "GENERATION_MODEL" ELSE "VLLM_MODEL"
VllmValues(backend) == [backend |-> "vllm", models |-> {IF backend = "vllm" THEN "GENERATION_MODEL" ELSE "VLLM_MODEL"}]
\* The models for retrieval may be left unset.
Values(d) ==
  [backend |-> Backend(d),
   models |-> {"GENERATION_MODEL"} \cup (IF About(d, "others") = {} THEN {"EMBEDDING_MODEL", "RERANK_MODEL"} ELSE {})]
\* Another than the passed one is served when the values change after the start.
Serves(d) == IF About(d, "served") = {} THEN {PassedModel(Backend(d))} ELSE {"stale"}

CheckModels(asked, available, action) == Check(~(asked \subseteq available), "models", "degraded", action)
OllamaFindings(asked, d) ==
  IF "foreign" \in About(d, "ollama") THEN {Finding("endpoint", "blocked", "ollama")}
  ELSE IF About(d, "ollama") # {} THEN {Finding("endpoint", "degraded", "ollama")}
  ELSE Good("endpoint") \cup CheckModels(asked, IF About(d, "models") = {} THEN asked ELSE {}, "models")
VllmFindings(asked, d) ==
  IF About(d, "vllm") # {} THEN {Finding("endpoint", "degraded", "vllm-up")}
  ELSE Good("endpoint") \cup CheckModels(asked, Serves(d), "vllm-up")
\* check_inference: vLLM if its service is asked for, else the backend configured.
CheckInference(profiles, d) ==
  LET values == IF "vllm" \in ServicesFor(profiles) THEN VllmValues(Backend(d)) ELSE Values(d)
  IN  IF ~NeedsInference(profiles) THEN {}
      ELSE CASE values.backend = "ollama" -> OllamaFindings(values.models, d)
             [] values.backend = "vllm" -> VllmFindings(values.models, d)
             [] OTHER -> {Finding("backend", "blocked", "backend")}

\* run_readiness: without a checkout or a configuration nothing else is looked at;
\* a request of unknown profiles is one for the pipeline.
PlannedProfiles(requested, d) == ParseProfiles(IF About(d, "profiles") = {} THEN requested ELSE {})
Findings(requested, d) ==
  LET profiles == PlannedProfiles(requested, d)
      host == CheckTools(d) \cup CheckResources(profiles, d)
              \cup {f \in Check(About(d, "profiles") # {}, "profiles", "blocked", "profiles") : f.status = "blocked"}
  IN  IF About(d, "root") # {} THEN {Finding("root", "blocked", "root")}
      ELSE IF About(d, "config") # {} THEN host \cup {Finding("config", "blocked", "config")}
      ELSE host \cup Good("config") \cup CheckPassword(profiles, d)
           \cup CheckPaths(profiles, d) \cup CheckServices(profiles, d) \cup CheckDatabase(profiles, d)
           \cup CheckContracts(profiles, d) \cup CheckInference(profiles, d)
           \cup {f \in Check(About(d, "report") # {}, "report", "blocked", "report") : f.status = "blocked"}
Status(findings) ==
  LET statuses == {f.status : f \in findings}
  IN  IF "blocked" \in statuses THEN "blocked" ELSE IF "degraded" \in statuses THEN "degraded" ELSE "ready"

\* A start is refused, or fails: without docker, a configuration or a password,
\* on roots that are not fit, behind the closed gate, for vLLM without a GPU.
UpRefused(profiles, d) ==
  \/ ~ComposeAnswers(d)
  \/ \E part \in {"root", "config", "profiles"} : About(d, part) # {}
  \/ About(d, "paths") \cap {"unsafe", "elsewhere"} # {}
  \/ HasDatabase(profiles) /\ "none" \in About(d, "password")
  \/ GraphAgeRefused(profiles, About(d, "gate") = {})
  \/ "vllm" \in ServicesFor(profiles) /\ About(d, "gpu") # {}
Up(profiles, d) ==
  IF UpRefused(profiles, d) THEN d
  ELSE {x \in d : x[1] \notin ServicesFor(profiles) /\ ~(x[1] = "served" /\ "vllm" \in ServicesFor(profiles))}

\* What is left of the troubles when the operator does what is advised.
Follow(profiles, d, action) ==
  CASE action = "none" -> d
    [] action = "services-up" -> Up(profiles, d)
    [] action = "pipeline-up" -> Up(ParseProfiles({}), d)
    [] action = "vllm-up" -> Up({"vllm"}, d)
    [] action = "image" -> {x \in d : x[1] \notin Extensions}
    [] OTHER -> {x \in d : x[1] # action}

AskReadinessOf(requested, troubles) ==
  Ask([op |-> "readiness", profiles |-> PlannedProfiles(requested, troubles), troubles |-> troubles,
       report |-> Findings(requested, troubles)])

-----------------------------------------------------------------------------
(* A report that is ready tells the truth: the services asked for run, the *)
(* extensions and models that they are asked for with are there, and       *)
(* starting them would not be refused.                                     *)
ReadyIsUsable ==
  call.op = "readiness" /\ Status(call.report) = "ready" =>
    LET d == call.troubles
        profiles == call.profiles
        inference == IF "vllm" \in ServicesFor(profiles) THEN "vllm" ELSE Backend(d)
    IN  /\ ~UpRefused(profiles, d)
        /\ \A s \in ServicesFor(profiles) : About(d, s) \cap {"absent", "starting"} = {}
        /\ HasDatabase(profiles) => About(d, "password") = {} /\ About(d, "database") = {}
        /\ \A e \in ExtensionsFor(profiles, TRUE) : About(d, e) = {}
        /\ IsPipeline(profiles) => About(d, "contracts") \subseteq {"none"}
        /\ NeedsInference(profiles) =>
             CASE inference = "ollama" -> About(d, "ollama") = {} /\ About(d, "models") = {}
               [] OTHER -> About(d, "vllm") = {} /\ About(d, "served") = {} /\ PassedModel(Backend(d)) \in VllmValues(Backend(d)).models

(* No dead end: a report that is not ready advises something that helps,   *)
(* on every host but those whose memory cannot be measured, whose checkout *)
(* ships migrations, whose database does not answer the query, with a      *)
(* misplaced root that the request does not inspect, or that expects of    *)
(* vLLM models it does not serve, or vLLM without a GPU.                   *)
AdviceHelps ==
  LET d == call.troubles
      profiles == call.profiles
      stuck == \/ \E part \in {"memory", "migrations", "query"} : About(d, part) # {}
               \/ "elsewhere" \in About(d, "paths") /\ ~IsPipeline(profiles)
               \/ /\ Backend(d) = "vllm" /\ IsPipeline(profiles) /\ "vllm" \notin ServicesFor(profiles)
                  /\ About(d, "others") = {} \/ About(d, "gpu") # {}
  IN  call.op = "readiness" /\ Status(call.report) # "ready" =>
        stuck \/ \E f \in call.report : f.status # "ready" /\ Follow(profiles, d, f.action) # d

\* No command on the roots erases or writes what is not its own, and readiness
\* says what start-up then finds.
RuntimeHolds ==
  /\ SourcesKept
  /\ RunsKept
  /\ RefusedIsWhole
  /\ ReportInside
  /\ LayoutOutside
  /\ UpFollowsReadiness
  /\ ReadyIsUsable
  /\ AdviceHelps
=============================================================================
