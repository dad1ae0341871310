----------------------------- MODULE Resources -----------------------------
(***************************************************************************)
(* What a run takes of its host, decided before it is used.  The disks     *)
(* (pipeline/forecast): what the outputs cost at most, charged to the      *)
(* devices the configured roots lie on, the decision, the check that a     *)
(* retained forecast still speaks for a run, and the look at the free      *)
(* space before every stage.  The GPU (inference/scheduler and             *)
(* inference/policy): what a model needs, what the host has free, which    *)
(* models are resident, the choice of a device, and how the device is made *)
(* ready and given back.                                                   *)
(*                                                                         *)
(* Left out: the lower ends of the ranges, times, what is only reported;   *)
(* the lease of the GPU, which GpuScheduler models.  The memory of models  *)
(* is counted in quarters of a GiB.                                        *)
(***************************************************************************)
EXTENDS Calls, Integers, FiniteSetsExt, Functions

CONSTANTS
  LargeInput,        \* large_input_bytes
  SafetyReserve,     \* safety_reserve_bytes
  SiloVariables,     \* the variables of the archive silos
  Tablespaces,       \* the variables of the tablespaces
  Headroom,          \* DEFAULT_HEADROOM_GIB
  DatabaseReserve    \* DEFAULT_DB_RESERVE_GIB

ASSUME ReservesAssumption == SafetyReserve \in Nat /\ Headroom \in Nat /\ DatabaseReserve \in Nat

\* What the stages of a plan are told apart by.
StageNames == {"embed", "load-vector", "load-lexical", "graph", "other"}
GpuStages == {"embed"}
\* runtime_placements: the roots every configuration has, and those it may have.
DataRoots == {"RESULTS_DIR", "PGDATA_DIR", "RUNS_DIR", "SERVICE_STATE_DIR", "MODEL_CACHE_DIR", "TMP_DIR"}
PlacedRoots == SiloVariables \cup DataRoots \cup {"PG_WAL_DIR"} \cup Tablespaces
\* Their order, that of the silos and of the tablespaces left open.
RootRank(root) ==
  CASE root \in SiloVariables -> 0 [] root = "RESULTS_DIR" -> 1 [] root = "PGDATA_DIR" -> 2 [] root = "RUNS_DIR" -> 3
    [] root = "SERVICE_STATE_DIR" -> 4 [] root = "MODEL_CACHE_DIR" -> 5 [] root = "TMP_DIR" -> 6
    [] root = "PG_WAL_DIR" -> 7 [] OTHER -> 8
\* The storage classes of the roots matter only as source or not, and as the
\* two that suffer from a rotational device.
SlowRoots == {"PGDATA_DIR", "PG_WAL_DIR", "TMP_DIR"} \cup Tablespaces

-----------------------------------------------------------------------------
(* Costs: in hundredths of what indexing the archive takes at most.        *)
Persistent == {"normalized", "database_heap", "indexes", "vectors", "graph", "artifacts", "logs"}
Weights == [normalized |-> 43, database_heap |-> 22, indexes |-> 14, vectors |-> 10,
            graph |-> 5, artifacts |-> 4, logs |-> 2]
\* _active_families.
Active(family, plan) ==
  CASE family = "vectors" -> IF plan \cap {"embed", "load-vector"} # {} THEN Weights.vectors ELSE 0
    [] family = "graph"   -> IF "graph" \in plan THEN Weights.graph ELSE 0
    [] family = "indexes" -> IF "load-lexical" \in plan THEN Weights.indexes ELSE 5
    [] OTHER              -> Weights[family]

Costs == Persistent \cup {"wal", "temp", "staging", "rebuild", "rollback"}
\* estimate_outputs: the upper ends.
Upper(facts) == Max({facts.bytes, 1}) * facts.amplification * (IF facts.truncated THEN 2 ELSE 1)
Share(family, upper, plan) == (upper * Active(family, plan)) \div 100
Cost(cost, upper, plan) ==
  CASE cost = "wal"      -> Share("database_heap", upper, plan) \div 4
    [] cost = "temp"     -> (upper * 15) \div 100
    [] cost = "staging"  -> upper \div 5
    [] cost = "rebuild"  -> Share("indexes", upper, plan) + Share("vectors", upper, plan) + Share("graph", upper, plan)
    [] cost = "rollback" -> (upper \div 5) \div 5
    [] OTHER             -> Share(cost, upper, plan)
Output(facts) == [c \in Costs |-> Cost(c, Upper(facts), facts.plan)]

\* The root each cost is charged to.
CategoryRoot(cost) ==
  CASE cost \in {"artifacts", "normalized"}       -> "RESULTS_DIR"
    [] cost \in {"logs", "rollback", "staging"}   -> "RUNS_DIR"
    [] cost = "temp"                              -> "TMP_DIR"
    [] cost = "wal"                               -> "PG_WAL_DIR"
    [] OTHER                                      -> "PGDATA_DIR"
\* _assigned_root: without a directory of its own the log lies with the data.
AssignedRoot(cost, facts) ==
  IF CategoryRoot(cost) \in DOMAIN facts.place THEN {CategoryRoot(cost)}
  ELSE IF CategoryRoot(cost) = "PG_WAL_DIR" THEN {"PGDATA_DIR"} ELSE {}

\* _device_peak: the costs of a device, and what they are together.
Charged(roots, facts) == {c \in Costs : AssignedRoot(c, facts) \cap roots # {}}
Total(costs, output) == MapThenSumSet(LAMBDA c : output[c], costs)

-----------------------------------------------------------------------------
(* Devices: all roots that cannot be looked at make one of their own.      *)
DeviceOf(root, facts) == IF root \in facts.lost THEN "inaccessible" ELSE facts.place[root]
Devices(facts) == {DeviceOf(r, facts) : r \in DOMAIN facts.place}

DecideDevice(budget) ==
  IF budget.id = "inaccessible" THEN "blocked"
  ELSE IF budget.roots \subseteq SiloVariables THEN "ready"
  ELSE IF budget.free < budget.peak + budget.reserve THEN "blocked"
  ELSE IF budget.rotational /\ budget.roots \cap SlowRoots # {} THEN "degraded" ELSE "ready"

\* budget_devices.  A device is looked at again by the path of its first root.
FirstRoot(roots) == CHOOSE r \in roots : \A q \in roots : RootRank(r) <= RootRank(q)
DeviceBudget(id, facts) ==
  LET roots == {r \in DOMAIN facts.place : DeviceOf(r, facts) = id}
      peak == Total(Charged(roots, facts), Output(facts))
  IN  [id |-> id, roots |-> roots, path |-> FirstRoot(roots), peak |-> peak,
       reserve |-> Max({SafetyReserve, peak \div 20}),
       free |-> IF id = "inaccessible" THEN 0 ELSE facts.free[id],
       rotational |-> id \in facts.rotational]

\* _stage_decision, in its order.
StageDecision(stage, facts) ==
  IF stage \in facts.cached THEN "ready"
  ELSE IF stage \in GpuStages /\ ~facts.gpu THEN "degraded"
  ELSE IF facts.bytes >= LargeInput /\ ~facts.comparable THEN "unknown"
  ELSE IF facts.sample \/ facts.truncated \/ ~facts.comparable THEN "degraded" ELSE "ready"

\* _overall: low confidence degrades.
Overall(stages, devices, facts) ==
  IF "blocked" \in devices \/ "unknown" \in stages THEN "blocked"
  ELSE IF "degraded" \in devices \cup stages \/ ~facts.comparable \/ facts.sample \/ facts.truncated
  THEN "degraded" ELSE "ready"

\* build_forecast.
BuildForecast(facts) ==
  LET devices == {DeviceBudget(id, facts) : id \in Devices(facts)}
  IN  [plan |-> facts.plan, cached |-> facts.cached, config |-> facts.config,
       amplification |-> facts.amplification, devices |-> devices,
       decision |-> Overall({StageDecision(s, facts) : s \in facts.plan},
                            {DecideDevice(b) : b \in devices}, facts)]

-----------------------------------------------------------------------------
\* require_fresh_forecast: of what a forecast was made from, the
\* configuration, the envelope, the plan and its cache hits.
FreshForAnyPlan(document, facts) ==
  /\ document.config = facts.config /\ document.amplification = facts.amplification
  /\ \A s \in facts.plan \cap document.plan : (s \in document.cached) = (s \in facts.cached)
FreshFor(document, facts) ==
  /\ document.config = facts.config /\ document.amplification = facts.amplification
  /\ facts.plan \subseteq document.plan
  /\ \A s \in facts.plan : (s \in document.cached) = (s \in facts.cached)

\* bind_forecast.
Bound(document, facts) ==
  IF ~FreshFor(document, facts) THEN "stale"
  ELSE IF document.decision = "blocked" THEN "refused" ELSE "bound"

\* recheck_free_space, before every stage.
HasRoom(budget, facts) ==
  /\ budget.id # "inaccessible" /\ budget.path \notin facts.lost
  /\ facts.free[facts.place[budget.path]] >= budget.peak + budget.reserve
SpaceGuard(document, facts) ==
  \A b \in document.devices : b.roots \subseteq SiloVariables \/ HasRoom(b, facts)

\* A forecast made of some facts, and a run begun when others hold.
AskForecast(then, now) ==
  LET document == BuildForecast(then)
  IN  Ask([op |-> "forecast", then |-> then, now |-> now, document |-> document,
           bound |-> Bound(document, now), guard |-> SpaceGuard(document, now)])

-----------------------------------------------------------------------------
(* Models: what one needs, and what of that the weights that are offloaded *)
(* do not take.                                                            *)
\* estimate_footprint: weights that are not offloaded, a cache that grows with
\* the context and the batch, and the runtime itself.
KvCache(footprint, context, batch) == footprint.kvPer1k * context * batch
WeightsOnGpu(footprint) ==
  IF footprint.weights < footprint.offload THEN 0 ELSE footprint.weights - footprint.offload
EstimateFootprint(request) ==
  WeightsOnGpu(request.footprint) + KvCache(request.footprint, request.context, request.batch)
    + request.footprint.overhead
\* ModelRequirement: what the caller declares takes the place of an estimate.
GpuNeed(request) == IF request.gpu > 0 THEN request.gpu ELSE EstimateFootprint(request)
CpuNeed(request) == IF request.ram > 0 THEN request.ram ELSE request.footprint.ram

\* footprint_from_config: a declared offload is taken off for vLLM only.
FootprintOf(footprint, backend, offload) ==
  IF backend = "vllm" THEN [footprint EXCEPT !.offload = offload] ELSE footprint

-----------------------------------------------------------------------------
(* The host: what its first device has, the models that Ollama keeps there,*)
(* what vLLM and anybody else uses, and what of Ollama does not answer.    *)

ResidentVram(models) == FoldFunction(+, 0, models)
FreeVram(host) == host.total - ResidentVram(host.resident) - host.vllm - host.others
\* read_gpus: no device is none free.
FreeGpu(host) == IF host.total = 0 THEN 0 ELSE FreeVram(host)
VllmReady(host) == host.vllm > 0

\* OccupancyProbe.probe: only a client of Ollama lists models, and one that
\* does not answer lists none.
ProbeResident(host, request) ==
  IF request.backend = "ollama" /\ "list" \notin host.failing THEN host.resident ELSE << >>

OtherModels(resident, keep) == DOMAIN resident \ {keep}

\* _gpu_budget.
Reclaimable(resident, request) ==
  IF request.unload THEN ResidentVram(Restrict(resident, OtherModels(resident, request.model))) ELSE 0
Kept(resident, request) == ResidentVram(Restrict(resident, DOMAIN resident \cap {request.model}))
FreeAfterUnload(host, request) ==
  LET resident == ProbeResident(host, request)
  IN  FreeGpu(host) + Reclaimable(resident, request) + Kept(resident, request)

\* _vllm_blocks_ollama and _vllm_needs_start: what only service control helps.
VllmBlocks(host, request) == VllmReady(host) /\ request.backend = "ollama"
VllmNeedsStart(host, request) == request.backend = "vllm" /\ ~VllmReady(host)
ForeignRuntimeAllows(host, request) ==
  VllmBlocks(host, request) \/ VllmNeedsStart(host, request) => request.control

\* place_requirement, and the reason that is told.
RamFits(host, request) == host.ram - DatabaseReserve >= CpuNeed(request)
GpuFits(host, request) ==
  /\ host.total > 0
  /\ GpuNeed(request) + Headroom <= FreeAfterUnload(host, request)
  /\ ForeignRuntimeAllows(host, request)
PlaceRequirement(host, request) ==
  IF GpuFits(host, request) /\ RamFits(host, request) THEN "cuda"
  ELSE IF request.allowCpu /\ RamFits(host, request) THEN "cpu" ELSE "unavailable"
Reason(host, request) ==
  CASE ~RamFits(host, request) -> "ram"
    [] RamFits(host, request) /\ VllmBlocks(host, request) /\ ~request.control -> "stop vllm"
    [] RamFits(host, request) /\ VllmNeedsStart(host, request) /\ ~request.control -> "start vllm"
    [] OTHER -> "gpu"

-----------------------------------------------------------------------------
(* unload_resident, prepare_device and release_device.                     *)

Unload(host, models) ==
  [host EXCEPT !.resident = Restrict(host.resident, DOMAIN host.resident \ (models \ host.failing))]
UnloadResident(host, keep) ==
  IF "list" \in host.failing THEN host ELSE Unload(host, OtherModels(host.resident, keep))
\* By the occupancy of the decision; ForeignRuntimeAllows has been granted.  vLLM
\* that has just been started holds a first quarter.
PrepareDevice(host, request) ==
  IF request.backend = "vllm" THEN [host EXCEPT !.vllm = Max({@, 1})]
  ELSE LET alone == [host EXCEPT !.vllm = 0]
       IN  IF request.unload THEN UnloadResident(alone, request.model) ELSE alone
LoadModel(host, request) ==
  IF request.backend = "vllm" THEN [host EXCEPT !.vllm = Max({@, GpuNeed(request)})]
  ELSE [host EXCEPT !.resident = [m \in DOMAIN host.resident \cup {request.model} |->
                                    IF m = request.model THEN GpuNeed(request) ELSE host.resident[m]]]
ReleaseDevice(host, request) ==
  IF request.backend = "ollama" /\ request.release THEN Unload(host, {request.model}) ELSE host

\* A session from its decision to its end, nobody else using the host.
SessionOf(host, request) ==
  LET device == PlaceRequirement(host, request)
      ready == PrepareDevice(host, request)
  IN  IF device = "cuda"
      THEN [device |-> device, ready |-> ready, left |-> ReleaseDevice(LoadModel(ready, request), request)]
      ELSE [device |-> device, ready |-> host, left |-> host]

AskPlacement(host, request) ==
  LET session == SessionOf(host, request)
  IN  Ask([op |-> "place", host |-> host, request |-> request, reason |-> Reason(host, request),
           device |-> session.device, ready |-> session.ready, left |-> session.left])

-----------------------------------------------------------------------------
Forecasts == call.op = "forecast"
\* A retained forecast that binds, with the look at the free space before the
\* first stage, is worth one made anew: that one would not refuse either, as
\* long as the archive, its telemetry and the roots are what they were.
SameBut(then, now, changed) == \A f \in DOMAIN then \ changed : then[f] = now[f]
BoundIsCurrent ==
  Forecasts => LET changed == {"plan", "cached", "config", "amplification", "free", "rotational"}
               IN  call.bound = "bound" /\ call.guard /\ SameBut(call.then, call.now, changed)
                     => BuildForecast(call.now).decision # "blocked"

\* Every cost is charged to exactly one device, however the roots share them.
CostsChargedOnce ==
  Forecasts =>
    MapThenSumSet(LAMBDA b : b.peak, call.document.devices) = Total(Costs, Output(call.then))

\* With the roots, where they lie and the space the forecast was made with its
\* run starts: the guard never refuses what the forecast allowed.
AllowedStarts ==
  Forecasts /\ call.document.decision # "blocked" /\ SameBut(call.then, call.now, DOMAIN call.then \ {"place", "free", "lost"})
    => call.guard

(* A model that is given the device fits there: once the device is ready,  *)
(* its need and the headroom fit into what is free and what it holds       *)
(* already, vLLM runs exactly for a session of its own, and what the       *)
(* database reserves is left - as long as Ollama unloads what it is asked  *)
(* to.  A refused one leaves the host as it was.                           *)
GrantFits ==
  call.op = "place" =>
    LET request == call.request
        held == Kept(call.ready.resident, request)
    IN  /\ call.device = "cuda" /\ call.host.failing \subseteq {"list"} /\ request.backend = "ollama" =>
             /\ GpuNeed(request) + Headroom <= FreeVram(call.ready) + held
             /\ ~VllmReady(call.ready)
        /\ call.device = "cuda" /\ request.backend = "vllm" =>
             GpuNeed(request) + Headroom <= FreeVram(call.host) /\ VllmReady(call.ready)
        /\ call.device # "unavailable" => CpuNeed(request) + DatabaseReserve <= call.host.ram
        /\ call.device # "cuda" => call.left = call.host

(* A session of Ollama gives back what it took: its model is unloaded,     *)
(* what is left was there before, and at least as much is free; vLLM is    *)
(* stopped or started for a session that was allowed to do so only.        *)
SessionGivesBack ==
  call.op = "place" =>
    LET request == call.request
        left == call.left
    IN  /\ call.device = "cuda" /\ request.backend = "ollama" /\ request.release /\ request.model \notin call.host.failing =>
             /\ request.model \notin DOMAIN left.resident /\ FreeVram(left) >= FreeVram(call.host)
             /\ \A m \in DOMAIN left.resident : m \in DOMAIN call.host.resident /\ left.resident[m] = call.host.resident[m]
        /\ ~request.control => VllmReady(left) = VllmReady(call.host)
        /\ ~request.unload => DOMAIN call.host.resident \subseteq DOMAIN left.resident \cup {request.model}

\* What is granted of a disk or a device is there when it is used, is charged
\* once, and is given back.
ResourcesHold ==
  /\ BoundIsCurrent
  /\ CostsChargedOnce
  /\ AllowedStarts
  /\ GrantFits
  /\ SessionGivesBack
=============================================================================
