----------------------------- MODULE Transforms -----------------------------
(***************************************************************************)
(* dbt transforms (transformations): processes parse, build and test the   *)
(* models of a derived generation, one process per generation at a time,   *)
(* and may make a tested generation the active one.  What a model computes *)
(* is left out: a relation is known by the request that built it and by    *)
(* whether all its tests have passed since.  A process may crash anywhere; *)
(* its lock and its dbt, which runs inside it, go with it.                 *)
(***************************************************************************)
EXTENDS Calls, Naturals

CONSTANTS Runner,           \* processes
          Generation,       \* sanitized run ids
          Model,            \* selectable models
          MaxRequests       \* bound: requests ever made

ASSUME RunnerAssumption == "none" \notin Runner

VARIABLE transforms

Idle == [pc |-> "idle"]
Nothing == [gen |-> "none", relations |-> {}]
Unbuilt == [by |-> 0, passed |-> FALSE]

TransformsInit ==
  transforms = [job |-> [r \in Runner |-> Idle], owner |-> [g \in Generation |-> "none"],
                rel |-> [g \in Generation |-> [m \in Model |-> Unbuilt]],
                active |-> Nothing, asked |-> 0]

At(r, pc) == transforms.job[r].pc = pc
Goes(r, pc) == [transforms EXCEPT !.job[r].pc = pc]

\* _fail, or a result that is written; then exclusive_generation lets go.
Leave(state, r) ==
  [state EXCEPT !.job[r] = Idle,
                !.owner = [g \in Generation |-> IF @[g] = r THEN "none" ELSE @[g]]]

AskTransform(r, command, gen, select, activate) ==
  /\ call.op \in {"none", "transform"} /\ call' = [op |-> "transform"]
  /\ At(r, "idle") /\ transforms.asked < MaxRequests
  /\ transforms' = [transforms EXCEPT
       !.asked = @ + 1,
       !.job[r] = [pc |-> "lock", id |-> transforms.asked + 1, command |-> command, gen |-> gen,
                   select |-> select, activate |-> activate,
                   active |-> "none", built |-> {}, relations |-> {}]]

\* exclusive_generation: refused without waiting.
Acquire(r) ==
  /\ At(r, "lock") /\ UNCHANGED call
  /\ LET gen == transforms.job[r].gen
     IN  IF transforms.owner[gen] # "none" THEN transforms' = Leave(transforms, r)
         ELSE transforms' = [Goes(r, "read") EXCEPT !.owner[gen] = r]

\* load_active_generation under the lock.
ReadActive(r) ==
  /\ At(r, "read") /\ UNCHANGED call
  /\ transforms' = [Goes(r, "assemble") EXCEPT !.job[r].active = transforms.active.gen]

\* Mutant: only the relations that the pointer lists are not built again.
AssembleUnlisted(r) ==
  /\ At(r, "assemble") /\ UNCHANGED call
  /\ LET job == transforms.job[r]
         listed == job.active = job.gen /\ job.select \cap transforms.active.relations # {}
     IN  IF listed /\ job.command = "build" THEN transforms' = Leave(transforms, r)
         ELSE transforms' = Goes(r, "dbt")

\* The active generation is parsed and tested apart from its evidence (checks/),
\* and never built.
Assemble(r) ==
  /\ At(r, "assemble") /\ UNCHANGED call
  /\ LET job == transforms.job[r]
     IN  \/ transforms' = Leave(transforms, r)              \* the project or the credentials
         \/ IF job.active = job.gen /\ job.command = "build" THEN transforms' = Leave(transforms, r)
            ELSE transforms' = Goes(r, "dbt")

\* dbt replaces a relation; its attached tests have not run.
BuildModel(r) ==
  /\ At(r, "dbt") /\ transforms.job[r].command = "build" /\ UNCHANGED call
  /\ \E m \in transforms.job[r].select \ transforms.job[r].built :
       transforms' = [transforms EXCEPT
         !.job[r].built = @ \cup {m},
         !.rel[transforms.job[r].gen][m] = [by |-> transforms.job[r].id, passed |-> FALSE]]

\* What dbt reports: it fails, or it succeeds and every attached test passed,
\* one warned, or some were not selected.
Outcomes(job) ==
  {"failed"} \cup
  (IF job.command \in {"parse", "compile"} THEN {"success"}
   ELSE IF /\ job.command = "build" => job.built = job.select
           /\ \A m \in job.select : transforms.rel[job.gen][m].by # 0
        THEN {"passed", "warned", "partial"} ELSE {})

\* validated_relations; the row counts of relations that were just tested exist.
Validated(job, outcome) == IF outcome = "passed" THEN job.select ELSE {}

\* What is known of the relations then: the row counts and tests are written.
AfterTests(rows, tested) ==
  [m \in Model |-> IF m \in tested THEN [by |-> rows[m].by, passed |-> TRUE] ELSE rows[m]]

\* invoke_dbt and the evidence it leaves; a success without complete evidence
\* is a ValidationEvidenceError.
Invoke(r) ==
  /\ At(r, "dbt") /\ UNCHANGED call
  /\ LET job == transforms.job[r]
     IN  \E outcome \in Outcomes(job) :
           LET after == [transforms EXCEPT
                 !.rel[job.gen] = AfterTests(@, Validated(job, outcome)),
                 !.job[r].relations = Validated(job, outcome),
                 !.job[r].pc = "written"]
           IN  transforms' = IF outcome \in {"failed", "success"} \/ Validated(job, outcome) # {}
                             THEN after ELSE Leave(after, r)

\* The result is written; activate_generation replaces the pointer.
Activate(r) ==
  /\ At(r, "written") /\ UNCHANGED call
  /\ LET job == transforms.job[r]
     IN  IF ~job.activate THEN transforms' = Goes(r, "publish")
         ELSE IF job.relations = {} THEN transforms' = Leave(transforms, r)
         ELSE transforms' = [Goes(r, "publish") EXCEPT
                !.active = [gen |-> job.gen, relations |-> job.relations]]

\* publish_result: copying may fail, and the pointer stays where it is.
Publish(r) == At(r, "publish") /\ UNCHANGED call /\ transforms' = Leave(transforms, r)

TransformCrash(r) == ~At(r, "idle") /\ UNCHANGED call /\ transforms' = Leave(transforms, r)

TransformsEnd ==
  /\ call.op = "transform" /\ \A r \in Runner : At(r, "idle")
  /\ call' = Ready
  /\ transforms' = [job |-> [r \in Runner |-> Idle], owner |-> [g \in Generation |-> "none"],
                    rel |-> [g \in Generation |-> [m \in Model |-> Unbuilt]],
                    active |-> Nothing, asked |-> 0]

TransformsNext ==
  \/ \E r \in Runner :
       \/ \E command \in {"parse", "build", "test"}, gen \in Generation,
             select \in (SUBSET Model) \ {{}}, activate \in BOOLEAN :
            AskTransform(r, command, gen, select, activate)
       \/ Acquire(r) \/ ReadActive(r) \/ Assemble(r) \/ BuildModel(r) \/ Invoke(r)
       \/ Activate(r) \/ Publish(r) \/ TransformCrash(r)
  \/ TransformsEnd

TransformSpec == call = Ready /\ TransformsInit /\ [][TransformsNext]_<<call, transforms>>

-----------------------------------------------------------------------------
(* Properties.                                                             *)

\* "Activation requires current invocation evidence for selected relations and
\* their required tests": every relation of the active generation exists, and
\* all its tests have passed on what it holds now.
PointerTested ==
  LET active == transforms.active
  IN  \A m \in active.relations :
        transforms.rel[active.gen][m].by # 0 /\ transforms.rel[active.gen][m].passed

\* "Active derived generations are immutable": whoever builds, no relation of
\* the generation the pointer names is replaced, not even one it does not list.
ActiveIsImmutable ==
  [][ transforms'.active # Nothing =>
        \A m \in Model : transforms.rel[transforms'.active.gen][m].by
                       = transforms'.rel[transforms'.active.gen][m].by ]_transforms

\* Whichever processes build, test and activate generations and die: the
\* active one is tested as it is, and stays as it is.
TransformsHold ==
  /\ []PointerTested
  /\ ActiveIsImmutable
=============================================================================
