------------------------- MODULE SharedStateProofs -------------------------
(***************************************************************************)
(* Proofs about processes that work side by side: the transforms, for      *)
(* every set of runners, generations and models and any number of          *)
(* requests; the loads of the canonical tables, for any sessions, tables   *)
(* and rows; the bundles that evaluations publish; and the sessions of     *)
(* GpuScheduler, for every set of threads and processes.                   *)
(***************************************************************************)
EXTENDS Transforms, StoreTables, EvidenceBundles, GpuScheduler,
        FiniteSetTheorems, WellFoundedInduction, NaturalsInduction, TLAPS

-----------------------------------------------------------------------------
(***************************************************************************)
(* The transforms: the active generation is tested as it is and stays as   *)
(* it is.  The lock of a generation is what makes the pointer that a build *)
(* has read still hold while dbt replaces relations.                       *)
(***************************************************************************)

Relation == [by : Nat, passed : BOOLEAN]
Pcs == {"lock", "read", "assemble", "dbt", "written", "publish"}
Job == [pc : Pcs, id : Nat \ {0}, command : {"parse", "build", "test"}, gen : Generation,
        select : SUBSET Model, activate : BOOLEAN, active : Generation \cup {"none"},
        built : SUBSET Model, relations : SUBSET Model]

State == [job : [Runner -> {Idle} \cup Job], owner : [Generation -> Runner \cup {"none"}],
          rel : [Generation -> [Model -> Relation]],
          active : {Nothing} \cup [gen : Generation, relations : SUBSET Model], asked : Nat]

\* Beyond the lock a generation is its runner's.
OwnsIt(state) ==
  \A r \in Runner : state.job[r].pc \notin {"idle", "lock"} => state.owner[state.job[r].gen] = r

\* What a runner has read of the pointer is so still, as far as it asks for it.
ReadHolds(state) ==
  \A r \in Runner :
    /\ state.job[r].pc = "assemble" /\ state.active.gen = state.job[r].gen
       => state.job[r].active = state.job[r].gen
    /\ state.job[r].pc = "dbt" /\ state.job[r].command = "build"
       => state.active.gen # state.job[r].gen

\* What a runner may activate is tested.
IsTested(state, gen, relations) ==
  \A m \in relations : state.rel[gen][m].by # 0 /\ state.rel[gen][m].passed
Tested(state) ==
  /\ IsTested(state, state.active.gen, state.active.relations)
  /\ \A r \in Runner :
       state.job[r].pc = "written" => IsTested(state, state.job[r].gen, state.job[r].relations)

Good(state) == state \in State /\ OwnsIt(state) /\ ReadHolds(state) /\ Tested(state)

TransformsInv == Good(transforms)

-----------------------------------------------------------------------------
(* The steps, as changes of the parts of the state.                        *)

\* A runner is idle exactly when it has no request.
LEMMA Jobs ==
  ASSUME NEW state \in State, NEW r \in Runner
  PROVE  /\ state.job[r].pc = "idle" <=> state.job[r] = Idle
         /\ state.job[r].pc # "idle" => state.job[r] \in Job
  BY DEF State, Job, Idle, Pcs

\* No generation is built and none is active.
LEMMA InitGood == TransformsInit => Good(transforms)
  <1> SUFFICES ASSUME TransformsInit PROVE Good(transforms)
    OBVIOUS
  <1>1. transforms \in State
    BY DEF TransformsInit, State, Unbuilt, Relation
  <1>2. \A r \in Runner : transforms.job[r].pc = "idle"
    BY DEF TransformsInit, Idle
  <1>3. transforms.active.relations = {}
    BY DEF TransformsInit, Nothing
  <1>4. QED
    BY <1>1, <1>2, <1>3 DEF Good, OwnsIt, ReadHolds, Tested, IsTested

Moves(state, next, r, job) ==
  /\ next \in State /\ next.owner = state.owner /\ next.rel = state.rel /\ next.active = state.active
  /\ \A q \in Runner : next.job[q] = IF q = r THEN job ELSE state.job[q]

\* A step of a runner that changes nothing but its own request.
LEMMA ExceptMoves ==
  ASSUME NEW state \in State, NEW next, NEW r \in Runner, NEW job \in {Idle} \cup Job, NEW n \in Nat,
         next = [state EXCEPT !.job[r] = job, !.asked = n]
  PROVE  Moves(state, next, r, job)
  BY DEF State, Moves

\* One runner goes on to a job of the same generation, or stops; the locks,
\* the relations and the pointer stay.
LEMMA JobStep ==
  ASSUME NEW state, NEW next, Good(state), NEW r \in Runner, NEW job, Moves(state, next, r, job),
         job.pc \notin {"idle", "lock"} => state.owner[job.gen] = r,
         job.pc = "assemble" /\ state.active.gen = job.gen => job.active = job.gen,
         job.pc = "dbt" /\ job.command = "build" => state.active.gen # job.gen,
         job.pc = "written" => IsTested(state, job.gen, job.relations)
  PROVE  Good(next)
  <1>1. OwnsIt(next)
    BY DEF Good, OwnsIt, Moves
  <1>2. ReadHolds(next)
    BY DEF Good, ReadHolds, Moves
  <1>3. Tested(next)
    BY DEF Good, Tested, IsTested, Moves
  <1>4. QED
    BY <1>1, <1>2, <1>3 DEF Good, Moves

\* Stopping gives back the locks of the runner, and only those.
LEMMA LeaveGood ==
  ASSUME NEW state, Good(state), NEW r \in Runner
  PROVE  Good(Leave(state, r)) /\ Leave(state, r).rel = state.rel /\ Leave(state, r).active = state.active
  <1> DEFINE next == Leave(state, r)
  <1>1. /\ next \in State
        /\ next.rel = state.rel /\ next.active = state.active
        /\ \A q \in Runner : next.job[q] = IF q = r THEN Idle ELSE state.job[q]
        /\ \A g \in Generation : next.owner[g] = IF state.owner[g] = r THEN "none" ELSE state.owner[g]
    BY DEF Good, State, Leave
  <1> HIDE DEF next
  <1>2. OwnsIt(next)
    BY <1>1, Jobs DEF Good, OwnsIt, Idle, Job
  <1>3. ReadHolds(next)
    BY <1>1 DEF Good, ReadHolds, Idle
  <1>4. Tested(next)
    BY <1>1 DEF Good, Tested, IsTested, Idle
  <1>5. QED
    BY <1>1, <1>2, <1>3, <1>4 DEF Good, next

-----------------------------------------------------------------------------
(* The actions.  Each keeps the invariant, and what dbt has built of the    *)
(* generation that is active afterwards.                                    *)
Stays(state, next) ==
  next.active # Nothing =>
    \A m \in Model : state.rel[next.active.gen][m].by = next.rel[next.active.gen][m].by

\* A new request begins with nothing read and nothing locked.
LEMMA AskGood ==
  ASSUME Good(transforms), NEW r \in Runner, NEW command \in {"parse", "build", "test"},
         NEW gen \in Generation, NEW select \in SUBSET Model, NEW activate \in BOOLEAN,
         AskTransform(r, command, gen, select, activate)
  PROVE  Good(transforms') /\ Stays(transforms, transforms')
  <1> DEFINE job == [pc |-> "lock", id |-> transforms.asked + 1, command |-> command, gen |-> gen,
                     select |-> select, activate |-> activate,
                     active |-> "none", built |-> {}, relations |-> {}]
             n == transforms.asked + 1
  <1>1. job \in Job /\ n \in Nat
    BY DEF Job, Pcs, Good, State
  <1>2. transforms' = [transforms EXCEPT !.job[r] = job, !.asked = n]
    BY DEF AskTransform, Good, State
  <1>3. job.pc = "lock"
    OBVIOUS
  <1> HIDE DEF job, n
  <1>4. Moves(transforms, transforms', r, job)
    BY <1>1, <1>2, ExceptMoves DEF Good
  <1>5. QED
    BY <1>3, <1>4, JobStep DEF Stays, Moves

\* A runner goes on to pc with the job it has, or with another active.
LEMMA GoGood ==
  ASSUME Good(transforms), NEW r \in Runner, NEW job \in Job, Moves(transforms, transforms', r, job),
         ~At(r, "idle"), job.gen = transforms.job[r].gen, ~At(r, "lock"),
         job.pc = "assemble" /\ transforms.active.gen = job.gen => job.active = job.gen,
         job.pc = "dbt" /\ job.command = "build" => transforms.active.gen # job.gen,
         job.pc # "written"
  PROVE  Good(transforms') /\ Stays(transforms, transforms')
  <1>1. transforms.owner[job.gen] = r
    BY DEF Good, OwnsIt, At
  <1>2. Good(transforms')
    BY <1>1, JobStep
  <1>3. QED
    BY <1>2 DEF Stays, Moves

\* A runner that leaves gives up its lock, and the relations stay.
LEMMA LeavesGood ==
  ASSUME Good(transforms), NEW r \in Runner, transforms' = Leave(transforms, r)
  PROVE  Good(transforms') /\ Stays(transforms, transforms')
  BY LeaveGood DEF Stays

\* The lock of a generation is taken when nobody has it.
LEMMA AcquireGood ==
  ASSUME Good(transforms), NEW r \in Runner, Acquire(r)
  PROVE  Good(transforms') /\ Stays(transforms, transforms')
  <1> DEFINE gen == transforms.job[r].gen
             next == transforms'
  <1>1. CASE transforms.owner[gen] # "none"
    BY <1>1, LeavesGood DEF Acquire
  <1>2. CASE transforms.owner[gen] = "none"
    <2>1. transforms.job[r] \in Job /\ gen \in Generation
      BY Jobs DEF Acquire, At, Good, Job
    <2>2. transforms' = [Goes(r, "read") EXCEPT !.owner[gen] = r]
      BY <1>2 DEF Acquire
    <2>3. /\ next \in State /\ next.rel = transforms.rel /\ next.active = transforms.active
          /\ next.job[r].pc = "read" /\ next.job[r].gen = gen
          /\ \A q \in Runner : q # r => next.job[q] = transforms.job[q]
          /\ \A g \in Generation : next.owner[g] = IF g = gen THEN r ELSE transforms.owner[g]
      BY <2>1, <2>2 DEF Goes, Good, State, Job, Pcs
    <2> HIDE DEF next
    <2>4. OwnsIt(next)
      BY <1>2, <2>1, <2>3, Jobs, RunnerAssumption DEF Good, OwnsIt, Job
    <2>5. ReadHolds(next)
      BY <2>3 DEF Good, ReadHolds
    <2>6. Tested(next)
      BY <2>3 DEF Good, Tested, IsTested
    <2>7. QED
      BY <2>3, <2>4, <2>5, <2>6 DEF Good, Stays, next
  <1>3. QED
    BY <1>1, <1>2

\* What is read of the pointer under the lock stays true under it.
LEMMA ReadGood ==
  ASSUME Good(transforms), NEW r \in Runner, ReadActive(r)
  PROVE  Good(transforms') /\ Stays(transforms, transforms')
  <1> DEFINE job == [transforms.job[r] EXCEPT !.pc = "assemble", !.active = transforms.active.gen]
  <1>1. transforms.job[r] \in Job /\ transforms.job[r].pc = "read"
    BY Jobs DEF ReadActive, At, Good
  <1>2. transforms.active.gen \in Generation \cup {"none"}
    BY DEF Good, State, Nothing
  <1>3. job \in Job /\ job.pc = "assemble" /\ job.gen = transforms.job[r].gen /\ job.active = transforms.active.gen
    BY <1>1, <1>2 DEF Job, Pcs
  <1>4. Moves(transforms, transforms', r, job)
    BY <1>1, <1>3 DEF ReadActive, Goes, Good, State, Moves
  <1> HIDE DEF job
  <1>5. QED
    BY <1>1, <1>3, <1>4, GoGood DEF At

\* Assembling the evidence changes no relation and no pointer.
LEMMA AssembleGood ==
  ASSUME Good(transforms), NEW r \in Runner, Assemble(r)
  PROVE  Good(transforms') /\ Stays(transforms, transforms')
  <1> DEFINE job == [transforms.job[r] EXCEPT !.pc = "dbt"]
  <1>1. transforms.job[r] \in Job /\ transforms.job[r].pc = "assemble"
    BY Jobs DEF Assemble, At, Good
  <1>2. job \in Job /\ job.pc = "dbt" /\ job.gen = transforms.job[r].gen /\ job.command = transforms.job[r].command
    BY <1>1 DEF Job, Pcs
  <1>3. CASE transforms' = Leave(transforms, r)
    BY <1>3, LeavesGood
  <1>4. CASE /\ transforms' = Goes(r, "dbt")
             /\ ~(transforms.job[r].active = transforms.job[r].gen /\ transforms.job[r].command = "build")
    <2>1. Moves(transforms, transforms', r, job)
      BY <1>1, <1>2, <1>4 DEF Goes, Good, State, Moves
    <2>2. job.command = "build" => transforms.active.gen # job.gen
      BY <1>1, <1>2, <1>4 DEF Good, ReadHolds
    <2> HIDE DEF job
    <2>3. QED
      BY <1>1, <1>2, <2>1, <2>2, GoGood DEF At
  <1>5. QED
    BY <1>3, <1>4 DEF Assemble

\* dbt replaces a relation of a generation that only this runner has, and that
\* is not active.
LEMMA BuildGood ==
  ASSUME Good(transforms), NEW r \in Runner, BuildModel(r)
  PROVE  Good(transforms') /\ Stays(transforms, transforms')
  <1> DEFINE next == transforms'
             gen == transforms.job[r].gen
             id == transforms.job[r].id
  <1>1. transforms.job[r] \in Job /\ transforms.job[r].pc = "dbt" /\ transforms.job[r].command = "build"
    BY Jobs DEF BuildModel, At, Good
  <1>2. PICK m \in Model :
          transforms' = [transforms EXCEPT !.job[r].built = @ \cup {m},
                                           !.rel[gen][m] = [by |-> id, passed |-> FALSE]]
    BY <1>1 DEF BuildModel, Job
  <1>3. gen \in Generation /\ id \in Nat \ {0}
    BY <1>1 DEF Job
  <1>4. /\ next \in State /\ next.owner = transforms.owner /\ next.active = transforms.active
        /\ \A q \in Runner : next.job[q].pc = transforms.job[q].pc
        /\ \A q \in Runner : q # r => next.job[q] = transforms.job[q]
        /\ next.job[r].gen = gen /\ next.job[r].command = "build"
        /\ \A g \in Generation : g # gen => next.rel[g] = transforms.rel[g]
    <2> DEFINE job == [transforms.job[r] EXCEPT !.built = @ \cup {m}]
               row == [by |-> id, passed |-> FALSE]
    <2>1. job \in Job /\ job.pc = "dbt" /\ job.gen = gen /\ job.command = "build" /\ row \in Relation
      BY <1>1, <1>3 DEF Job, Relation
    <2>2. next = [transforms EXCEPT !.job[r] = job, !.rel[gen][m] = row]
      BY <1>2 DEF Good, State
    <2> HIDE DEF job, row, gen, next
    <2>3. next \in State /\ next.owner = transforms.owner /\ next.active = transforms.active
      BY <2>1, <2>2, <1>3 DEF Good, State
    <2>4. \A q \in Runner : next.job[q] = IF q = r THEN job ELSE transforms.job[q]
      BY <2>2 DEF Good, State
    <2>5. \A g \in Generation : g # gen => next.rel[g] = transforms.rel[g]
      BY <2>2 DEF Good, State
    <2>6. QED
      BY <1>1, <2>1, <2>3, <2>4, <2>5
  <1>5. transforms.active.gen # gen
    BY <1>1 DEF Good, ReadHolds
  <1>6. \A q \in Runner : q # r /\ transforms.job[q].pc = "written" => transforms.job[q].gen # gen
    BY <1>1 DEF Good, OwnsIt
  <1>7. \A q \in Runner : transforms.job[q].pc = "written" => transforms.job[q].gen \in Generation
    BY Jobs DEF Good, Job
  <1>8. transforms.active = Nothing \/ transforms.active.gen \in Generation
    BY DEF Good, State
  <1> HIDE DEF next, gen, id
  <1>9. OwnsIt(next) /\ ReadHolds(next)
    BY <1>1, <1>4, <1>5 DEF Good, OwnsIt, ReadHolds, gen
  <1>10. Tested(next)
    <2>1. IsTested(next, next.active.gen, next.active.relations)
      BY <1>4, <1>5, <1>8 DEF Good, Tested, IsTested, Nothing
    <2>2. ASSUME NEW q \in Runner, next.job[q].pc = "written"
          PROVE  IsTested(next, next.job[q].gen, next.job[q].relations)
      <3>1. q # r /\ next.job[q] = transforms.job[q] /\ transforms.job[q].gen \in Generation \ {gen}
        BY <1>1, <1>4, <1>6, <1>7, <2>2
      <3>2. QED
        BY <1>4, <2>2, <3>1 DEF Good, Tested, IsTested
    <2>3. QED
      BY <2>1, <2>2 DEF Tested
  <1>11. Stays(transforms, next)
    BY <1>4, <1>5, <1>8 DEF Stays
  <1>12. QED
    BY <1>4, <1>9, <1>10, <1>11 DEF Good, next

\* Tests only add to what has passed, and what is validated has been built.
LEMMA InvokeGood ==
  ASSUME Good(transforms), NEW r \in Runner, Invoke(r)
  PROVE  Good(transforms') /\ Stays(transforms, transforms')
  <1> DEFINE job == transforms.job[r]
  <1>1. job \in Job /\ job.pc = "dbt"
    BY Jobs DEF Invoke, At, Good
  <1>2. PICK outcome \in Outcomes(job) :
          LET after == [transforms EXCEPT
                !.rel[job.gen] = AfterTests(@, Validated(job, outcome)),
                !.job[r].relations = Validated(job, outcome),
                !.job[r].pc = "written"]
          IN  transforms' = IF outcome \in {"failed", "success"} \/ Validated(job, outcome) # {}
                            THEN after ELSE Leave(after, r)
    BY DEF Invoke
  <1> DEFINE tested == Validated(job, outcome)
             rows == AfterTests(transforms.rel[job.gen], tested)
             next == [job EXCEPT !.relations = tested, !.pc = "written"]
             after == [transforms EXCEPT !.rel[job.gen] = rows, !.job[r] = next]
  <1>3. transforms' = after \/ transforms' = Leave(after, r)
    <2>1. after = [transforms EXCEPT
            !.rel[job.gen] = AfterTests(@, Validated(job, outcome)),
            !.job[r].relations = Validated(job, outcome),
            !.job[r].pc = "written"]
      <3> HIDE DEF tested
      <3>1. transforms.rel[job.gen] \in [Model -> Relation]
        BY <1>1 DEF Good, State, Job
      <3>2. QED
        BY <1>1, <3>1 DEF Good, State, Job, tested
    <2>2. QED
      BY <1>2, <2>1
  <1>4. /\ rows \in [Model -> Relation]
        /\ \A m \in Model : rows[m].by = transforms.rel[job.gen][m].by
        /\ \A m \in Model : transforms.rel[job.gen][m].passed => rows[m].passed
        /\ \A m \in tested : m \in Model => rows[m].passed
    <2>1. transforms.rel[job.gen] \in [Model -> Relation]
      BY <1>1 DEF Good, State, Job
    <2> HIDE DEF job, tested
    <2>2. QED
      BY <2>1 DEF AfterTests, Relation
  <1>5. /\ next \in Job /\ next.pc = "written" /\ next.gen = job.gen
        /\ next.relations = tested /\ tested \subseteq Model
    BY <1>1 DEF Job, Pcs, Validated
  <1>6. \A m \in tested : transforms.rel[job.gen][m].by # 0
    BY DEF Outcomes, Validated
  <1>7. job.select \subseteq Model /\ job.gen \in Generation
    BY <1>1 DEF Job
  <1> HIDE DEF rows, next, tested
  <1>8. /\ after \in State /\ after.owner = transforms.owner /\ after.active = transforms.active
        /\ \A q \in Runner : after.job[q] = IF q = r THEN next ELSE transforms.job[q]
        /\ \A g \in Generation : after.rel[g] = IF g = job.gen THEN rows ELSE transforms.rel[g]
    BY <1>4, <1>5, <1>7 DEF Good, State
  <1> HIDE DEF after, job
  <1>9. OwnsIt(after) /\ ReadHolds(after)
    BY <1>1, <1>5, <1>8 DEF Good, OwnsIt, ReadHolds, job
  <1>10. \A g \in Generation, m \in Model :
           /\ after.rel[g][m].by = transforms.rel[g][m].by
           /\ transforms.rel[g][m].passed => after.rel[g][m].passed
    BY <1>4, <1>8
  <1>11. Tested(after)
    <2>1. IsTested(after, after.active.gen, after.active.relations)
      <3>1. transforms.active.relations = {} \/ transforms.active.gen \in Generation
        BY DEF Good, State, Nothing
      <3>2. transforms.active.relations \subseteq Model
        BY DEF Good, State, Nothing
      <3>3. QED
        BY <1>8, <1>10, <3>1, <3>2 DEF Good, Tested, IsTested
    <2>2. IsTested(after, job.gen, next.relations)
      BY <1>4, <1>5, <1>6, <1>7, <1>8 DEF IsTested
    <2>3. ASSUME NEW q \in Runner, q # r, transforms.job[q].pc = "written"
          PROVE  IsTested(after, transforms.job[q].gen, transforms.job[q].relations)
      <3>1. transforms.job[q].gen \in Generation /\ transforms.job[q].relations \subseteq Model
        BY <2>3, Jobs DEF Good, Job
      <3>2. QED
        BY <2>3, <3>1, <1>10 DEF Good, Tested, IsTested
    <2>4. QED
      BY <1>5, <1>8, <2>1, <2>2, <2>3 DEF Tested
  <1>12. Good(after)
    BY <1>8, <1>9, <1>11 DEF Good
  <1>13. Stays(transforms, after)
    BY <1>8, <1>10 DEF Good, State, Stays
  <1>14. QED
    BY <1>3, <1>12, <1>13, LeaveGood DEF Stays

\* The pointer moves to a generation whose lock this runner holds.
LEMMA ActivateGood ==
  ASSUME Good(transforms), NEW r \in Runner, Activate(r)
  PROVE  Good(transforms') /\ Stays(transforms, transforms')
  <1> DEFINE job == transforms.job[r]
             published == [job EXCEPT !.pc = "publish"]
             next == transforms'
  <1>1. job \in Job /\ job.pc = "written" /\ transforms \in State
    BY Jobs DEF Activate, At, Good
  <1>2. published \in Job /\ published.pc = "publish" /\ published.gen = job.gen
    BY <1>1 DEF Job, Pcs
  <1>3. CASE transforms' = Goes(r, "publish")
    <2>1. Moves(transforms, transforms', r, published)
      BY <1>1, <1>2, <1>3 DEF Goes, State, Moves
    <2> HIDE DEF published
    <2>2. QED
      BY <1>1, <1>2, <2>1, GoGood DEF At
  <1>4. CASE transforms' = Leave(transforms, r)
    BY <1>4, LeavesGood
  <1>5. CASE transforms' = [Goes(r, "publish") EXCEPT !.active = [gen |-> job.gen, relations |-> job.relations]]
    <2>1. job.gen \in Generation /\ job.relations \subseteq Model
      BY <1>1 DEF Job
    <2>2. /\ next \in State /\ next.owner = transforms.owner /\ next.rel = transforms.rel
          /\ next.active.gen = job.gen /\ next.active.relations = job.relations
          /\ \A q \in Runner : next.job[q] = IF q = r THEN published ELSE transforms.job[q]
      BY <1>1, <1>2, <1>5, <2>1 DEF Goes, State
    <2> HIDE DEF next, published
    <2>3. OwnsIt(next)
      BY <1>1, <1>2, <2>2 DEF Good, OwnsIt
    <2>4. \A q \in Runner : q # r /\ transforms.job[q].pc \notin {"idle", "lock"} => transforms.job[q].gen # job.gen
      BY <1>1 DEF Good, OwnsIt
    <2>5. ReadHolds(next)
      BY <1>2, <2>2, <2>4 DEF ReadHolds
    <2>6. Tested(next)
      BY <1>1, <1>2, <2>2 DEF Good, Tested, IsTested
    <2>7. QED
      BY <2>2, <2>3, <2>5, <2>6 DEF Good, Stays, next
  <1>6. QED
    BY <1>3, <1>4, <1>5 DEF Activate

-----------------------------------------------------------------------------
\* Every step of the runners keeps the invariant and what is active.
LEMMA StepGood ==
  ASSUME Good(transforms), [TransformsNext]_<<call, transforms>>
  PROVE  Good(transforms') /\ Stays(transforms, transforms')
  <1>1. ASSUME NEW r \in Runner,
               \E command \in {"parse", "build", "test"}, gen \in Generation,
                  select \in (SUBSET Model) \ {{}}, activate \in BOOLEAN :
                 AskTransform(r, command, gen, select, activate)
        PROVE  Good(transforms') /\ Stays(transforms, transforms')
    BY <1>1, AskGood
  <1>2. ASSUME NEW r \in Runner,
               \/ Acquire(r) \/ ReadActive(r) \/ Assemble(r) \/ BuildModel(r) \/ Invoke(r) \/ Activate(r)
        PROVE  Good(transforms') /\ Stays(transforms, transforms')
    BY <1>2, AcquireGood, ReadGood, AssembleGood, BuildGood, InvokeGood, ActivateGood
  <1>3. ASSUME NEW r \in Runner, Publish(r) \/ TransformCrash(r)
        PROVE  Good(transforms') /\ Stays(transforms, transforms')
    BY <1>3, LeavesGood DEF Publish, TransformCrash
  <1>4. CASE TransformsEnd
    <2>1. transforms' \in State /\ transforms'.active = Nothing
      BY <1>4 DEF TransformsEnd, State, Unbuilt, Relation
    <2>2. \A r \in Runner : transforms'.job[r].pc = "idle"
      BY <1>4 DEF TransformsEnd, Idle
    <2>3. QED
      BY <2>1, <2>2 DEF Good, OwnsIt, ReadHolds, Tested, IsTested, Stays, Nothing
  <1>5. CASE UNCHANGED <<call, transforms>>
    BY <1>5 DEF Stays
  <1>6. QED
    BY <1>1, <1>2, <1>3, <1>4, <1>5 DEF TransformsNext

\* The invariant that the properties rest on.
THEOREM TransformsInvariant == TransformSpec => []TransformsInv
  <1>1. TransformsInv /\ [TransformsNext]_<<call, transforms>> => TransformsInv'
    BY StepGood DEF TransformsInv
  <1>2. TransformsInit => TransformsInv
    BY InitGood DEF TransformsInv
  <1>3. QED
    BY <1>1, <1>2, PTL DEF TransformSpec

\* activate_generation takes only relations whose tests have passed, and they
\* are not built anew while it holds: PointerTested, for every process.
THEOREM PointerIsTested == TransformSpec => []PointerTested
  <1>1. TransformsInv => PointerTested
    BY DEF TransformsInv, Good, Tested, IsTested, PointerTested
  <1>2. QED
    BY <1>1, TransformsInvariant, PTL

\* No dbt build replaces a relation of the generation that is active.
THEOREM ActiveStays == TransformSpec => ActiveIsImmutable
  <1>1. TransformsInv /\ [TransformsNext]_<<call, transforms>>
        => [ transforms'.active # Nothing =>
               \A m \in Model : transforms.rel[transforms'.active.gen][m].by
                              = transforms'.rel[transforms'.active.gen][m].by ]_transforms
    BY StepGood DEF Stays, TransformsInv
  <1>2. QED
    BY <1>1, TransformsInvariant, PTL DEF TransformSpec, ActiveIsImmutable

\* Both, as the run checks them.
THEOREM TransformsAreSound == TransformSpec => TransformsHold
  BY PointerIsTested, ActiveStays, PTL DEF TransformsHold

-----------------------------------------------------------------------------
(***************************************************************************)
(* The canonical tables and the sessions that load them (StoreTables), for *)
(* any sessions, tables, rows and batches and any number of transactions.  *)
(***************************************************************************)
Entry == [id : Int, to : Int]
Keys == Table \X Int
Batch == [table : Table, batch : Seq(Entry)]
Load ==
  [at : {"begun", "copied", "loaded", "built"}, todo : Seq(Batch), keep : SUBSET Keys, lexical : BOOLEAN,
   mine : [Table -> SUBSET Entry], wrote : SUBSET Keys, uses : SUBSET Keys, staging : SUBSET Table]
Tables == [Table -> SUBSET Entry]
Sessions == [Session -> {NoTransaction} \cup Load]
StoreType == [rows : Tables, session : Sessions, loading : BOOLEAN, loads : Nat]

\* What a transaction has not yet committed.
Active(x) == x.at \in {"begun", "copied", "loaded"}
\* What a transaction sees of a table, and what it has deleted.
Seen(rows, x, t) == {r \in rows[t] : <<t, r.id>> \notin x.wrote} \cup x.mine[t]
SeenTables(rows, x) == [t \in Table |-> Seen(rows, x, t)]
Gone(x) == {k \in x.wrote : ~\E r \in x.mine[k[1]] : r.id = k[2]}

Texts == {"documents", "chunks"}
OneEach(embeddings) == \A e, f \in embeddings : e.to = f.to => e = f
Kept(rows) == \A f \in rows["facts"], t \in Texts : \E r \in rows[t] : r.id = f.to

\* Its own rows are those it wrote, in tables it has staged.
OwnRows(x) ==
  /\ \A t \in Table : \A r \in x.mine[t] : <<t, r.id>> \in x.wrote
  /\ \A k \in x.wrote : k[1] \in x.staging
  /\ x.at = "copied" => x.todo # << >> /\ Head(x.todo).table \in x.staging
  /\ \A f \in x.mine["facts"], t \in Texts : <<t, f.to>> \in x.uses
\* What would be committed is as the store has to be.
Committable(rows, x) == OneEach(Seen(rows, x, "embeddings")) /\ Kept(SeenTables(rows, x))
\* load-lexical on its way to the chunks of its snapshot.
ChunksOf(x) == RowKeys("chunks", x.mine["chunks"])
LastBatch(x, todo) ==
  \E n \in {1, 2} : /\ Len(todo) = n /\ todo[n].table = "chunks" /\ RowKeys("chunks", ToSet(todo[n].batch)) = x.keep
                    /\ n = 2 => todo[1].table = "documents"
Lexical(rows, x) ==
  x.lexical =>
    /\ x.at = "begun" => LastBatch(x, x.todo) \/ (x.todo = << >> /\ "chunks" \in x.staging /\ x.keep \subseteq ChunksOf(x))
    /\ x.at = "copied" => LastBatch(x, x.todo)
    /\ x.at = "loaded" => "chunks" \in x.staging /\ RowKeys("chunks", Seen(rows, x, "chunks")) = x.keep
Own(rows, x) == OwnRows(x) /\ Committable(rows, x) /\ Lexical(rows, x)

\* Two at once stage different tables, and neither deletes what the other refers to.
Beside(x, y) == x.staging \cap y.staging = {} /\ Gone(x) \cap y.uses = {}

Consistent(rows, sessions) ==
  /\ rows \in Tables /\ sessions \in Sessions
  /\ OneEach(rows["embeddings"]) /\ Kept(rows)
  /\ \A s \in Session : Active(sessions[s]) => Own(rows, sessions[s])
  /\ \A s, o \in Session : s # o /\ Active(sessions[s]) /\ Active(sessions[o]) => Beside(sessions[s], sessions[o])
TablesInv == store \in StoreType /\ Consistent(store.rows, store.session)

\* A load of any rows of any tables.
AnySnapshots == [documents : Seq(Entry), chunks : Seq(Entry)]
Steps == TablesNext(AnySnapshots, Batch)

-----------------------------------------------------------------------------
(* References, and positions in a batch.                                   *)

\* A fact refers to its document and its chunk.
LEMMA FactsReferToText ==
  /\ {"documents", "chunks", "facts", "embeddings"} \subseteq Table
  /\ \A t \in Texts : t \in ParentTables("facts")
  /\ "facts" \in ChildTables("chunks")
<1>1. <<"facts", "documents">> \in FactTables /\ <<"facts", "chunks">> \in FactTables
  BY DEF FactTables
<1> QED BY <1>1, TableAssumption DEF References, ParentTables, ChildTables, Texts

\* A set of positions that is not empty has a last one.
LEMMA LastPosition ==
  ASSUME NEW N \in Nat, NEW S, S \subseteq 1 .. N, S # {}
  PROVE  \E n \in S : \A m \in S : m <= n
<1> DEFINE R == {p \in Nat \X Nat : p[1] < p[2]}
           T == {N - n : n \in S}
<1>1. IsWellFoundedOn(R, Nat)
  <2>1. R = OpToRel(<, Nat)
    BY DEF OpToRel
  <2> QED BY <2>1, NatLessThanWellFounded, Zenon
<1>2. T \subseteq Nat /\ T # {}
  <2>1. \A n \in S : n \in 1 .. N /\ N - n \in Nat
    OBVIOUS
  <2> QED BY <2>1
<1>3. \E x \in T : \A y \in T : ~ (<<y, x>> \in R)
  <2> HIDE DEF R, T
  <2> QED BY <1>1, <1>2, WFMin, Zenon
<1>4. PICK n \in S : \A y \in T : ~ (<<y, N - n>> \in R)
  BY <1>3
<1>5. ASSUME NEW m \in S PROVE m <= n
  <2>1. N - m \in Nat /\ N - n \in Nat /\ N - m \in T
    OBVIOUS
  <2>2. ~ (N - m < N - n)
    BY <1>4, <2>1
  <2> QED BY <2>1, <2>2
<1> QED BY <1>5

\* What a batch leaves of a table: rows again, a row for each key there was or
\* is in the batch, and each either of before or of the batch.
Replaced(rows, batch, after) ==
  /\ after \subseteq rows \cup ToSet(batch) /\ after \subseteq Entry
  /\ \A r \in rows \cup ToSet(batch) : \E a \in after : a.id = r.id
  /\ \A a \in after : a \in ToSet(batch) \/ \A b \in ToSet(batch) : b.id # a.id
\* RowsAfter leaves the rows replaced.
LEMMA RowsAfterBatch ==
  ASSUME NEW rows, rows \subseteq Entry, NEW batch \in Seq(Entry)
  PROVE  Replaced(rows, batch, RowsAfter(rows, batch, Len(batch)))
<1> DEFINE after == RowsAfter(rows, batch, Len(batch))
<1>1. Len(batch) \in Nat /\ DOMAIN batch = 1 .. Len(batch) /\ \A k \in 1 .. Len(batch) : batch[k] \in Entry
  OBVIOUS
<1>2. ToSet(batch) = {batch[k] : k \in 1 .. Len(batch)}
  BY <1>1 DEF ToSet
<1>3. after \subseteq rows \cup ToSet(batch)
  BY <1>2 DEF RowsAfter
<1>4. ASSUME NEW id, \E k \in 1 .. Len(batch) : batch[k].id = id PROVE \E a \in after : a.id = id
  <2> DEFINE S == {k \in 1 .. Len(batch) : batch[k].id = id}
  <2>1. PICK n \in S : \A m \in S : m <= n
    BY <1>4, <1>1, LastPosition
  <2>2. \A l \in n + 1 .. Len(batch) : batch[l].id # batch[n].id
    BY <2>1, <1>1
  <2>3. batch[n] \in after
    BY <2>2, <2>1 DEF RowsAfter
  <2> QED BY <2>3, <2>1
<1>5. ASSUME NEW r \in rows \cup ToSet(batch) PROVE \E a \in after : a.id = r.id
  <2>1. CASE \E k \in 1 .. Len(batch) : batch[k].id = r.id
    BY <2>1, <1>4
  <2>2. CASE \A k \in 1 .. Len(batch) : batch[k].id # r.id
    BY <2>2, <1>2, <1>5 DEF RowsAfter
  <2> QED BY <2>1, <2>2
<1>6. \A a \in after : a \in ToSet(batch) \/ \A b \in ToSet(batch) : b.id # a.id
  BY <1>2 DEF RowsAfter
<1> QED BY <1>1, <1>2, <1>3, <1>5, <1>6 DEF Replaced

\* Embeddings that the trigger has let through are of different targets.
LEMMA EmbeddingsStayApart ==
  ASSUME NEW rows, rows \subseteq Entry, OneEach(rows), NEW batch \in Seq(Entry),
         \A n \in DOMAIN batch : ~TargetTaken("embeddings", RowsAfter(rows, batch, n - 1), batch[n])
  PROVE  OneEach(RowsAfter(rows, batch, Len(batch)))
<1> DEFINE N == Len(batch)
<1>1. N \in Nat /\ DOMAIN batch = 1 .. N /\ \A k \in 1 .. N : batch[k] \in Entry
  OBVIOUS
\* Row k is of the batch, f was there when it came, or is a row before it.
<1>2. ASSUME NEW k \in 1 .. N, \A l \in k + 1 .. N : batch[l].id # batch[k].id,
             NEW f \in RowsAfter(rows, batch, N), f \in RowsAfter(rows, batch, k - 1), f.to = batch[k].to
      PROVE  f = batch[k]
  <2>1. f.id = batch[k].id
    BY <1>2, <1>1 DEF TargetTaken
  <2>2. PICK j \in 1 .. N : f = batch[j] /\ \A l \in j + 1 .. N : batch[l].id # f.id
    BY <2>1, <1>2 DEF RowsAfter
  <2>3. ~(k > j) /\ ~(j > k)
    BY <2>1, <2>2, <1>2, <1>1
  <2> QED BY <2>2, <2>3, <1>1
<1>3. ASSUME NEW k \in 1 .. N, \A l \in k + 1 .. N : batch[l].id # batch[k].id,
             NEW f \in rows, \A l \in 1 .. N : batch[l].id # f.id, f.to = batch[k].to
      PROVE  f = batch[k]
  <2>1. f \in RowsAfter(rows, batch, N) /\ f \in RowsAfter(rows, batch, k - 1)
    BY <1>3, <1>1 DEF RowsAfter
  <2> QED BY <2>1, <1>2, <1>3
<1>4. ASSUME NEW k \in 1 .. N, \A l \in k + 1 .. N : batch[l].id # batch[k].id,
             NEW j \in 1 .. N, \A l \in j + 1 .. N : batch[l].id # batch[j].id, j < k, batch[j].to = batch[k].to
      PROVE  batch[j] = batch[k]
  <2>1. batch[j] \in RowsAfter(rows, batch, N) /\ batch[j] \in RowsAfter(rows, batch, k - 1)
    BY <1>4, <1>1 DEF RowsAfter
  <2> QED BY <2>1, <1>2, <1>4
<1>5. ASSUME NEW e \in RowsAfter(rows, batch, N), NEW f \in RowsAfter(rows, batch, N), e.to = f.to
      PROVE  e = f
  <2> DEFINE Old(r) == r \in rows /\ \A l \in 1 .. N : batch[l].id # r.id
             New(r, k) == r = batch[k] /\ \A l \in k + 1 .. N : batch[l].id # batch[k].id
  <2>1. ASSUME NEW r \in RowsAfter(rows, batch, N) PROVE Old(r) \/ \E k \in 1 .. N : New(r, k)
    BY DEF RowsAfter
  <2>2. CASE Old(e) /\ Old(f)
    BY <2>2, <1>5 DEF OneEach
  <2>3. ASSUME NEW k \in 1 .. N, New(e, k), Old(f) PROVE e = f
    BY <2>3, <1>3, <1>5
  <2>4. ASSUME NEW k \in 1 .. N, New(f, k), Old(e) PROVE e = f
    BY <2>4, <1>3, <1>5
  <2>5. ASSUME NEW k \in 1 .. N, New(e, k), NEW j \in 1 .. N, New(f, j) PROVE e = f
    <3>1. CASE k = j
      BY <3>1, <2>5
    <3>2. CASE k < j
      BY <3>2, <2>5, <1>4, <1>5
    <3>3. CASE j < k
      BY <3>3, <2>5, <1>4, <1>5
    <3> QED BY <3>1, <3>2, <3>3
  <2> HIDE DEF Old, New
  <2> QED BY <2>1, <2>2, <2>3, <2>4, <2>5
<1> QED BY <1>5 DEF OneEach

-----------------------------------------------------------------------------
(* The steps, as changes of one session.                                   *)

\* Only one session changes, and the tables do not.
LEMMA OneChanges ==
  ASSUME NEW rows, NEW sessions, Consistent(rows, sessions), NEW s \in Session, NEW x \in {NoTransaction} \cup Load,
         Active(x) => Own(rows, x),
         \A o \in Session \ {s} : Active(x) /\ Active(sessions[o]) => Beside(x, sessions[o]) /\ Beside(sessions[o], x)
  PROVE  Consistent(rows, [sessions EXCEPT ![s] = x])
<1> DEFINE after == [sessions EXCEPT ![s] = x]
<1>1. after \in Sessions /\ after[s] = x /\ \A o \in Session \ {s} : after[o] = sessions[o]
  BY DEF Consistent, Sessions
<1> HIDE DEF after
<1>2. \A t \in Session : Active(after[t]) => Own(rows, after[t])
  <2> TAKE t \in Session
  <2>1. CASE t = s
    BY <2>1, <1>1
  <2>2. CASE t # s
    BY <2>2, <1>1 DEF Consistent
  <2> QED BY <2>1, <2>2
<1>3. \A t, o \in Session : t # o /\ Active(after[t]) /\ Active(after[o]) => Beside(after[t], after[o])
  <2> TAKE t, o \in Session
  <2>1. CASE t = s /\ o # s
    BY <2>1, <1>1
  <2>2. CASE t # s /\ o = s
    BY <2>2, <1>1
  <2>3. CASE t # s /\ o # s
    BY <2>3, <1>1 DEF Consistent
  <2> QED BY <2>1, <2>2, <2>3
<1>4. Consistent(rows, after)
  BY <1>1, <1>2, <1>3 DEF Consistent
<1> QED BY <1>4 DEF after

\* A transaction stays as it is when another commits.
LEMMA OthersCommit ==
  ASSUME NEW rows \in Tables, Kept(rows), NEW x \in Load, NEW y \in Load,
         Own(rows, x), Own(rows, y), Beside(x, y), Beside(y, x)
  PROVE  Own(SeenTables(rows, x), y)
<1> DEFINE next == SeenTables(rows, x)
<1>0. {"documents", "chunks", "facts", "embeddings"} \subseteq Table
  BY FactsReferToText
<1>1. ASSUME NEW t \in Table, t \in y.staging PROVE next[t] = rows[t]
  <2>1. t \notin x.staging
    BY <1>1 DEF Beside
  <2>2. ASSUME NEW r \in Entry PROVE <<t, r.id>> \notin x.wrote
    <3>1. <<t, r.id>> \in x.wrote => <<t, r.id>>[1] \in x.staging
      BY DEF Own, OwnRows
    <3> QED BY <3>1, <2>1
  <2>3. x.mine[t] = {}
    BY <2>2 DEF Own, OwnRows, Load
  <2>4. rows[t] \subseteq Entry
    BY DEF Tables
  <2> QED BY <2>2, <2>3, <2>4 DEF SeenTables, Seen
<1>2. ASSUME NEW t \in Table, t \notin y.staging PROVE Seen(next, y, t) = next[t]
  <2>2. ASSUME NEW r \in Entry PROVE <<t, r.id>> \notin y.wrote
    <3>1. <<t, r.id>> \in y.wrote => <<t, r.id>>[1] \in y.staging
      BY DEF Own, OwnRows
    <3> QED BY <3>1, <1>2
  <2>3. y.mine[t] = {}
    BY <2>2 DEF Own, OwnRows, Load
  <2>4. next[t] \subseteq Entry
    BY DEF Tables, Load, SeenTables, Seen
  <2> QED BY <2>2, <2>3, <2>4 DEF Seen
<1>3. ASSUME NEW t \in Table, t \in y.staging PROVE Seen(next, y, t) = Seen(rows, y, t)
  BY <1>3, <1>1 DEF Seen
<1>4. OneEach(Seen(next, y, "embeddings"))
  <2>1. CASE "embeddings" \in y.staging
    BY <2>1, <1>0, <1>3 DEF Own, Committable
  <2>2. CASE "embeddings" \notin y.staging
    <3>1. next["embeddings"] = Seen(rows, x, "embeddings")
      BY <1>0 DEF SeenTables
    <3> QED BY <2>2, <3>1, <1>0, <1>2 DEF Own, Committable
  <2> QED BY <2>1, <2>2
<1>5. ASSUME NEW f \in Seen(next, y, "facts"), NEW t \in Texts PROVE \E r \in Seen(next, y, t) : r.id = f.to
  <2>0. t \in Table
    BY <1>0 DEF Texts
  <2>1. f \in y.mine["facts"] \/ (f \in Seen(rows, x, "facts") /\ <<"facts", f.id>> \notin y.wrote)
    BY <1>0 DEF Seen, SeenTables
\* Its own fact refers to nothing that the other has deleted.
  <2>2. CASE f \in y.mine["facts"]
    <3>1. <<t, f.to>> \in y.uses
      BY <2>2 DEF Own, OwnRows
    <3>2. <<t, f.to>> \notin Gone(x)
      BY <3>1 DEF Beside
    <3>3. PICK r \in Seen(rows, y, t) : r.id = f.to
      BY <2>2, <1>0, <2>0 DEF Own, Committable, Kept, SeenTables, Seen
    <3>4. CASE r \in y.mine[t]
      BY <3>3, <3>4 DEF Seen
    <3>5. CASE r \notin y.mine[t]
      <4>1. r \in rows[t] /\ <<t, r.id>> \notin y.wrote
        BY <3>3, <3>5 DEF Seen
      <4>2. CASE <<t, r.id>> \notin x.wrote
        BY <4>1, <4>2, <3>3, <2>0 DEF Seen, SeenTables
      <4>3. CASE <<t, r.id>> \in x.wrote
        <5>1. PICK q \in x.mine[t] : q.id = r.id
          <6>1. <<t, r.id>>[1] = t /\ <<t, r.id>>[2] = r.id
            OBVIOUS
          <6> QED BY <6>1, <4>3, <3>2, <3>3 DEF Gone
        <5>2. q \in next[t] /\ <<t, q.id>> \notin y.wrote
          BY <5>1, <4>1, <2>0 DEF SeenTables, Seen
        <5> QED BY <5>1, <5>2, <3>3 DEF Seen
      <4> QED BY <4>2, <4>3
    <3> QED BY <3>4, <3>5
\* A fact of the other, or of the store, refers to nothing that this one has deleted.
  <2>3. CASE f \in Seen(rows, x, "facts") /\ <<"facts", f.id>> \notin y.wrote
    <3>1. PICK r \in Seen(rows, x, t) : r.id = f.to
      BY <2>3, <1>0, <2>0 DEF Own, Committable, Kept, SeenTables
    <3>2. CASE <<t, f.to>> \notin y.wrote
      BY <3>1, <3>2, <2>0 DEF Seen, SeenTables
    <3>3. CASE <<t, f.to>> \in y.wrote /\ <<t, f.to>> \notin Gone(y)
      <4>1. <<t, f.to>>[1] = t /\ <<t, f.to>>[2] = f.to
        OBVIOUS
      <4>2. \E q \in y.mine[t] : q.id = f.to
        BY <3>3, <4>1 DEF Gone
      <4> QED BY <4>2 DEF Seen
    <3>4. CASE <<t, f.to>> \in Gone(y)
      <4>1. f \notin x.mine["facts"]
        BY <3>4 DEF Beside, Own, OwnRows
      <4>2. f \in Seen(rows, y, "facts")
        BY <4>1, <2>3 DEF Seen
      <4>3. PICK q \in Seen(rows, y, t) : q.id = f.to
        BY <4>2, <1>0, <2>0 DEF Own, Committable, Kept, SeenTables
      <4>4. <<t, f.to>>[1] = t /\ <<t, f.to>>[2] = f.to
        OBVIOUS
      <4>5. <<t, f.to>> \in y.wrote /\ \A q2 \in y.mine[t] : q2.id # f.to
        BY <3>4, <4>4 DEF Gone
      <4> QED BY <4>3, <4>5 DEF Seen
    <3> QED BY <3>2, <3>3, <3>4
  <2> QED BY <2>1, <2>2, <2>3
<1>6. Kept(SeenTables(next, y))
  <2>1. \A t \in {"facts"} \cup Texts : SeenTables(next, y)[t] = Seen(next, y, t)
    BY <1>0 DEF SeenTables, Texts
  <2> QED BY <2>1, <1>5 DEF Kept
<1>7. Lexical(next, y)
  <2>1. "chunks" \in y.staging => Seen(next, y, "chunks") = Seen(rows, y, "chunks")
    BY <1>0, <1>3
  <2> QED BY <2>1 DEF Own, Lexical
<1>8. OwnRows(y)
  BY DEF Own
<1> QED BY <1>4, <1>6, <1>7, <1>8 DEF Own, Committable

\* A transaction that begins is as the store is.
LEMMA Begins ==
  ASSUME NEW rows \in Tables, OneEach(rows["embeddings"]), Kept(rows),
         NEW todo \in Seq(Batch), NEW lexical \in BOOLEAN, NEW keep \in SUBSET Keys,
         NEW x, x = Transaction(todo, lexical, keep), lexical => LastBatch(x, todo)
  PROVE  /\ x \in Load /\ Own(rows, x)
         /\ \A y \in Load : Beside(x, y) /\ Beside(y, x)
<1>1. x \in Load
  BY DEF Transaction, Load, Tables
<1>2. ASSUME NEW t \in Table PROVE Seen(rows, x, t) = rows[t]
  BY DEF Seen, Transaction
<1>3. SeenTables(rows, x) = rows
  BY <1>2 DEF SeenTables, Tables
<1>4. OwnRows(x) /\ Gone(x) = {} /\ x.uses = {} /\ x.staging = {}
  BY FactsReferToText DEF OwnRows, Gone, Transaction
<1>5. Committable(rows, x)
  BY <1>2, <1>3, FactsReferToText DEF Committable
<1>6. Lexical(rows, x)
  BY DEF Lexical, Transaction
<1>7. \A y \in Load : Beside(x, y) /\ Beside(y, x)
  BY <1>4 DEF Beside
<1> QED BY <1>1, <1>4, <1>5, <1>6, <1>7 DEF Own

\* What is to load next is a batch of a table.
LEMMA HeadOfLoad ==
  ASSUME NEW x \in Load, x.todo # << >>
  PROVE  Head(x.todo).table \in Table /\ Head(x.todo).batch \in Seq(Entry)
<1>1. x.todo \in Seq(Batch)
  BY DEF Load
<1>2. Head(x.todo) \in Batch
  BY <1>1
<1> QED BY <1>2 DEF Batch

ToStage(x) == x \in Load /\ x.at = "begun" /\ x.todo # << >>
\* z is x with a table staged.
StagedRow(x, table, z) ==
  /\ z \in Load /\ z.at = "copied" /\ z.todo = x.todo /\ z.keep = x.keep /\ z.lexical = x.lexical /\ z.mine = x.mine
  /\ z.wrote = x.wrote /\ z.uses = x.uses /\ z.staging = x.staging \cup {table}
\* Staging a table that no other has staged changes nothing else.
LEMMA Copies ==
  ASSUME NEW rows \in Tables, NEW x, ToStage(x), Own(rows, x),
         NEW table, table = Head(x.todo).table, NEW z, StagedRow(x, table, z)
  PROVE  /\ Own(rows, z)
         /\ \A y \in Load : Beside(x, y) /\ Beside(y, x) /\ table \notin y.staging => Beside(z, y) /\ Beside(y, z)
<1>3. /\ z.at = "copied" /\ z.todo = x.todo /\ z.keep = x.keep /\ z.lexical = x.lexical /\ z.mine = x.mine
      /\ z.wrote = x.wrote /\ z.uses = x.uses /\ z.staging = x.staging \cup {table}
  BY DEF StagedRow
<1>4. OwnRows(z)
  BY <1>3 DEF Own, OwnRows, ToStage
<1>5. \A t \in Table : Seen(rows, z, t) = Seen(rows, x, t)
  BY <1>3 DEF Seen
<1>6. SeenTables(rows, z) = SeenTables(rows, x)
  BY <1>5 DEF SeenTables
<1>7. Committable(rows, z)
  BY <1>5, <1>6, FactsReferToText DEF Own, Committable
<1>8. Lexical(rows, z)
  <2>1. x.lexical => LastBatch(x, x.todo)
    BY DEF Own, Lexical, ToStage
  <2> QED BY <2>1, <1>3 DEF Lexical, LastBatch
<1>9. Gone(z) = Gone(x)
  BY <1>3 DEF Gone
<1> QED BY <1>3, <1>4, <1>7, <1>8, <1>9 DEF Own, Beside

\* A batch that is let through.
Merged(rows, x, table, batch) == RowsAfter(Seen(rows, x, table), batch, Len(batch))
Written(rows, x, table, batch) ==
  {r \in Merged(rows, x, table, batch) : <<table, r.id>> \in x.wrote \/ r \in ToSet(batch)}
BatchUses(table, batch) == {<<p, r.to>> : p \in ParentTables(table), r \in ToSet(batch)}
LetThrough(rows, x, table, batch) ==
  \A n \in DOMAIN batch :
    /\ ~TargetTaken(table, RowsAfter(Seen(rows, x, table), batch, n - 1), batch[n])
    /\ \A p \in ParentTables(table) : \E r \in Seen(rows, x, p) : r.id = batch[n].to
\* The keys of a batch.
LEMMA BatchKeys ==
  ASSUME NEW table \in Table, NEW batch \in Seq(Entry)
  PROVE  RowKeys(table, ToSet(batch)) \subseteq Keys /\ BatchUses(table, batch) \subseteq Keys
<1>1. DOMAIN batch = 1 .. Len(batch) /\ \A k \in 1 .. Len(batch) : batch[k] \in Entry
  OBVIOUS
<1>2. \A b \in ToSet(batch) : b.id \in Int /\ b.to \in Int
  BY <1>1 DEF ToSet, Entry
<1>3. RowKeys(table, ToSet(batch)) \subseteq Keys
  BY <1>2 DEF RowKeys, Keys
<1>4. BatchUses(table, batch) \subseteq Keys
  <2>1. ASSUME NEW k \in BatchUses(table, batch) PROVE k \in Keys
    <3>1. PICK p \in ParentTables(table), b \in ToSet(batch) : k = <<p, b.to>>
      BY <2>1 DEF BatchUses
    <3>2. p \in Table
      BY DEF ParentTables
    <3> QED BY <3>1, <3>2, <1>2 DEF Keys
  <2> QED BY <2>1
<1> QED BY <1>3, <1>4

\* z is x with the batch written.
Wrote(rows, x, table, batch, z) ==
  /\ z \in Load /\ z.at = "begun" /\ z.todo = Tail(x.todo) /\ z.keep = x.keep /\ z.lexical = x.lexical
  /\ z.staging = x.staging /\ z.wrote = x.wrote \cup RowKeys(table, ToSet(batch))
  /\ z.uses = x.uses \cup BatchUses(table, batch)
  /\ z.mine = [x.mine EXCEPT ![table] = Written(rows, x, table, batch)]

\* A batch that is let through leaves what would be committed in order.
LEMMA Writes ==
  ASSUME NEW rows \in Tables, NEW x \in Load, x.at = "copied", Own(rows, x), NEW table, NEW batch, NEW z,
         table = Head(x.todo).table, batch = Head(x.todo).batch,
         Wrote(rows, x, table, batch, z), LetThrough(rows, x, table, batch)
  PROVE  Own(rows, z) /\ Gone(z) \subseteq Gone(x)
<1> DEFINE V == Seen(rows, x, table)
           after == Merged(rows, x, table, batch)
<1>0. {"documents", "chunks", "facts", "embeddings"} \subseteq Table
  BY FactsReferToText
<1>1. x.todo # << >> /\ table \in Table /\ batch \in Seq(Entry) /\ table \in x.staging
  BY HeadOfLoad DEF Own, OwnRows
<1>2. V \subseteq Entry
  BY <1>1 DEF Seen, Load, Tables
<1>3. /\ after \subseteq V \cup ToSet(batch) /\ after \subseteq Entry
      /\ \A r \in V \cup ToSet(batch) : \E a \in after : a.id = r.id
      /\ \A a \in after : a \in ToSet(batch) \/ \A b \in ToSet(batch) : b.id # a.id
  <2>1. after = RowsAfter(V, batch, Len(batch))
    BY DEF Merged
  <2> HIDE DEF V, after
  <2>2. Replaced(V, batch, after)
    BY <2>1, <1>1, <1>2, RowsAfterBatch
  <2> QED BY <2>2 DEF Replaced
<1>4. \A r \in V : (\A b \in ToSet(batch) : b.id # r.id) => r \in after
  <2>1. \A k \in 1 .. Len(batch) : batch[k] \in ToSet(batch)
    BY <1>1 DEF ToSet
  <2> QED BY <2>1 DEF Merged, RowsAfter
<1> HIDE DEF V, after
<1>5. z.mine[table] = {r \in after : <<table, r.id>> \in x.wrote \/ r \in ToSet(batch)}
  BY <1>1 DEF Wrote, Load, Written, after
<1>6. \A t \in Table \ {table} : z.mine[t] = x.mine[t]
  BY <1>1 DEF Wrote, Load
<1>7. \A t \in Table, n \in Int : <<t, n>> \in z.wrote <=> <<t, n>> \in x.wrote \/ (t = table /\ \E b \in ToSet(batch) : b.id = n)
  BY DEF Wrote, RowKeys
<1>8. Seen(rows, z, table) = after
  <2>1. ASSUME NEW r \in Seen(rows, z, table) PROVE r \in after
    <3>1. CASE r \in z.mine[table]
      BY <3>1, <1>5
    <3>2. CASE r \in rows[table] /\ <<table, r.id>> \notin z.wrote
      <4>1. r \in Entry
        BY <3>2, <1>1 DEF Tables
      <4>2. r.id \in Int
        BY <4>1 DEF Entry
      <4>3. r \in V /\ \A b \in ToSet(batch) : b.id # r.id
        BY <4>2, <3>2, <1>7, <1>1 DEF V, Seen
      <4> QED BY <4>3, <1>4
    <3> QED BY <3>1, <3>2 DEF Seen
  <2>2. ASSUME NEW a \in after PROVE a \in Seen(rows, z, table)
    <3>1. a \in Entry /\ a.id \in Int
      BY <1>3 DEF Entry
    <3>2. CASE a \in ToSet(batch) \/ <<table, a.id>> \in x.wrote
      BY <3>2, <1>5 DEF Seen
    <3>3. CASE a \notin ToSet(batch) /\ <<table, a.id>> \notin x.wrote
      <4>1. a \in V /\ \A b \in ToSet(batch) : b.id # a.id
        BY <3>3, <1>3
      <4>2. a \in rows[table]
        BY <4>1, <3>3, <1>1 DEF V, Seen, Own, OwnRows
      <4>3. <<table, a.id>> \notin z.wrote
        BY <4>1, <3>3, <3>1, <1>7, <1>1
      <4> QED BY <4>2, <4>3 DEF Seen
    <3> QED BY <3>2, <3>3
  <2> QED BY <2>1, <2>2
<1>9. ASSUME NEW t \in Table \ {table} PROVE Seen(rows, z, t) = Seen(rows, x, t)
  <2>1. \A r \in rows[t] : r.id \in Int
    BY DEF Tables, Entry
  <2> QED BY <2>1, <1>6, <1>7 DEF Seen
\* No key is lost.
<1>10. \A t \in Table : \A r \in Seen(rows, x, t) : \E a \in Seen(rows, z, t) : a.id = r.id
  BY <1>3, <1>8, <1>9 DEF V
<1>11. OwnRows(z)
  <2>1. ASSUME NEW t \in Table, NEW r \in z.mine[t] PROVE <<t, r.id>> \in z.wrote
    <3>1. CASE t = table
      <4>1. r \in Entry /\ r.id \in Int
        BY <3>1, <1>5, <1>3 DEF Entry
      <4> QED BY <4>1, <3>1, <2>1, <1>5, <1>7
    <3>2. CASE t # table
      BY <3>2, <1>6 DEF Own, OwnRows, Wrote
    <3> QED BY <3>1, <3>2
  <2>2. ASSUME NEW k \in z.wrote PROVE k[1] \in z.staging
    BY <1>1 DEF Wrote, RowKeys, Own, OwnRows
  <2>3. ASSUME NEW f \in z.mine["facts"], NEW t \in Texts PROVE <<t, f.to>> \in z.uses
    <3>1. CASE f \in x.mine["facts"]
      BY <3>1 DEF Own, OwnRows, Wrote
    <3>2. CASE f \notin x.mine["facts"]
      <4>1. table = "facts"
        BY <3>2, <2>3, <1>6, <1>0
      <4>2. f \in ToSet(batch)
        BY <3>2, <4>1, <2>3, <1>3, <1>5 DEF V, Seen
      <4>3. t \in ParentTables("facts")
        BY FactsReferToText
      <4> QED BY <4>1, <4>2, <4>3 DEF Wrote, BatchUses
    <3> QED BY <3>1, <3>2
  <2>4. z.at = "begun"
    BY DEF Wrote
  <2> QED BY <2>1, <2>2, <2>3, <2>4 DEF OwnRows
<1>12. Committable(rows, z)
  <2>1. OneEach(Seen(rows, z, "embeddings"))
    <3>1. CASE table = "embeddings"
      <4>1. OneEach(V)
        BY <3>1 DEF Own, Committable, V
      <4>2. \A n \in DOMAIN batch : ~TargetTaken("embeddings", RowsAfter(V, batch, n - 1), batch[n])
        BY <3>1 DEF LetThrough, V
      <4>3. OneEach(after)
        BY <4>1, <4>2, <1>1, <1>2, EmbeddingsStayApart DEF after, Merged, V
      <4> QED BY <4>3, <1>8, <3>1
    <3>2. CASE table # "embeddings"
      BY <3>2, <1>0, <1>9 DEF Own, Committable
    <3> QED BY <3>1, <3>2
  <2>2. ASSUME NEW f \in Seen(rows, z, "facts"), NEW t \in Texts PROVE \E r \in Seen(rows, z, t) : r.id = f.to
    <3>1. t \in Table
      BY <1>0 DEF Texts
    <3>2. \E r \in Seen(rows, x, t) : r.id = f.to
      <4>1. CASE f \in Seen(rows, x, "facts")
        BY <4>1, <3>1, <1>0 DEF Own, Committable, Kept, SeenTables
      <4>2. CASE f \notin Seen(rows, x, "facts")
        <5>1. table = "facts" /\ f \in ToSet(batch)
          BY <4>2, <2>2, <1>0, <1>3, <1>8, <1>9 DEF V
        <5>2. PICK n \in DOMAIN batch : f = batch[n]
          BY <5>1 DEF ToSet
        <5>3. t \in ParentTables(table)
          BY <5>1, FactsReferToText
        <5> QED BY <5>2, <5>3 DEF LetThrough
      <4> QED BY <4>1, <4>2
    <3> QED BY <3>1, <3>2, <1>10
  <2>3. \A t \in {"facts"} \cup Texts : SeenTables(rows, z)[t] = Seen(rows, z, t)
    BY <1>0 DEF SeenTables, Texts
  <2> QED BY <2>1, <2>2, <2>3 DEF Committable, Kept
<1>13. Lexical(rows, z)
  <2>1. SUFFICES ASSUME x.lexical
                 PROVE LastBatch(z, z.todo) \/ (z.todo = << >> /\ "chunks" \in z.staging /\ z.keep \subseteq ChunksOf(z))
    BY DEF Lexical, Wrote
  <2>2. PICK n \in {1, 2} : /\ Len(x.todo) = n /\ x.todo[n].table = "chunks"
                            /\ RowKeys("chunks", ToSet(x.todo[n].batch)) = x.keep
                            /\ n = 2 => x.todo[1].table = "documents"
    BY <2>1 DEF Own, Lexical, LastBatch
  <2>3. CASE n = 1
    <3>1. z.todo = << >> /\ table = "chunks" /\ RowKeys("chunks", ToSet(batch)) = x.keep
      BY <2>2, <2>3, <1>1 DEF Wrote, Load
    <3>2. ASSUME NEW b \in ToSet(batch) PROVE <<"chunks", b.id>> \in ChunksOf(z)
      <4>1. PICK a \in after : a.id = b.id
        BY <1>3, <3>2
      <4>2. a \in z.mine["chunks"]
        BY <4>1, <3>2, <1>3, <1>5, <3>1
      <4> QED BY <4>1, <4>2 DEF ChunksOf, RowKeys
    <3>3. x.keep \subseteq ChunksOf(z)
      <4>1. x.keep = {<<"chunks", b.id>> : b \in ToSet(batch)}
        BY <3>1 DEF RowKeys
      <4> QED BY <4>1, <3>2
    <3> QED BY <3>1, <3>3, <1>1 DEF Wrote
  <2>4. CASE n = 2
    <3>1. Len(Tail(x.todo)) = 1 /\ Tail(x.todo)[1] = x.todo[2]
      BY <2>2, <2>4, <1>1 DEF Load
    <3> QED BY <3>1, <2>2, <2>4 DEF Wrote, LastBatch
  <2> QED BY <2>3, <2>4
<1>14. ASSUME NEW k \in Gone(z) PROVE k \in Gone(x)
  <2>1. k \in z.wrote /\ \A r \in z.mine[k[1]] : r.id # k[2]
    BY <1>14 DEF Gone
  <2>2. k \in Keys
    BY <2>1 DEF Wrote, Load
  <2>3. k[1] \in Table /\ k[2] \in Int /\ k = <<k[1], k[2]>>
    BY <2>2 DEF Keys
  <2>4. k \in x.wrote
    <3>1. ASSUME k[1] = table, NEW b \in ToSet(batch), b.id = k[2] PROVE FALSE
      <4>1. PICK a \in after : a.id = b.id
        BY <1>3, <3>1
      <4>2. a \in z.mine[table]
        BY <4>1, <1>3, <3>1, <1>5
      <4> QED BY <4>1, <4>2, <3>1, <2>1
    <3> QED BY <3>1, <2>1, <2>3, <1>7
  <2>5. ASSUME NEW r \in x.mine[k[1]], r.id = k[2] PROVE FALSE
    <3>1. CASE k[1] = table
      <4>1. r \in V
        BY <3>1, <2>5 DEF V, Seen
      <4>2. PICK a \in after : a.id = r.id
        BY <4>1, <1>3
      <4>3. a \in z.mine[table]
        BY <4>2, <1>5, <2>3, <2>4, <2>5, <3>1
      <4> QED BY <4>2, <4>3, <2>1, <2>5, <3>1
    <3>2. CASE k[1] # table
      BY <3>2, <2>5, <2>1, <2>3, <1>6
    <3> QED BY <3>1, <3>2
  <2> QED BY <2>4, <2>5 DEF Gone
<1> QED BY <1>11, <1>12, <1>13, <1>14 DEF Own

\* The chunks that are not of the snapshot go, and nothing refers to them.
AbsentChunks(rows, x) ==
  IF x.lexical THEN {r \in Seen(rows, x, "chunks") : <<"chunks", r.id>> \notin x.keep} ELSE {}
Unreferred(rows, x, absent) ==
  ~ \E t \in ChildTables("chunks"), r \in absent : \E c \in Seen(rows, x, t) : c.to = r.id
\* z is x with those chunks deleted.
Retracted(x, absent, z) ==
  /\ z \in Load /\ z.at = "loaded" /\ z.todo = x.todo /\ z.keep = x.keep /\ z.lexical = x.lexical
  /\ z.staging = x.staging /\ z.wrote = x.wrote \cup RowKeys("chunks", absent) /\ z.uses = x.uses
  /\ z.mine = [x.mine EXCEPT !["chunks"] = @ \ absent]

\* So does a retraction of chunks that nothing refers to.
LEMMA Retracts ==
  ASSUME NEW rows \in Tables, NEW x \in Load, x.at = "begun", x.todo = << >>, Own(rows, x), NEW absent, NEW z,
         absent = AbsentChunks(rows, x), Unreferred(rows, x, absent), Retracted(x, absent, z)
  PROVE  Own(rows, z) /\ Gone(z) \subseteq Gone(x) \cup RowKeys("chunks", absent)
<1>0. {"documents", "chunks", "facts", "embeddings"} \subseteq Table
  BY FactsReferToText
<1>1. Seen(rows, x, "chunks") \subseteq Entry /\ absent \subseteq Seen(rows, x, "chunks")
  BY <1>0 DEF Seen, Load, Tables, AbsentChunks
\* A row of an absent one's key is absent.
<1>2. \A r, q \in Seen(rows, x, "chunks") : r.id = q.id /\ r \in absent => q \in absent
  BY DEF AbsentChunks
<1>3. z.mine["chunks"] = x.mine["chunks"] \ absent
  BY <1>0 DEF Retracted, Load
<1>4. \A t \in Table \ {"chunks"} : z.mine[t] = x.mine[t]
  BY <1>0 DEF Retracted, Load
<1>5. \A t \in Table, n \in Int :
        <<t, n>> \in z.wrote <=> <<t, n>> \in x.wrote \/ (t = "chunks" /\ \E b \in absent : b.id = n)
  BY DEF Retracted, RowKeys
<1>6. Seen(rows, z, "chunks") = Seen(rows, x, "chunks") \ absent
  <2>1. ASSUME NEW r \in Seen(rows, z, "chunks") PROVE r \in Seen(rows, x, "chunks") /\ r \notin absent
    <3>1. CASE r \in z.mine["chunks"]
      BY <3>1, <1>3 DEF Seen
    <3>2. CASE r \in rows["chunks"] /\ <<"chunks", r.id>> \notin z.wrote
      <4>1. r.id \in Int
        BY <3>2, <1>0 DEF Tables, Entry
      <4> QED BY <4>1, <3>2, <1>5, <1>0 DEF Seen
    <3> QED BY <3>1, <3>2, <2>1 DEF Seen
  <2>2. ASSUME NEW r \in Seen(rows, x, "chunks"), r \notin absent PROVE r \in Seen(rows, z, "chunks")
    <3>1. CASE r \in x.mine["chunks"]
      BY <3>1, <2>2, <1>3 DEF Seen
    <3>2. CASE r \in rows["chunks"] /\ <<"chunks", r.id>> \notin x.wrote
      <4>1. r.id \in Int
        BY <3>2, <1>0 DEF Tables, Entry
      <4>2. <<"chunks", r.id>> \notin z.wrote
        BY <4>1, <3>2, <2>2, <1>0, <1>1, <1>2, <1>5
      <4> QED BY <4>2, <3>2 DEF Seen
    <3> QED BY <3>1, <3>2, <2>2 DEF Seen
  <2> QED BY <2>1, <2>2
<1>7. ASSUME NEW t \in Table \ {"chunks"} PROVE Seen(rows, z, t) = Seen(rows, x, t)
  <2>1. \A r \in rows[t] : r.id \in Int
    BY DEF Tables, Entry
  <2> QED BY <2>1, <1>4, <1>5 DEF Seen
<1>8. x.lexical => "chunks" \in x.staging /\ x.keep \subseteq ChunksOf(x)
  <2>1. ~LastBatch(x, << >>)
    BY DEF LastBatch
  <2> QED BY <2>1 DEF Own, Lexical
<1>9. OwnRows(z)
  <2>1. ASSUME NEW t \in Table, NEW r \in z.mine[t] PROVE <<t, r.id>> \in z.wrote
    BY <2>1, <1>3, <1>4 DEF Own, OwnRows, Retracted
  <2>2. ASSUME NEW k \in z.wrote PROVE k[1] \in z.staging
    <3>1. CASE k \in x.wrote
      BY <3>1 DEF Own, OwnRows, Retracted
    <3>2. CASE k \in RowKeys("chunks", absent)
      <4>1. k[1] = "chunks" /\ absent # {}
        BY <3>2 DEF RowKeys
      <4> QED BY <4>1, <1>8 DEF AbsentChunks, Retracted
    <3> QED BY <3>1, <3>2, <2>2 DEF Retracted
  <2>3. ASSUME NEW f \in z.mine["facts"], NEW t \in Texts PROVE <<t, f.to>> \in z.uses
    BY <1>0, <1>4 DEF Own, OwnRows, Retracted
  <2>4. z.at = "loaded"
    BY DEF Retracted
  <2> QED BY <2>1, <2>2, <2>3, <2>4 DEF OwnRows
<1>10. Committable(rows, z)
  <2>1. OneEach(Seen(rows, z, "embeddings"))
    BY <1>0, <1>7 DEF Own, Committable
  <2>2. ASSUME NEW f \in Seen(rows, z, "facts"), NEW t \in Texts PROVE \E r \in Seen(rows, z, t) : r.id = f.to
    <3>1. f \in Seen(rows, x, "facts")
      BY <1>0, <1>7
    <3>2. PICK r \in Seen(rows, x, t) : r.id = f.to
      BY <3>1, <1>0 DEF Own, Committable, Kept, SeenTables, Texts
    <3>3. CASE t = "documents"
      BY <3>2, <3>3, <1>0, <1>7
    <3>4. CASE t = "chunks"
      <4>1. r \notin absent
        BY <3>1, <3>2, <3>4, FactsReferToText DEF Unreferred
      <4> QED BY <4>1, <3>2, <3>4, <1>6
    <3> QED BY <3>3, <3>4 DEF Texts
  <2>3. \A t \in {"facts"} \cup Texts : SeenTables(rows, z)[t] = Seen(rows, z, t)
    BY <1>0 DEF SeenTables, Texts
  <2> QED BY <2>1, <2>2, <2>3 DEF Committable, Kept
<1>11. Lexical(rows, z)
  <2>1. SUFFICES ASSUME x.lexical PROVE "chunks" \in z.staging /\ RowKeys("chunks", Seen(rows, z, "chunks")) = z.keep
    BY DEF Lexical, Retracted
  <2>2. "chunks" \in x.staging /\ x.keep \subseteq ChunksOf(x)
    BY <2>1, <1>8
  <2>3. \A r \in Seen(rows, z, "chunks") : <<"chunks", r.id>> \in z.keep
    BY <2>1, <1>6 DEF AbsentChunks, Retracted
  <2>4. ASSUME NEW k \in z.keep PROVE k \in RowKeys("chunks", Seen(rows, z, "chunks"))
    <3>1. PICK r \in x.mine["chunks"] : k = <<"chunks", r.id>>
      BY <2>2, <2>4 DEF Retracted, ChunksOf, RowKeys
    <3>2. r \notin absent
      BY <3>1, <2>4, <2>1 DEF AbsentChunks, Retracted
    <3> QED BY <3>1, <3>2, <1>6 DEF Seen, RowKeys
  <2> QED BY <2>2, <2>3, <2>4 DEF RowKeys, Retracted
<1>12. ASSUME NEW k \in Gone(z), k \notin RowKeys("chunks", absent) PROVE k \in Gone(x)
  <2>1. k \in z.wrote /\ \A r \in z.mine[k[1]] : r.id # k[2]
    BY <1>12 DEF Gone
  <2>2. k \in x.wrote
    BY <2>1, <1>12 DEF Retracted
  <2>3. k \in Keys
    BY <2>2 DEF Load
  <2>4. k[1] \in Table /\ k = <<k[1], k[2]>>
    BY <2>3 DEF Keys
  <2>5. ASSUME NEW r \in x.mine[k[1]], r.id = k[2] PROVE FALSE
    <3>1. CASE k[1] = "chunks"
      BY <3>1, <2>5, <2>1, <2>4, <1>3, <1>12 DEF RowKeys
    <3>2. CASE k[1] # "chunks"
      BY <3>2, <2>5, <2>1, <2>4, <1>4
    <3> QED BY <3>1, <3>2
  <2> QED BY <2>2, <2>5 DEF Gone
<1> QED BY <1>9, <1>10, <1>11, <1>12 DEF Own

-----------------------------------------------------------------------------
(* The actions.                                                            *)

\* What a session sees, in the words of the module.
LEMMA Visibly ==
  ASSUME NEW s \in Session
  PROVE  /\ \A t : Visible(s, t) = Seen(store.rows, store.session[s], t)
         /\ \A o : DeletedKeys(o) = Gone(o)
BY DEF Visible, Seen, DeletedKeys, Gone

\* A step that changes one session and no table.
Moved(s, x) ==
  /\ store' = [rows |-> store.rows, session |-> [store.session EXCEPT ![s] = x],
               loading |-> store'.loading, loads |-> store'.loads]
  /\ store'.loading \in BOOLEAN /\ store'.loads \in Nat
\* If what the session does then is in order, the store is.
LEMMA OneMoves ==
  ASSUME TablesInv, NEW s \in Session, NEW x \in {NoTransaction} \cup Load, Moved(s, x),
         Active(x) => Own(store.rows, x),
         \A o \in Session \ {s} :
           Active(x) /\ Active(store.session[o]) => Beside(x, store.session[o]) /\ Beside(store.session[o], x)
  PROVE  TablesInv'
<1> DEFINE after == [store.session EXCEPT ![s] = x]
<1>1. Consistent(store.rows, after)
  BY OneChanges DEF TablesInv
<1>2. store'.rows = store.rows /\ store'.session = after
  BY DEF Moved
<1>3. after \in Sessions
  BY DEF TablesInv, StoreType, Sessions
<1>4. store' \in StoreType
  <2> HIDE DEF after
  <2> QED BY <1>2, <1>3 DEF TablesInv, StoreType, Moved
<1> QED BY <1>1, <1>2, <1>4 DEF TablesInv

\* What is known of a session that is at something.
LEMMA SessionAt ==
  ASSUME TablesInv, NEW s \in Session, store.session[s].at # "none"
  PROVE  /\ store.session[s] \in Load /\ store.rows \in Tables
         /\ Active(store.session[s]) => Own(store.rows, store.session[s])
BY DEF TablesInv, StoreType, Sessions, NoTransaction, Consistent

\* Two that are not yet committed do not disturb each other.
LEMMA TwoAtOnce ==
  ASSUME TablesInv, NEW s \in Session, NEW o \in Session \ {s}, Active(store.session[s]), Active(store.session[o])
  PROVE  /\ store.session[o] \in Load /\ store.session[o] \in Others(s)
         /\ Beside(store.session[s], store.session[o]) /\ Beside(store.session[o], store.session[s])
<1>1. store.session[o].at # "none"
  BY DEF Active
<1> QED BY <1>1, SessionAt DEF TablesInv, Consistent, Others, Active

\* A transaction ends, and nothing of it is left.
LEMMA RollingBack ==
  ASSUME TablesInv, NEW s \in Session, store' = RollBack(s), store.session[s].at # "none"
  PROVE  TablesInv'
<1>1. store.session[s].lexical \in BOOLEAN
  BY SessionAt DEF Load
<1>2. Moved(s, NoTransaction)
  BY <1>1 DEF RollBack, Moved, TablesInv, StoreType
<1>3. ~Active(NoTransaction)
  BY DEF Active, NoTransaction
<1> QED BY <1>2, <1>3, OneMoves

\* A load begins.
LEMMA Starting ==
  ASSUME TablesInv, NEW s \in Session, NEW todo \in Seq(Batch), NEW lexical \in BOOLEAN, NEW keep \in SUBSET Keys,
         lexical => LastBatch(Transaction(todo, lexical, keep), todo),
         Start(s, Transaction(todo, lexical, keep))
  PROVE  TablesInv'
<1> DEFINE x == Transaction(todo, lexical, keep)
<1>1. /\ x \in Load /\ Own(store.rows, x)
      /\ \A y \in Load : Beside(x, y) /\ Beside(y, x)
  BY Begins DEF TablesInv, Consistent
<1>2. Moved(s, x)
  <2>1. x.lexical \in BOOLEAN
    BY <1>1 DEF Load
  <2>2. Start(s, x)
    OBVIOUS
  <2> HIDE DEF x
  <2>3. store.loading \in BOOLEAN /\ store.loads \in Nat /\ store \in StoreType
    BY DEF TablesInv, StoreType
  <2>4. store' = [store EXCEPT !.session[s] = x, !.loads = @ + 1, !.loading = @ \/ x.lexical]
    BY <2>2 DEF Start
  <2>5. store'.rows = store.rows
    BY <2>3, <2>4 DEF StoreType
  <2>6. store'.session = [store.session EXCEPT ![s] = x]
    BY <2>3, <2>4 DEF StoreType
  <2>7. store'.loading \in BOOLEAN
    BY <2>1, <2>3, <2>4 DEF StoreType
  <2>8. store'.loads \in Nat
    BY <2>3, <2>4 DEF StoreType
  <2>9. store' = [rows |-> store'.rows, session |-> store'.session, loading |-> store'.loading, loads |-> store'.loads]
    BY <2>3, <2>4 DEF StoreType
  <2> QED BY <2>5, <2>6, <2>7, <2>8, <2>9 DEF Moved
<1>3. \A o \in Session \ {s} : Active(store.session[o]) => store.session[o] \in Load
  BY SessionAt DEF Active
<1> HIDE DEF x
<1> QED BY <1>1, <1>2, <1>3, OneMoves

\* A table is staged.
LEMMA Copying ==
  ASSUME TablesInv, NEW s \in Session, CopyToStaging(s)
  PROVE  TablesInv'
<1> DEFINE x == store.session[s]
           table == Head(x.todo).table
           z == [x EXCEPT !.at = "copied", !.staging = @ \cup {table}]
<1>1. x.at = "begun" /\ x.todo # << >> /\ x \in Load /\ Own(store.rows, x) /\ Active(x) /\ store.rows \in Tables
  BY SessionAt DEF CopyToStaging, Loading, Active
<1>2. /\ z \in Load /\ Own(store.rows, z)
      /\ \A y \in Load : Beside(x, y) /\ Beside(y, x) /\ table \notin y.staging => Beside(z, y) /\ Beside(y, z)
  <2>1. StagedRow(x, table, z)
    <3>1. table \in Table
      BY <1>1, HeadOfLoad
    <3> HIDE DEF x, table
    <3> QED BY <3>1, <1>1 DEF StagedRow, Load
  <2>2. ToStage(x) /\ table = Head(x.todo).table
    BY <1>1 DEF ToStage
  <2>3. z \in Load
    BY <2>1 DEF StagedRow
  <2> HIDE DEF x, table, z
  <2> QED BY <2>1, <2>2, <2>3, <1>1, Copies
<1>3. Moved(s, z)
  BY <1>1 DEF CopyToStaging, Moved, TablesInv, StoreType, Sessions
<1>4. \A o \in Session \ {s} : Active(store.session[o]) => Beside(z, store.session[o]) /\ Beside(store.session[o], z)
  <2> TAKE o \in Session \ {s}
  <2> HAVE Active(store.session[o])
  <2>1. store.session[o] \in Load /\ store.session[o] \in Others(s) /\ Beside(x, store.session[o]) /\ Beside(store.session[o], x)
    BY <1>1, TwoAtOnce
  <2>2. table \notin store.session[o].staging
    BY <2>1 DEF CopyToStaging
  <2> QED BY <2>1, <2>2, <1>2
<1> HIDE DEF x, z
<1> QED BY <1>2, <1>3, <1>4, OneMoves

\* A batch is written, or refused.
LEMMA Upserting ==
  ASSUME TablesInv, NEW s \in Session, Upsert(s)
  PROVE  TablesInv'
<1> DEFINE x == store.session[s]
           table == Head(x.todo).table
           batch == Head(x.todo).batch
           after == AfterBatch(s, table, batch)
           z == Upserted(x, table, batch, after.rows)
<1>1. x.at = "copied" /\ x \in Load /\ Own(store.rows, x) /\ Active(x) /\ store.rows \in Tables /\ store \in StoreType
  BY SessionAt DEF Upsert, Loading, Active, TablesInv
<1>2. x.todo # << >> /\ table \in Table /\ batch \in Seq(Entry)
  BY <1>1, HeadOfLoad DEF Own, OwnRows
<1>3. CASE ~after.ok
  <2>1. store' = RollBack(s)
    BY <1>3 DEF Upsert
  <2> QED BY <2>1, <1>1, RollingBack DEF Active
<1>4. CASE after.ok
  <2>1. after.rows = Merged(store.rows, x, table, batch)
    BY Visibly DEF AfterBatch, Merged
  <2>2. LetThrough(store.rows, x, table, batch)
    <3>1. \A n \in DOMAIN batch : /\ ~TargetTaken(table, RowsAfter(Visible(s, table), batch, n - 1), batch[n])
                                  /\ ~Unparented(s, table, batch[n])
      BY <1>4 DEF AfterBatch
    <3> HIDE DEF x, table, batch
    <3>2. \A p : Visible(s, p) = Seen(store.rows, x, p)
      BY Visibly DEF x
    <3> QED BY <3>1, <3>2 DEF LetThrough, Unparented
  <2>3. Written(store.rows, x, table, batch) \subseteq Entry
    <3>1. Seen(store.rows, x, table) \subseteq Entry
      BY <1>1, <1>2 DEF Seen, Load, Tables
    <3> HIDE DEF x, table, batch
    <3>2. Replaced(Seen(store.rows, x, table), batch, Merged(store.rows, x, table, batch))
      BY <3>1, <1>2, RowsAfterBatch DEF Merged
    <3> QED BY <3>2 DEF Replaced, Written
  <2>4. Wrote(store.rows, x, table, batch, z)
    <3>1. Tail(x.todo) \in Seq(Batch)
      BY <1>1, <1>2 DEF Load
    <3>2. RowKeys(table, ToSet(batch)) \subseteq Keys /\ BatchUses(table, batch) \subseteq Keys
      <4> HIDE DEF table, batch
      <4> QED BY <1>2, BatchKeys
    <3>3. z = Upserted(x, table, batch, Merged(store.rows, x, table, batch))
      BY <2>1
    <3> HIDE DEF x, table, batch, after, z
    <3>4. z = [x EXCEPT !.at = "begun", !.todo = Tail(x.todo), !.wrote = x.wrote \cup RowKeys(table, ToSet(batch)),
                        !.mine[table] = Written(store.rows, x, table, batch), !.uses = x.uses \cup BatchUses(table, batch)]
      BY <3>3 DEF Upserted, Written, BatchUses
    <3>5. z \in Load
      BY <1>1, <1>2, <2>3, <3>1, <3>2, <3>4 DEF Load
    <3> QED BY <1>1, <3>4, <3>5 DEF Wrote, Load
  <2>5. Own(store.rows, z) /\ Gone(z) \subseteq Gone(x)
    <3>1. table = Head(x.todo).table /\ batch = Head(x.todo).batch
      OBVIOUS
    <3> HIDE DEF x, table, batch, z
    <3> QED BY <3>1, <2>2, <2>4, <1>1, Writes
  <2>6. Moved(s, z)
    <3>1. store' = [store EXCEPT !.session[s] = z]
      BY <1>4 DEF Upsert
    <3> HIDE DEF z
    <3> QED BY <1>1, <3>1 DEF Moved, StoreType, Sessions
  <2>7. ASSUME NEW o \in Session \ {s}, Active(store.session[o])
        PROVE  Beside(z, store.session[o]) /\ Beside(store.session[o], z)
    <3> DEFINE y == store.session[o]
    <3>1. y \in Load /\ y \in Others(s) /\ Beside(x, y) /\ Beside(y, x)
      BY <1>1, <2>7, TwoAtOnce
    <3>2. Gone(y) \cap BatchUses(table, batch) = {}
      <4>1. \A row \in ToSet(batch), p \in ParentTables(table) : <<p, row.to>> \notin Gone(y)
        <5>1. ~MustWait(s, table, batch)
          BY DEF Upsert
        <5> HIDE DEF x, table, batch, y
        <5> QED BY <5>1, <3>1, Visibly DEF MustWait
      <4> HIDE DEF x, table, batch, y
      <4> QED BY <4>1 DEF BatchUses
    <3>3. z.staging = x.staging /\ z.uses = x.uses \cup BatchUses(table, batch)
      BY <2>4 DEF Wrote
    <3> HIDE DEF x, y, z, table, batch
    <3>4. Beside(z, y) /\ Beside(y, z)
      BY <3>1, <3>2, <3>3, <2>5 DEF Beside
    <3> QED BY <3>4 DEF y
  <2>8. z \in Load
    BY <2>4 DEF Wrote
  <2> HIDE DEF x, z, table, batch
  <2> QED BY <2>5, <2>6, <2>7, <2>8, OneMoves
<1> QED BY <1>3, <1>4

\* The chunks that are absent are deleted, or the load fails.
LEMMA Retracting ==
  ASSUME TablesInv, NEW s \in Session, RetractAbsent(s)
  PROVE  TablesInv'
<1> DEFINE x == store.session[s]
           absent == AbsentChunks(store.rows, x)
           z == [x EXCEPT !.at = "loaded", !.wrote = @ \cup RowKeys("chunks", absent),
                          !.mine = [@ EXCEPT !["chunks"] = x.mine["chunks"] \ absent]]
<1>1. /\ x.at = "begun" /\ x.todo = << >> /\ x \in Load /\ Own(store.rows, x) /\ Active(x)
      /\ store.rows \in Tables /\ store \in StoreType
  BY SessionAt DEF RetractAbsent, Loading, Active, TablesInv
<1>2. \A p : Visible(s, p) = Seen(store.rows, x, p)
  BY Visibly
<1>3. absent = IF x.lexical THEN {r \in Visible(s, "chunks") : <<"chunks", r.id>> \notin x.keep} ELSE {}
  BY <1>2 DEF AbsentChunks
<1>4. CASE ~Unreferred(store.rows, x, absent)
  <2>1. store' = RollBack(s)
    <3> HIDE DEF absent
    <3> QED BY <1>2, <1>3, <1>4 DEF RetractAbsent, Unreferred
  <2> QED BY <2>1, <1>1, RollingBack DEF Active
<1>5. CASE Unreferred(store.rows, x, absent)
  <2>1. store' = [store EXCEPT !.session[s].at = "loaded", !.session[s].wrote = @ \cup RowKeys("chunks", absent),
                               !.session[s].mine["chunks"] = @ \ absent]
    <3> HIDE DEF absent
    <3> QED BY <1>2, <1>3, <1>5 DEF RetractAbsent, Unreferred
  <2>2. absent \subseteq Entry /\ "chunks" \in Table
    BY <1>1, FactsReferToText DEF AbsentChunks, Seen, Load, Tables
  <2>3. Retracted(x, absent, z)
    <3> HIDE DEF x, absent
    <3>1. RowKeys("chunks", absent) \subseteq Keys
      BY <2>2 DEF RowKeys, Keys, Entry
    <3>2. z \in Load
      BY <1>1, <2>2, <3>1 DEF Load
    <3> QED BY <1>1, <2>2, <3>2 DEF Retracted, Load
  <2>4. Own(store.rows, z) /\ Gone(z) \subseteq Gone(x) \cup RowKeys("chunks", absent)
    <3>1. absent = AbsentChunks(store.rows, x)
      OBVIOUS
    <3> HIDE DEF x, absent, z
    <3> QED BY <3>1, <1>1, <1>5, <2>3, Retracts
  <2>5. Moved(s, z)
    <3> HIDE DEF absent
    <3> QED BY <1>1, <2>1, <2>2 DEF Moved, StoreType, Sessions, Load
  <2>6. ASSUME NEW o \in Session \ {s}, Active(store.session[o])
        PROVE  Beside(z, store.session[o]) /\ Beside(store.session[o], z)
    <3> DEFINE y == store.session[o]
    <3>1. y \in Load /\ y \in Others(s) /\ Beside(x, y) /\ Beside(y, x)
      BY <1>1, <2>6, TwoAtOnce
    <3>2. RowKeys("chunks", absent) \cap (y.wrote \cup y.uses) = {}
      <4> HIDE DEF absent
      <4> QED BY <3>1, <1>3 DEF RetractAbsent
    <3>3. z.staging = x.staging /\ z.uses = x.uses
      BY <2>3 DEF Retracted
    <3> HIDE DEF x, y, z, absent
    <3>4. Beside(z, y) /\ Beside(y, z)
      BY <3>1, <3>2, <3>3, <2>4 DEF Beside
    <3> QED BY <3>4 DEF y
  <2>7. z \in Load
    BY <2>3 DEF Retracted
  <2> HIDE DEF x, z, absent
  <2> QED BY <2>4, <2>5, <2>6, <2>7, OneMoves
<1> QED BY <1>4, <1>5

\* What a transaction sees becomes what there is.
LEMMA Committing ==
  ASSUME TablesInv, NEW s \in Session, CommitLoad(s)
  PROVE  TablesInv'
<1> DEFINE x == store.session[s]
           z == IF x.lexical THEN [x EXCEPT !.at = "built"] ELSE NoTransaction
           rows == SeenTables(store.rows, x)
           after == [store.session EXCEPT ![s] = z]
<1>1. x.at = "loaded" /\ x \in Load /\ Own(store.rows, x) /\ Active(x) /\ store.rows \in Tables /\ store \in StoreType
  BY SessionAt DEF CommitLoad, Loading, Active, TablesInv
<1>2. store' = [store EXCEPT !.rows = rows, !.session[s] = z]
  BY Visibly DEF CommitLoad, SeenTables
<1>3. z \in {NoTransaction} \cup Load /\ ~Active(z)
  <2> HIDE DEF x
  <2> QED BY <1>1 DEF Load, Active, NoTransaction
<1>4. rows \in Tables
  BY <1>1 DEF Tables, SeenTables, Seen, Load
<1>5. store'.rows = rows /\ store'.session = after /\ store' \in StoreType
  <2> HIDE DEF rows, z
  <2> QED BY <1>1, <1>2, <1>3, <1>4 DEF StoreType, Sessions
<1>6. after \in Sessions /\ after[s] = z /\ \A o \in Session \ {s} : after[o] = store.session[o]
  <2> HIDE DEF z
  <2> QED BY <1>1, <1>3 DEF StoreType, Sessions
<1>7. ASSUME NEW o \in Session, Active(after[o]) PROVE o # s /\ after[o] = store.session[o] /\ Own(rows, after[o])
  <2>1. o \in Session \ {s} /\ after[o] = store.session[o]
    BY <1>3, <1>6, <1>7
  <2> DEFINE y == store.session[o]
  <2>2. Active(y)
    BY <2>1, <1>7
  <2>3. y \in Load /\ Own(store.rows, y) /\ Beside(x, y) /\ Beside(y, x)
    BY <1>1, <2>1, <2>2, TwoAtOnce, SessionAt DEF Active
  <2>4. Own(rows, y)
    <3> HIDE DEF x, y
    <3> QED BY <1>1, <2>3, OthersCommit DEF TablesInv, Consistent
  <2> QED BY <2>1, <2>4
<1>8. \A o, p \in Session : o # p /\ Active(after[o]) /\ Active(after[p]) => Beside(after[o], after[p])
  <2> HIDE DEF after
  <2> QED BY <1>7 DEF TablesInv, Consistent
<1>9. OneEach(rows["embeddings"]) /\ Kept(rows)
  BY <1>1, FactsReferToText DEF Own, Committable, SeenTables
<1>10. Consistent(rows, after)
  <2> HIDE DEF rows, after
  <2> QED BY <1>4, <1>6, <1>7, <1>8, <1>9 DEF Consistent
<1> HIDE DEF rows, after
<1> QED BY <1>5, <1>10 DEF TablesInv

\* Whatever happens to the tables, they stay consistent.
LEMMA TablesStay ==
  ASSUME TablesInv, Steps
  PROVE  TablesInv'
<1>1. PICK s \in Session :
        \/ \E x \in AnySnapshots : StartLexical(s, x.documents, x.chunks)
        \/ \E b \in Batch : StartBatch(s, b.table, b.batch)
        \/ CopyToStaging(s) \/ Upsert(s) \/ RetractAbsent(s) \/ CommitLoad(s) \/ AbortLoad(s) \/ Release(s)
  BY DEF Steps, TablesNext
<1>2. ASSUME NEW x \in AnySnapshots, StartLexical(s, x.documents, x.chunks) PROVE TablesInv'
  <2> DEFINE todo == <<[table |-> "documents", batch |-> x.documents], [table |-> "chunks", batch |-> x.chunks]>>
             keep == RowKeys("chunks", ToSet(x.chunks))
  <2>1. x.documents \in Seq(Entry) /\ x.chunks \in Seq(Entry)
    BY DEF AnySnapshots
  <2>2. todo \in Seq(Batch)
    BY <2>1, FactsReferToText DEF Batch
  <2>3. keep \in SUBSET Keys
    BY <2>1, FactsReferToText, BatchKeys
  <2>4. LastBatch(Transaction(todo, TRUE, keep), todo)
    BY DEF LastBatch, Transaction
  <2>5. Start(s, Transaction(todo, TRUE, keep))
    BY <1>2 DEF StartLexical
  <2> HIDE DEF todo, keep
  <2> QED BY <2>2, <2>3, <2>4, <2>5, Starting
<1>3. ASSUME NEW b \in Batch, StartBatch(s, b.table, b.batch) PROVE TablesInv'
  <2> DEFINE todo == <<[table |-> b.table, batch |-> b.batch]>>
  <2>1. todo \in Seq(Batch)
    BY DEF Batch
  <2>2. Start(s, Transaction(todo, FALSE, {}))
    BY <1>3 DEF StartBatch
  <2>3. {} \in SUBSET Keys
    OBVIOUS
  <2> HIDE DEF todo
  <2> QED BY <2>1, <2>2, <2>3, Starting
<1>4. CASE AbortLoad(s) \/ Release(s)
  BY <1>4, RollingBack DEF AbortLoad, Release, Loading
<1> QED BY <1>1, <1>2, <1>3, <1>4, Copying, Upserting, Retracting, Committing

-----------------------------------------------------------------------------
(* What a projection is built of.                                          *)

\* The positions of some rows whose ids are numbers.
RowsAt(rows, at) == \E n \in Nat : at \subseteq 1 .. n /\ \A k \in at : rows[k].id \in Int
\* A list of their ids.
Lists(rows, at, ids) ==
  /\ ids \in Seq(Int) /\ Len(ids) = Cardinality(at) /\ ToSet(ids) = {rows[k].id : k \in at}
  /\ KeyHolds(rows, at) => \A m, n \in 1 .. Len(ids) : m # n => ids[m] # ids[n]

\* Positions are finitely many.
LEMMA PositionsFinite ==
  ASSUME NEW rows, NEW at, RowsAt(rows, at)
  PROVE  /\ IsFiniteSet(at) /\ Cardinality(at) \in Nat
         /\ \A S \in SUBSET at : IsFiniteSet(S) /\ Cardinality(S) \in Nat
<1>1. PICK n \in Nat : at \subseteq 1 .. n
  BY DEF RowsAt
<1>2. IsFiniteSet(1 .. n)
  BY FS_Interval
<1>3. IsFiniteSet(at)
  BY <1>1, <1>2, FS_Subset
<1>4. \A S \in SUBSET at : IsFiniteSet(S)
  BY <1>3, FS_Subset
<1> QED BY <1>3, <1>4, FS_CardinalityType

\* Rows can be put in the order of their ids: the place of one is how many are
\* not after it.
LEMMA OrderExists ==
  ASSUME NEW rows, NEW at, RowsAt(rows, at)
  PROVE  \E ids \in Arrangements(rows, at) : InOrder(ids)
<1> DEFINE C == Cardinality(at)
           Before(j, k) == rows[j].id < rows[k].id \/ (rows[j].id = rows[k].id /\ j < k)
           Upto(k) == {j \in at : j = k \/ Before(j, k)}
           rank == [k \in at |-> Cardinality(Upto(k))]
<1>1. at \subseteq Nat /\ \A k \in at : rows[k].id \in Int
  BY DEF RowsAt
<1>2. IsFiniteSet(at) /\ C \in Nat /\ \A k \in at : IsFiniteSet(Upto(k)) /\ Cardinality(Upto(k)) \in Nat
  <2>1. \A k \in at : Upto(k) \in SUBSET at
    OBVIOUS
  <2> HIDE DEF Upto
  <2> QED BY <2>1, PositionsFinite
<1>3. \A j, k \in at : j = k \/ Before(j, k) \/ Before(k, j)
  BY <1>1
<1>4. ASSUME NEW j \in at, NEW k \in at, Before(j, k) PROVE rank[j] < rank[k]
  <2>1. Upto(j) \in SUBSET Upto(k) /\ k \in Upto(k) /\ k \notin Upto(j)
    <3>1. \A m \in at : m = j \/ Before(m, j) => Before(m, k)
      BY <1>1, <1>4
    <3>2. ~(k = j \/ Before(k, j))
      BY <1>1, <1>4
    <3> QED BY <3>1, <3>2
  <2> HIDE DEF Upto
  <2>2. Cardinality(Upto(j)) <= Cardinality(Upto(k)) /\ Cardinality(Upto(k)) # Cardinality(Upto(j))
    BY <2>1, <1>2, FS_Subset
  <2> QED BY <2>2, <1>2
<1>5. ASSUME NEW k \in at PROVE rank[k] \in 1 .. C
  <2>1. Upto(k) \in SUBSET at /\ Upto(k) # {}
    OBVIOUS
  <2> HIDE DEF Upto
  <2>2. Cardinality(Upto(k)) <= C
    BY <2>1, <1>2, FS_Subset
  <2>3. Cardinality(Upto(k)) # 0
    BY <2>1, <1>2, FS_EmptySet
  <2> QED BY <2>2, <2>3, <1>2
<1> HIDE DEF Upto, Before
<1>6. \A j, k \in at : rank[j] = rank[k] => j = k
  <2> HIDE DEF rank
  <2>1. \A j \in at : rank[j] \in Int
    BY <1>5, <1>2
  <2> QED BY <2>1, <1>3, <1>4
<1>7. rank \in [at -> 1 .. C]
  BY <1>5
<1> HIDE DEF rank
<1>8. rank \in Injection(at, 1 .. C)
  BY <1>6, <1>7 DEF Injection, IsInjective
<1>9. \A n \in 1 .. C : \E k \in at : rank[k] = n
  <2>1. IsFiniteSet(1 .. C) /\ Cardinality(1 .. C) = C
    BY <1>2, FS_Interval
  <2>2. rank \in Surjection(at, 1 .. C)
    BY <2>1, <1>2, <1>8, FS_Injection
  <2> QED BY <2>2 DEF Surjection
<1> DEFINE order == [n \in 1 .. C |-> CHOOSE k \in at : rank[k] = n]
           ids == [n \in 1 .. C |-> rows[order[n]].id]
<1>10. \A n \in 1 .. C : order[n] \in at /\ rank[order[n]] = n
  BY <1>9
<1>11. \A k \in at : order[rank[k]] = k
  BY <1>5, <1>6, <1>10
<1>12. order \in Bijection(1 .. C, at)
  <2>1. order \in [1 .. C -> at]
    BY <1>10
  <2> HIDE DEF order
  <2>2. order \in Injection(1 .. C, at)
    BY <2>1, <1>10 DEF Injection, IsInjective
  <2>3. order \in Surjection(1 .. C, at)
    BY <2>1, <1>5, <1>11 DEF Surjection
  <2> QED BY <2>2, <2>3 DEF Bijection
<1> HIDE DEF order
<1>13. ids \in Arrangements(rows, at)
  BY <1>12 DEF Arrangements
<1>14. ASSUME NEW m \in DOMAIN ids, NEW n \in DOMAIN ids, m < n PROVE ids[m] <= ids[n]
  <2>1. m \in 1 .. C /\ n \in 1 .. C
    BY <1>14
  <2>2. ~Before(order[n], order[m])
    <3>1. rank[order[m]] = m /\ rank[order[n]] = n /\ order[m] \in at /\ order[n] \in at
      BY <2>1, <1>10
    <3> QED BY <3>1, <1>4, <1>14, <2>1
  <2>3. ids[m] \in Int /\ ids[n] \in Int
    BY <2>1, <1>1, <1>10
  <2> QED BY <2>1, <2>2, <2>3 DEF Before
<1> QED BY <1>13, <1>14 DEF InOrder

\* What is fetched are the ids, each as often as there are rows of it.
LEMMA FetchedIds ==
  ASSUME NEW rows, NEW at, RowsAt(rows, at)
  PROVE  Lists(rows, at, FetchIds(rows, at))
<1> DEFINE ids == FetchIds(rows, at)
           C == Cardinality(at)
<1>1. ids \in Arrangements(rows, at)
  BY OrderExists DEF FetchIds
<1> HIDE DEF ids
<1>2. PICK order \in Bijection(1 .. C, at) : ids = [n \in 1 .. C |-> rows[order[n]].id]
  BY <1>1 DEF Arrangements
<1>3. /\ order \in [1 .. C -> at]
      /\ \A m, n \in 1 .. C : order[m] = order[n] => m = n
      /\ \A k \in at : \E n \in 1 .. C : order[n] = k
  BY <1>2 DEF Bijection, Injection, Surjection, IsInjective
<1>4. C \in Nat
  BY PositionsFinite
<1>5. \A n \in 1 .. C : rows[order[n]].id \in Int
  BY <1>3 DEF RowsAt
<1> HIDE DEF C
<1>6. ids \in Seq(Int) /\ Len(ids) = C /\ DOMAIN ids = 1 .. C
  BY <1>2, <1>4, <1>5
<1>7. ToSet(ids) = {rows[k].id : k \in at}
  <2>1. ToSet(ids) = {ids[n] : n \in 1 .. C}
    BY <1>6 DEF ToSet
  <2> QED BY <2>1, <1>2, <1>3
<1>8. KeyHolds(rows, at) => \A m, n \in 1 .. C : m # n => ids[m] # ids[n]
  BY <1>2, <1>3 DEF KeyHolds
<1>9. Lists(rows, at, ids)
  BY <1>6, <1>7, <1>8 DEF Lists, C
<1> QED BY <1>9 DEF ids

\* A list that is as long as there are rows is of every row.
LEMMA AllListed ==
  ASSUME NEW rows, NEW at, RowsAt(rows, at), NEW part \in SUBSET at,
         FetchIds(rows, part) = FetchIds(rows, at)
  PROVE  part = at
<1>1. RowsAt(rows, part)
  BY DEF RowsAt
<1>2. Cardinality(part) = Cardinality(at)
  BY <1>1, FetchedIds DEF Lists
<1> QED BY <1>2, PositionsFinite, FS_Subset

\* The rows of an input.
VertexRow == [id : Int]
VectorRow == [id : Int, vector : Nat, dims : Nat]
EdgeRow == [id : Int, from : Int, to : Int]

\* The positions of an input are those of rows with ids.
LEMMA SequenceRows ==
  ASSUME NEW R, NEW rows \in Seq(R), \A r \in R : r.id \in Int
  PROVE  /\ RowsAt(rows, DOMAIN rows) /\ DOMAIN rows = 1 .. Len(rows) /\ Len(rows) \in Nat
         /\ Cardinality(DOMAIN rows) = Len(rows) /\ IsFiniteSet(DOMAIN rows)
         /\ \A k \in DOMAIN rows : rows[k] \in R
<1>1. DOMAIN rows = 1 .. Len(rows) /\ Len(rows) \in Nat /\ \A k \in DOMAIN rows : rows[k] \in R
  OBVIOUS
<1>2. RowsAt(rows, DOMAIN rows)
  BY <1>1 DEF RowsAt
<1>3. \A n \in Nat : IsFiniteSet(1 .. n) /\ Cardinality(1 .. n) = n
  <2> TAKE n \in Nat
  <2> QED BY FS_Interval
<1> QED BY <1>1, <1>2, <1>3

\* Every row of the input is found once.
FoundAll(input, result) ==
  Len(result.observed) = Len(input) /\ ToSet(result.observed) = {input[k].id : k \in DOMAIN input}
\* So it is of what is publishable.
LEMMA PublishableFindsAll ==
  ASSUME NEW R, NEW input \in Seq(R), \A r \in R : r.id \in Int, NEW result, Publishable(input, result)
  PROVE  FoundAll(input, result)
<1>1. Lists(input, DOMAIN input, FetchIds(input, DOMAIN input)) /\ Cardinality(DOMAIN input) = Len(input)
  BY FetchedIds, SequenceRows
<1> QED BY <1>1 DEF Publishable, Lists, FoundAll

\* The vectors of a publishable build are of one length.
LEMMA VectorsAreAlike ==
  ASSUME NEW input \in Seq(VectorRow), Publishable(input, BuildVector(input)),
         NEW j \in DOMAIN input, NEW k \in DOMAIN input
  PROVE  input[j].vector = input[k].vector /\ input[k].vector # 0
<1> DEFINE dims == {input[n].dims : n \in DOMAIN input} \ {0}
           selected == {n \in DOMAIN input : input[n].vector # 0 /\ input[n].dims # 0}
<1>1. RowsAt(input, DOMAIN input) /\ IsFiniteSet(DOMAIN input) /\ \A n \in DOMAIN input : input[n] \in VectorRow
  <2>1. \A r \in VectorRow : r.id \in Int
    BY DEF VectorRow
  <2> QED BY <2>1, SequenceRows
<1>2. input # << >>
  OBVIOUS
<1>3. /\ Cardinality(dims) = 1 /\ (\A n \in selected : input[n].vector \in dims)
      /\ FetchIds(input, selected) = FetchIds(input, DOMAIN input)
  BY <1>2 DEF BuildVector, Publishable, Raises, FoundRows
<1>4. selected = DOMAIN input
  BY <1>1, <1>3, AllListed
<1>5. IsFiniteSet(dims)
  <2> DEFINE dim == [n \in DOMAIN input |-> input[n].dims]
             all == {input[n].dims : n \in DOMAIN input}
  <2>1. dim \in Surjection(DOMAIN input, all)
    BY DEF Surjection
  <2>2. dims \in SUBSET all
    OBVIOUS
  <2> HIDE DEF dims, dim, all
  <2>3. IsFiniteSet(all)
    BY <2>1, <1>1, FS_Surjection
  <2> QED BY <2>2, <2>3, FS_Subset
<1>6. PICK d : dims = {d}
  <2> HIDE DEF dims
  <2> QED BY <1>3, <1>5, FS_Singleton
<1> QED BY <1>3, <1>4, <1>6

\* The steps of the sample: as far apart as the limit allows.
LEMMA StepsApart ==
  ASSUME NEW N \in Nat, NEW L \in Nat \ {0}, N > L
  PROVE  /\ N \div L \in Nat /\ N \div L >= 1
         /\ \A n \in 1 .. L : 1 + (n - 1) * (N \div L) \in 1 .. N
         /\ \A m, n \in 1 .. L : m < n => 1 + (m - 1) * (N \div L) # 1 + (n - 1) * (N \div L)
<1> DEFINE q == N \div L
<1>1. q \in Nat /\ q >= 1 /\ q * L <= N
  OBVIOUS
<1> HIDE DEF q
<1>2. \A a, b \in Int : a <= b => a * q <= b * q
  BY <1>1
<1>3. \A a, b \in Int : a < b => a * q < b * q
  BY <1>1
<1>4. ASSUME NEW n \in 1 .. L PROVE 1 + (n - 1) * q \in 1 .. N
  <2>1. 0 * q <= (n - 1) * q /\ (n - 1) * q <= (L - 1) * q
    BY <1>2
  <2>2. (L - 1) * q = L * q - q /\ L * q = q * L /\ (n - 1) * q \in Int /\ 0 * q = 0
    BY <1>1
  <2> QED BY <2>1, <2>2, <1>1
<1>5. ASSUME NEW m \in 1 .. L, NEW n \in 1 .. L, m < n PROVE 1 + (m - 1) * q # 1 + (n - 1) * q
  <2>1. (m - 1) * q < (n - 1) * q /\ (m - 1) * q \in Int /\ (n - 1) * q \in Int
    BY <1>1, <1>3, <1>5
  <2> QED BY <2>1
<1>6. /\ q \in Nat /\ q >= 1 /\ \A n \in 1 .. L : 1 + (n - 1) * q \in 1 .. N
      /\ \A m, n \in 1 .. L : m < n => 1 + (m - 1) * q # 1 + (n - 1) * q
  BY <1>1, <1>4, <1>5
<1> QED BY <1>6 DEF q

\* The vertices sampled are different ones.
Picked(M, place, ids) == {ids[place[n]] : n \in 1 .. M}
PicksApart(M, place, ids) ==
  /\ M \in Nat /\ ids \in Seq(Int)
  /\ \A n \in 1 .. M : place[n] \in 1 .. Len(ids)
  /\ \A m, n \in 1 .. M : m < n => place[m] # place[n]
  /\ \A m, n \in 1 .. Len(ids) : m # n => ids[m] # ids[n]
LEMMA ManySampled ==
  ASSUME NEW M, NEW place, NEW ids, PicksApart(M, place, ids)
  PROVE  Cardinality(Picked(M, place, ids)) = M
<1> DEFINE all == {ids[place[n]] : n \in 1 .. M}
           nth == [n \in 1 .. M |-> ids[place[n]]]
<1>0. /\ M \in Nat /\ ids \in Seq(Int)
      /\ \A n \in 1 .. M : place[n] \in 1 .. Len(ids)
      /\ \A m, n \in 1 .. M : m < n => place[m] # place[n]
      /\ \A m, n \in 1 .. Len(ids) : m # n => ids[m] # ids[n]
  BY DEF PicksApart
<1> USE <1>0
<1>1. \A m, n \in 1 .. M : m # n => place[m] # place[n]
  <2>1. \A m, n \in 1 .. M : m = n \/ m < n \/ n < m
    OBVIOUS
  <2> QED BY <2>1
<1>2. \A m, n \in 1 .. M : m # n => nth[m] # nth[n]
  BY <1>1
<1>3. nth \in [1 .. M -> all] /\ \A x \in all : \E n \in 1 .. M : nth[n] = x
  OBVIOUS
<1> HIDE DEF all, nth
<1>4. nth \in Surjection(1 .. M, all) /\ nth \in Injection(1 .. M, all)
  BY <1>2, <1>3 DEF Surjection, Injection, IsInjective
<1>5. IsFiniteSet(1 .. M) /\ Cardinality(1 .. M) = M
  BY FS_Interval
<1>6. Cardinality(all) = M
  BY ONLY <1>4, <1>5, FS_Surjection
<1> QED BY <1>6 DEF all, Picked

\* As many are sampled as the limit allows, of all vertices if they are no more.
LEMMA AsManyAsTheLimit ==
  ASSUME NEW ids \in Seq(Int), \A m, n \in 1 .. Len(ids) : m # n => ids[m] # ids[n]
  PROVE  Cardinality(SampleStarts(ids)) = Min({SampleLimit, Len(ids)})
<1> DEFINE N == Len(ids)
           L == SampleLimit
<1>1. N \in Nat /\ L \in Nat \ {0}
  BY SampleLimitAssumption
<1>2. CASE N <= L
  <2> DEFINE place == [n \in 1 .. N |-> n]
  <2>1. SampleStep(ids) = 1
    BY <1>2 DEF SampleStep
  <2>2. SampleStarts(ids) = {ids[1 + (k - 1) * 1] : k \in {n \in 1 .. L : 1 + (n - 1) * 1 <= N}}
    BY <2>1 DEF SampleStarts
  <2>3. \A n \in 1 .. L : 1 + (n - 1) * 1 = n
    OBVIOUS
  <2>4. {n \in 1 .. L : 1 + (n - 1) * 1 <= N} = 1 .. N
    BY <1>1, <1>2, <2>3
  <2>5. SampleStarts(ids) = {ids[place[n]] : n \in 1 .. N}
    BY <1>1, <1>2, <2>2, <2>3, <2>4
  <2>6. Cardinality({ids[place[n]] : n \in 1 .. N}) = N
    <3>1. (\A n \in 1 .. N : place[n] \in 1 .. Len(ids)) /\ \A m, n \in 1 .. N : m < n => place[m] # place[n]
      OBVIOUS
    <3> HIDE DEF place, N
    <3>2. N \in Nat /\ ids \in Seq(Int) /\ \A m, n \in 1 .. Len(ids) : m # n => ids[m] # ids[n]
      BY <1>1
    <3>3. PicksApart(N, place, ids)
      BY <3>1, <3>2 DEF PicksApart
    <3>4. Cardinality(Picked(N, place, ids)) = N
      BY <3>3, ManySampled
    <3> QED BY <3>4 DEF Picked
  <2>7. Min({L, N}) = N
    BY <1>1, <1>2 DEF Min
  <2> QED BY <2>5, <2>6, <2>7
<1>3. CASE N > L
  <2> DEFINE q == N \div L
             place == [n \in 1 .. L |-> 1 + (n - 1) * q]
  <2>1. SampleStep(ids) = q
    BY <1>1, <1>3 DEF SampleStep
  <2>2. SampleStarts(ids) = {ids[1 + (k - 1) * q] : k \in {n \in 1 .. L : 1 + (n - 1) * q <= N}}
    BY <2>1 DEF SampleStarts
  <2>3. /\ \A n \in 1 .. L : 1 + (n - 1) * q \in 1 .. N
        /\ \A m, n \in 1 .. L : m < n => 1 + (m - 1) * q # 1 + (n - 1) * q
    BY <1>1, <1>3, StepsApart
  <2> HIDE DEF q, N
  <2>4. {n \in 1 .. L : 1 + (n - 1) * q <= N} = 1 .. L
    BY <1>1, <2>3
  <2>5. SampleStarts(ids) = {ids[place[n]] : n \in 1 .. L}
    BY <2>2, <2>4
  <2>6. Cardinality({ids[place[n]] : n \in 1 .. L}) = L
    <3>1. (\A n \in 1 .. L : place[n] \in 1 .. N) /\ \A m, n \in 1 .. L : m < n => place[m] # place[n]
      BY <2>3
    <3> HIDE DEF place
    <3>2. PicksApart(L, place, ids)
      BY <1>1, <3>1 DEF PicksApart, N
    <3>3. Cardinality(Picked(L, place, ids)) = L
      BY <3>2, ManySampled
    <3> QED BY <3>3 DEF Picked
  <2>7. Min({L, N}) = L
    BY <1>1, <1>3 DEF Min
  <2> QED BY <2>5, <2>6, <2>7 DEF N
<1> QED BY <1>1, <1>2, <1>3

\* What is reached from a vertex in the graph that was loaded is reached by
\* every edge that leaves it: none is missing.
LEMMA NoEdgeLost ==
  ASSUME NEW edges \in Seq(EdgeRow), NEW loaded \in SUBSET DOMAIN edges, NEW start,
         OneHop(edges, DOMAIN edges, start) = OneHop(edges, loaded, start),
         NEW k \in DOMAIN edges, edges[k].from = start
  PROVE  k \in loaded
<1> DEFINE out(at) == {n \in at : edges[n].from = start}
           toward(at) == {n \in out(at) : edges[n].to = edges[k].to}
           ends(at) == {edges[n].to : n \in out(at)}
<1>1. IsFiniteSet(DOMAIN edges)
  <2>1. \A r \in EdgeRow : r.id \in Int
    BY DEF EdgeRow
  <2> QED BY <2>1, SequenceRows
<1>2. \A at : OneHop(edges, at, start) = [to \in ends(at) |-> Cardinality({n \in out(at) : edges[n].to = to})]
  BY DEF OneHop
<1>3. \A at : DOMAIN OneHop(edges, at, start) = ends(at)
  BY <1>2
<1>4. edges[k].to \in ends(DOMAIN edges)
  OBVIOUS
<1>5. edges[k].to \in ends(loaded)
  <2> HIDE DEF ends
  <2> QED BY <1>3, <1>4
<1>6. Cardinality(toward(DOMAIN edges)) = OneHop(edges, DOMAIN edges, start)[edges[k].to]
  <2>1. OneHop(edges, DOMAIN edges, start) = [to \in ends(DOMAIN edges) |-> Cardinality({n \in out(DOMAIN edges) : edges[n].to = to})]
    BY <1>2
  <2> HIDE DEF ends, out
  <2> QED BY <2>1, <1>4
<1>7. Cardinality(toward(loaded)) = OneHop(edges, loaded, start)[edges[k].to]
  <2>1. OneHop(edges, loaded, start) = [to \in ends(loaded) |-> Cardinality({n \in out(loaded) : edges[n].to = to})]
    BY <1>2
  <2> HIDE DEF ends, out
  <2> QED BY <2>1, <1>5
<1>8. toward(loaded) \in SUBSET toward(DOMAIN edges) /\ toward(DOMAIN edges) \in SUBSET DOMAIN edges
  OBVIOUS
<1>9. k \in toward(DOMAIN edges) /\ (k \in toward(loaded) => k \in loaded)
  OBVIOUS
<1> HIDE DEF toward
<1>10. Cardinality(toward(DOMAIN edges)) = Cardinality(toward(loaded))
  BY <1>6, <1>7
<1>11. IsFiniteSet(toward(DOMAIN edges))
  BY <1>1, <1>8, FS_Subset
<1>12. toward(DOMAIN edges) = toward(loaded)
  BY <1>8, <1>10, <1>11, FS_Subset
<1> QED BY <1>9, <1>12

\* What may be activated of a graph.
GraphWhole(vertices, edges, age, result) ==
  /\ Cardinality(result.starts) = Min({SampleLimit, Len(vertices)})
  /\ age => \A k \in DOMAIN edges :
              edges[k].from \in result.starts =>
                k \in result.loaded /\ edges[k].to \in {vertices[n].id : n \in DOMAIN vertices}
\* The comparison of the sampled vertices tells whether an edge is missing.
LEMMA GraphIsWhole ==
  ASSUME NEW vertices \in Seq(VertexRow), NEW edges \in Seq(EdgeRow), NEW age \in BOOLEAN,
         NEW result, result = BuildGraph(vertices, edges, age), Publishable(vertices, result)
  PROVE  GraphWhole(vertices, edges, age, result)
<1> DEFINE loaded == IF age THEN LoadAgeGraph(vertices, edges) ELSE {}
           observed == FetchIds(vertices, DOMAIN vertices)
           starts == SampleStarts(observed)
<1>1. KeyHolds(vertices, DOMAIN vertices) /\ KeyHolds(edges, DOMAIN edges)
  BY DEF BuildGraph, Publishable, Raises
<1>2. /\ result.starts = starts /\ result.loaded = loaded
      /\ result.parity <=> (age => \A s \in starts : SameHops(OneHop(edges, DOMAIN edges, s), OneHop(edges, loaded, s)))
  BY <1>1 DEF BuildGraph
<1>3. Lists(vertices, DOMAIN vertices, observed) /\ Cardinality(DOMAIN vertices) = Len(vertices)
  <2>1. \A r \in VertexRow : r.id \in Int
    BY DEF VertexRow
  <2> QED BY <2>1, FetchedIds, SequenceRows
<1> HIDE DEF observed
<1>4. Cardinality(starts) = Min({SampleLimit, Len(vertices)})
  BY <1>1, <1>3, AsManyAsTheLimit DEF Lists
<1>5. ASSUME age, NEW k \in DOMAIN edges, edges[k].from \in starts
      PROVE  k \in loaded /\ edges[k].to \in {vertices[n].id : n \in DOMAIN vertices}
  <2>1. loaded \in SUBSET DOMAIN edges
    BY DEF LoadAgeGraph
  <2>2. OneHop(edges, DOMAIN edges, edges[k].from) = OneHop(edges, loaded, edges[k].from)
    <3> HIDE DEF starts, loaded
    <3> QED BY <1>2, <1>5 DEF Publishable, SameHops
  <2>3. k \in loaded
    <3> HIDE DEF loaded
    <3> QED BY <2>1, <2>2, NoEdgeLost
  <2> QED BY <2>3, <1>5 DEF LoadAgeGraph
<1> HIDE DEF starts, loaded
<1> QED BY <1>2, <1>4, <1>5 DEF GraphWhole

-----------------------------------------------------------------------------
(* The specification: loads of any rows, and builds of any inputs.         *)

BuildAsked ==
  \/ \E input \in Seq(VertexRow) : AskBuild("lexical", input, << >>, FALSE)
  \/ \E input \in Seq(VectorRow) : AskBuild("vector", input, << >>, FALSE)
  \/ \E input \in Seq(VertexRow), edges \in Seq(EdgeRow), age \in BOOLEAN : AskBuild("graph", input, edges, age)
TablesStep == Steps \/ ((BuildAsked \/ Return) /\ UNCHANGED store)
TablesSpec == call = Ready /\ StoreInit /\ [][TablesStep]_<<call, store>>

\* What a build answers.
LEMMA BuildsAreWhole ==
  ASSUME BuildAsked
  PROVE  ActivatedIsWhole'
<1> DEFINE Answer(kind, input, edges, age, result) ==
             [op |-> "build", kind |-> kind, input |-> input, edges |-> edges, age |-> age, result |-> result,
              publishable |-> Publishable(input, result)]
<1>1. ASSUME NEW input \in Seq(VertexRow), AskBuild("lexical", input, << >>, FALSE) PROVE ActivatedIsWhole'
  <2> DEFINE result == BuildLexical(input)
  <2>1. call' = Answer("lexical", input, << >>, FALSE, result)
    BY <1>1 DEF AskBuild, Ask, BuildOne
  <2>2. \A r \in VertexRow : r.id \in Int
    BY DEF VertexRow
  <2> HIDE DEF result
  <2>3. Publishable(input, result) => FoundAll(input, result)
    BY <2>2, PublishableFindsAll
  <2> QED BY <2>1, <2>3 DEF ActivatedIsWhole, FoundAll
<1>2. ASSUME NEW input \in Seq(VectorRow), AskBuild("vector", input, << >>, FALSE) PROVE ActivatedIsWhole'
  <2> DEFINE result == BuildVector(input)
  <2>1. call' = Answer("vector", input, << >>, FALSE, result)
    BY <1>2 DEF AskBuild, Ask, BuildOne
  <2>2. \A r \in VectorRow : r.id \in Int
    BY DEF VectorRow
  <2>3. ASSUME Publishable(input, result)
        PROVE  \A j, k \in DOMAIN input : input[j].vector = input[k].vector /\ input[k].vector # 0
    BY <2>3, VectorsAreAlike
  <2> HIDE DEF result
  <2>4. Publishable(input, result) => FoundAll(input, result)
    BY <2>2, PublishableFindsAll
  <2> QED BY <2>1, <2>3, <2>4 DEF ActivatedIsWhole, FoundAll
<1>3. ASSUME NEW input \in Seq(VertexRow), NEW edges \in Seq(EdgeRow), NEW age \in BOOLEAN,
             AskBuild("graph", input, edges, age)
      PROVE  ActivatedIsWhole'
  <2> DEFINE result == BuildGraph(input, edges, age)
  <2>1. call' = Answer("graph", input, edges, age, result)
    BY <1>3 DEF AskBuild, Ask, BuildOne
  <2>2. \A r \in VertexRow : r.id \in Int
    BY DEF VertexRow
  <2>3. result = BuildGraph(input, edges, age)
    OBVIOUS
  <2> HIDE DEF result
  <2>4. Publishable(input, result) => FoundAll(input, result) /\ GraphWhole(input, edges, age, result)
    BY <2>2, <2>3, PublishableFindsAll, GraphIsWhole
  <2> QED BY <2>1, <2>4 DEF ActivatedIsWhole, FoundAll, GraphWhole
<1> QED BY <1>1, <1>2, <1>3 DEF BuildAsked

\* A load that is built has just been committed, with the chunks of its snapshot.
Replaces(s) ==
  store.session[s].at = "loaded" /\ store'.session[s].at = "built" =>
    RowKeys("chunks", store'.rows["chunks"]) = store.session[s].keep
\* Only CommitLoad ends a load so.
LEMMA LoadsReplace ==
  ASSUME TablesInv, Steps, NEW s \in Session
  PROVE  Replaces(s)
<1> SUFFICES ASSUME store.session[s].at = "loaded", store'.session[s].at = "built"
             PROVE  RowKeys("chunks", store'.rows["chunks"]) = store.session[s].keep
  BY DEF Replaces
<1>0. store \in StoreType /\ store.session \in Sessions /\ NoTransaction.at = "none"
  BY DEF TablesInv, StoreType, NoTransaction
\* The step is one of this session.
<1>1. ASSUME NEW o \in Session, NEW x, store'.session = [store.session EXCEPT ![o] = x]
      PROVE  o = s /\ x.at = "built"
  BY <1>0, <1>1 DEF Sessions
<1>2. ASSUME NEW o \in Session, NEW transaction, Start(o, transaction) PROVE FALSE
  <2>1. store'.session = [store.session EXCEPT ![o] = transaction] /\ store.session[o].at = "none"
    BY <1>0, <1>2 DEF Start, StoreType
  <2> QED BY <2>1, <1>1
<1>3. ASSUME NEW o \in Session, store' = RollBack(o) PROVE FALSE
  <2>1. store'.session = [store.session EXCEPT ![o] = NoTransaction]
    BY <1>0, <1>3 DEF RollBack, StoreType
  <2> QED BY <2>1, <1>0, <1>1
<1>4. ASSUME NEW o \in Session, CopyToStaging(o) PROVE FALSE
  <2>1. store.session[o].at = "begun"
    BY <1>4 DEF CopyToStaging, Loading
  <2>2. \A p \in Session \ {o} : store'.session[p] = store.session[p]
    BY <1>0, <1>4 DEF CopyToStaging, StoreType, Sessions
  <2> QED BY <2>1, <2>2
<1>5. ASSUME NEW o \in Session, Upsert(o) PROVE FALSE
  <2>1. store.session[o].at = "copied"
    BY <1>5 DEF Upsert, Loading
  <2>2. store' # RollBack(o)
    BY <1>3
  <2>3. PICK x : store' = [store EXCEPT !.session[o] = x]
    BY <1>5, <2>2 DEF Upsert
  <2>4. store'.session = [store.session EXCEPT ![o] = x]
    BY <1>0, <2>3 DEF StoreType
  <2> QED BY <2>1, <2>4, <1>1
<1>6. ASSUME NEW o \in Session, RetractAbsent(o) PROVE FALSE
  <2>1. store.session[o].at = "begun"
    BY <1>6 DEF RetractAbsent, Loading
  <2>2. store' # RollBack(o)
    BY <1>3
  <2>3. \A p \in Session \ {o} : store'.session[p] = store.session[p]
    BY <1>0, <1>6, <2>2 DEF RetractAbsent, StoreType, Sessions
  <2> QED BY <2>1, <2>3
<1>7. ASSUME NEW o \in Session, CommitLoad(o) PROVE RowKeys("chunks", store'.rows["chunks"]) = store.session[s].keep
  <2> DEFINE x == store.session[s]
             z == IF store.session[o].lexical THEN [store.session[o] EXCEPT !.at = "built"] ELSE NoTransaction
             rows == [t \in Table |-> Visible(o, t)]
  <2>1. store' = [store EXCEPT !.rows = rows, !.session[o] = z]
    BY <1>7 DEF CommitLoad
  <2>2. store'.session = [store.session EXCEPT ![o] = z] /\ store'.rows = rows
    <3> HIDE DEF z, rows
    <3> QED BY <1>0, <2>1 DEF StoreType
  <2>3. o = s /\ z.at = "built"
    <3> HIDE DEF z
    <3> QED BY <2>2, <1>1
  <2>4. x.lexical
    BY <2>3, <1>0
  <2>5. x \in Load /\ Own(store.rows, x)
    BY SessionAt DEF Active
  <2>6. RowKeys("chunks", Seen(store.rows, x, "chunks")) = x.keep
    <3> HIDE DEF x
    <3>1. x.at = "loaded"
      BY DEF x
    <3> QED BY <3>1, <2>4, <2>5 DEF Own, Lexical
  <2>7. rows["chunks"] = Seen(store.rows, x, "chunks")
    BY <2>3, Visibly, FactsReferToText
  <2> QED BY <2>2, <2>6, <2>7
<1> QED
  <2>1. PICK o \in Session :
          \/ \E x \in AnySnapshots : StartLexical(o, x.documents, x.chunks)
          \/ \E b \in Batch : StartBatch(o, b.table, b.batch)
          \/ CopyToStaging(o) \/ Upsert(o) \/ RetractAbsent(o) \/ CommitLoad(o) \/ AbortLoad(o) \/ Release(o)
    BY DEF Steps, TablesNext
  <2>2. ~(\E x \in AnySnapshots : StartLexical(o, x.documents, x.chunks)) /\ ~(\E b \in Batch : StartBatch(o, b.table, b.batch))
    BY <1>2 DEF StartLexical, StartBatch
  <2>3. ~AbortLoad(o) /\ ~Release(o)
    BY <1>3 DEF AbortLoad, Release
  <2> QED BY <2>1, <2>2, <2>3, <1>4, <1>5, <1>6, <1>7

\* Before anything is loaded there is nothing.
LEMMA TablesBegin ==
  ASSUME call = Ready, StoreInit
  PROVE  TablesInv /\ ActivatedIsWhole
<1>1. store \in StoreType
  BY DEF StoreInit, StoreType, Tables, Sessions
<1>2. Consistent(store.rows, store.session)
  <2>1. /\ \A t \in Table : store.rows[t] = {}
        /\ \A s \in Session : ~Active(store.session[s])
    BY DEF StoreInit, Active, NoTransaction
  <2> QED BY <1>1, <2>1, FactsReferToText DEF Consistent, StoreType, OneEach, Kept
<1>3. ActivatedIsWhole
  BY DEF ActivatedIsWhole, Ready
<1> QED BY <1>1, <1>2, <1>3 DEF TablesInv

\* However many loads run at once, are refused, die or roll back, no reference
\* loses its row, no two embeddings are of one target, and a load of a snapshot
\* leaves its chunks; and a projection that may be activated is whole.
THEOREM TablesAreSound == TablesSpec => TablesHold
<1>1. call = Ready /\ StoreInit => TablesInv /\ ActivatedIsWhole
  BY TablesBegin
<1>2. TablesInv /\ ActivatedIsWhole /\ [TablesStep]_<<call, store>> => TablesInv' /\ ActivatedIsWhole'
  <2> SUFFICES ASSUME TablesInv, ActivatedIsWhole, [TablesStep]_<<call, store>>
               PROVE  TablesInv' /\ ActivatedIsWhole'
    OBVIOUS
  <2>1. CASE Steps
    <3>1. call'.op = "tables"
      <4>1. PICK s \in Session :
              \/ \E x \in AnySnapshots : StartLexical(s, x.documents, x.chunks)
              \/ \E b \in Batch : StartBatch(s, b.table, b.batch)
              \/ CopyToStaging(s) \/ Upsert(s) \/ RetractAbsent(s) \/ CommitLoad(s) \/ AbortLoad(s) \/ Release(s)
        BY <2>1 DEF Steps, TablesNext
      <4>2. ASSUME NEW x, Start(s, x) PROVE call'.op = "tables"
        BY <4>2 DEF Start
      <4>3. ASSUME NEW at, Loading(s, at) PROVE call'.op = "tables"
        BY <4>3 DEF Loading
      <4>4. (\E x \in AnySnapshots : StartLexical(s, x.documents, x.chunks)) => call'.op = "tables"
        BY <4>2 DEF StartLexical
      <4>5. (\E b \in Batch : StartBatch(s, b.table, b.batch)) => call'.op = "tables"
        BY <4>2 DEF StartBatch
      <4>6. CopyToStaging(s) \/ Upsert(s) \/ RetractAbsent(s) => call'.op = "tables"
        BY <4>3 DEF CopyToStaging, Upsert, RetractAbsent
      <4>7. CommitLoad(s) \/ AbortLoad(s) \/ Release(s) => call'.op = "tables"
        BY <4>3 DEF CommitLoad, AbortLoad, Release
      <4> QED BY <4>1, <4>4, <4>5, <4>6, <4>7
    <3> QED BY <3>1, <2>1, TablesStay DEF ActivatedIsWhole
  <2>2. CASE BuildAsked /\ UNCHANGED store
    BY <2>2, BuildsAreWhole DEF TablesInv
  <2>3. CASE Return /\ UNCHANGED store
    BY <2>3 DEF Return, Ready, ActivatedIsWhole, TablesInv
  <2>4. CASE UNCHANGED <<call, store>>
    BY <2>4 DEF TablesInv, ActivatedIsWhole
  <2> QED BY <2>1, <2>2, <2>3, <2>4 DEF TablesStep
<1>3. TablesInv => OneEmbeddingEach /\ FactsKeepText
  BY FactsReferToText DEF TablesInv, Consistent, OneEach, Kept, Texts, OneEmbeddingEach, FactsKeepText
<1>4. TablesInv /\ [TablesStep]_<<call, store>> => [\A s \in Session : Replaces(s)]_store
  BY LoadsReplace DEF TablesStep
<1>5. QED
  <2>1. [][\A s \in Session : Replaces(s)]_store <=> LoadReplacesChunks
    BY PTL DEF Replaces, LoadReplacesChunks
  <2> QED BY <1>1, <1>2, <1>3, <1>4, <2>1, PTL DEF TablesSpec, TablesHold

-----------------------------------------------------------------------------
(***************************************************************************)
(* The bundles of evaluations, for every set of evaluations                *)
(***************************************************************************)
\* Bundles that cite nothing, and the bundle of a final stage.
Inputs == [protocol : Nat, code : Nat]
Plain == [what : {"bundle"}, inputs : Inputs, cites : {NoBundle}]
Bundle == [what : {"bundle"}, inputs : Inputs, cites : {NoBundle} \cup Plain]

Running == {"verify", "look", "execute", "write"}
Publishing == {"claim", "replace", "clean"}
Reading == [at : Running, stage : Stage, protocol : Nat, cites : {NoBundle} \cup Plain]
Moving == [at : Publishing, stage : Stage, protocol : Nat, cites : {NoBundle} \cup Plain,
           staging : Bundle]

BundleTypeOK ==
  /\ project \in [protocol : Nat, splits : Nat, code : Nat]
  /\ bundles \in [Stage -> {NoBundle, Claimed} \cup Bundle]
  /\ evaluation \in [Evaluation -> {Resting} \cup Reading \cup Moving]
  /\ evaluated \in [edits : Nat, deaths : Nat]

\* Only the final stage cites, so that its plan cites nothing.
PlansArePlain ==
  /\ IsWhole("preregister") => bundles["preregister"] \in Plain
  /\ \A e \in Evaluation :
       evaluation[e] # Resting /\ evaluation[e].stage = "preregister" => evaluation[e].cites = NoBundle

\* Only the final stage looks for a plan.
VerifiesFinal ==
  \A e \in Evaluation : evaluation[e].at = "verify" => evaluation[e].stage = "final"

\* Where an evaluation is about to move its bundle stands its own claim.
ClaimHeld ==
  /\ \A e \in Evaluation : evaluation[e].at = "replace" => bundles[evaluation[e].stage] = Claimed
  /\ \A e, f \in Evaluation :
       /\ evaluation[e].at = "replace" /\ evaluation[f].at = "replace"
       /\ evaluation[e].stage = evaluation[f].stage
       => e = f

\* Without a death the claims are those of evaluations.
ClaimOwned ==
  evaluated.deaths = 0 =>
    \A s \in Stage : bundles[s] = Claimed =>
      \E e \in Evaluation : evaluation[e].at = "replace" /\ evaluation[e].stage = s

\* A final stage beyond its check cites the plan that is there, of the protocol
\* it has loaded.
Cites(job) ==
  /\ IsWhole("preregister")
  /\ job.cites = bundles["preregister"]
  /\ job.cites.inputs.protocol = job.protocol
FinalsCite ==
  \A e \in Evaluation :
    evaluation[e].at \notin {"idle", "verify"} /\ evaluation[e].stage = "final" => Cites(evaluation[e])

\* What is staged is of the evaluation's stage.
StagedOwn ==
  \A e \in Evaluation : evaluation[e].at \in Publishing =>
    /\ evaluation[e].staging.cites = evaluation[e].cites
    /\ evaluation[e].staging.inputs.protocol = evaluation[e].protocol

BundlesInv == BundleTypeOK /\ PlansArePlain /\ VerifiesFinal /\ ClaimHeld /\ ClaimOwned /\ FinalsCite /\ StagedOwn /\ FinalFollowsPlan

-----------------------------------------------------------------------------
\* Nothing is published yet, and no evaluation runs.
LEMMA BundlesInitially == call = Ready /\ BundleInit => BundlesInv
  <1> SUFFICES ASSUME BundleInit PROVE BundlesInv
    OBVIOUS
  <1>1. \A s \in Stage : bundles[s] = NoBundle
    BY DEF BundleInit
  <1>2. \A e \in Evaluation : evaluation[e] = Resting
    BY DEF BundleInit
  <1>3. BundleTypeOK
    BY DEF BundleInit, BundleTypeOK
  <1>4. ~IsWhole("preregister") /\ ~IsWhole("final")
    BY <1>1 DEF IsWhole, NoBundle, Stage
  <1>5. PlansArePlain /\ VerifiesFinal /\ FinalsCite /\ StagedOwn /\ FinalFollowsPlan
    BY <1>2, <1>4 DEF PlansArePlain, VerifiesFinal, FinalsCite, StagedOwn, FinalFollowsPlan, Resting, Publishing
  <1>6. ClaimHeld /\ ClaimOwned
    BY <1>1, <1>2 DEF ClaimHeld, ClaimOwned, Resting, NoBundle, Claimed
  <1>7. QED
    BY <1>3, <1>5, <1>6 DEF BundlesInv

\* An evaluation that goes on and does not touch a place.
LEMMA MoveOn ==
  ASSUME BundlesInv, NEW e \in Evaluation, NEW job \in {Resting} \cup Reading \cup Moving,
         GoTo(e, job), bundles' = bundles, evaluated' = evaluated,
         project' = project,
         evaluation[e].at # "replace", job.at # "replace",
         job # Resting /\ job.stage = "preregister" => job.cites = NoBundle,
         job.at = "verify" => job.stage = "final",
         job.at \notin {"idle", "verify"} /\ job.stage = "final" => Cites(job),
         job.at \in Publishing => /\ job.staging.cites = job.cites
                                  /\ job.staging.inputs.protocol = job.protocol
  PROVE  BundlesInv'
  <1>1. \A f \in Evaluation : evaluation'[f] = IF f = e THEN job ELSE evaluation[f]
    BY DEF GoTo, BundlesInv, BundleTypeOK
  <1>2. BundleTypeOK'
    BY DEF GoTo, BundlesInv, BundleTypeOK
  <1>3. PlansArePlain' /\ VerifiesFinal'
    BY <1>1 DEF BundlesInv, PlansArePlain, VerifiesFinal, IsWhole
  <1>4. ClaimHeld'
    BY <1>1 DEF BundlesInv, ClaimHeld
  <1>5. ClaimOwned'
    BY <1>1 DEF BundlesInv, ClaimOwned
  <1>6. FinalsCite'
    BY <1>1 DEF BundlesInv, FinalsCite, Cites, IsWhole
  <1>7. StagedOwn'
    BY <1>1 DEF BundlesInv, StagedOwn
  <1>8. FinalFollowsPlan'
    BY DEF BundlesInv, FinalFollowsPlan, IsWhole
  <1>9. QED
    BY <1>2, <1>3, <1>4, <1>5, <1>6, <1>7, <1>8 DEF BundlesInv

\* Where an evaluation is.
LEMMA Places ==
  ASSUME BundleTypeOK, NEW e \in Evaluation
  PROVE  /\ evaluation[e].at = "idle" <=> evaluation[e] = Resting
         /\ evaluation[e].at \in Running => evaluation[e] \in Reading
         /\ evaluation[e].at \in Publishing => evaluation[e] \in Moving
         /\ Resting.at = "idle"
  BY DEF BundleTypeOK, Resting, Reading, Moving, Running, Publishing

-----------------------------------------------------------------------------
\* Edits of the frozen inputs change what later evaluations read only.
LEMMA EditProjectInv == BundlesInv /\ EditProject => BundlesInv'
  <1> SUFFICES ASSUME BundlesInv, EditProject PROVE BundlesInv'
    OBVIOUS
  <1>1. project' \in [protocol : Nat, splits : Nat, code : Nat]
    <2>1. PICK parts \in {{"protocol", "splits"}, {"splits"}, {"code"}} :
            project' = [p \in DOMAIN project |-> IF p \in parts THEN project[p] + 1 ELSE project[p]]
      BY DEF EditProject
    <2>2. QED
      BY <2>1 DEF BundlesInv, BundleTypeOK
  <1>2. /\ bundles' = bundles /\ evaluation' = evaluation
        /\ evaluated' \in [edits : Nat, deaths : Nat] /\ evaluated'.deaths = evaluated.deaths
    BY DEF EditProject, BundlesInv, BundleTypeOK
  <1>3. BundleTypeOK'
    BY <1>1, <1>2 DEF BundlesInv, BundleTypeOK
  <1>4. PlansArePlain' /\ FinalFollowsPlan' /\ FinalsCite'
    BY <1>2 DEF BundlesInv, PlansArePlain, FinalFollowsPlan, FinalsCite, Cites, IsWhole
  <1>5. ClaimHeld' /\ ClaimOwned' /\ StagedOwn' /\ VerifiesFinal'
    BY <1>2 DEF BundlesInv, ClaimHeld, ClaimOwned, StagedOwn, VerifiesFinal
  <1>6. QED
    BY <1>3, <1>4, <1>5 DEF BundlesInv

\* An evaluation that begins has cited nothing; a final one is to look for its
\* plan first.
LEMMA StartInv ==
  ASSUME BundlesInv, NEW e \in Evaluation, NEW stage \in Stage, NEW at \in Running, NEW protocol \in Nat,
         StartEvaluation(e, stage, at, protocol), stage = "final" <=> at = "verify"
  PROVE  BundlesInv'
  <1> DEFINE job == [at |-> at, stage |-> stage, protocol |-> protocol, cites |-> NoBundle]
  <1>1. job \in Reading
    BY DEF Reading
  <1>2. evaluation[e].at = "idle"
    BY DEF StartEvaluation, Resting
  <1>3. job.at \notin Publishing /\ job.at # "replace"
    BY DEF Running, Publishing
  <1>4. GoTo(e, job) /\ bundles' = bundles /\ evaluated' = evaluated /\ project' = project
    BY DEF StartEvaluation
  <1> HIDE DEF job
  <1>5. job.cites = NoBundle /\ job.stage = stage /\ job.at = at
    BY DEF job
  <1>6. QED
    BY <1>1, <1>2, <1>3, <1>4, <1>5, MoveOn

\* An evaluation of a stage begins with what it reads of the project.
LEMMA RunStageInv == ASSUME BundlesInv, NEW e \in Evaluation, RunStage(e) PROVE BundlesInv'
  <1>1. PICK stage \in Stage \ {"calibration"} :
          StartEvaluation(e, stage, CASE stage = "preregister" -> "write" [] stage = "final" -> "verify"
                            [] OTHER -> "look", LoadedProtocol)
    BY DEF RunStage
  <1>2. LoadedProtocol \in Nat
    BY DEF BundlesInv, BundleTypeOK, LoadedProtocol
  <1>3. CASE stage = "preregister"
    BY <1>1, <1>2, <1>3, StartInv DEF Running
  <1>4. CASE stage = "final"
    BY <1>1, <1>2, <1>4, StartInv DEF Running
  <1>5. CASE stage \notin {"preregister", "final"}
    BY <1>1, <1>2, <1>5, StartInv DEF Running
  <1>6. QED
    BY <1>3, <1>4, <1>5

\* So does a calibration.
LEMMA RunCalibrationInv == ASSUME BundlesInv, NEW e \in Evaluation, RunCalibration(e) PROVE BundlesInv'
  BY StartInv DEF RunCalibration, Stage, Running

\* An evaluation that gives up without having claimed a place.
LEMMA RestInv ==
  ASSUME BundlesInv, NEW e \in Evaluation, GoTo(e, Resting), bundles' = bundles, evaluated' = evaluated,
         project' = project, evaluation[e].at # "replace"
  PROVE  BundlesInv'
  BY MoveOn DEF Resting, Publishing

\* An evaluation that goes on as the one it is.
GoesOn(e, job) ==
  /\ job.stage = evaluation[e].stage
  /\ job.cites = evaluation[e].cites
  /\ job.protocol = evaluation[e].protocol

\* A step between two phases that touches neither bundles nor project.
LEMMA GoOnInv ==
  ASSUME BundlesInv, NEW e \in Evaluation, NEW job \in Reading \cup Moving,
         GoTo(e, job), bundles' = bundles, evaluated' = evaluated, project' = project,
         evaluation[e].at \in (Running \cup Publishing) \ {"verify", "replace"},
         job.at \notin {"verify", "replace"}, GoesOn(e, job),
         job.at \in Publishing => /\ job.staging.cites = job.cites
                                  /\ job.staging.inputs.protocol = job.protocol
  PROVE  BundlesInv'
  <1>1. evaluation[e] # Resting
    BY DEF Resting, Running, Publishing
  <1>2. job.stage = "preregister" => job.cites = NoBundle
    BY <1>1 DEF BundlesInv, PlansArePlain, GoesOn
  <1>3. job.stage = "final" => Cites(job)
    BY DEF BundlesInv, FinalsCite, Cites, GoesOn, Running, Publishing
  <1>4. QED
    BY <1>1, <1>2, <1>3, MoveOn

\* The final stage takes what it cites from the preregistration that stands.
LEMMA VerifyInv == ASSUME BundlesInv, NEW e \in Evaluation, VerifyPreregistration(e) PROVE BundlesInv'
  <1>0. evaluation[e].at = "verify" /\ bundles' = bundles /\ evaluated' = evaluated /\ project' = project
    BY DEF VerifyPreregistration, BundleStep
  <1>1. CASE PlanFor(e)
    <2> DEFINE job == [evaluation[e] EXCEPT !.at = "look", !.cites = bundles["preregister"]]
    <2>1. evaluation[e] \in Reading /\ evaluation[e] # Resting
      BY <1>0, Places DEF BundlesInv, Running
    <2>2. bundles["preregister"] \in Plain /\ IsWhole("preregister")
      BY <1>1 DEF BundlesInv, PlansArePlain, PlanFor
    <2>3. bundles["preregister"].inputs.protocol = evaluation[e].protocol
      BY <1>1 DEF PlanFor, InputFingerprints
    <2>4. job \in Reading
      BY <2>1, <2>2 DEF Reading, Running
    <2>5. /\ job.at = "look" /\ job.stage = evaluation[e].stage /\ job.cites = bundles["preregister"]
          /\ job.protocol = evaluation[e].protocol
      BY <2>1 DEF Reading
    <2>6. GoTo(e, job)
      BY <1>1 DEF VerifyPreregistration
    <2>7. evaluation[e].stage = "final"
      BY <2>1, <1>0 DEF BundlesInv, VerifiesFinal
    <2> HIDE DEF job
    <2>8. Cites(job)
      BY <2>2, <2>3, <2>5 DEF Cites
    <2>9. QED
      BY <1>0, <2>4, <2>5, <2>6, <2>7, <2>8, MoveOn DEF Publishing
  <1>2. CASE ~PlanFor(e)
    BY <1>0, <1>2, RestInv DEF VerifyPreregistration
  <1>3. QED
    BY <1>1, <1>2

\* A place that is taken ends the evaluation.
LEMMA LookInv == ASSUME BundlesInv, NEW e \in Evaluation, LookForBundle(e) PROVE BundlesInv'
  <1>0. evaluation[e].at = "look" /\ bundles' = bundles /\ evaluated' = evaluated /\ project' = project
    BY DEF LookForBundle, BundleStep
  <1>1. CASE bundles[evaluation[e].stage] = NoBundle
    <2> DEFINE job == [evaluation[e] EXCEPT !.at = "execute"]
    <2>1. GoTo(e, job)
      BY <1>1 DEF LookForBundle
    <2>2. job \in Reading /\ job.at = "execute"
      BY <1>0, Places DEF BundlesInv, Running, Reading
    <2>3. GoesOn(e, job)
      BY <1>0, Places DEF BundlesInv, Running, Reading, GoesOn
    <2> HIDE DEF job
    <2>4. QED
      BY <1>0, <2>1, <2>2, <2>3, GoOnInv DEF Running, Publishing
  <1>2. CASE bundles[evaluation[e].stage] # NoBundle
    BY <1>0, <1>2, RestInv DEF LookForBundle
  <1>3. QED
    BY <1>1, <1>2

\* Running the queries changes nothing that others see.
LEMMA ExecuteInv == ASSUME BundlesInv, NEW e \in Evaluation, ExecuteQueries(e) PROVE BundlesInv'
  <1>0. evaluation[e].at = "execute" /\ bundles' = bundles /\ evaluated' = evaluated /\ project' = project
    BY DEF ExecuteQueries, BundleStep
  <1> DEFINE job == [evaluation[e] EXCEPT !.at = "write"]
  <1>1. CASE GoTo(e, job)
    <2>1. job \in Reading /\ job.at = "write" /\ GoesOn(e, job)
      BY <1>0, Places DEF BundlesInv, Running, Reading, GoesOn
    <2> HIDE DEF job
    <2>2. QED
      BY <1>0, <1>1, <2>1, GoOnInv DEF Running, Publishing
  <1>2. CASE GoTo(e, Resting)
    BY <1>0, <1>2, RestInv
  <1>3. QED
    BY <1>1, <1>2 DEF ExecuteQueries

\* What is staged carries what the evaluation has read.
LEMMA WriteInv == ASSUME BundlesInv, NEW e \in Evaluation, WriteStaging(e) PROVE BundlesInv'
  <1>0. evaluation[e].at = "write" /\ bundles' = bundles /\ evaluated' = evaluated /\ project' = project
    BY DEF WriteStaging, BundleStep
  <1>1. evaluation[e] \in Reading
    BY <1>0, Places DEF BundlesInv, Running
  <1> DEFINE job == [at |-> "claim", stage |-> evaluation[e].stage, protocol |-> evaluation[e].protocol,
                     cites |-> evaluation[e].cites, staging |-> Staged(e)]
  <1>2. CASE GoTo(e, job)
    <2>1. Staged(e) \in Bundle
      BY <1>1 DEF Staged, InputFingerprints, Bundle, Inputs, Reading, BundlesInv, BundleTypeOK
    <2>2. job \in Moving /\ job.at = "claim" /\ GoesOn(e, job)
      BY <1>1, <2>1 DEF Moving, Publishing, Reading, GoesOn
    <2>3. job.staging.cites = job.cites /\ job.staging.inputs.protocol = job.protocol
      BY DEF Staged, InputFingerprints
    <2> HIDE DEF job
    <2>4. QED
      BY <1>0, <1>2, <2>2, <2>3, GoOnInv DEF Running, Publishing
  <1>3. CASE GoTo(e, Resting)
    BY <1>0, <1>3, RestInv
  <1>4. QED
    BY <1>2, <1>3 DEF WriteStaging

\* The places change, and one evaluation goes on.
LEMMA ClaimInv == ASSUME BundlesInv, NEW e \in Evaluation, ClaimName(e) PROVE BundlesInv'
  <1>0. evaluation[e].at = "claim" /\ evaluated' = evaluated /\ project' = project
    BY DEF ClaimName, BundleStep
  <1>1. evaluation[e] \in Moving
    BY <1>0, Places DEF BundlesInv, Publishing
  <1>2. CASE bundles[evaluation[e].stage] = NoBundle
    <2> DEFINE job == [evaluation[e] EXCEPT !.at = "replace"]
               stage == evaluation[e].stage
    <2>1. bundles' = [bundles EXCEPT ![stage] = Claimed] /\ GoTo(e, job)
      BY <1>2 DEF ClaimName
    <2>2. job \in Moving /\ stage \in Stage
      BY <1>1 DEF Moving, Publishing
    <2>3. job.at = "replace" /\ GoesOn(e, job) /\ job.stage = stage /\ job.staging = evaluation[e].staging
      BY <1>1 DEF Moving, Publishing, GoesOn
    <2> HIDE DEF job
    <2>4. \A f \in Evaluation : evaluation'[f] = IF f = e THEN job ELSE evaluation[f]
      BY <2>1 DEF GoTo, BundlesInv, BundleTypeOK
    <2>5. \A s \in Stage : bundles'[s] = IF s = stage THEN Claimed ELSE bundles[s]
      BY <2>1 DEF BundlesInv, BundleTypeOK
    <2>6. \A s \in Stage : bundles'[s].what = "bundle" <=> s # stage /\ bundles[s].what = "bundle"
      <3> HIDE DEF stage
      <3>1. QED
        BY <2>2, <2>5 DEF NoBundle, Claimed
    <2> bundles[stage].what # "bundle"
      BY <1>2 DEF NoBundle
    <2>7. \A f \in Evaluation : evaluation[f].at = "replace" => evaluation[f].stage # stage
      BY <1>2 DEF BundlesInv, ClaimHeld, NoBundle, Claimed
    <2>8. BundleTypeOK'
      BY <1>0, <2>1, <2>2 DEF GoTo, BundlesInv, BundleTypeOK
    <2>9. PlansArePlain' /\ VerifiesFinal'
      BY <1>0, <2>3, <2>4, <2>5, <2>6, Places DEF BundlesInv, PlansArePlain, VerifiesFinal, GoesOn, Stage, IsWhole, Resting
    <2>10. ClaimHeld'
      <3>1. ASSUME NEW f \in Evaluation, (evaluation[f].at = "replace")'
            PROVE  bundles'[evaluation'[f].stage] = Claimed
        <4>1. CASE f = e
          BY <4>1, <2>2, <2>3, <2>4, <2>5
        <4>2. CASE f # e
          <5>1. evaluation'[f] = evaluation[f] /\ evaluation[f].at = "replace"
            BY <3>1, <4>2, <2>4
          <5>2. evaluation[f].stage \in Stage /\ bundles[evaluation[f].stage] = Claimed
            BY <5>1, Places DEF BundlesInv, ClaimHeld, Moving, Publishing
          <5>3. QED
            BY <5>1, <5>2, <2>5
        <4>3. QED
          BY <4>1, <4>2
      <3>2. ASSUME NEW f \in Evaluation, NEW g \in Evaluation,
                   evaluation'[f].at = "replace" /\ evaluation'[g].at = "replace",
                   evaluation'[f].stage = evaluation'[g].stage
            PROVE  f = g
        BY <3>2, <2>3, <2>4, <2>7 DEF BundlesInv, ClaimHeld
      <3>3. QED
        BY <3>1, <3>2 DEF ClaimHeld
    <2>11. ClaimOwned'
      BY <1>0, <2>2, <2>3, <2>4, <2>5 DEF BundlesInv, ClaimOwned
    <2>12. FinalsCite'
      BY <1>0, <2>3, <2>4, <2>5, <2>6 DEF BundlesInv, FinalsCite, Cites, GoesOn, Stage, IsWhole
    <2>13. StagedOwn'
      BY <1>0, <2>3, <2>4 DEF BundlesInv, StagedOwn, GoesOn, Publishing
    <2>14. FinalFollowsPlan'
      BY <2>2, <2>5, <2>6 DEF BundlesInv, FinalFollowsPlan, Stage, IsWhole
    <2>15. QED
      BY <2>8, <2>9, <2>10, <2>11, <2>12, <2>13, <2>14 DEF BundlesInv
  <1>3. CASE bundles[evaluation[e].stage] # NoBundle
    <2> DEFINE job == [evaluation[e] EXCEPT !.at = "clean"]
    <2>1. bundles' = bundles /\ GoTo(e, job)
      BY <1>3 DEF ClaimName
    <2>2. job \in Moving /\ job.at = "clean" /\ GoesOn(e, job) /\ job.staging = evaluation[e].staging
      BY <1>1 DEF Moving, Publishing, GoesOn
    <2> HIDE DEF job
    <2>3. QED
      BY <1>0, <2>1, <2>2, GoOnInv DEF Running, Publishing, BundlesInv, StagedOwn, GoesOn
  <1>4. QED
    BY <1>2, <1>3

\* An evaluation that fails takes away its own claim and nothing else.
LEMMA CleanUpInv == ASSUME BundlesInv, NEW e \in Evaluation, CleanUp(e) PROVE BundlesInv'
  BY RestInv DEF CleanUp, BundleStep, RemoveStaging

\* Dying leaves a claim without its evaluation, but then there was a death.
LEMMA DiesInv == ASSUME BundlesInv, NEW e \in Evaluation, Dies(e) PROVE BundlesInv'
  <1>1. /\ bundles' = bundles /\ project' = project /\ evaluated'.deaths # 0
        /\ evaluated' \in [edits : Nat, deaths : Nat]
    BY DEF Dies, BundlesInv, BundleTypeOK
  <1>2. \A f \in Evaluation : evaluation'[f] = IF f = e THEN Resting ELSE evaluation[f]
    BY DEF Dies, GoTo, BundlesInv, BundleTypeOK
  <1>3. BundleTypeOK'
    BY <1>1 DEF Dies, GoTo, BundlesInv, BundleTypeOK
  <1>4. PlansArePlain' /\ VerifiesFinal'
    BY <1>1, <1>2 DEF BundlesInv, PlansArePlain, VerifiesFinal, IsWhole, Resting
  <1>5. ClaimHeld' /\ ClaimOwned'
    BY <1>1, <1>2 DEF BundlesInv, ClaimHeld, ClaimOwned, Resting
  <1>6. FinalsCite' /\ StagedOwn' /\ FinalFollowsPlan'
    BY <1>1, <1>2 DEF BundlesInv, FinalsCite, Cites, StagedOwn, FinalFollowsPlan, IsWhole, Resting, Publishing
  <1>7. QED
    BY <1>3, <1>4, <1>5, <1>6 DEF BundlesInv

\* The move puts the bundle in place of the claim, or gives the claim back.
LEMMA ReplaceInv ==
  ASSUME BundlesInv, NEW e \in Evaluation, ReplaceClaim(e)
  PROVE  BundlesInv' /\ \A s \in Stage : IsWhole(s) => bundles'[s] = bundles[s]
  <1> PICK stage \in Stage : stage = evaluation[e].stage /\ evaluation[e] \in Moving
    BY Places DEF ReplaceClaim, BundleStep, BundlesInv, Publishing, Moving
  <1>0. evaluation[e].at = "replace" /\ evaluated' = evaluated /\ project' = project
    BY DEF ReplaceClaim, BundleStep
  <1>1. bundles[stage] = Claimed /\ bundles[stage].what # "bundle"
    BY <1>0 DEF BundlesInv, ClaimHeld, Claimed
  <1>2. \A f \in Evaluation : f # e /\ evaluation[f].at = "replace" => evaluation[f].stage # stage
    BY <1>0 DEF BundlesInv, ClaimHeld
  <1>3. PICK job \in {Resting} \cup Moving, placed \in {NoBundle, evaluation[e].staging} :
          /\ GoTo(e, job) /\ bundles' = [bundles EXCEPT ![stage] = placed]
          /\ \/ job = Resting
             \/ job.at = "clean" /\ GoesOn(e, job) /\ job.staging = evaluation[e].staging
    <2>1. CASE GoTo(e, Resting) /\ bundles' = [bundles EXCEPT ![stage] = evaluation[e].staging]
      BY <2>1
    <2>2. CASE GoTo(e, [evaluation[e] EXCEPT !.at = "clean"]) /\ ReleaseClaim(e)
      <3> DEFINE job == [evaluation[e] EXCEPT !.at = "clean"]
      <3>1. job \in Moving /\ job.at = "clean" /\ GoesOn(e, job) /\ job.staging = evaluation[e].staging
        BY DEF Moving, Publishing, GoesOn
      <3> HIDE DEF job
      <3>2. GoTo(e, job) /\ bundles' = [bundles EXCEPT ![stage] = NoBundle]
        BY <2>2 DEF ReleaseClaim, job
      <3>3. QED
        BY <3>1, <3>2
    <2>3. QED
      BY <2>1, <2>2 DEF ReplaceClaim
  <1>4. \A f \in Evaluation : evaluation'[f] = IF f = e THEN job ELSE evaluation[f]
    BY <1>3 DEF GoTo, BundlesInv, BundleTypeOK
  <1>5. \A s \in Stage : bundles'[s] = IF s = stage THEN placed ELSE bundles[s]
    BY <1>3 DEF BundlesInv, BundleTypeOK
  <1>6. placed \in {NoBundle} \cup Bundle
    BY DEF Moving
  <1>7. BundleTypeOK'
    BY <1>0, <1>3, <1>6 DEF GoTo, BundlesInv, BundleTypeOK
  <1>8. placed.what = "bundle" => placed = evaluation[e].staging
    BY <1>3 DEF NoBundle
  <1>9. evaluation[e].staging.cites = evaluation[e].cites /\ evaluation[e].staging.inputs.protocol = evaluation[e].protocol
    BY <1>0 DEF BundlesInv, StagedOwn, Publishing
  <1>10. PlansArePlain'
    <2>1. placed.what = "bundle" /\ stage = "preregister" => placed \in Plain
      <3>1. stage = "preregister" => evaluation[e].cites = NoBundle
        <4>1. evaluation[e] # Resting
          BY <1>0 DEF Resting
        <4>2. QED
          BY <4>1 DEF BundlesInv, PlansArePlain
      <3>2. QED
        BY <3>1, <1>6, <1>8, <1>9 DEF Bundle, Plain, NoBundle
    <2>2. \A f \in Evaluation : evaluation'[f] # Resting /\ evaluation'[f].stage = "preregister"
                                 => evaluation'[f].cites = NoBundle
      BY <1>0, <1>3, <1>4 DEF BundlesInv, PlansArePlain, GoesOn, Resting
    <2>3. QED
      BY <2>1, <2>2, <1>5 DEF BundlesInv, PlansArePlain, IsWhole, Stage
  <1>11. VerifiesFinal' /\ StagedOwn'
    BY <1>3, <1>4, <1>9 DEF BundlesInv, VerifiesFinal, StagedOwn, Publishing, GoesOn, Resting
  <1>12. ClaimHeld'
    <2>1. \A f \in Evaluation : evaluation'[f].at = "replace" => f # e /\ evaluation'[f] = evaluation[f]
      BY <1>3, <1>4 DEF Resting
    <2>2. \A f \in Evaluation : evaluation'[f].at = "replace"
                => evaluation[f].stage \in Stage /\ bundles'[evaluation[f].stage] = bundles[evaluation[f].stage]
      BY <2>1, <1>2, <1>5, Places DEF BundlesInv, Moving, Publishing
    <2>3. QED
      BY <2>1, <2>2 DEF BundlesInv, ClaimHeld
  <1>13. ClaimOwned'
    BY <1>0, <1>4, <1>5, <1>6 DEF BundlesInv, ClaimOwned, NoBundle, Claimed, Bundle
  <1>14. stage = "final" => /\ bundles["preregister"].what = "bundle"
                            /\ evaluation[e].cites = bundles["preregister"]
                            /\ bundles["preregister"].inputs.protocol = evaluation[e].protocol
    BY <1>0 DEF BundlesInv, FinalsCite, Cites, IsWhole
  <1>15. FinalsCite'
    <2>1. ASSUME NEW f \in Evaluation, evaluation'[f].at \notin {"idle", "verify"}, evaluation'[f].stage = "final"
          PROVE  Cites(evaluation[f]) /\ evaluation'[f].cites = evaluation[f].cites
                                     /\ evaluation'[f].protocol = evaluation[f].protocol
      BY <2>1, <1>0, <1>3, <1>4 DEF BundlesInv, FinalsCite, GoesOn, Resting
    <2>2. bundles["preregister"].what = "bundle" => bundles'["preregister"] = bundles["preregister"]
      BY <1>1, <1>5 DEF Stage
    <2>3. QED
      BY <2>1, <2>2 DEF FinalsCite, Cites, IsWhole
  <1>16. FinalFollowsPlan'
    <2>1. CASE stage = "final"
      BY <2>1, <1>5, <1>8, <1>9, <1>14 DEF FinalFollowsPlan, IsWhole, Stage
    <2>2. CASE stage # "final"
      BY <2>2, <1>1, <1>5 DEF BundlesInv, FinalFollowsPlan, IsWhole, Stage
    <2>3. QED
      BY <2>1, <2>2
  <1>17. \A s \in Stage : IsWhole(s) => bundles'[s] = bundles[s]
    BY <1>1, <1>5 DEF IsWhole
  <1>18. QED
    BY <1>7, <1>10, <1>11, <1>12, <1>13, <1>15, <1>16, <1>17 DEF BundlesInv

-----------------------------------------------------------------------------
\* Every step of the evaluations and of the project's edits keeps the invariant.
LEMMA BundlesStep == BundlesInv /\ [BundleNext]_<<call, evaluations>> => BundlesInv'
  <1> SUFFICES ASSUME BundlesInv, [BundleNext]_<<call, evaluations>> PROVE BundlesInv'
    OBVIOUS
  <1>1. CASE EditProject
    BY <1>1, EditProjectInv
  <1>2. ASSUME NEW e \in Evaluation,
               \/ RunStage(e) \/ RunCalibration(e) \/ VerifyPreregistration(e) \/ LookForBundle(e)
               \/ ExecuteQueries(e) \/ WriteStaging(e) \/ ClaimName(e) \/ ReplaceClaim(e)
               \/ CleanUp(e) \/ Dies(e)
        PROVE  BundlesInv'
    BY <1>2, RunStageInv, RunCalibrationInv, VerifyInv, LookInv, ExecuteInv, WriteInv, ClaimInv,
       ReplaceInv, CleanUpInv, DiesInv
  <1>3. CASE UNCHANGED <<call, evaluations>>
    BY <1>3 DEF evaluations, BundlesInv, BundleTypeOK, PlansArePlain, VerifiesFinal, ClaimHeld, ClaimOwned,
                FinalsCite, Cites, StagedOwn, FinalFollowsPlan, IsWhole
  <1>4. QED
    BY <1>1, <1>2, <1>3 DEF BundleNext

\* And none of them changes a bundle that is in place.
LEMMA BundlesStay ==
  BundlesInv /\ [BundleNext]_<<call, evaluations>> => \A s \in Stage : IsWhole(s) => bundles'[s] = bundles[s]
  <1> SUFFICES ASSUME BundlesInv, [BundleNext]_<<call, evaluations>>, NEW s \in Stage, IsWhole(s)
               PROVE  bundles'[s] = bundles[s]
    OBVIOUS
  <1>1. ASSUME NEW e \in Evaluation, ClaimName(e) PROVE bundles'[s] = bundles[s]
    BY <1>1 DEF ClaimName, IsWhole, NoBundle, BundlesInv, BundleTypeOK
  <1>2. ASSUME NEW e \in Evaluation, ReplaceClaim(e) PROVE bundles'[s] = bundles[s]
    BY <1>2, ReplaceInv
  <1>3. ASSUME NEW e \in Evaluation,
               \/ RunStage(e) \/ RunCalibration(e) \/ VerifyPreregistration(e) \/ LookForBundle(e)
               \/ ExecuteQueries(e) \/ WriteStaging(e) \/ CleanUp(e) \/ Dies(e)
        PROVE  bundles'[s] = bundles[s]
    BY <1>3 DEF RunStage, RunCalibration, StartEvaluation, VerifyPreregistration, LookForBundle,
                ExecuteQueries, WriteStaging, CleanUp, RemoveStaging, Dies
  <1>4. CASE EditProject \/ UNCHANGED <<call, evaluations>>
    BY <1>4 DEF EditProject, evaluations
  <1>5. QED
    BY <1>1, <1>2, <1>3, <1>4 DEF BundleNext

\* A claim has one evaluation that is about to move its bundle there.
LEMMA OneClaims == BundlesInv => ClaimsAreHeld
  <1> SUFFICES ASSUME BundlesInv, evaluated.deaths = 0, NEW s \in Stage, bundles[s] = Claimed
               PROVE  Cardinality({e \in Evaluation : evaluation[e].at = "replace" /\ evaluation[e].stage = s}) = 1
    BY DEF ClaimsAreHeld
  <1> PICK e \in Evaluation : evaluation[e].at = "replace" /\ evaluation[e].stage = s
    BY DEF BundlesInv, ClaimOwned
  <1>1. {f \in Evaluation : evaluation[f].at = "replace" /\ evaluation[f].stage = s} = {e}
    BY DEF BundlesInv, ClaimHeld
  <1>2. QED
    BY <1>1, FS_Singleton

\* The invariant that the properties rest on.
THEOREM BundleInvariant == BundleSpec => []BundlesInv
  BY BundlesInitially, BundlesStep, PTL DEF BundleSpec

\* A final bundle of exclusive_publish cites the preregistration that is there,
\* of the protocol it was run with: VerifyPreregistration reads it before the
\* searches, and nothing takes it away until ReplaceClaim.
THEOREM FinalsFollow == BundleSpec => []FinalFollowsPlan
  <1>1. BundlesInv => FinalFollowsPlan
    BY DEF BundlesInv
  <1>2. QED
    BY <1>1, BundleInvariant, PTL

\* No failure of a move leaves a claim behind that nobody will fill.
THEOREM ClaimsHeld == BundleSpec => []ClaimsAreHeld
  BY OneClaims, BundleInvariant, PTL

\* exclusive_publish and the clean-up after it never touch published evidence.
THEOREM EvidenceRemains == BundleSpec => EvidenceStays
  <1>1. BundlesInv /\ [BundleNext]_<<call, evaluations>>
        => [\A s \in Stage : IsWhole(s) => bundles'[s] = bundles[s]]_evaluations
    BY BundlesStay
  <1>2. QED
    BY <1>1, BundleInvariant, PTL DEF BundleSpec, EvidenceStays

\* The three together, as the run checks them.
THEOREM EvidenceIsSound == BundleSpec => EvidenceHolds
  BY FinalsFollow, ClaimsHeld, EvidenceRemains, PTL DEF EvidenceHolds

-----------------------------------------------------------------------------
(***************************************************************************)
(* The GPU scheduler                                                       *)
(***************************************************************************)

\* The phases with the lock file open, and those with the thread lock.
WithFile == Flocked \cup {"flock"}
Locked == WithFile \cup {"open", "unlock", "unthread"}
Recorded == {"prepare", "serve", "finish", "finished"}

\* A thread holds the locks its phase says, and only it holds them.
ThreadLockOK ==
  /\ \A t \in Thread : pc[t] \in Locked => threadLock[Home[t]] = t
  /\ \A i \in Instance : threadLock[i] # None =>
       threadLock[i] \in Thread /\ Home[threadLock[i]] = i /\ pc[threadLock[i]] \in Locked

LockFileOK ==
  /\ \A t \in Thread : pc[t] \in WithFile => lockFile[Home[t]] = t
  /\ \A i \in Instance : lockFile[i] # None =>
       /\ lockFile[i] \in Thread /\ Home[lockFile[i]] = i
       /\ pc[lockFile[i]] \in WithFile \cup {"unlock"}

FlockOK ==
  /\ \A t \in Thread : pc[t] \in Flocked => flock = t
  /\ flock \in Thread => /\ pc[flock] \in Flocked \cup {"unlock"}
                         /\ lockFile[Home[flock]] = flock
  /\ \A i \in Instance : probe[i] = "locked" => flock = i

\* The ledger shows the lease of a session between its two rows.
LedgerOK == \A t \in Thread : pc[t] \in Recorded => last = <<"acquired", t>>

LocksOK == ThreadLockOK /\ LockFileOK /\ FlockOK /\ LedgerOK
SchedulerInv == TypeOK /\ LocksOK

-----------------------------------------------------------------------------
\* The scheduler starts with nothing held.
LEMMA SchedulerInitially == Init => SchedulerInv
  <1> SUFFICES ASSUME Init PROVE SchedulerInv
    OBVIOUS
  <1>1. TypeOK
    BY DEF Init, TypeOK, Phase
  <1>2. \A t \in Thread : pc[t] = "idle"
    BY DEF Init
  <1>3. \A i \in Instance : threadLock[i] = None /\ lockFile[i] = None /\ probe[i] = "rest"
    BY DEF Init
  <1>4. flock \notin Thread
    BY SchedulerAssumption DEF Init
  <1>5. ThreadLockOK /\ LockFileOK
    BY <1>2, <1>3 DEF ThreadLockOK, LockFileOK, Locked, WithFile, Flocked
  <1>6. FlockOK /\ LedgerOK
    BY <1>2, <1>3, <1>4 DEF FlockOK, LedgerOK, Flocked, Recorded
  <1>7. QED
    BY <1>1, <1>5, <1>6 DEF SchedulerInv, LocksOK

\* A session that returns keeps types.
LEMMA Returned ==
  ASSUME TypeOK, NEW t \in Thread, EndCall(t),
         threadLock' \in [Instance -> Thread \cup {None}],
         UNCHANGED <<lockFile, flock, current, last, vllm, probe, seen, answer>>
  PROVE  TypeOK'
  <1>1. pc' \in [Thread -> Phase] /\ status' \in [Thread -> {"released", "cancelled"}]
    BY DEF TypeOK, EndCall, Goto, Phase
  <1>2. occupied' \in [Thread -> BOOLEAN]
    BY DEF TypeOK, EndCall
  <1>3. cancelled' \in [Thread -> BOOLEAN] /\ late' \in [Thread -> BOOLEAN]
    BY DEF TypeOK, EndCall
  <1>4. UNCHANGED req
    BY DEF EndCall
  <1>5. QED
    BY <1>1, <1>2, <1>3, <1>4 DEF TypeOK

\* Every step of a thread keeps types.
LEMMA TypeStep ==
  ASSUME TypeOK, NEW t \in Thread, Decide(t) \/ Step(t) \/ Cancel(t) \/ Deadline(t)
  PROVE  TypeOK'
  <1>1. Home[t] \in Instance
    BY SchedulerAssumption
  <1>2. CASE Decide(t)
    <2>1. PICK r \in Requirement, x \in {"thread", "cpu"} :
            req' = [req EXCEPT ![t] = r] /\ pc' = [pc EXCEPT ![t] = x]
      BY <1>2 DEF Decide, Goto
    <2>2. UNCHANGED <<status, cancelled, late, locks, files, vllm, probes>>
      BY <1>2 DEF Decide
    <2>3. occupied' \in [Thread -> BOOLEAN]
      <3>1. occupied \in [Thread -> BOOLEAN] /\ vllm \in BOOLEAN
        BY DEF TypeOK
      <3>2. occupied' = [occupied EXCEPT ![t] = vllm]
        BY <1>2 DEF Decide
      <3>3. QED
        BY <3>1, <3>2, Zenon
    <2>4. req' \in [Thread -> Requirement] /\ pc' \in [Thread -> Phase]
      BY <2>1 DEF TypeOK, Phase
    <2>5. UNCHANGED <<status, cancelled, late, threadLock, lockFile, flock, current, last,
                      vllm, probe, seen, answer>>
      BY <2>2 DEF locks, files, probes
    <2>6. QED
      BY <2>3, <2>4, <2>5 DEF TypeOK
  <1>3. CASE ServeOnCpu(t) \/ GiveUpThread(t)
    <2>1. EndCall(t)
      BY <1>3 DEF ServeOnCpu, GiveUpThread
    <2>2. UNCHANGED <<threadLock, lockFile, flock, current, last, vllm, probe, seen, answer>>
      BY <1>3 DEF ServeOnCpu, GiveUpThread, locks, files, probes
    <2>3. threadLock' \in [Instance -> Thread \cup {None}]
      BY <2>2 DEF TypeOK
    <2>4. QED
      BY <2>1, <2>2, <2>3, Returned
  <1>11. CASE TakeThread(t)
    BY <1>1, <1>11 DEF TypeOK, TakeThread, Goto, Phase, locals, files, probes
  <1>4. CASE OpenLockFile(t) \/ TakeFlock(t) \/ GiveUpFlock(t)
    BY <1>1, <1>4 DEF TypeOK, OpenLockFile, TakeFlock, GiveUpFlock, Goto, Phase,
                      locals, locks, files, probes
  <1>5. CASE WriteCurrent(t) \/ AppendAcquired(t)
    BY <1>1, <1>5 DEF TypeOK, WriteCurrent, AppendAcquired, Goto, Phase, Rows,
                      locals, locks, files, probes
  <1>6. CASE Prepare(t) \/ Serve(t)
    <2>1. pc' \in [Thread -> Phase] /\ status' \in [Thread -> {"released", "cancelled"}]
      BY <1>6 DEF TypeOK, Prepare, Serve, Goto, Ended, Phase
    <2>2. vllm' \in BOOLEAN
      BY <1>6 DEF TypeOK, Prepare, Serve
    <2>3. UNCHANGED <<req, occupied, cancelled, late, threadLock, lockFile, flock, current, last,
                      probe, seen, answer>>
      BY <1>6 DEF Prepare, Serve, locks, files, probes
    <2>4. QED
      BY <2>1, <2>2, <2>3 DEF TypeOK
  <1>7. CASE FinishCurrent(t) \/ AppendFinished(t)
    BY <1>1, <1>7 DEF TypeOK, FinishCurrent, AppendFinished, Goto, Phase, Rows,
                      locals, locks, files, probes
  <1>8. CASE Unlock(t)
    BY <1>1, <1>8 DEF TypeOK, Unlock, Goto, Phase, locals, files, probes
  <1>12. CASE ReleaseThread(t)
    <2>1. EndCall(t)
      BY <1>12 DEF ReleaseThread
    <2>2. UNCHANGED <<lockFile, flock, current, last, vllm, probe, seen, answer>>
      BY <1>12 DEF ReleaseThread, files, probes
    <2>3. threadLock' \in [Instance -> Thread \cup {None}]
      BY <1>12 DEF ReleaseThread, TypeOK
    <2>4. QED
      BY <2>1, <2>2, <2>3, Returned
  <1>9. CASE Cancel(t) \/ Deadline(t)
    BY <1>9 DEF TypeOK, Cancel, Deadline, locks, files, probes
  <1>10. QED
    BY <1>2, <1>3, <1>4, <1>5, <1>6, <1>7, <1>8, <1>9, <1>11, <1>12 DEF Step

\* A call of current() and the death of a process keep types.
LEMMA TypeOther ==
  ASSUME TypeOK, NEW i \in Instance, Probe(i) \/ Crash(i)
  PROVE  TypeOK'
  <1>1. CASE ReadCurrent(i)
    BY <1>1 DEF TypeOK, ReadCurrent, Begun, Rows, locals, locks, files
  <1>2. CASE TestFlock(i)
    BY <1>2 DEF TypeOK, TestFlock, locals, files
  <1>3. CASE EndTest(i)
    BY <1>3 DEF TypeOK, EndTest, locals, files
  <1>4. CASE Crash(i)
    BY <1>4 DEF TypeOK, Crash, Phase, files
  <1>5. QED
    BY <1>1, <1>2, <1>3, <1>4 DEF Probe

\* A thread moves to a phase that is entitled to the same locks.
LEMMA Move ==
  ASSUME SchedulerInv, NEW t \in Thread, NEW x \in Phase, Goto(t, x),
         UNCHANGED <<threadLock, lockFile, flock, last, probe>>,
         x \in Locked <=> pc[t] \in Locked,
         x \in WithFile => pc[t] \in WithFile,
         pc[t] \in WithFile \cup {"unlock"} => x \in WithFile \cup {"unlock"},
         x \in Flocked => pc[t] \in Flocked,
         pc[t] \in Flocked \cup {"unlock"} => x \in Flocked \cup {"unlock"},
         x \in Recorded => pc[t] \in Recorded
  PROVE  LocksOK'
  <1>1. pc \in [Thread -> Phase] /\ pc' = [pc EXCEPT ![t] = x]
    BY DEF SchedulerInv, TypeOK, Goto
  <1>2. pc'[t] = x /\ \A u \in Thread \ {t} : pc'[u] = pc[u]
    BY <1>1
  <1>3. ThreadLockOK'
    BY <1>2 DEF SchedulerInv, LocksOK, ThreadLockOK
  <1>4. LockFileOK'
    BY <1>2 DEF SchedulerInv, LocksOK, LockFileOK
  <1>5. FlockOK'
    BY <1>2 DEF SchedulerInv, LocksOK, FlockOK
  <1>6. LedgerOK'
    BY <1>2 DEF SchedulerInv, LocksOK, LedgerOK
  <1>7. QED
    BY <1>3, <1>4, <1>5, <1>6 DEF LocksOK

\* Taking the thread lock, which was free, keeps the invariant.
LEMMA TakeThreadInv ==
  ASSUME SchedulerInv, NEW t \in Thread, TakeThread(t)
  PROVE  LocksOK'
  <1>1. /\ Home[t] \in Instance /\ threadLock[Home[t]] = None
        /\ threadLock' = [threadLock EXCEPT ![Home[t]] = t] /\ pc' = [pc EXCEPT ![t] = "open"]
        /\ UNCHANGED <<lockFile, flock, last, probe>> /\ pc[t] = "thread"
    BY SchedulerAssumption DEF TakeThread, Goto, files, probes
  <1>2. pc \in [Thread -> Phase] /\ threadLock \in [Instance -> Thread \cup {None}]
    BY DEF SchedulerInv, TypeOK
  <1>3. pc'[t] = "open" /\ \A u \in Thread \ {t} : pc'[u] = pc[u]
    BY <1>1, <1>2
  <1>4. threadLock'[Home[t]] = t /\ \A i \in Instance \ {Home[t]} : threadLock'[i] = threadLock[i]
    BY <1>1, <1>2
  <1>5. ThreadLockOK'
    BY <1>1, <1>3, <1>4, SchedulerAssumption DEF SchedulerInv, LocksOK, ThreadLockOK, Locked
  <1>6. LockFileOK'
    BY <1>1, <1>3 DEF SchedulerInv, LocksOK, LockFileOK, WithFile, Flocked
  <1>7. FlockOK' /\ LedgerOK'
    BY <1>1, <1>3 DEF SchedulerInv, LocksOK, FlockOK, LedgerOK, Flocked, Recorded
  <1>8. QED
    BY <1>5, <1>6, <1>7 DEF LocksOK

\* Opening gpu.lock takes no lock and keeps the invariant.
LEMMA OpenLockFileInv ==
  ASSUME SchedulerInv, NEW t \in Thread, OpenLockFile(t), pc'[t] = "flock"
  PROVE  LocksOK'
  <1>1. /\ Home[t] \in Instance /\ lockFile' = [lockFile EXCEPT ![Home[t]] = t]
        /\ pc' = [pc EXCEPT ![t] = "flock"] /\ pc[t] = "open"
        /\ UNCHANGED <<threadLock, flock, last, probe>>
    BY SchedulerAssumption DEF OpenLockFile, Goto, files, probes, SchedulerInv, TypeOK
  <1>2. pc \in [Thread -> Phase] /\ lockFile \in [Instance -> Thread \cup {None}]
    BY DEF SchedulerInv, TypeOK
  <1>3. pc'[t] = "flock" /\ \A u \in Thread \ {t} : pc'[u] = pc[u]
    BY <1>1, <1>2
  <1>4. lockFile'[Home[t]] = t /\ \A i \in Instance \ {Home[t]} : lockFile'[i] = lockFile[i]
    BY <1>1, <1>2
  <1>5. ThreadLockOK' /\ LedgerOK'
    BY <1>1, <1>3 DEF SchedulerInv, LocksOK, ThreadLockOK, LedgerOK, Locked, WithFile, Recorded
  <1>6. \A u \in Thread \ {t} : pc[u] \in Locked => Home[u] # Home[t]
    BY <1>1 DEF SchedulerInv, LocksOK, ThreadLockOK, Locked
  <1>7. LockFileOK'
    BY <1>1, <1>3, <1>4, <1>6 DEF SchedulerInv, LocksOK, LockFileOK, WithFile, Flocked, Locked
  <1>8. FlockOK'
    BY <1>1, <1>3, <1>4, <1>6, SchedulerAssumption
       DEF SchedulerInv, LocksOK, FlockOK, WithFile, Flocked, Locked
  <1>9. QED
    BY <1>5, <1>7, <1>8 DEF LocksOK

\* Taking the flock, which neither a thread nor a prober has, keeps the invariant.
LEMMA TakeFlockInv ==
  ASSUME SchedulerInv, NEW t \in Thread, TakeFlock(t)
  PROVE  LocksOK'
  <1>1. /\ Home[t] \in Instance /\ flock = None /\ flock' = t
        /\ pc' = [pc EXCEPT ![t] = "write"] /\ pc[t] = "flock"
        /\ UNCHANGED <<threadLock, lockFile, last, probe>>
    BY SchedulerAssumption DEF TakeFlock, Goto, files, probes
  <1>2. pc'[t] = "write" /\ \A u \in Thread \ {t} : pc'[u] = pc[u]
    BY <1>1 DEF SchedulerInv, TypeOK
  <1>3. ThreadLockOK' /\ LedgerOK'
    BY <1>1, <1>2 DEF SchedulerInv, LocksOK, ThreadLockOK, LedgerOK, Locked, WithFile, Flocked, Recorded
  <1>4. LockFileOK'
    BY <1>1, <1>2 DEF SchedulerInv, LocksOK, LockFileOK, WithFile, Flocked
  <1>5. FlockOK'
    <2>1. \A u \in Thread : pc[u] \notin Flocked
      BY <1>1, SchedulerAssumption DEF SchedulerInv, LocksOK, FlockOK
    <2>2. \A i \in Instance : probe[i] # "locked"
      BY <1>1, SchedulerAssumption DEF SchedulerInv, LocksOK, FlockOK
    <2>3. lockFile[Home[t]] = t
      BY <1>1 DEF SchedulerInv, LocksOK, LockFileOK, WithFile
    <2>4. QED
      BY <1>1, <1>2, <2>1, <2>2, <2>3 DEF FlockOK, Flocked
  <1>6. QED
    BY <1>3, <1>4, <1>5 DEF LocksOK

\* A row appended to the ledger by the holder keeps the invariant.
LEMMA AppendInv ==
  ASSUME SchedulerInv, NEW t \in Thread, AppendAcquired(t) \/ AppendFinished(t)
  PROVE  LocksOK'
  <1>1. PICK x \in {"prepare", "unlock"} : pc' = [pc EXCEPT ![t] = x]
    BY DEF AppendAcquired, AppendFinished, Goto
  <1>2. pc'[t] = x /\ \A u \in Thread \ {t} : pc'[u] = pc[u]
    BY <1>1 DEF SchedulerInv, TypeOK
  <1>3. /\ UNCHANGED <<threadLock, lockFile, flock, probe>>
        /\ pc[t] \in {"append", "finished"}
    BY DEF AppendAcquired, AppendFinished, locks, probes
  <1>4. \A u \in Thread \ {t} : pc[u] \notin Flocked
    BY <1>3 DEF SchedulerInv, LocksOK, FlockOK, Flocked
  <1>5. ThreadLockOK'
    BY <1>2, <1>3 DEF SchedulerInv, LocksOK, ThreadLockOK, Locked, WithFile, Flocked
  <1>6. LockFileOK'
    BY <1>2, <1>3 DEF SchedulerInv, LocksOK, LockFileOK, WithFile, Flocked
  <1>7. FlockOK'
    BY <1>2, <1>3 DEF SchedulerInv, LocksOK, FlockOK, Flocked
  <1>8. pc'[t] \in Recorded => last' = <<"acquired", t>>
    BY <1>2 DEF AppendAcquired, AppendFinished, Goto, Recorded, SchedulerInv, TypeOK
  <1>9. LedgerOK'
    BY <1>2, <1>4, <1>8 DEF LedgerOK, Recorded, Flocked
  <1>10. QED
    BY <1>5, <1>6, <1>7, <1>9 DEF LocksOK

\* Giving up the flock keeps the invariant: only its owner does.
LEMMA UnlockInv ==
  ASSUME SchedulerInv, NEW t \in Thread, Unlock(t)
  PROVE  LocksOK'
  <1>1. /\ Home[t] \in Instance /\ pc[t] = "unlock" /\ pc' = [pc EXCEPT ![t] = "unthread"]
        /\ lockFile' = [lockFile EXCEPT ![Home[t]] = None]
        /\ flock' = IF lockFile[Home[t]] # None /\ flock = lockFile[Home[t]] THEN None ELSE flock
        /\ UNCHANGED <<threadLock, last, probe>>
    BY SchedulerAssumption DEF Unlock, Goto, files, probes
  <1>2. pc'[t] = "unthread" /\ \A u \in Thread \ {t} : pc'[u] = pc[u]
    BY <1>1 DEF SchedulerInv, TypeOK
  <1>3. lockFile'[Home[t]] = None /\ \A i \in Instance \ {Home[t]} : lockFile'[i] = lockFile[i]
    BY <1>1 DEF SchedulerInv, TypeOK
  <1>4. \A u \in Thread \ {t} : pc[u] \in Locked => Home[u] # Home[t]
    BY <1>1 DEF SchedulerInv, LocksOK, ThreadLockOK, Locked
  <1>5. ThreadLockOK' /\ LedgerOK'
    BY <1>1, <1>2 DEF SchedulerInv, LocksOK, ThreadLockOK, LedgerOK, Locked, WithFile, Flocked, Recorded
  <1>6. lockFile[Home[t]] \in {t, None}
    BY <1>1, <1>4 DEF SchedulerInv, LocksOK, LockFileOK, ThreadLockOK, Locked
  <1>7. LockFileOK'
    BY <1>1, <1>2, <1>3, <1>4 DEF SchedulerInv, LocksOK, LockFileOK, Locked, WithFile, Flocked
  <1>8. FlockOK'
    <2>1. \A u \in Thread \ {t} : pc[u] \in Flocked => flock' = flock
      BY <1>1, <1>6 DEF SchedulerInv, LocksOK, FlockOK
    <2>2. \A i \in Instance : probe[i] = "locked" => flock' = flock
      BY <1>1, <1>6, SchedulerAssumption DEF SchedulerInv, LocksOK, FlockOK
    <2>3. flock' \in Thread => flock' = flock /\ flock # t
      BY <1>1, <1>6, SchedulerAssumption DEF SchedulerInv, LocksOK, FlockOK
    <2>4. QED
      BY <1>1, <1>2, <1>3, <1>4, <2>1, <2>2, <2>3, SchedulerAssumption
         DEF SchedulerInv, LocksOK, FlockOK, Flocked, Locked, WithFile
  <1>9. QED
    BY <1>5, <1>7, <1>8 DEF LocksOK

\* Giving up the thread lock keeps the invariant: only its owner does.
LEMMA ReleaseThreadInv ==
  ASSUME SchedulerInv, NEW t \in Thread, ReleaseThread(t)
  PROVE  LocksOK'
  <1>1. /\ Home[t] \in Instance /\ pc[t] = "unthread" /\ pc' = [pc EXCEPT ![t] = "idle"]
        /\ threadLock' = [threadLock EXCEPT ![Home[t]] = None]
        /\ UNCHANGED <<lockFile, flock, last, probe>>
    BY SchedulerAssumption DEF ReleaseThread, EndCall, Goto, files, probes
  <1>2. pc'[t] = "idle" /\ \A u \in Thread \ {t} : pc'[u] = pc[u]
    BY <1>1 DEF SchedulerInv, TypeOK
  <1>3. threadLock'[Home[t]] = None /\ \A i \in Instance \ {Home[t]} : threadLock'[i] = threadLock[i]
    BY <1>1 DEF SchedulerInv, TypeOK
  <1>4. \A u \in Thread \ {t} : pc[u] \in Locked => Home[u] # Home[t]
    BY <1>1 DEF SchedulerInv, LocksOK, ThreadLockOK, Locked
  <1>5. ThreadLockOK'
    BY <1>1, <1>2, <1>3, <1>4, SchedulerAssumption
       DEF SchedulerInv, LocksOK, ThreadLockOK, Locked, WithFile, Flocked
  <1>6. LockFileOK'
    BY <1>1, <1>2 DEF SchedulerInv, LocksOK, LockFileOK, WithFile, Flocked
  <1>7. FlockOK' /\ LedgerOK'
    BY <1>1, <1>2 DEF SchedulerInv, LocksOK, FlockOK, LedgerOK, Flocked, Recorded
  <1>8. QED
    BY <1>5, <1>6, <1>7 DEF LocksOK

\* The actions that only move between phases.
LEMMA MoveInv ==
  ASSUME SchedulerInv, NEW t \in Thread,
         \/ Decide(t) \/ ServeOnCpu(t) \/ GiveUpThread(t) \/ GiveUpFlock(t)
         \/ (OpenLockFile(t) /\ pc'[t] # "flock")
         \/ WriteCurrent(t) \/ Prepare(t) \/ Serve(t) \/ FinishCurrent(t)
  PROVE  LocksOK'
  <1>1. CASE Decide(t)
    <2>1. PICK x \in {"thread", "cpu"} : Goto(t, x)
      BY <1>1 DEF Decide
    <2>2. UNCHANGED <<threadLock, lockFile, flock, last, probe>> /\ pc[t] = "idle"
      BY <1>1 DEF Decide, locks, files, probes
    <2>3. QED
      BY <2>1, <2>2, Move DEF Phase, Locked, WithFile, Flocked, Recorded
  <1>2. CASE ServeOnCpu(t) \/ GiveUpThread(t)
    <2>1. Goto(t, "idle") /\ pc[t] \in {"cpu", "thread"}
      BY <1>2 DEF ServeOnCpu, GiveUpThread, EndCall
    <2>2. UNCHANGED <<threadLock, lockFile, flock, last, probe>>
      BY <1>2 DEF ServeOnCpu, GiveUpThread, locks, files, probes
    <2>3. QED
      BY <2>1, <2>2, Move DEF Phase, Locked, WithFile, Flocked, Recorded
  <1>3. CASE GiveUpFlock(t) \/ (OpenLockFile(t) /\ pc'[t] # "flock")
    <2>1. Goto(t, "unlock") /\ pc[t] \in {"open", "flock"}
      BY <1>3 DEF GiveUpFlock, OpenLockFile, Goto, SchedulerInv, TypeOK
    <2>2. UNCHANGED <<threadLock, flock, last, probe>>
      BY <1>3 DEF GiveUpFlock, OpenLockFile, locks, files, probes
    <2>3. UNCHANGED lockFile
      BY <1>3 DEF GiveUpFlock, OpenLockFile, Goto, locks, SchedulerInv, TypeOK
    <2>4. QED
      BY <2>1, <2>2, <2>3, Move DEF Phase, Locked, WithFile, Flocked, Recorded
  <1>4. CASE WriteCurrent(t) \/ Prepare(t) \/ Serve(t) \/ FinishCurrent(t)
    <2>1. UNCHANGED <<threadLock, lockFile, flock, last, probe>>
      BY <1>4 DEF WriteCurrent, Prepare, Serve, FinishCurrent, locks, files, probes
    <2>2. PICK x \in Phase : /\ Goto(t, x)
                             /\ \/ pc[t] = "write" /\ x \in {"append", "unlock"}
                                \/ pc[t] = "prepare" /\ x \in {"serve", "finish"}
                                \/ pc[t] = "serve" /\ x = "finish"
                                \/ pc[t] = "finish" /\ x \in {"finished", "unlock"}
      <3>1. CASE WriteCurrent(t)
        BY <3>1 DEF WriteCurrent, Phase
      <3>2. CASE Prepare(t)
        BY <3>2 DEF Prepare, Phase
      <3>3. CASE Serve(t)
        BY <3>3 DEF Serve, Phase
      <3>4. CASE FinishCurrent(t)
        BY <3>4 DEF FinishCurrent, Phase
      <3>5. QED
        BY <1>4, <3>1, <3>2, <3>3, <3>4
    <2>3. QED
      BY <2>1, <2>2, Move DEF Locked, WithFile, Flocked, Recorded
  <1>5. QED
    BY <1>1, <1>2, <1>3, <1>4, Zenon

\* A prober that gets the flock keeps every thread from it until it is done.
LEMMA ProbeInv ==
  ASSUME SchedulerInv, NEW i \in Instance, Probe(i)
  PROVE  LocksOK'
  <1>1. /\ UNCHANGED <<pc, threadLock, lockFile, last>>
        /\ probe \in [Instance -> {"rest", "read", "locked"}]
    BY DEF Probe, ReadCurrent, TestFlock, EndTest, locks, files, SchedulerInv, TypeOK
  <1>2. ThreadLockOK' /\ LockFileOK' /\ LedgerOK'
    BY <1>1 DEF SchedulerInv, LocksOK, ThreadLockOK, LockFileOK, LedgerOK
  <1>3. FlockOK'
    <2>1. CASE ReadCurrent(i)
      BY <2>1, <1>1 DEF ReadCurrent, locks, SchedulerInv, LocksOK, FlockOK
    <2>2. CASE TestFlock(i) /\ UNCHANGED flock
      BY <2>2, <1>1, SchedulerAssumption DEF TestFlock, SchedulerInv, LocksOK, FlockOK
    <2>3. CASE TestFlock(i) /\ flock' # flock
      BY <2>3, <1>1, SchedulerAssumption DEF TestFlock, SchedulerInv, LocksOK, FlockOK
    <2>4. CASE EndTest(i)
      BY <2>4, <1>1, SchedulerAssumption DEF EndTest, SchedulerInv, LocksOK, FlockOK
    <2>5. QED
      BY <2>1, <2>2, <2>3, <2>4 DEF Probe
  <1>4. QED
    BY <1>2, <1>3 DEF LocksOK

\* A process that dies takes its locks with it, and nobody else's.
LEMMA CrashInv ==
  ASSUME SchedulerInv, NEW i \in Instance, Crash(i)
  PROVE  LocksOK'
  <1>1. /\ pc' = [t \in Thread |-> IF Home[t] = i THEN "idle" ELSE pc[t]]
        /\ threadLock' = [threadLock EXCEPT ![i] = None]
        /\ lockFile' = [lockFile EXCEPT ![i] = None]
        /\ flock' = IF flock = i \/ (flock \in Thread /\ Home[flock] = i) THEN None ELSE flock
        /\ probe' = [probe EXCEPT ![i] = "rest"] /\ last' = last
    BY DEF Crash, files
  <1>2. \A t \in Thread : pc'[t] = IF Home[t] = i THEN "idle" ELSE pc[t]
    BY <1>1
  <1>3. /\ threadLock'[i] = None /\ lockFile'[i] = None /\ probe'[i] = "rest"
        /\ \A j \in Instance \ {i} : /\ threadLock'[j] = threadLock[j]
                                      /\ lockFile'[j] = lockFile[j] /\ probe'[j] = probe[j]
    BY <1>1 DEF SchedulerInv, TypeOK
  <1>4. ThreadLockOK'
    BY <1>2, <1>3, SchedulerAssumption DEF SchedulerInv, LocksOK, ThreadLockOK, Locked, WithFile, Flocked
  <1>5. LockFileOK'
    BY <1>2, <1>3, SchedulerAssumption DEF SchedulerInv, LocksOK, LockFileOK, WithFile, Flocked
  <1>6. FlockOK'
    <2>1. \A t \in Thread : pc'[t] \in Flocked => flock' = t
      BY <1>1, <1>2, SchedulerAssumption DEF SchedulerInv, LocksOK, FlockOK, Flocked
    <2>2. flock' \in Thread => flock' = flock /\ Home[flock] # i /\ Home[flock] \in Instance
      BY <1>1, SchedulerAssumption
    <2>3. flock' \in Thread => /\ pc'[flock'] \in Flocked \cup {"unlock"}
                               /\ lockFile'[Home[flock']] = flock'
      BY <2>2, <1>2, <1>3 DEF SchedulerInv, LocksOK, FlockOK
    <2>4. \A j \in Instance : probe'[j] = "locked" => j # i /\ flock = j
      BY <1>3 DEF SchedulerInv, LocksOK, FlockOK
    <2>5. \A j \in Instance : probe'[j] = "locked" => flock' = j
      BY <2>4, <1>1, SchedulerAssumption
    <2>6. QED
      BY <2>1, <2>3, <2>5 DEF FlockOK
  <1>7. LedgerOK'
    BY <1>1, <1>2 DEF SchedulerInv, LocksOK, LedgerOK, Recorded
  <1>8. QED
    BY <1>4, <1>5, <1>6, <1>7 DEF LocksOK

\* Every step keeps the invariant.
LEMMA SchedulerStep == SchedulerInv /\ [Next]_vars => SchedulerInv'
  <1> SUFFICES ASSUME SchedulerInv, [Next]_vars PROVE SchedulerInv'
    OBVIOUS
  <1>1. ASSUME NEW t \in Thread, Decide(t) \/ Step(t) \/ Cancel(t) \/ Deadline(t)
        PROVE  SchedulerInv'
    <2>1. TypeOK'
      BY <1>1, TypeStep DEF SchedulerInv
    <2>2. CASE Cancel(t) \/ Deadline(t)
      <3>1. UNCHANGED <<pc, threadLock, lockFile, flock, last, probe>>
        BY <2>2 DEF Cancel, Deadline, locks, files, probes
      <3>2. LocksOK'
        BY <3>1 DEF SchedulerInv, LocksOK, ThreadLockOK, LockFileOK, FlockOK, LedgerOK
      <3>3. QED
        BY <2>1, <3>2 DEF SchedulerInv
    <2>3. CASE Decide(t) \/ Step(t)
      <3>1. LocksOK'
        BY <2>3, MoveInv, TakeThreadInv, OpenLockFileInv, TakeFlockInv, AppendInv, UnlockInv,
           ReleaseThreadInv DEF Step
      <3>2. QED
        BY <2>1, <3>1 DEF SchedulerInv
    <2>4. QED
      BY <1>1, <2>2, <2>3
  <1>2. ASSUME NEW i \in Instance, Probe(i) \/ Crash(i)
        PROVE  SchedulerInv'
    BY <1>2, TypeOther, ProbeInv, CrashInv DEF SchedulerInv
  <1>3. CASE UNCHANGED vars
    <2>1. UNCHANGED <<pc, req, occupied, status, cancelled, late, threadLock, lockFile, flock,
                      current, last, vllm, probe, seen, answer>>
      BY <1>3 DEF vars, locals, locks, files, probes
    <2>2. TypeOK'
      BY <2>1 DEF SchedulerInv, TypeOK
    <2>3. LocksOK'
      BY <2>1 DEF SchedulerInv, LocksOK, ThreadLockOK, LockFileOK, FlockOK, LedgerOK
    <2>4. QED
      BY <2>2, <2>3 DEF SchedulerInv
  <1>4. QED
    BY <1>1, <1>2, <1>3 DEF Next

\* The invariant holds of every state of the scheduler.
THEOREM Invariance == Spec => []SchedulerInv
  <1>1. QED
    BY SchedulerInitially, SchedulerStep, PTL DEF Spec

\* Locks, rows and local variables keep their kinds in session and HostGpuLease.
THEOREM TypeCorrect == Spec => []TypeOK
  <1>1. SchedulerInv => TypeOK
    BY DEF SchedulerInv
  <1>2. QED
    BY <1>1, Invariance, PTL

\* HostGpuLease admits one session at a time, for any number of processes and
\* threads: both would own the one flock.
THEOREM Exclusion == Spec => []OneHolder
  <1>1. SchedulerInv => OneHolder
    BY DEF SchedulerInv, LocksOK, FlockOK, OneHolder
  <1>2. QED
    BY <1>1, Invariance, PTL

\* Whatever way a session ends, it has given up each of its locks: a lock is
\* held only in phases that lead to _unlock.
THEOREM NoLockLeft == Spec => []NothingLocked
  <1>1. SchedulerInv => NothingLocked
    BY DEF SchedulerInv, LocksOK, ThreadLockOK, LockFileOK, FlockOK, NothingLocked, Locked, WithFile, Flocked
  <1>2. QED
    BY <1>1, Invariance, PTL

-----------------------------------------------------------------------------
\* The lease of the abstract specification moves only with the phase of the
\* session that has it.
LEMMA SameHolder ==
  ASSUME \A t \in Thread : pc'[t] \in Recorded <=> pc[t] \in Recorded
  PROVE  Holder' = Holder
  <1>1. Holding' = Holding
    BY DEF Holding, Recorded
  <1>2. QED
    BY <1>1 DEF Holder

\* A session between its two rows is the holder.
LEMMA RecordedHolds ==
  ASSUME SchedulerInv, NEW t \in Thread, pc[t] \in Recorded
  PROVE  Holder = t /\ last = <<"acquired", t>> /\ \A u \in Thread \ {t} : pc[u] \notin Recorded
  <1>1. \A u \in Thread \ {t} : pc[u] \notin Recorded
    BY DEF SchedulerInv, LocksOK, FlockOK, Recorded, Flocked
  <1>2. Holding = {t}
    BY <1>1 DEF Holding, Recorded
  <1>3. Holder = t
    BY <1>2 DEF Holder
  <1>4. QED
    BY <1>1, <1>3 DEF SchedulerInv, LocksOK, LedgerOK

\* A session that gets its acquired row written takes the lease, which was free.
LEMMA AcquireMaps ==
  ASSUME SchedulerInv, NEW t \in Thread, AppendAcquired(t), last' = <<"acquired", t>>,
         pc'[t] = "prepare"
  PROVE  Lease!Acquire(t)
  <1>1. \A u \in Thread \ {t} : pc[u] \notin Recorded /\ pc'[u] = pc[u]
    BY DEF AppendAcquired, Goto, SchedulerInv, TypeOK, LocksOK, FlockOK, Recorded, Flocked
  <1>2. Holding = {}
    BY <1>1 DEF AppendAcquired, Holding, Recorded
  <1>3. Holding' = {t}
    BY <1>1 DEF Holding, Recorded
  <1>4. Holder = None /\ Holder' = t
    BY <1>2, <1>3 DEF Holder
  <1>5. QED
    BY <1>4 DEF Lease!Acquire

\* A session that leaves the recorded phases gives the lease up.
LEMMA LeaveMaps ==
  ASSUME SchedulerInv, NEW t \in Thread, pc[t] \in Recorded, pc'[t] \notin Recorded,
         \A u \in Thread \ {t} : pc'[u] \in {pc[u], "idle"}
  PROVE  Holder = t /\ Holder' = None /\ last = <<"acquired", t>>
  <1>1. Holder = t /\ last = <<"acquired", t>> /\ \A u \in Thread \ {t} : pc[u] \notin Recorded
    BY RecordedHolds
  <1>2. Holding' = {}
    BY <1>1 DEF Holding, Recorded
  <1>3. QED
    BY <1>1, <1>2 DEF Holder

\* Each step of a thread is a step of the abstract lease, or none.
LEMMA StepMaps ==
  ASSUME SchedulerInv, NEW t \in Thread, Decide(t) \/ Step(t) \/ Cancel(t) \/ Deadline(t)
  PROVE  [Lease!Next]_(Lease!vars)
  <1>1. pc \in [Thread -> Phase]
    BY DEF SchedulerInv, TypeOK
  <1>2. CASE AppendAcquired(t)
    <2>1. CASE last' = <<"acquired", t>> /\ pc'[t] = "prepare"
      BY <1>2, <2>1, AcquireMaps DEF Lease!Next
    <2>2. CASE ~(last' = <<"acquired", t>> /\ pc'[t] = "prepare")
      <3>1. last' = last /\ pc' = [pc EXCEPT ![t] = "unlock"] /\ pc[t] = "append"
        BY <1>1, <1>2, <2>2 DEF AppendAcquired, Goto
      <3>2. Holder' = Holder
        BY <1>1, <3>1, SameHolder DEF Recorded
      <3>3. QED
        BY <3>1, <3>2 DEF Lease!vars
    <2>3. QED
      BY <2>1, <2>2
  <1>3. CASE FinishCurrent(t)
    <2>1. last' = last /\ pc[t] = "finish"
      BY <1>3 DEF FinishCurrent
    <2>2. CASE pc' = [pc EXCEPT ![t] = "finished"]
      <3>1. Holder' = Holder
        BY <1>1, <2>1, <2>2, SameHolder DEF Recorded
      <3>2. QED
        BY <2>1, <3>1 DEF Lease!vars
    <2>3. CASE pc' = [pc EXCEPT ![t] = "unlock"]
      <3>1. Holder = t /\ Holder' = None
        BY <1>1, <2>1, <2>3, LeaveMaps DEF Recorded
      <3>2. QED
        BY <2>1, <3>1, SchedulerAssumption DEF Lease!Next, Lease!Vanish
    <2>4. QED
      BY <1>3, <2>2, <2>3 DEF FinishCurrent, Goto
  <1>4. CASE AppendFinished(t)
    <2>1. pc' = [pc EXCEPT ![t] = "unlock"] /\ pc[t] = "finished"
      BY <1>4 DEF AppendFinished, Goto
    <2>2. Holder = t /\ Holder' = None /\ last = <<"acquired", t>>
      BY <1>1, <2>1, LeaveMaps DEF Recorded
    <2>3. CASE last' = <<status[t], t>>
      <3>1. status[t] \in {"released", "cancelled"}
        BY DEF SchedulerInv, TypeOK
      <3>2. Lease!Finish(t, status[t])
        BY <2>2, <2>3 DEF Lease!Finish
      <3>3. QED
        BY <3>1, <3>2 DEF Lease!Next
    <2>4. CASE last' = last
      BY <2>2, <2>4, SchedulerAssumption DEF Lease!Next, Lease!Vanish
    <2>5. QED
      BY <1>4, <2>3, <2>4 DEF AppendFinished
  <1>5. CASE Cancel(t) \/ Deadline(t)
    <2>1. pc' = pc /\ last' = last
      BY <1>5 DEF Cancel, Deadline, files
    <2>2. Holder' = Holder
      BY <2>1, SameHolder
    <2>3. QED
      BY <2>1, <2>2 DEF Lease!vars
  <1>6. CASE \/ Decide(t) \/ ServeOnCpu(t) \/ TakeThread(t) \/ GiveUpThread(t) \/ OpenLockFile(t)
             \/ TakeFlock(t) \/ GiveUpFlock(t) \/ WriteCurrent(t) \/ Prepare(t) \/ Serve(t)
             \/ Unlock(t) \/ ReleaseThread(t)
    <2>1. last' = last
      BY <1>6 DEF Decide, ServeOnCpu, TakeThread, GiveUpThread, OpenLockFile, TakeFlock,
                  GiveUpFlock, WriteCurrent, Prepare, Serve, Unlock, ReleaseThread, files
    <2>2. PICK x \in Phase : /\ pc' = [pc EXCEPT ![t] = x]
                             /\ x \in Recorded <=> pc[t] \in Recorded
      <3>1. CASE Decide(t) \/ ServeOnCpu(t) \/ TakeThread(t) \/ GiveUpThread(t)
        BY <3>1 DEF Decide, ServeOnCpu, TakeThread, GiveUpThread, EndCall, Goto, Phase, Recorded
      <3>2. CASE OpenLockFile(t) \/ TakeFlock(t) \/ GiveUpFlock(t) \/ WriteCurrent(t)
        BY <3>2 DEF OpenLockFile, TakeFlock, GiveUpFlock, WriteCurrent, Goto, Phase, Recorded
      <3>3. CASE Prepare(t) \/ Serve(t) \/ Unlock(t) \/ ReleaseThread(t)
        BY <3>3 DEF Prepare, Serve, Unlock, ReleaseThread, EndCall, Goto, Phase, Recorded
      <3>4. QED
        BY <1>6, <3>1, <3>2, <3>3
    <2>3. Holder' = Holder
      BY <1>1, <2>2, SameHolder
    <2>4. QED
      BY <2>1, <2>3 DEF Lease!vars
  <1>7. QED
    BY <1>2, <1>3, <1>4, <1>5, <1>6 DEF Step

\* A probe does not touch the lease; the death of its holder's process ends it.
LEMMA OtherMaps ==
  ASSUME SchedulerInv, NEW i \in Instance, Probe(i) \/ Crash(i)
  PROVE  [Lease!Next]_(Lease!vars)
  <1>1. CASE Probe(i)
    <2>1. pc' = pc /\ last' = last
      BY <1>1 DEF Probe, ReadCurrent, TestFlock, EndTest, files
    <2>2. Holder' = Holder
      BY <2>1, SameHolder
    <2>3. QED
      BY <2>1, <2>2 DEF Lease!vars
  <1>2. CASE Crash(i)
    <2>1. /\ \A t \in Thread : pc'[t] = IF Home[t] = i THEN "idle" ELSE pc[t]
          /\ last' = last
      BY <1>2 DEF Crash, files
    <2>2. CASE \E t \in Thread : Home[t] = i /\ pc[t] \in Recorded
      <3>1. PICK t \in Thread : Home[t] = i /\ pc[t] \in Recorded
        BY <2>2
      <3>2. Holder = t /\ Holder' = None
        BY <2>1, <3>1, LeaveMaps DEF Recorded
      <3>3. QED
        BY <2>1, <3>2, SchedulerAssumption DEF Lease!Next, Lease!Vanish
    <2>3. CASE ~\E t \in Thread : Home[t] = i /\ pc[t] \in Recorded
      <3>1. Holder' = Holder
        BY <2>1, <2>3, SameHolder DEF Recorded
      <3>2. QED
        BY <2>1, <3>1 DEF Lease!vars
    <2>4. QED
      BY <2>2, <2>3
  <1>3. QED
    BY <1>1, <1>2

\* session and HostGpuLease implement the exclusive lease: for any number of
\* processes and threads, with errors, cancellation, deadlines and deaths.
THEOREM Implements == Spec => KeepsLease
  <1>1. Init => Lease!Init
    <2> SUFFICES ASSUME Init PROVE Lease!Init
      OBVIOUS
    <2>1. Holding = {}
      BY DEF Init, Holding
    <2>2. QED
      BY <2>1 DEF Init, Lease!Init, Holder
  <1>2. SchedulerInv /\ [Next]_vars => [Lease!Next]_(Lease!vars)
    <2> SUFFICES ASSUME SchedulerInv, [Next]_vars PROVE [Lease!Next]_(Lease!vars)
      OBVIOUS
    <2>1. CASE Next
      BY <2>1, StepMaps, OtherMaps DEF Next
    <2>2. CASE UNCHANGED vars
      <3>1. pc' = pc /\ last' = last
        BY <2>2 DEF vars, files
      <3>2. Holder' = Holder
        BY <3>1, SameHolder
      <3>3. QED
        BY <3>1, <3>2 DEF Lease!vars
    <2>3. QED
      BY <2>1, <2>2
  <1>3. QED
    BY <1>1, <1>2, Invariance, PTL DEF Spec, KeepsLease, Lease!Spec

\* Both: the device is exclusive and comes free, whatever goes wrong.
THEOREM DeviceIsExclusive == Spec => []DeviceExclusive
  <1>1. OneHolder /\ NothingLocked => DeviceExclusive
    BY DEF DeviceExclusive
  <1>2. QED
    BY <1>1, Exclusion, NoLockLeft, PTL
=============================================================================
