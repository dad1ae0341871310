---------------------------- MODULE ShardLedger ----------------------------
(***************************************************************************)
(* Executors producing shard attempts over one shared run ledger           *)
(* (pipeline/control).  An executor takes a unit of work for a reuse key,  *)
(* serves a published attempt of that key or reserves an attempt directory,*)
(* takes the key's lease, runs the worker, publishes the files, and accepts*)
(* the attempt into the ledger; invalidate_owned marks attempts stale      *)
(* meanwhile.  One action is one ledger transaction or one file-system     *)
(* step, so everything the code leaves open to another process is open     *)
(* here.                                                                   *)
(*                                                                         *)
(* Durable = TRUE is PostgresControlLedger: its rows outlive a process, and*)
(* a status change is a SELECT and an UPDATE of one READ COMMITTED         *)
(* transaction that takes no row lock.  Durable = FALSE is InMemoryLedger: *)
(* every call is one step and a restart loses the rows, not the files.     *)
(***************************************************************************)
EXTENDS LedgerStates, FiniteSetsExt

CONSTANTS
  Executor,          \* concurrent ShardExecutor.execute callers
  ShardId,           \* ids of ctl.shard_run rows (uuid4)
  Key,               \* reuse keys
  Slot,              \* attempt parents <run>/manifests/<stage>/<shard>
  Upstream,          \* Key -> the keys in identity.upstream_manifest_ids
  Owned,             \* Key -> the value of the owned fingerprint field
  Verdicts,          \* what activation_decision may say of the work
  Forces,            \* the values of the force argument
  TTL,               \* lease_ttl_seconds
  Durable,           \* which ledger: see above
  MaxTime, MaxExecutions, MaxFaults, MaxInvalidations,   \* bounds
  None

ASSUME LedgerAssumption ==
  /\ Upstream \in [Key -> SUBSET Key]
  /\ \A k \in Key : k \notin Upstream[k]
  /\ Verdicts \subseteq Accepted \cup {"blocked"}
  /\ Forces \subseteq BOOLEAN
  /\ TTL \in Nat \ {0}
  /\ Durable \in BOOLEAN
  /\ MaxTime \in Nat /\ MaxExecutions \in Nat
  /\ MaxFaults \in Nat /\ MaxInvalidations \in Nat
  /\ None \notin ShardId /\ None \notin Key /\ None \notin Slot \X Nat

VARIABLES
  shards,      \* ctl.shard_run: ShardId -> row, status "none" when absent
  leases,      \* ctl.reuse_lease, by holder_shard_run_id
  manifests,   \* shards with an accepted ctl.artifact_manifest row
  lineage,     \* ctl.artifact_lineage: <<producer, consumer>>
  errors,      \* ctl.shard_error: <<shard, code>>
  disk,        \* attempt directory <<slot, attempt>> -> its tree
  now,         \* the host clock
  pc, job,     \* where each executor is, and its local variables
  inval,       \* the invalidate_owned call in progress
  executions, faults, invalidations,    \* what the bounds count
  crashed,     \* shards whose executor died
  escaped      \* <<shard, phase>>: IllegalTransitionError left execute there

ledger == <<shards, leases, manifests, lineage, errors>>
counts == <<executions, faults, invalidations>>
vars == <<ledger, disk, now, pc, job, inval, counts, crashed, escaped>>

Directory == Slot \X Nat
EmptyRow == [status |-> "none", key |-> None, attempt |-> 0, hit |-> FALSE, dir |-> None]
NoLease == [status |-> "none", expires |-> 0]
NoJob == [shard |-> None, key |-> None, slot |-> None, want |-> "blocked", at |-> 0,
          source |-> None, code |-> "interrupted", edge |-> None, read |-> FALSE]
NoInval == [pc |-> "rest", keys |-> {}, rows |-> {}]

Rows(k) == {s \in ShardId : shards[s].status # "none" /\ shards[s].key = k}
Dir(w) == <<job[w].slot, shards[job[w].shard].attempt>>

\* execute's control points.  A point of StatusPhase is a transition_shard call.
StatusPhase == {"hit start", "hit commit", "collided", "start", "commit", "failing"}
InTry == {"work", "beat", "publish", "rename", "validate", "renew", "accept",
          "manifest", "lineage", "insert", "commit", "release"}
Phase == StatusPhase \cup InTry
           \cup {"idle", "lookup", "hit", "add", "mkdir", "lease", "abort", "fail"}

-----------------------------------------------------------------------------
Init ==
  /\ shards = [s \in ShardId |-> EmptyRow]
  /\ leases = [s \in ShardId |-> NoLease]
  /\ manifests = {} /\ lineage = {} /\ errors = {}
  /\ disk = [d \in {} |-> None]
  /\ now = 0
  /\ pc = [w \in Executor |-> "idle"]
  /\ job = [w \in Executor |-> NoJob]
  /\ inval = NoInval
  /\ executions = 0 /\ faults = 0 /\ invalidations = 0
  /\ crashed = {} /\ escaped = {}

Goto(w, phase) == pc' = [pc EXCEPT ![w] = phase]
ReturnAnswer(w) == Goto(w, "idle") /\ job' = [job EXCEPT ![w] = NoJob]
Fail(w, phase, code) == Goto(w, phase) /\ job' = [job EXCEPT ![w].code = code]
\* clock() is called on entry to a phase that uses its value later.
GotoClocked(w, phase) == Goto(w, phase) /\ job' = [job EXCEPT ![w].at = now]

\* execute(work, force): activation_decision gives "blocked", or the status the
\* attempt gets when accepted; only an eligible, unforced call looks for a hit.
\* The caller named the upstream keys, so each of them has been accepted.
Execute(w, k, d, force, verdict) ==
  /\ pc[w] = "idle" /\ executions < MaxExecutions
  /\ \A u \in Upstream[k] : \E s \in Rows(u) : shards[s].status \in Accepted
  /\ executions' = executions + 1
  /\ Goto(w, IF force \/ verdict = "blocked" THEN "add" ELSE "lookup")
  /\ job' = [job EXCEPT ![w] =
               [NoJob EXCEPT !.key = k, !.slot = d, !.want = verdict, !.at = now]]
  /\ UNCHANGED <<ledger, disk, now, inval, faults, invalidations, crashed, escaped>>

\* validate_attempt: a complete tree whose manifest names this key and attempt.
Valid(d, k) == d \in DOMAIN disk /\ disk[d].state = "complete" /\ disk[d].key = k

\* Mutant: reusable_shard without its status filter.
AdoptableAnyStatus(k) ==
  LET found == {s \in Rows(k) : ~shards[s].hit}
  IN  {s \in found : \A t \in found : shards[t].attempt <= shards[s].attempt}

\* reusable_shard: the latest accepted attempt of the key that a worker produced.
Adoptable(k) ==
  LET found == {s \in Rows(k) : /\ shards[s].status \in Accepted
                                /\ shards[s].dir # None /\ ~shards[s].hit}
  IN  {s \in found : \A t \in found : shards[t].attempt <= shards[s].attempt}

\* _try_reuse up to the validated tree.
Lookup(w) ==
  /\ pc[w] = "lookup"
  /\ \/ \E s \in Adoptable(job[w].key) :
          /\ Valid(shards[s].dir, job[w].key)
          /\ Goto(w, "hit")
          /\ job' = [job EXCEPT ![w].source = s, ![w].want = shards[s].status]
     \/ /\ \A s \in Adoptable(job[w].key) : ~Valid(shards[s].dir, job[w].key)
        /\ GotoClocked(w, "add")
  /\ UNCHANGED <<ledger, disk, now, inval, counts, crashed, escaped>>

\* Mutant: the next attempt after the latest accepted one.
NextAfterAccepted(k) ==
  1 + Max({0} \cup {shards[s].attempt : s \in {t \in Rows(k) : shards[t].status \in Accepted}})

\* add_shard: the next attempt number of the key, under its advisory lock.
NextAttempt(k) == 1 + Max({0} \cup {shards[s].attempt : s \in Rows(k)})
Unused == {s \in ShardId : shards[s].status = "none"}

AddShard(w) ==
  /\ pc[w] \in {"hit", "add"} /\ Unused # {}
  /\ LET s == CHOOSE s \in Unused : TRUE
         k == job[w].key
     IN  /\ shards' = [shards EXCEPT ![s] =
                         [EmptyRow EXCEPT !.status = "pending", !.key = k,
                                       !.attempt = NextAttempt(k), !.hit = pc[w] = "hit"]]
         /\ job' = [job EXCEPT ![w].shard = s]
  /\ Goto(w, IF pc[w] = "hit" THEN "hit start" ELSE "mkdir")
  /\ UNCHANGED <<leases, manifests, lineage, errors, disk, now, inval, counts, crashed, escaped>>

\* Mutant: mkdir(exist_ok=True).
MkdirExistOk(w) ==
  /\ pc[w] = "mkdir"
  /\ disk' = [d \in DOMAIN disk \cup {Dir(w)} |->
                IF d \in DOMAIN disk THEN disk[d] ELSE [state |-> "reserved", key |-> None]]
  /\ IF job[w].want = "blocked" THEN Fail(w, "fail", "quality")
                                ELSE Goto(w, "lease") /\ UNCHANGED job
  /\ UNCHANGED <<ledger, now, inval, counts, crashed, escaped>>

\* new_shard: mkdir(exist_ok=False); a taken directory fails the row and loops.
Mkdir(w) ==
  /\ pc[w] = "mkdir"
  /\ \/ /\ Dir(w) \in DOMAIN disk
        /\ Goto(w, "collided") /\ UNCHANGED <<disk, job>>
     \/ /\ Dir(w) \notin DOMAIN disk
        /\ disk' = [d \in DOMAIN disk \cup {Dir(w)} |->
                      IF d = Dir(w) THEN [state |-> "reserved", key |-> None] ELSE disk[d]]
        /\ IF job[w].want = "blocked" THEN Fail(w, "fail", "quality")
                                      ELSE Goto(w, "lease") /\ UNCHANGED job
  /\ UNCHANGED <<ledger, now, inval, counts, crashed, escaped>>

Held(k) == {s \in Rows(k) : leases[s].status = "acquired"}

\* Mutant: the overdue leases are left as they are.
GrantedBeside(s, held, at) ==
  [leases EXCEPT ![s] = [status |-> "acquired", expires |-> at + TTL]]

\* The leases once row s holds the key: the overdue ones in held are retired.
Granted(s, held, at) ==
  [t \in ShardId |->
     IF t = s THEN [status |-> "acquired", expires |-> at + TTL]
     ELSE IF t \in held THEN [leases[t] EXCEPT !.status = "expired"]
     ELSE leases[t]]

\* acquire_lease: retire the key's overdue leases and insert one, or refuse
\* (and roll the retirements back) while another holder's lease is in time.
AcquireLease(w) ==
  LET s == job[w].shard
      at == job[w].at
      held == Held(job[w].key)
  IN  /\ pc[w] = "lease"
      /\ \/ /\ \E t \in held \ {s} : leases[t].expires > at
            /\ Fail(w, "fail", "busy") /\ UNCHANGED leases
         \/ /\ \A t \in held \ {s} : leases[t].expires <= at
            /\ leases' = Granted(s, held, at)
            /\ Goto(w, "start") /\ UNCHANGED job
      /\ UNCHANGED <<shards, manifests, lineage, errors, disk, now, inval, counts,
                     crashed, escaped>>

-----------------------------------------------------------------------------
(* transition_shard: require_transition on the row read, then the whole row  *)
(* is written back.  Target, Written and After say, for the phase an         *)
(* executor is in, which status, which row and where the code goes next.     *)

Target(w) ==
  CASE pc[w] \in {"hit start", "start"}   -> "running"
    [] pc[w] \in {"hit commit", "commit"} -> job[w].want
    [] pc[w] \in {"collided", "failing"}  -> "failed"

Written(w) ==
  LET row == shards[job[w].shard]
  IN  [row EXCEPT !.status = Target(w),
                  !.dir = CASE pc[w] = "commit"     -> Dir(w)
                            [] pc[w] = "hit commit" -> shards[job[w].source].dir
                            [] OTHER                -> @]

After == [x \in StatusPhase |->
            CASE x = "hit start" -> "hit commit"
              [] x = "collided"  -> "add"
              [] x = "start"     -> "work"
              [] x = "commit"    -> "release"
              [] OTHER           -> "idle"]

Write(w) ==
  /\ shards' = [shards EXCEPT ![job[w].shard] = Written(w)]
  /\ IF After[pc[w]] = "idle" THEN ReturnAnswer(w)
     ELSE Goto(w, After[pc[w]]) /\ job' = [job EXCEPT ![w].read = FALSE]
  /\ UNCHANGED escaped

\* The SELECT half; in memory the write is the same step.  An illegal step
\* raises: accept_shard answers "invalidated", elsewhere execute propagates it.
ReadRow(w) ==
  /\ pc[w] \in StatusPhase /\ ~job[w].read
  /\ \/ /\ Legal(LedgerTransitions, shards[job[w].shard].status, Target(w))
        /\ IF Durable THEN /\ job' = [job EXCEPT ![w].read = TRUE]
                           /\ UNCHANGED <<shards, pc, escaped>>
                      ELSE Write(w)
     \/ /\ ~Legal(LedgerTransitions, shards[job[w].shard].status, Target(w))
        /\ IF pc[w] = "commit"
           THEN Goto(w, "release") /\ UNCHANGED <<job, escaped>>
           ELSE ReturnAnswer(w) /\ escaped' = escaped \cup {<<job[w].shard, pc[w]>>}
        /\ UNCHANGED shards
  /\ UNCHANGED <<leases, manifests, lineage, errors, disk, now, inval, counts, crashed>>

\* The UPDATE half: it does not look at the row again.
WriteRow(w) ==
  /\ pc[w] \in StatusPhase /\ job[w].read
  /\ Write(w)
  /\ UNCHANGED <<leases, manifests, lineage, errors, disk, now, inval, counts, crashed>>

-----------------------------------------------------------------------------
(* The try block of produce_shard.                                         *)

\* worker(directory): returns the payloads, or raises.
Work(w) ==
  /\ pc[w] = "work"
  /\ GotoClocked(w, "beat") \/ Fail(w, "abort", "interrupted")
  /\ UNCHANGED <<ledger, disk, now, inval, counts, crashed, escaped>>

\* Mutant: a lease is judged by its time alone.
AliveByTime(w) == leases[job[w].shard].expires > job[w].at

\* The holder's lease can be renewed: acquired, and not overdue.
Alive(w) == /\ leases[job[w].shard].status = "acquired"
            /\ leases[job[w].shard].expires > job[w].at

\* heartbeat_lease, before publication and again before acceptance.
Heartbeat(w) ==
  /\ pc[w] \in {"beat", "renew"}
  /\ \/ /\ Alive(w)
        /\ leases' = [leases EXCEPT ![job[w].shard].expires = job[w].at + TTL]
        /\ Goto(w, IF pc[w] = "beat" THEN "publish" ELSE "accept") /\ UNCHANGED job
     \/ /\ ~Alive(w)
        /\ Fail(w, "abort", "lease-expired") /\ UNCHANGED leases
  /\ UNCHANGED <<shards, manifests, lineage, errors, disk, now, inval, counts, crashed, escaped>>

\* publish_attempt up to the payload renames, or its refusal of an empty set.
Publish(w) ==
  /\ pc[w] = "publish"
  /\ \/ /\ disk' = [disk EXCEPT ![Dir(w)] = [state |-> "partial", key |-> None]]
        /\ Goto(w, "rename") /\ UNCHANGED job
     \/ Fail(w, "abort", "validation") /\ UNCHANGED disk
  /\ UNCHANGED <<ledger, now, inval, counts, crashed, escaped>>

\* os.replace of manifest.json, which makes the tree complete; or an OSError.
RenameManifest(w) ==
  /\ pc[w] = "rename"
  /\ \/ /\ disk' = [disk EXCEPT ![Dir(w)] = [state |-> "complete", key |-> job[w].key]]
        /\ Goto(w, "validate") /\ UNCHANGED job
     \/ Fail(w, "abort", "interrupted") /\ UNCHANGED disk
  /\ UNCHANGED <<ledger, now, inval, counts, crashed, escaped>>

Validate(w) ==
  /\ pc[w] = "validate"
  /\ \/ Valid(Dir(w), job[w].key) /\ GotoClocked(w, "renew")
     \/ ~Valid(Dir(w), job[w].key) /\ Fail(w, "abort", "validation")
  /\ UNCHANGED <<ledger, disk, now, inval, counts, crashed, escaped>>

\* accept_shard's get_shard: an attempt already retired is not accepted.
Accept(w) ==
  /\ pc[w] = "accept"
  /\ Goto(w, IF shards[job[w].shard].status \in Retired THEN "release" ELSE "manifest")
  /\ UNCHANGED <<ledger, disk, now, job, inval, counts, crashed, escaped>>

\* accept_shard's add_manifest.
AddManifest(w) ==
  /\ pc[w] = "manifest"
  /\ manifests' = manifests \cup {job[w].shard}
  /\ Goto(w, "lineage")
  /\ UNCHANGED <<shards, leases, lineage, errors, disk, now, job, inval, counts, crashed, escaped>>

Missing(w) == {u \in Upstream[job[w].key] : <<u, job[w].key>> \notin lineage}

\* add_lineage for one upstream key: select the edge and, if absent, insert it.
AddLineage(w) ==
  /\ pc[w] = "lineage"
  /\ \/ Missing(w) = {} /\ Goto(w, "commit") /\ UNCHANGED <<lineage, job>>
     \/ \E u \in Missing(w) :
          \/ /\ ~Durable
             /\ lineage' = lineage \cup {<<u, job[w].key>>}
             /\ UNCHANGED <<pc, job>>
          \/ /\ Durable
             /\ Goto(w, "insert") /\ job' = [job EXCEPT ![w].edge = u]
             /\ UNCHANGED lineage
  /\ UNCHANGED <<shards, leases, manifests, errors, disk, now, inval, counts, crashed, escaped>>

\* The INSERT half: uq_artifact_lineage_edge refuses an edge added meanwhile,
\* and the IntegrityError ends in produce_shard's "except Exception".
InsertLineage(w) ==
  LET edge == <<job[w].edge, job[w].key>>
  IN  /\ pc[w] = "insert"
      /\ \/ /\ edge \notin lineage
            /\ lineage' = lineage \cup {edge}
            /\ Goto(w, "lineage") /\ job' = [job EXCEPT ![w].edge = None]
         \/ /\ edge \in lineage
            /\ Fail(w, "abort", "interrupted") /\ UNCHANGED lineage
      /\ UNCHANGED <<shards, leases, manifests, errors, disk, now, inval, counts,
                     crashed, escaped>>

\* release_lease, for an accepted attempt and for an invalidated one.
Release(w) ==
  LET s == job[w].shard
      legal == Legal(LeaseTransitions, leases[s].status, "released")
  IN  /\ pc[w] = "release"
      /\ \/ legal /\ leases' = [leases EXCEPT ![s].status = "released"] /\ ReturnAnswer(w)
         \/ ~legal /\ Fail(w, "abort", "interrupted") /\ UNCHANGED leases
      /\ UNCHANGED <<shards, manifests, lineage, errors, disk, now, inval, counts,
                     crashed, escaped>>

\* KeyboardInterrupt, SystemExit or InjectedCrash: an open transaction rolls
\* back and the handler aborts before it raises again.
Interrupt(w) ==
  /\ pc[w] \in InTry /\ faults < MaxFaults
  /\ faults' = faults + 1
  /\ Goto(w, "abort")
  /\ job' = [job EXCEPT ![w].code = "interrupted", ![w].read = FALSE]
  /\ UNCHANGED <<ledger, disk, now, inval, executions, invalidations, crashed, escaped>>

\* Mutant: abort_shard leaves the lease to expire.
AbortKeepingLease(w) ==
  /\ pc[w] = "abort"
  /\ Goto(w, "fail")
  /\ UNCHANGED <<ledger, disk, now, job, inval, counts, crashed, escaped>>

\* abort_shard: release the lease as failed, whatever that raises.
Abort(w) ==
  LET s == job[w].shard
  IN  /\ pc[w] = "abort"
      /\ leases' = IF Legal(LeaseTransitions, leases[s].status, "failed")
                   THEN [leases EXCEPT ![s].status = "failed"] ELSE leases
      /\ Goto(w, "fail")
      /\ UNCHANGED <<shards, manifests, lineage, errors, disk, now, job, inval, counts,
                     crashed, escaped>>

\* fail_shard: record the error, and fail the attempt unless get_shard finds
\* it terminal already.
RecordError(w) ==
  LET s == job[w].shard
  IN  /\ pc[w] = "fail"
      /\ errors' = errors \cup {<<s, job[w].code>>}
      /\ IF shards[s].status \in Terminal THEN ReturnAnswer(w)
                                          ELSE Goto(w, "failing") /\ UNCHANGED job
      /\ UNCHANGED <<shards, leases, manifests, lineage, disk, now, inval, counts,
                     crashed, escaped>>

-----------------------------------------------------------------------------
(* invalidate_owned: shards(), then lineage(), then mark_stale().          *)

\* keys_matching_owned_change over the identities of every row.
InvalidateOwned(previous) ==
  /\ inval.pc = "rest" /\ invalidations < MaxInvalidations
  /\ invalidations' = invalidations + 1
  /\ inval' = [pc |-> "closure", rows |-> {},
               keys |-> {k \in Key : Rows(k) # {} /\ Owned[k] = previous}]
  /\ UNCHANGED <<ledger, disk, now, pc, job, executions, faults, crashed, escaped>>

ReadLineage ==
  /\ inval.pc = "closure"
  /\ inval' = [inval EXCEPT !.pc = "mark", !.keys = StaleClosure(Key, inval.keys, lineage)]
  /\ UNCHANGED <<ledger, disk, now, pc, job, counts, crashed, escaped>>

ToMark == {s \in ShardId : /\ shards[s].key \in inval.keys
                           /\ shards[s].status \notin Retired \cup {"none"}}
MarkRows(rows) ==
  /\ shards' = [s \in ShardId |-> IF s \in rows THEN [shards[s] EXCEPT !.status = "stale"]
                                               ELSE shards[s]]
  /\ inval' = NoInval

\* mark_stale's SELECT of every row; in memory, the whole call.
SelectRows ==
  /\ inval.pc = "mark"
  /\ IF Durable THEN inval' = [inval EXCEPT !.pc = "update", !.rows = ToMark] /\ UNCHANGED shards
                ELSE MarkRows(ToMark)
  /\ UNCHANGED <<leases, manifests, lineage, errors, disk, now, pc, job, counts, crashed, escaped>>

\* Its UPDATEs, committed together.
UpdateRows ==
  /\ inval.pc = "update"
  /\ MarkRows(inval.rows)
  /\ UNCHANGED <<leases, manifests, lineage, errors, disk, now, pc, job, counts, crashed, escaped>>

-----------------------------------------------------------------------------
(* The environment.                                                        *)

Advance ==
  /\ now < MaxTime
  /\ now' = now + 1
  /\ UNCHANGED <<ledger, disk, pc, job, inval, counts, crashed, escaped>>

\* An executor's process dies anywhere; its open transaction rolls back.
Crash(w) ==
  /\ pc[w] # "idle" /\ faults < MaxFaults
  /\ faults' = faults + 1
  /\ ReturnAnswer(w)
  /\ crashed' = crashed \cup ({job[w].shard} \ {None})
  /\ UNCHANGED <<ledger, disk, now, inval, executions, invalidations, escaped>>

\* A new process with an InMemoryLedger: no rows, the same files.
Restart ==
  /\ ~Durable /\ faults < MaxFaults
  /\ \A w \in Executor : pc[w] = "idle"
  /\ faults' = faults + 1
  /\ shards' = [s \in ShardId |-> EmptyRow]
  /\ leases' = [s \in ShardId |-> NoLease]
  /\ manifests' = {} /\ lineage' = {} /\ errors' = {}
  /\ inval' = NoInval
  /\ crashed' = {} /\ escaped' = {}
  /\ UNCHANGED <<disk, now, pc, job, executions, invalidations>>

\* A published file is lost or altered behind the program's back.
Damage(d) ==
  /\ disk[d].state = "complete" /\ faults < MaxFaults
  /\ faults' = faults + 1
  /\ disk' = [disk EXCEPT ![d].state = "damaged"]
  /\ UNCHANGED <<ledger, now, pc, job, inval, executions, invalidations, crashed, escaped>>

Step(w) ==
  \/ Lookup(w) \/ AddShard(w) \/ Mkdir(w) \/ AcquireLease(w)
  \/ ReadRow(w) \/ WriteRow(w)
  \/ Work(w) \/ Heartbeat(w) \/ Publish(w) \/ RenameManifest(w) \/ Validate(w)
  \/ Accept(w) \/ AddManifest(w) \/ AddLineage(w) \/ InsertLineage(w)
  \/ Release(w) \/ Abort(w) \/ RecordError(w)

Invalidate == ReadLineage \/ SelectRows \/ UpdateRows

Next ==
  \/ \E w \in Executor :
       \/ \E k \in Key, d \in Slot, force \in Forces, verdict \in Verdicts :
            Execute(w, k, d, force, verdict)
       \/ Step(w) \/ Interrupt(w) \/ Crash(w)
  \/ \E k \in Key : InvalidateOwned(Owned[k])
  \/ Invalidate
  \/ Advance \/ Restart
  \/ \E d \in DOMAIN disk : Damage(d)

Spec == Init /\ [][Next]_vars

\* A process that does not die runs on, and a worker returns: no call of
\* execute waits for anything but the database and the disk.
LedgerFairness == (\A w \in Executor : WF_vars(Step(w))) /\ WF_vars(Invalidate)

-----------------------------------------------------------------------------
(* Properties.                                                             *)

Row == [status : LedgerStatus \cup {"none"}, key : Key \cup {None}, attempt : Nat,
        hit : BOOLEAN, dir : Directory \cup {None}]
Lease == [status : LeaseStatus \cup {"none"}, expires : Nat]
Tree == [state : {"reserved", "partial", "complete", "damaged"}, key : Key \cup {None}]
Job == [shard : ShardId \cup {None}, key : Key \cup {None}, slot : Slot \cup {None},
        want : Accepted \cup {"blocked"}, at : Nat, source : ShardId \cup {None},
        code : TransientCodes \cup PermanentCodes, edge : Key \cup {None}, read : BOOLEAN]
Inval == [pc : {"rest", "closure", "mark", "update"}, keys : SUBSET Key, rows : SUBSET ShardId]

\* Every table, file and local variable holds values of its kind.
TypeOK ==
  /\ shards \in [ShardId -> Row]
  /\ leases \in [ShardId -> Lease]
  /\ manifests \subseteq ShardId
  /\ lineage \subseteq Key \X Key
  /\ errors \subseteq ShardId \X (TransientCodes \cup PermanentCodes)
  /\ DOMAIN disk \subseteq Directory /\ \A d \in DOMAIN disk : disk[d] \in Tree
  /\ now \in Nat
  /\ pc \in [Executor -> Phase]
  /\ job \in [Executor -> Job]
  /\ inval \in Inval
  /\ executions \in Nat /\ faults \in Nat /\ invalidations \in Nat
  /\ crashed \subseteq ShardId
  /\ escaped \subseteq ShardId \X StatusPhase

\* A reuse key has at most one acquired lease, whoever took it over from whom:
\* acquire_lease decides under the key's advisory lock and row locks.
LeaseExclusive == \A k \in Key : \A s, t \in Held(k) : s = t

\* Attempt numbers of a key never repeat, however executors interleave.
AttemptUnique ==
  \A k \in Key : \A s, t \in Rows(k) : shards[s].attempt = shards[t].attempt => s = t

\* Ledger and files agree: the directory of an accepted attempt holds the
\* complete tree of its key (unless it was damaged since), and its manifest
\* row and lineage were recorded before the status.
AcceptedComplete ==
  \A s \in ShardId : shards[s].status \in Accepted =>
    LET row == shards[s]
    IN  /\ row.dir \in DOMAIN disk
        /\ disk[row.dir].state \in {"complete", "damaged"}
        /\ disk[row.dir].key = row.key
        /\ \A u \in Upstream[row.key] : <<u, row.key>> \in lineage
        /\ ~row.hit => s \in manifests /\ row.dir[2] = row.attempt

\* A published tree is never written again: not by a forced retry, not by
\* another key sharing the slot, not by a process that forgot the ledger.
PublishedImmutable ==
  [][\A d \in DOMAIN disk : disk[d].state = "complete" =>
       /\ d \in DOMAIN disk'
       /\ disk'[d] \in {disk[d], [disk[d] EXCEPT !.state = "damaged"]}]_vars

Working(s) == \E w \in Executor : pc[w] # "idle" /\ job[w].shard = s
Abandoned(s) == s \in crashed \/ \E x \in StatusPhase : <<s, x>> \in escaped

\* A call of execute that returns, or handles its exception, leaves nothing
\* behind: a lease still acquired, or an attempt still pending or running,
\* belongs to a live call, or to one that died or let an exception escape.
NothingLeftOpen ==
  \A s \in ShardId :
    \/ leases[s].status = "acquired"
    \/ shards[s].status \in {"pending", "running"}
    => Working(s) \/ Abandoned(s)

\* An attempt that invalidation marked stale is never accepted afterwards.
StaleIsFinal ==
  [][\A s \in ShardId : shards[s].status = "stale" =>
       shards'[s].status \in Retired \cup {"none"}]_vars

\* A worker's attempt that is accepted before the lease it renewed last runs
\* out is accepted under that lease: nobody has taken the key meanwhile.
AcceptedUnderLease ==
  [][\A w \in Executor :
       /\ pc[w] = "commit" /\ pc'[w] = "release" /\ shards'[job[w].shard].status \in Accepted
       /\ now < job[w].at + TTL
       => leases[job[w].shard].status = "acquired"]_vars

\* Every call of execute ends, however often it loses a directory or a lease.
ExecuteReturns == \A w \in Executor : pc[w] # "idle" ~> pc[w] = "idle"

\* However a call of execute ends: its lease and its attempt are settled, and
\* what it accepted is complete on disk and in the ledger.
SettledWhole ==
  /\ NothingLeftOpen
  /\ AcceptedComplete
=============================================================================
