------------------------- MODULE ShardLedgerProofs -------------------------
(***************************************************************************)
(* Proofs about ShardLedger for every set of executors, rows, keys and     *)
(* slots, every lease length and both ledgers: the type invariant, the     *)
(* exclusive lease and the unique attempt numbers; then the invariants of  *)
(* the calls of execute (who owns an attempt, what it leaves open, what is *)
(* on disk for it, whose lease it has) and the properties they give.       *)
(***************************************************************************)
EXTENDS ShardLedger, TLAPS

\* The phases in which an executor has an attempt row, and those in which the
\* status it would give that attempt is an accepted one.
HasRow == Phase \ {"idle", "lookup", "hit", "add"}
Accepts == InTry \cup {"hit", "hit start", "hit commit", "lease", "start"}

\* What an executor's local variables j hold in phase x.
LocalOK(x, j) ==
  /\ x # "idle" => j.key \in Key /\ j.slot \in Slot
  /\ x \in HasRow => j.shard \in ShardId
  /\ x \in Accepts => j.want \in Accepted
  /\ x \in {"hit", "hit start", "hit commit"} => j.source \in ShardId
  /\ x = "insert" => j.edge \in Key

Locals ==
  /\ pc \in [Executor -> Phase]
  /\ job \in [Executor -> Job]
  /\ \A w \in Executor : LocalOK(pc[w], job[w])

\* The part of TypeOK that is shared between the executors.
Tables ==
  /\ shards \in [ShardId -> Row]
  /\ leases \in [ShardId -> Lease]
  /\ manifests \subseteq ShardId
  /\ lineage \subseteq Key \X Key
  /\ errors \subseteq ShardId \X (TransientCodes \cup PermanentCodes)
  /\ DOMAIN disk \subseteq Directory /\ \A d \in DOMAIN disk : disk[d] \in Tree
  /\ now \in Nat
  /\ inval \in Inval
  /\ executions \in Nat /\ faults \in Nat /\ invalidations \in Nat
  /\ crashed \subseteq ShardId
  /\ escaped \subseteq ShardId \X StatusPhase

\* The attempt numbers of a key have a greatest one, so that add_shard's
\* max is defined even over an infinite set of row ids.
Attempts(k) == {0} \cup {shards[s].attempt : s \in Rows(k)}
AttemptsBounded == \A k \in Key : \E m \in Attempts(k) : \A a \in Attempts(k) : a <= m

TypeInv == Tables /\ Locals /\ AttemptsBounded

\* An absent row has no key and no live lease; an executor past new_shard
\* works on a row that exists and that carries its key.
RowsOK ==
  /\ \A s \in ShardId : shards[s].status = "none" =>
       shards[s].key = None /\ leases[s].status # "acquired"
  /\ \A w \in Executor : pc[w] \in HasRow =>
       shards[job[w].shard].status # "none" /\ shards[job[w].shard].key = job[w].key

IInv == TypeInv /\ RowsOK /\ LeaseExclusive /\ AttemptUnique

\* The inductive type invariant is at least as strong as the checked one.
LEMMA TypeInvImpliesTypeOK == TypeInv => TypeOK
  BY DEF TypeInv, Tables, Locals, TypeOK

\* The highest attempt of a key is a natural number no attempt exceeds.
LEMMA NextAttemptFresh ==
  ASSUME Tables, AttemptsBounded, NEW k \in Key
  PROVE  /\ NextAttempt(k) \in Nat
         /\ \A s \in Rows(k) : shards[s].attempt < NextAttempt(k)
  <1> DEFINE A == Attempts(k)
  <1>1. A \in SUBSET Nat
    BY DEF Tables, Row, Rows, Attempts
  <1>2. PICK m \in A : \A a \in A : a <= m
    BY DEF AttemptsBounded
  <1>3. Max(A) \in A /\ \A a \in A : Max(A) >= a
    BY <1>1, <1>2 DEF Max
  <1>4. NextAttempt(k) = 1 + Max(A)
    BY DEF NextAttempt, Attempts
  <1>5. Max(A) \in Nat
    BY <1>1, <1>3
  <1>6. ASSUME NEW s \in Rows(k)
        PROVE  shards[s].attempt < NextAttempt(k)
    <2>1. shards[s].attempt \in A
      BY DEF Attempts
    <2>2. shards[s].attempt \in Nat /\ Max(A) >= shards[s].attempt
      BY <1>1, <1>3, <2>1
    <2>3. QED
      BY <1>4, <1>5, <2>2
  <1>7. QED
    BY <1>4, <1>5, <1>6

-----------------------------------------------------------------------------
(* Type correctness.                                                       *)

\* The empty ledger with idle executors is well typed.
LEMMA InitTypeInv == Init => TypeInv
  <1> SUFFICES ASSUME Init PROVE TypeInv
    OBVIOUS
  <1>1. Tables
    BY DEF Init, Tables, Row, Lease, Tree, Inval, EmptyRow, NoLease, NoInval
  <1>2. Locals
    BY DEF Init, Locals, LocalOK, HasRow, Accepts, InTry, Phase, Job, NoJob, TransientCodes
  <1>3. AttemptsBounded
    BY DEF Init, AttemptsBounded, Attempts, Rows, EmptyRow
  <1>4. QED
    BY <1>1, <1>2, <1>3 DEF TypeInv

\* Moving one executor to phase x with local variables j.
LEMMA MoveLocals ==
  ASSUME Locals, NEW w \in Executor, NEW x \in Phase, NEW j \in Job, LocalOK(x, j),
         pc' = [pc EXCEPT ![w] = x], job' = [job EXCEPT ![w] = j]
  PROVE  Locals'
  <1>1. \A v \in Executor : LocalOK(pc'[v], job'[v])
    <2> SUFFICES ASSUME NEW v \in Executor PROVE LocalOK(pc'[v], job'[v])
      OBVIOUS
    <2>1. CASE v = w
      BY <2>1 DEF Locals
    <2>2. CASE v # w
      BY <2>2 DEF Locals
    <2>3. QED
      BY <2>1, <2>2
  <1>2. QED
    BY <1>1 DEF Locals

\* Goto changes the phase of one executor and keeps every local well typed.
LEMMA GotoLocals ==
  ASSUME Locals, NEW w \in Executor, NEW x \in Phase, LocalOK(x, job[w]), Goto(w, x), job' = job
  PROVE  Locals'
  <1>1. job' = [job EXCEPT ![w] = job[w]] /\ job[w] \in Job
    BY DEF Locals
  <1>2. QED
    BY <1>1, MoveLocals DEF Goto

\* Returning from execute resets the local variables of one executor.
LEMMA ReturnLocals == ASSUME Locals, NEW w \in Executor, ReturnAnswer(w) PROVE Locals'
  <1>1. NoJob \in Job /\ LocalOK("idle", NoJob) /\ "idle" \in Phase
    BY DEF NoJob, Job, LocalOK, HasRow, Accepts, InTry, Phase, TransientCodes
  <1>2. QED
    BY <1>1, MoveLocals DEF ReturnAnswer, Goto

\* Failing into a handler stores an error code of one of the two kinds.
LEMMA FailLocals ==
  ASSUME Locals, NEW w \in Executor, NEW x \in {"abort", "fail"},
         NEW c \in TransientCodes \cup PermanentCodes, pc[w] \in HasRow, Fail(w, x, c)
  PROVE  Locals'
  <1> DEFINE j == [job[w] EXCEPT !.code = c]
  <1>1. j \in Job /\ x \in Phase
    BY DEF Locals, Job, Phase
  <1>2. LocalOK(x, j)
    BY DEF Locals, LocalOK, Job, HasRow, Accepts, InTry
  <1>3. job' = [job EXCEPT ![w] = j] /\ pc' = [pc EXCEPT ![w] = x]
    BY DEF Fail, Goto, Locals
  <1>4. QED
    BY <1>1, <1>2, <1>3, MoveLocals

\* Sampling the clock on entry to a phase keeps the locals well typed.
LEMMA ClockLocals ==
  ASSUME Locals, now \in Nat, NEW w \in Executor, NEW x \in Phase,
         LocalOK(x, job[w]), GotoClocked(w, x)
  PROVE  Locals'
  <1> DEFINE j == [job[w] EXCEPT !.at = now]
  <1>1. j \in Job /\ LocalOK(x, j)
    BY DEF Locals, Job, LocalOK
  <1>2. job' = [job EXCEPT ![w] = j] /\ pc' = [pc EXCEPT ![w] = x]
    BY DEF GotoClocked, Goto, Locals
  <1>3. QED
    BY <1>1, <1>2, MoveLocals

\* An executor past add_shard has a row of the ledger.
LEMMA RowLocals ==
  ASSUME Locals, NEW w \in Executor, pc[w] \in HasRow
  PROVE  /\ job[w].shard \in ShardId /\ job[w].key \in Key /\ job[w].slot \in Slot
         /\ job[w].at \in Nat /\ job[w].code \in TransientCodes \cup PermanentCodes
         /\ job[w] \in Job
  BY DEF Locals, LocalOK, HasRow, Job

(* One lemma per action: the tables keep their types, and so do the local  *)
(* variables of the executor that moves.                                   *)

\* A worker that returns or raises changes locals only.
LEMMA WorkType ==
  ASSUME Tables, Locals, NEW w \in Executor, Work(w)
  PROVE  Tables' /\ Locals'
  <1>1. Tables'
    BY DEF Work, Tables, ledger, counts
  <1>2. Locals'
    <2>1. "beat" \in Phase /\ LocalOK("beat", job[w]) /\ pc[w] \in HasRow
      BY DEF Work, Locals, LocalOK, HasRow, Accepts, InTry, StatusPhase, Phase
    <2>2. QED
      BY <2>1, ClockLocals, FailLocals DEF Work, Tables, TransientCodes
  <1>3. QED
    BY <1>1, <1>2

\* heartbeat_lease writes a lease with a natural expiry.
LEMMA HeartbeatType ==
  ASSUME Tables, Locals, NEW w \in Executor, Heartbeat(w)
  PROVE  Tables' /\ Locals'
  <1>0. pc[w] \in HasRow
    BY DEF Heartbeat, HasRow, Phase, InTry, StatusPhase
  <1>1. Tables'
    <2>1. job[w].at + TTL \in Nat /\ job[w].shard \in ShardId
      BY <1>0, RowLocals, LedgerAssumption
    <2>2. leases' \in [ShardId -> Lease]
      BY <2>1 DEF Heartbeat, Tables, Lease
    <2>3. QED
      BY <2>2 DEF Heartbeat, Tables, counts
  <1>2. Locals'
    <2>1. \A x \in {"publish", "accept"} : x \in Phase /\ LocalOK(x, job[w])
      BY DEF Heartbeat, Locals, LocalOK, HasRow, Accepts, InTry, StatusPhase, Phase
    <2>2. pc[w] \in HasRow
      BY DEF Heartbeat, HasRow, Phase, InTry, StatusPhase
    <2>3. QED
      BY <2>1, <2>2, GotoLocals, FailLocals DEF Heartbeat, TransientCodes
  <1>3. QED
    BY <1>1, <1>2

\* publish_attempt writes a well-formed tree, or fails the attempt.
LEMMA PublishType ==
  ASSUME Tables, Locals, NEW w \in Executor, Publish(w)
  PROVE  Tables' /\ Locals'
  <1>1. Tables'
    BY DEF Publish, Tables, ledger, counts, Tree
  <1>2. Locals'
    <2>1. "rename" \in Phase /\ LocalOK("rename", job[w]) /\ pc[w] \in HasRow
      BY DEF Publish, Locals, LocalOK, HasRow, Accepts, InTry, StatusPhase, Phase
    <2>2. QED
      BY <2>1, GotoLocals, FailLocals DEF Publish, PermanentCodes
  <1>3. QED
    BY <1>1, <1>2

\* The rename of the manifest completes a well-formed tree.
LEMMA RenameManifestType ==
  ASSUME Tables, Locals, NEW w \in Executor, RenameManifest(w)
  PROVE  Tables' /\ Locals'
  <1>1. Tables'
    BY DEF RenameManifest, Tables, ledger, counts, Tree, Locals, Job
  <1>2. Locals'
    <2>1. "validate" \in Phase /\ LocalOK("validate", job[w]) /\ pc[w] \in HasRow
      BY DEF RenameManifest, Locals, LocalOK, HasRow, Accepts, InTry, StatusPhase, Phase
    <2>2. QED
      BY <2>1, GotoLocals, FailLocals DEF RenameManifest, TransientCodes
  <1>3. QED
    BY <1>1, <1>2

\* validate_attempt moves on, or fails the attempt.
LEMMA ValidateType ==
  ASSUME Tables, Locals, NEW w \in Executor, Validate(w)
  PROVE  Tables' /\ Locals'
  <1>1. Tables'
    BY DEF Validate, Tables, ledger, counts
  <1>2. Locals'
    <2>1. "renew" \in Phase /\ LocalOK("renew", job[w]) /\ pc[w] \in HasRow
      BY DEF Validate, Locals, LocalOK, HasRow, Accepts, InTry, StatusPhase, Phase
    <2>2. QED
      BY <2>1, ClockLocals, FailLocals DEF Validate, Tables, PermanentCodes
  <1>3. QED
    BY <1>1, <1>2

\* The get_shard of accept_shard changes locals only.
LEMMA AcceptType ==
  ASSUME Tables, Locals, NEW w \in Executor, Accept(w)
  PROVE  Tables' /\ Locals'
  <1>1. Tables'
    BY DEF Accept, Tables, ledger, counts
  <1>2. Locals'
    <2>1. \A x \in {"release", "manifest"} : x \in Phase /\ LocalOK(x, job[w])
      BY DEF Accept, Locals, LocalOK, HasRow, Accepts, InTry, StatusPhase, Phase
    <2>2. QED
      BY <2>1, GotoLocals DEF Accept
  <1>3. QED
    BY <1>1, <1>2

\* add_manifest adds the row of an existing shard.
LEMMA AddManifestType ==
  ASSUME Tables, Locals, NEW w \in Executor, AddManifest(w)
  PROVE  Tables' /\ Locals'
  <1>1. Tables'
    BY DEF AddManifest, Tables, ledger, counts, Locals, LocalOK, HasRow, Phase, InTry, StatusPhase
  <1>2. Locals'
    <2>1. "lineage" \in Phase /\ LocalOK("lineage", job[w])
      BY DEF AddManifest, Locals, LocalOK, HasRow, Accepts, InTry, StatusPhase, Phase
    <2>2. QED
      BY <2>1, GotoLocals DEF AddManifest
  <1>3. QED
    BY <1>1, <1>2

\* The select half of add_lineage keeps edges between keys.
LEMMA AddLineageType ==
  ASSUME Tables, Locals, NEW w \in Executor, AddLineage(w)
  PROVE  Tables' /\ Locals'
  <1>1. Missing(w) \subseteq Key /\ job[w].key \in Key
    BY LedgerAssumption DEF AddLineage, Missing, Locals, LocalOK, HasRow, Accepts, InTry, StatusPhase, Phase
  <1>2. Tables'
    BY <1>1 DEF AddLineage, Tables, counts
  <1>3. CASE job' = job /\ Goto(w, "commit")
    <2>1. "commit" \in Phase /\ LocalOK("commit", job[w])
      BY DEF AddLineage, Locals, LocalOK, HasRow, Accepts, InTry, StatusPhase, Phase
    <2>2. QED
      BY <1>2, <1>3, <2>1, GotoLocals
  <1>4. CASE job' = job /\ pc' = pc
    BY <1>2, <1>4 DEF Locals
  <1>5. ASSUME NEW u \in Missing(w), Goto(w, "insert"), job' = [job EXCEPT ![w].edge = u]
        PROVE  Locals'
    <2> DEFINE j == [job[w] EXCEPT !.edge = u]
    <2>1. j \in Job /\ "insert" \in Phase
      BY <1>1 DEF Locals, Job, Phase, InTry, StatusPhase
    <2>2. LocalOK("insert", j)
      <3>1. /\ pc[w] = "lineage" /\ job[w] \in Job
            /\ LocalOK("lineage", job[w])
        BY DEF AddLineage, Locals
      <3>2. /\ j.edge \in Key /\ j.key = job[w].key /\ j.slot = job[w].slot
            /\ j.shard = job[w].shard /\ j.want = job[w].want
        BY <1>1, <3>1 DEF Job
      <3>3. QED
        BY <3>1, <3>2 DEF LocalOK, HasRow, Accepts, Phase, InTry, StatusPhase
    <2>3. job' = [job EXCEPT ![w] = j] /\ pc' = [pc EXCEPT ![w] = "insert"]
      BY <1>5 DEF Goto, Locals
    <2>4. QED
      BY <2>1, <2>2, <2>3, MoveLocals
  <1>6. QED
    BY <1>2, <1>3, <1>4, <1>5 DEF AddLineage

\* The insert half of add_lineage keeps edges between keys.
LEMMA InsertLineageType ==
  ASSUME Tables, Locals, NEW w \in Executor, InsertLineage(w)
  PROVE  Tables' /\ Locals'
  <1>1. Tables'
    <2>1. job[w].key \in Key /\ job[w].edge \in Key
      BY DEF InsertLineage, Locals, LocalOK, HasRow, Accepts, InTry, StatusPhase, Phase
    <2>2. lineage' \subseteq Key \X Key
      BY <2>1 DEF InsertLineage, Tables
    <2>3. QED
      BY <2>2 DEF InsertLineage, Tables, counts
  <1>2. ASSUME Goto(w, "lineage"), job' = [job EXCEPT ![w].edge = None]
        PROVE  Locals'
    <2> DEFINE j == [job[w] EXCEPT !.edge = None]
    <2>1. j \in Job /\ "lineage" \in Phase
      BY DEF Locals, Job, Phase, InTry, StatusPhase
    <2>2. LocalOK("lineage", j)
      BY DEF InsertLineage, Job, Locals, LocalOK, HasRow, Accepts, InTry, StatusPhase, Phase
    <2>3. job' = [job EXCEPT ![w] = j] /\ pc' = [pc EXCEPT ![w] = "lineage"]
      BY <1>2 DEF Goto, Locals
    <2>4. QED
      BY <2>1, <2>2, <2>3, MoveLocals
  <1>3. pc[w] \in HasRow
    BY DEF InsertLineage, HasRow, Phase, InTry, StatusPhase
  <1>4. QED
    BY <1>1, <1>2, <1>3, FailLocals DEF InsertLineage, TransientCodes

\* release_lease writes a legal lease status, or fails the attempt.
LEMMA ReleaseType ==
  ASSUME Tables, Locals, NEW w \in Executor, Release(w)
  PROVE  Tables' /\ Locals'
  <1>1. Tables'
    BY DEF Release, Tables, ledger, counts, Lease, LeaseStatus
  <1>2. Locals'
    <2>1. pc[w] \in HasRow
      BY DEF Release, HasRow, Phase, InTry, StatusPhase
    <2>2. QED
      BY <2>1, ReturnLocals, FailLocals DEF Release, TransientCodes
  <1>3. QED
    BY <1>1, <1>2

\* abort_shard writes a legal lease status or none.
LEMMA AbortType ==
  ASSUME Tables, Locals, NEW w \in Executor, Abort(w)
  PROVE  Tables' /\ Locals'
  <1>1. Tables'
    BY DEF Abort, Tables, ledger, counts, Lease, LeaseStatus
  <1>2. Locals'
    <2>1. "fail" \in Phase /\ LocalOK("fail", job[w])
      BY DEF Abort, Locals, LocalOK, HasRow, Accepts, InTry, StatusPhase, Phase
    <2>2. QED
      BY <2>1, GotoLocals DEF Abort
  <1>3. QED
    BY <1>1, <1>2

\* fail_shard adds an error of a known code.
LEMMA RecordErrorType ==
  ASSUME Tables, Locals, NEW w \in Executor, RecordError(w)
  PROVE  Tables' /\ Locals'
  <1>1. Tables'
    <2>1. pc[w] \in HasRow
      BY DEF RecordError, HasRow, Phase, InTry, StatusPhase
    <2>2. errors' \subseteq ShardId \X (TransientCodes \cup PermanentCodes)
      BY <2>1, RowLocals DEF RecordError, Tables
    <2>3. QED
      BY <2>2 DEF RecordError, Tables, counts
  <1>2. Locals'
    <2>1. "failing" \in Phase /\ LocalOK("failing", job[w])
      BY DEF RecordError, Locals, LocalOK, HasRow, Accepts, InTry, StatusPhase, Phase
    <2>2. QED
      BY <2>1, GotoLocals, ReturnLocals DEF RecordError
  <1>3. QED
    BY <1>1, <1>2

\* An interrupt sends an executor to its handler.
LEMMA InterruptType ==
  ASSUME Tables, Locals, NEW w \in Executor, Interrupt(w)
  PROVE  Tables' /\ Locals'
  <1> DEFINE j == [job[w] EXCEPT !.code = "interrupted", !.read = FALSE]
  <1>1. Tables'
    BY DEF Interrupt, Tables, ledger
  <1>2. j \in Job /\ "abort" \in Phase
    BY DEF Locals, Job, Phase, TransientCodes
  <1>3. LocalOK("abort", j)
    BY DEF Interrupt, Job, Locals, LocalOK, HasRow, Accepts, InTry, StatusPhase, Phase
  <1>4. job' = [job EXCEPT ![w] = j] /\ pc' = [pc EXCEPT ![w] = "abort"]
    BY DEF Interrupt, Goto, Locals
  <1>5. QED
    BY <1>1, <1>2, <1>3, <1>4, MoveLocals

\* A dying process forgets its locals.
LEMMA CrashType ==
  ASSUME Tables, Locals, NEW w \in Executor, Crash(w)
  PROVE  Tables' /\ Locals'
  <1>1. Tables'
    BY DEF Crash, Tables, Locals, Job, ledger
  <1>2. QED
    BY <1>1, ReturnLocals DEF Crash

\* A new call of execute starts with well-typed locals.
LEMMA ExecuteType ==
  ASSUME Tables, Locals, NEW w \in Executor, NEW k \in Key, NEW d \in Slot,
         NEW force \in Forces, NEW verdict \in Verdicts, Execute(w, k, d, force, verdict)
  PROVE  Tables' /\ Locals'
  <1> DEFINE j == [NoJob EXCEPT !.key = k, !.slot = d, !.want = verdict, !.at = now]
             x == IF force \/ verdict = "blocked" THEN "add" ELSE "lookup"
  <1>1. Tables'
    BY DEF Execute, Tables, ledger
  <1>2. j \in Job /\ x \in Phase
    BY LedgerAssumption DEF Tables, NoJob, Job, Phase, TransientCodes
  <1>3. LocalOK(x, j)
    BY DEF LocalOK, NoJob, HasRow, Accepts, InTry
  <1>4. job' = [job EXCEPT ![w] = j] /\ pc' = [pc EXCEPT ![w] = x]
    BY DEF Execute, Goto
  <1>5. QED
    BY <1>1, <1>2, <1>3, <1>4, MoveLocals

\* A cache hit takes over the status of an accepted attempt.
LEMMA LookupType ==
  ASSUME Tables, Locals, NEW w \in Executor, Lookup(w)
  PROVE  Tables' /\ Locals'
  <1>1. Tables'
    BY DEF Lookup, Tables, ledger, counts
  <1>2. /\ pc[w] = "lookup" /\ job[w] \in Job
        /\ LocalOK("lookup", job[w])
    BY DEF Lookup, Locals
  <1>3. ASSUME NEW s \in Adoptable(job[w].key), Goto(w, "hit"),
               job' = [job EXCEPT ![w].source = s, ![w].want = shards[s].status]
        PROVE  Locals'
    <2> DEFINE j == [job[w] EXCEPT !.source = s, !.want = shards[s].status]
    <2>1. s \in ShardId /\ shards[s].status \in Accepted
      BY DEF Adoptable, Rows
    <2>2. j \in Job /\ j.source = s /\ j.want \in Accepted
          /\ j.key = job[w].key /\ j.slot = job[w].slot
      BY <1>2, <2>1 DEF Job
    <2>3. LocalOK("hit", j) /\ "hit" \in Phase
      BY <1>2, <2>1, <2>2 DEF LocalOK, HasRow, Phase
    <2>4. job' = [job EXCEPT ![w] = j] /\ pc' = [pc EXCEPT ![w] = "hit"]
      BY <1>3 DEF Goto, Locals
    <2>5. QED
      BY <2>2, <2>3, <2>4, MoveLocals
  <1>4. "add" \in Phase /\ LocalOK("add", job[w])
    BY <1>2 DEF LocalOK, HasRow, Accepts, Phase, InTry, StatusPhase
  <1>5. QED
    BY <1>1, <1>3, <1>4, ClockLocals DEF Lookup, Tables

\* add_shard inserts a well-formed row with a natural attempt number.
LEMMA AddShardType ==
  ASSUME Tables, Locals, AttemptsBounded, NEW w \in Executor, AddShard(w)
  PROVE  Tables' /\ Locals'
  <1> DEFINE s == CHOOSE t \in Unused : TRUE
             k == job[w].key
             j == [job[w] EXCEPT !.shard = s]
             x == IF pc[w] = "hit" THEN "hit start" ELSE "mkdir"
             row == [EmptyRow EXCEPT !.status = "pending", !.key = k,
                                  !.attempt = NextAttempt(k), !.hit = pc[w] = "hit"]
  <1>1. s \in ShardId
    BY DEF AddShard, Unused
  <1>2. job[w] \in Job /\ LocalOK(pc[w], job[w]) /\ pc[w] \in {"hit", "add"}
    BY DEF AddShard, Locals
  <1>3. k \in Key
    BY <1>2 DEF LocalOK
  <1>4. NextAttempt(k) \in Nat
    BY <1>3, NextAttemptFresh
  <1>5. row \in Row
    BY <1>3, <1>4 DEF Row, EmptyRow, LedgerStatus
  <1>6. shards' = [shards EXCEPT ![s] = row]
    BY DEF AddShard
  <1>7. Tables'
    BY <1>1, <1>5, <1>6 DEF AddShard, Tables, counts
  <1>8. j \in Job /\ x \in Phase
    BY <1>1, <1>2 DEF Job, Phase, InTry, StatusPhase
  <1>9. LocalOK(x, j)
    <2>1. /\ j.shard = s /\ j.key = k /\ j.slot = job[w].slot
          /\ j.want = job[w].want /\ j.source = job[w].source
      BY <1>2 DEF Job
    <2>2. QED
      BY <1>1, <1>2, <2>1 DEF LocalOK, HasRow, Accepts, Phase, InTry, StatusPhase
  <1>10. job' = [job EXCEPT ![w] = j] /\ pc' = [pc EXCEPT ![w] = x]
    BY DEF AddShard, Goto, Locals
  <1>11. QED
    BY <1>7, <1>8, <1>9, <1>10, MoveLocals

\* Reserving a directory adds an empty tree at a directory of the layout.
LEMMA MkdirType ==
  ASSUME Tables, Locals, NEW w \in Executor, Mkdir(w)
  PROVE  Tables' /\ Locals'
  <1>1. pc[w] = "mkdir" /\ pc[w] \in HasRow
    BY DEF Mkdir, HasRow, Phase
  <1>2. Dir(w) \in Directory
    BY <1>1, RowLocals DEF Dir, Directory, Tables, Row
  <1>3. Tables'
    BY <1>2 DEF Mkdir, Tables, Tree, ledger, counts
  <1>4. "collided" \in Phase /\ LocalOK("collided", job[w])
    BY <1>1 DEF Locals, LocalOK, HasRow, Accepts, InTry, StatusPhase, Phase
  <1>5. CASE job[w].want = "blocked"
    BY <1>1, <1>3, <1>4, <1>5, GotoLocals, FailLocals DEF Mkdir, PermanentCodes
  <1>6. CASE job[w].want # "blocked"
    <2>1. job[w].want \in Accepted
      BY <1>6 DEF Locals, Job
    <2>2. "lease" \in Phase /\ LocalOK("lease", job[w])
      BY <1>1, <2>1 DEF Locals, LocalOK, HasRow, Accepts, InTry, StatusPhase, Phase
    <2>3. QED
      BY <1>3, <1>4, <1>6, <2>2, GotoLocals DEF Mkdir
  <1>7. QED
    BY <1>5, <1>6

\* acquire_lease writes leases with natural expiries.
LEMMA AcquireLeaseType ==
  ASSUME Tables, Locals, NEW w \in Executor, AcquireLease(w)
  PROVE  Tables' /\ Locals'
  <1>1. pc[w] = "lease" /\ pc[w] \in HasRow
    BY DEF AcquireLease, HasRow, Phase
  <1>2. job[w].at + TTL \in Nat
    BY <1>1, RowLocals, LedgerAssumption
  <1>3. leases' \in [ShardId -> Lease]
    BY <1>2 DEF AcquireLease, Granted, Tables, Lease, LeaseStatus
  <1>4. Tables'
    BY <1>3 DEF AcquireLease, Tables, counts
  <1>5. "start" \in Phase /\ LocalOK("start", job[w])
    BY <1>1 DEF Locals, LocalOK, HasRow, Accepts, InTry, StatusPhase, Phase
  <1>6. QED
    BY <1>1, <1>4, <1>5, GotoLocals, FailLocals DEF AcquireLease, TransientCodes

\* The row transition_shard writes back is well formed.
LEMMA WriteType ==
  ASSUME Tables, Locals, NEW w \in Executor, pc[w] \in StatusPhase, Write(w)
  PROVE  shards' \in [ShardId -> Row] /\ Locals'
  <1>1. pc[w] \in HasRow
    BY DEF HasRow, Phase, InTry, StatusPhase
  <1>2. job[w].shard \in ShardId /\ job[w] \in Job /\ LocalOK(pc[w], job[w])
    BY <1>1, RowLocals DEF Locals
  <1>3. Target(w) \in LedgerStatus
    BY <1>2 DEF Target, LocalOK, Accepts, InTry, StatusPhase, LedgerStatus, Accepted
  <1>4. Dir(w) \in Directory
    BY <1>1, RowLocals DEF Dir, Directory, Tables, Row
  <1>5. pc[w] = "hit commit" => shards[job[w].source].dir \in Directory \cup {None}
    BY <1>2 DEF LocalOK, Tables, Row
  <1>6. Written(w) \in Row
    <2> DEFINE row == shards[job[w].shard]
    <2>1. row \in Row
      BY <1>2 DEF Tables
    <2>2. CASE pc[w] = "commit"
      <3>1. Written(w) = [row EXCEPT !.status = Target(w), !.dir = Dir(w)]
        BY <2>2 DEF Written
      <3>2. QED
        BY <1>3, <1>4, <2>1, <3>1 DEF Row
    <2>3. CASE pc[w] = "hit commit"
      <3>1. Written(w) = [row EXCEPT !.status = Target(w), !.dir = shards[job[w].source].dir]
        BY <2>3 DEF Written
      <3>2. QED
        BY <1>3, <1>5, <2>1, <2>3, <3>1 DEF Row
    <2>4. CASE pc[w] \notin {"commit", "hit commit"}
      <3>1. Written(w) = [row EXCEPT !.status = Target(w), !.dir = row.dir]
        BY <2>4 DEF Written
      <3>2. QED
        BY <1>3, <2>1, <3>1 DEF Row
    <2>5. QED
      BY <2>2, <2>3, <2>4
  <1>7. shards' \in [ShardId -> Row]
    BY <1>2, <1>6 DEF Write, Tables
  <1> DEFINE j == [job[w] EXCEPT !.read = FALSE]
  <1>8. CASE After[pc[w]] = "idle"
    BY <1>7, <1>8, ReturnLocals DEF Write
  <1>9. CASE After[pc[w]] # "idle"
    <2>1. j \in Job /\ j.shard = job[w].shard /\ j.key = job[w].key /\ j.slot = job[w].slot
          /\ j.want = job[w].want /\ j.source = job[w].source
      BY <1>2 DEF Job
    <2>2. /\ After[pc[w]] \in Phase
          /\ LocalOK(After[pc[w]], j)
      BY <1>2, <2>1, <1>9 DEF After, LocalOK, HasRow, Accepts, Phase, InTry, StatusPhase
    <2>3. job' = [job EXCEPT ![w] = j] /\ pc' = [pc EXCEPT ![w] = After[pc[w]]]
      BY <1>9 DEF Write, Goto, Locals
    <2>4. QED
      BY <1>7, <2>1, <2>2, <2>3, MoveLocals
  <1>10. QED
    BY <1>8, <1>9

\* The select half of transition_shard keeps types, whatever it finds.
LEMMA ReadRowType ==
  ASSUME Tables, Locals, NEW w \in Executor, ReadRow(w)
  PROVE  Tables' /\ Locals'
  <1>1. pc[w] \in StatusPhase /\ pc[w] \in HasRow
    BY DEF ReadRow, HasRow, Phase, InTry, StatusPhase
  <1>2. job[w].shard \in ShardId /\ job[w] \in Job /\ LocalOK(pc[w], job[w])
    BY <1>1, RowLocals DEF Locals
  <1>3. CASE Write(w)
    BY <1>1, <1>3, WriteType DEF ReadRow, Write, Tables, counts
  <1>4. CASE job' = [job EXCEPT ![w].read = TRUE] /\ UNCHANGED <<shards, pc, escaped>>
    <2> DEFINE j == [job[w] EXCEPT !.read = TRUE]
    <2>1. j \in Job /\ LocalOK(pc[w], j)
      BY <1>2 DEF Job, LocalOK
    <2>2. job' = [job EXCEPT ![w] = j] /\ pc' = [pc EXCEPT ![w] = pc[w]] /\ pc[w] \in Phase
      BY <1>4 DEF Locals
    <2>3. Locals'
      BY <2>1, <2>2, MoveLocals
    <2>4. QED
      BY <2>3, <1>4 DEF ReadRow, Tables, counts
  <1>5. CASE pc[w] = "commit" /\ Goto(w, "release") /\ UNCHANGED <<job, escaped, shards>>
    <2>1. "release" \in Phase /\ LocalOK("release", job[w])
      BY <1>2, <1>5 DEF LocalOK, HasRow, Accepts, Phase, InTry, StatusPhase
    <2>2. Locals'
      BY <1>5, <2>1, GotoLocals
    <2>3. QED
      BY <2>2, <1>5 DEF ReadRow, Tables, counts
  <1>6. CASE ReturnAnswer(w) /\ escaped' = escaped \cup {<<job[w].shard, pc[w]>>} /\ shards' = shards
    BY <1>1, <1>2, <1>6, ReturnLocals DEF ReadRow, Tables, counts
  <1>7. QED
    BY <1>3, <1>4, <1>5, <1>6 DEF ReadRow

\* The update half of transition_shard keeps types.
LEMMA WriteRowType ==
  ASSUME Tables, Locals, NEW w \in Executor, WriteRow(w)
  PROVE  Tables' /\ Locals'
  BY WriteType DEF WriteRow, Write, Tables, counts

\* The steps of invalidate_owned and of the environment.
LEMMA InvalidateType ==
  ASSUME Tables, Locals, Invalidate \/ \E v \in {Owned[k] : k \in Key} : InvalidateOwned(v)
  PROVE  Tables' /\ Locals'
  <1>1. NoInval \in Inval
    BY DEF NoInval, Inval
  <1>2. ASSUME NEW rows \in SUBSET ShardId, MarkRows(rows)
        PROVE  shards' \in [ShardId -> Row] /\ inval' \in Inval
    BY <1>1, <1>2 DEF MarkRows, Tables, Row, LedgerStatus
  <1>3. CASE ReadLineage
    BY <1>3 DEF ReadLineage, StaleClosure, Tables, Locals, Inval, ledger, counts
  <1>4. CASE SelectRows
    <2>1. ToMark \in SUBSET ShardId
      BY DEF ToMark
    <2>2. shards' \in [ShardId -> Row] /\ inval' \in Inval
      BY <1>2, <1>4, <2>1 DEF SelectRows, Tables, Inval
    <2>3. QED
      BY <1>4, <2>2 DEF SelectRows, Tables, Locals, counts
  <1>5. CASE UpdateRows
    <2>1. inval.rows \in SUBSET ShardId
      BY DEF Tables, Inval
    <2>2. QED
      BY <1>2, <1>5, <2>1 DEF UpdateRows, Tables, Locals, counts
  <1>6. CASE \E v \in {Owned[k] : k \in Key} : InvalidateOwned(v)
    BY <1>6 DEF InvalidateOwned, Tables, Locals, Inval, ledger
  <1>7. QED
    BY <1>3, <1>4, <1>5, <1>6 DEF Invalidate

\* Clock, crash, restart and damaged files keep types.
LEMMA EnvironmentType ==
  ASSUME Tables, Locals, Advance \/ Restart \/ \E d \in DOMAIN disk : Damage(d)
  PROVE  Tables' /\ Locals'
  <1>1. CASE Advance
    BY <1>1 DEF Advance, Tables, Locals, ledger, counts
  <1>2. CASE Restart
    BY <1>2 DEF Restart, Tables, Locals, Row, Lease, Inval, EmptyRow, NoLease, NoInval
  <1>3. ASSUME NEW d \in DOMAIN disk, Damage(d)
        PROVE  Tables' /\ Locals'
    BY <1>3 DEF Damage, Tables, Locals, Tree, ledger
  <1>4. QED
    BY <1>1, <1>2, <1>3

-----------------------------------------------------------------------------
(* What a step does to rows and leases.                                    *)

\* Rows keep their key and attempt, and none disappears.
KeepRows ==
  \A s \in ShardId :
    /\ shards'[s].key = shards[s].key
    /\ shards'[s].attempt = shards[s].attempt
    /\ shards'[s].status = "none" => shards[s].status = "none"

\* An executor in a phase with a row was in one before, with the same row.
KeepJobs ==
  \A w \in Executor : pc'[w] \in HasRow =>
    /\ pc[w] \in HasRow
    /\ job'[w].shard = job[w].shard /\ job'[w].key = job[w].key

\* No lease becomes acquired.
KeepLeases ==
  \A s \in ShardId : leases'[s].status = "acquired" => leases[s].status = "acquired"

\* Rows that keep key and attempt stay numbered apart.
LEMMA KeepRowsBounded ==
  ASSUME IInv, KeepRows
  PROVE  AttemptsBounded' /\ AttemptUnique' /\ \A k \in Key : Rows(k)' = Rows(k)
  <1>1. \A k \in Key : Rows(k)' = Rows(k)
    BY LedgerAssumption DEF IInv, RowsOK, KeepRows, Rows
  <1>2. \A k \in Key : \A s \in Rows(k) : shards'[s].attempt = shards[s].attempt
    BY DEF KeepRows, Rows
  <1>3. \A k \in Key : Attempts(k)' = Attempts(k)
    BY <1>1, <1>2 DEF Attempts
  <1>4. AttemptsBounded'
    BY <1>3 DEF IInv, TypeInv, AttemptsBounded
  <1>5. AttemptUnique'
    BY <1>1, <1>2 DEF IInv, AttemptUnique
  <1>6. QED
    BY <1>1, <1>4, <1>5

\* A step that keeps keys and attempts, acquires no lease and keeps the jobs in
\* line with their rows preserves the invariant.
LEMMA KeepInv ==
  ASSUME IInv, Tables', Locals', KeepRows, KeepJobs, KeepLeases
  PROVE  IInv'
  <1>1. AttemptsBounded' /\ AttemptUnique' /\ \A k \in Key : Rows(k)' = Rows(k)
    BY KeepRowsBounded
  <1>2. LeaseExclusive'
    BY <1>1 DEF IInv, LeaseExclusive, Held, KeepLeases, Rows
  <1>3. ASSUME NEW s \in ShardId, shards'[s].status = "none"
        PROVE  shards'[s].key = None /\ leases'[s].status # "acquired"
    BY <1>3 DEF IInv, RowsOK, KeepRows, KeepLeases
  <1>4. ASSUME NEW w \in Executor, pc'[w] \in HasRow
        PROVE  /\ shards'[job'[w].shard].status # "none"
               /\ shards'[job'[w].shard].key = job'[w].key
    <2>1. /\ pc[w] \in HasRow
          /\ job'[w].shard = job[w].shard /\ job'[w].key = job[w].key
      BY <1>4 DEF KeepJobs
    <2>2. job[w].shard \in ShardId
      BY <2>1, RowLocals DEF IInv, TypeInv
    <2>3. QED
      BY <2>1, <2>2 DEF IInv, RowsOK, KeepRows
  <1>5. RowsOK'
    BY <1>3, <1>4 DEF RowsOK, HasRow
  <1>6. QED
    BY <1>1, <1>2, <1>5 DEF IInv, TypeInv

\* One executor's move keeps the jobs of the others.
LEMMA MoveKeepsJobs ==
  ASSUME Locals, NEW w \in Executor, NEW x, NEW j,
         pc' = [pc EXCEPT ![w] = x], job' = [job EXCEPT ![w] = j],
         x \in HasRow => pc[w] \in HasRow /\ j.shard = job[w].shard /\ j.key = job[w].key
  PROVE  KeepJobs
  BY DEF Locals, KeepJobs

\* The ways an action moves its executor, once it has a row.
LEMMA PlainMoveKeepsJobs ==
  ASSUME Locals, NEW w \in Executor, pc[w] \in HasRow,
         \/ ReturnAnswer(w)
         \/ \E x \in Phase : \/ Goto(w, x) /\ job' = job
                             \/ GotoClocked(w, x)
                             \/ \E c : Fail(w, x, c)
  PROVE  KeepJobs
  <1>1. job[w] \in Job
    BY DEF Locals
  <1>2. CASE ReturnAnswer(w)
    BY <1>2, MoveKeepsJobs DEF ReturnAnswer, Goto, HasRow
  <1>3. ASSUME NEW x \in Phase, Goto(w, x), job' = job
        PROVE  KeepJobs
    BY <1>3 DEF Locals, KeepJobs, Goto
  <1>4. ASSUME NEW x \in Phase, GotoClocked(w, x)
        PROVE  KeepJobs
    <2> DEFINE j == [job[w] EXCEPT !.at = now]
    <2>1. j.shard = job[w].shard /\ j.key = job[w].key
      BY <1>1 DEF Job
    <2>2. pc' = [pc EXCEPT ![w] = x] /\ job' = [job EXCEPT ![w] = j]
      BY <1>4 DEF GotoClocked, Goto, Locals
    <2>3. QED
      BY <2>1, <2>2, MoveKeepsJobs
  <1>5. ASSUME NEW x \in Phase, NEW c, Fail(w, x, c)
        PROVE  KeepJobs
    <2> DEFINE j == [job[w] EXCEPT !.code = c]
    <2>1. j.shard = job[w].shard /\ j.key = job[w].key
      BY <1>1 DEF Job
    <2>2. pc' = [pc EXCEPT ![w] = x] /\ job' = [job EXCEPT ![w] = j]
      BY <1>5 DEF Fail, Goto, Locals
    <2>3. QED
      BY <2>1, <2>2, MoveKeepsJobs
  <1>6. QED
    BY <1>2, <1>3, <1>4, <1>5

\* The steps of the try block and of its handlers.
TryStep(w) ==
  \/ Work(w) \/ Heartbeat(w) \/ Publish(w) \/ RenameManifest(w) \/ Validate(w)
  \/ Accept(w) \/ AddManifest(w) \/ AddLineage(w) \/ InsertLineage(w)
  \/ Release(w) \/ Abort(w) \/ RecordError(w)

\* Every step of the try block and its handlers keeps types.
LEMMA TryType ==
  ASSUME Tables, Locals, NEW w \in Executor, TryStep(w)
  PROVE  Tables' /\ Locals'
  BY WorkType, HeartbeatType, PublishType, RenameManifestType, ValidateType, AcceptType,
     AddManifestType, AddLineageType, InsertLineageType, ReleaseType, AbortType,
     RecordErrorType DEF TryStep

\* No step of the try block changes which row an executor works on.
LEMMA TryKeepsJobs ==
  ASSUME Locals, NEW w \in Executor, TryStep(w)
  PROVE  KeepJobs
  <1>1. job[w] \in Job
    BY DEF Locals
  <1>2. pc[w] \in HasRow
    BY DEF TryStep, HasRow, Phase, InTry, StatusPhase, Work, Heartbeat, Publish, RenameManifest,
           Validate, Accept, AddManifest, AddLineage, InsertLineage, Release, Abort, RecordError
  <1>3. {"beat", "publish", "accept", "rename", "validate", "renew", "release", "manifest",
         "lineage", "commit", "abort", "fail", "failing", "insert"} \subseteq Phase
    BY DEF Phase, InTry, StatusPhase
  <1>4. CASE Work(w) \/ Validate(w)
    BY <1>2, <1>3, <1>4, PlainMoveKeepsJobs DEF Work, Validate
  <1>5. CASE Heartbeat(w) \/ Publish(w) \/ RenameManifest(w)
    BY <1>2, <1>3, <1>5, PlainMoveKeepsJobs DEF Heartbeat, Publish, RenameManifest
  <1>6. CASE Accept(w) \/ AddManifest(w) \/ Abort(w)
    BY <1>2, <1>3, <1>6, PlainMoveKeepsJobs DEF Accept, AddManifest, Abort
  <1>7. CASE Release(w) \/ RecordError(w)
    BY <1>2, <1>3, <1>7, PlainMoveKeepsJobs DEF Release, RecordError
  <1>8. ASSUME NEW u, NEW x \in Phase, Goto(w, x), job' = [job EXCEPT ![w].edge = u]
        PROVE  KeepJobs
    <2> DEFINE j == [job[w] EXCEPT !.edge = u]
    <2>1. j.shard = job[w].shard /\ j.key = job[w].key
      BY <1>1 DEF Job
    <2>2. pc' = [pc EXCEPT ![w] = x] /\ job' = [job EXCEPT ![w] = j]
      BY <1>8 DEF Goto, Locals
    <2>3. QED
      BY <1>2, <2>1, <2>2, MoveKeepsJobs
  <1>9. CASE AddLineage(w)
    <2>1. CASE pc' = pc /\ job' = job
      BY <2>1 DEF KeepJobs
    <2>2. QED
      BY <1>2, <1>3, <1>8, <1>9, <2>1, PlainMoveKeepsJobs DEF AddLineage
  <1>10. CASE InsertLineage(w)
    BY <1>2, <1>3, <1>8, <1>10, PlainMoveKeepsJobs DEF InsertLineage
  <1>11. QED
    BY <1>4, <1>5, <1>6, <1>7, <1>9, <1>10 DEF TryStep

\* The try block and its handlers preserve the invariant.
LEMMA TryInv ==
  ASSUME IInv, NEW w \in Executor, TryStep(w)
  PROVE  IInv'
  <1>1. Tables /\ Locals
    BY DEF IInv, TypeInv
  <1>2. shards' = shards
    BY DEF TryStep, Work, Heartbeat, Publish, RenameManifest, Validate, Accept, AddManifest,
           AddLineage, InsertLineage, Release, Abort, RecordError, ledger
  <1>3. KeepRows
    BY <1>2 DEF KeepRows
  <1>4. KeepLeases
    <2>1. CASE Heartbeat(w)
      BY <1>1, <2>1 DEF KeepLeases, Heartbeat, Tables, Lease
    <2>2. CASE Release(w) \/ Abort(w)
      BY <1>1, <2>2 DEF KeepLeases, Release, Abort, Tables, Lease
    <2>3. CASE leases' = leases
      BY <2>3 DEF KeepLeases
    <2>4. QED
      BY <2>1, <2>2, <2>3 DEF TryStep, Work, Publish, RenameManifest, Validate, Accept,
             AddManifest, AddLineage, InsertLineage, RecordError, ledger
  <1>5. QED
    BY <1>1, <1>3, <1>4, TryType, TryKeepsJobs, KeepInv

\* A phase with a row is entered from one without only by AddShard.
LEMMA StartInv ==
  ASSUME IInv, NEW w \in Executor,
         \/ \E k \in Key, d \in Slot, force \in Forces, verdict \in Verdicts :
              Execute(w, k, d, force, verdict)
         \/ Lookup(w)
  PROVE  IInv'
  <1>1. Tables /\ Locals
    BY DEF IInv, TypeInv
  <1>2. Tables' /\ Locals'
    BY <1>1, ExecuteType, LookupType
  <1>3. KeepRows /\ KeepLeases
    BY DEF Execute, Lookup, KeepRows, KeepLeases, ledger
  <1>4. \A v \in Executor : pc'[v] \in HasRow => v # w
    BY <1>1 DEF Execute, Lookup, Goto, GotoClocked, Locals, HasRow
  <1>5. \A v \in Executor : v # w => pc'[v] = pc[v] /\ job'[v] = job[v]
    BY <1>1 DEF Execute, Lookup, Goto, GotoClocked, Locals
  <1>6. KeepJobs
    BY <1>4, <1>5 DEF KeepJobs
  <1>7. QED
    BY <1>2, <1>3, <1>6, KeepInv

\* Reserving or losing a directory preserves the invariant.
LEMMA MkdirInv == ASSUME IInv, NEW w \in Executor, Mkdir(w) PROVE IInv'
  <1>1. Tables /\ Locals
    BY DEF IInv, TypeInv
  <1>2. Tables' /\ Locals'
    BY <1>1, MkdirType
  <1>3. KeepRows /\ KeepLeases
    BY DEF Mkdir, KeepRows, KeepLeases, ledger
  <1>4. pc[w] \in HasRow /\ {"collided", "fail", "lease"} \subseteq Phase
    BY DEF Mkdir, HasRow, Phase, StatusPhase
  <1>5. KeepJobs
    BY <1>1, <1>4, PlainMoveKeepsJobs DEF Mkdir
  <1>6. QED
    BY <1>2, <1>3, <1>5, KeepInv

\* Interrupts and crashes preserve the invariant.
LEMMA StopInv ==
  ASSUME IInv, NEW w \in Executor, Interrupt(w) \/ Crash(w)
  PROVE  IInv'
  <1>1. Tables /\ Locals
    BY DEF IInv, TypeInv
  <1>2. Tables' /\ Locals'
    BY <1>1, InterruptType, CrashType
  <1>3. KeepRows /\ KeepLeases
    BY DEF Interrupt, Crash, KeepRows, KeepLeases, ledger
  <1>4. CASE Interrupt(w)
    <2> DEFINE j == [job[w] EXCEPT !.code = "interrupted", !.read = FALSE]
    <2>1. job[w] \in Job
      BY <1>1 DEF Locals
    <2>2. j.shard = job[w].shard /\ j.key = job[w].key
      BY <2>1 DEF Job
    <2>3. job' = [job EXCEPT ![w] = j] /\ pc' = [pc EXCEPT ![w] = "abort"]
      BY <1>1, <1>4 DEF Interrupt, Goto, Locals
    <2>4. pc[w] \in HasRow
      BY <1>4 DEF Interrupt, HasRow, Phase, InTry, StatusPhase
    <2>5. KeepJobs
      BY <1>1, <2>2, <2>3, <2>4, MoveKeepsJobs
    <2>6. QED
      BY <1>2, <1>3, <2>5, KeepInv
  <1>5. CASE Crash(w)
    <2>1. KeepJobs
      BY <1>1, <1>5, MoveKeepsJobs DEF Crash, ReturnAnswer, Goto, HasRow
    <2>2. QED
      BY <1>2, <1>3, <2>1, KeepInv
  <1>6. QED
    BY <1>4, <1>5

\* A new row of key k takes a fresh attempt number and has no live lease.
LEMMA NewRow ==
  ASSUME IInv, NEW s \in Unused, NEW k \in Key, NEW row,
         row.key = k, row.status = "pending", row.attempt = NextAttempt(k),
         shards' = [shards EXCEPT ![s] = row], leases' = leases
  PROVE  AttemptsBounded' /\ AttemptUnique' /\ LeaseExclusive'
  <1>1. Tables /\ Locals /\ AttemptsBounded
    BY DEF IInv, TypeInv
  <1>3. s \in ShardId /\ shards[s].status = "none"
    BY DEF Unused
  <1>5. NextAttempt(k) \in Nat /\ \A t \in Rows(k) : shards[t].attempt < NextAttempt(k)
    BY <1>1, NextAttemptFresh
  <1>8. shards'[s] = row /\ \A t \in ShardId \ {s} : shards'[t] = shards[t]
    BY <1>1, <1>3 DEF Tables
  <1>9. Rows(k)' = Rows(k) \cup {s}
    BY <1>3, <1>8 DEF Rows
  <1>10. \A i \in Key \ {k} : Rows(i)' = Rows(i)
    BY <1>3, <1>8 DEF Rows
  <1>11. s \notin Rows(k)
    BY <1>3 DEF Rows
  <1>12. AttemptUnique'
    <2>1. ASSUME NEW i \in Key, NEW t \in Rows(i)', NEW u \in Rows(i)',
                 shards'[t].attempt = shards'[u].attempt
          PROVE  t = u
      <3>1. CASE i # k
        <4>0. t \in Rows(i) /\ u \in Rows(i)
          BY <1>10, <2>1, <3>1
        <4>1. t # s /\ u # s /\ t \in ShardId /\ u \in ShardId
          BY <1>3, <4>0 DEF Rows
        <4>2. QED
          BY <1>8, <2>1, <4>0, <4>1 DEF IInv, AttemptUnique
      <3>2. CASE i = k
        <4>1. ASSUME NEW v \in Rows(k) PROVE v # s /\ v \in ShardId /\ shards'[v] = shards[v]
                                             /\ shards[v].attempt # NextAttempt(k)
          <5>1. v # s /\ v \in ShardId
            BY <1>11 DEF Rows
          <5>2. shards[v].attempt \in Nat
            BY <1>1, <5>1 DEF Tables, Row
          <5>3. QED
            BY <1>5, <1>8, <5>1, <5>2
        <4>2. t \in Rows(k) \cup {s} /\ u \in Rows(k) \cup {s}
          BY <1>9, <2>1, <3>2
        <4>3. CASE t \in Rows(k) /\ u \in Rows(k)
          BY <2>1, <4>1, <4>3 DEF IInv, AttemptUnique
        <4>4. CASE t = s \/ u = s
          BY <1>8, <2>1, <4>1, <4>2, <4>4
        <4>5. QED
          BY <4>2, <4>3, <4>4
      <3>3. QED
        BY <3>1, <3>2
    <2>2. QED
      BY <2>1 DEF AttemptUnique
  <1>13. AttemptsBounded'
    <2>1. ASSUME NEW i \in Key \ {k}
          PROVE  \E m \in Attempts(i)' : \A a \in Attempts(i)' : a <= m
      <3>1. \A t \in Rows(i) : shards'[t].attempt = shards[t].attempt
        BY <1>3, <1>8 DEF Rows
      <3>2. Attempts(i)' = Attempts(i)
        BY <1>10, <3>1 DEF Attempts
      <3>3. QED
        BY <1>1, <3>2 DEF AttemptsBounded
    <2>2. \E m \in Attempts(k)' : \A a \in Attempts(k)' : a <= m
      <3>1. \A t \in Rows(k) : shards'[t].attempt = shards[t].attempt
        BY <1>3, <1>8, <1>11 DEF Rows
      <3>2. \A a : a \in Attempts(k)' <=> a \in Attempts(k) \/ a = NextAttempt(k)
        BY <1>8, <1>9, <3>1 DEF Attempts
      <3>3. \A t \in Rows(k) : shards[t].attempt \in Nat
        BY <1>1 DEF Tables, Row, Rows
      <3>4. \A a \in Attempts(k) : a <= NextAttempt(k)
        BY <1>5, <3>3 DEF Attempts
      <3>5. QED
        BY <1>5, <3>2, <3>4
    <2>3. \A i \in Key : \E m \in Attempts(i)' : \A a \in Attempts(i)' : a <= m
      BY <2>1, <2>2
    <2>4. QED
      BY <2>3 DEF AttemptsBounded
  <1>14. LeaseExclusive'
    <2>1. \A t \in ShardId : leases[t].status = "acquired" => t # s
      BY <1>3 DEF IInv, RowsOK
    <2>2. ASSUME NEW i \in Key PROVE Held(i)' \subseteq Held(i)
      <3>1. Rows(i)' \subseteq Rows(i) \cup {s}
        BY <1>9, <1>10
      <3>2. \A t \in Rows(i) : t \in ShardId
        BY DEF Rows
      <3>3. QED
        BY <1>3, <2>1, <3>1, <3>2 DEF Held
    <2>3. QED
      BY <2>2 DEF IInv, LeaseExclusive
  <1>15. QED
    BY <1>12, <1>13, <1>14

\* add_shard preserves the invariant: the number it picks is fresh.
LEMMA AddShardInv == ASSUME IInv, NEW w \in Executor, AddShard(w) PROVE IInv'
  <1>1. Tables /\ Locals
    BY DEF IInv, TypeInv
  <1>2. Tables' /\ Locals'
    BY <1>1, AddShardType DEF IInv, TypeInv
  <1>3. /\ (CHOOSE t \in Unused : TRUE) \in Unused
        /\ job[w].key \in Key /\ job[w] \in Job /\ pc[w] \in {"hit", "add"}
    BY <1>1 DEF AddShard, Locals, LocalOK
  <1>4. PICK s, k, row, x, j :
          /\ s \in Unused /\ k \in Key /\ k = job[w].key /\ j.shard = s /\ j.key = k
          /\ row.key = k /\ row.status = "pending" /\ row.attempt = NextAttempt(k)
          /\ shards' = [shards EXCEPT ![s] = row] /\ leases' = leases
          /\ job' = [job EXCEPT ![w] = j] /\ pc' = [pc EXCEPT ![w] = x]
    <2> DEFINE s == CHOOSE t \in Unused : TRUE
               j == [job[w] EXCEPT !.shard = s]
               row == [EmptyRow EXCEPT !.status = "pending", !.key = job[w].key,
                                    !.attempt = NextAttempt(job[w].key), !.hit = pc[w] = "hit"]
               x == IF pc[w] = "hit" THEN "hit start" ELSE "mkdir"
    <2>1. j.shard = s /\ j.key = job[w].key
      BY <1>3 DEF Job
    <2>2. row.key = job[w].key /\ row.status = "pending"
          /\ row.attempt = NextAttempt(job[w].key)
      BY DEF EmptyRow
    <2>3. /\ shards' = [shards EXCEPT ![s] = row] /\ leases' = leases
          /\ job' = [job EXCEPT ![w] = j] /\ pc' = [pc EXCEPT ![w] = x]
      BY <1>1 DEF AddShard, Goto, Locals
    <2>4. QED
      BY <1>3, <2>1, <2>2, <2>3
  <1>5. AttemptsBounded' /\ AttemptUnique' /\ LeaseExclusive'
    BY <1>4, NewRow
  <1>6. s \in ShardId /\ shards[s].status = "none"
    BY <1>4 DEF Unused
  <1>7. shards'[s] = row /\ \A t \in ShardId \ {s} : shards'[t] = shards[t]
    BY <1>1, <1>4, <1>6 DEF Tables
  <1>8. ASSUME NEW t \in ShardId, shards'[t].status = "none"
        PROVE  shards'[t].key = None /\ leases'[t].status # "acquired"
    BY <1>4, <1>7, <1>8 DEF IInv, RowsOK
  <1>9. ASSUME NEW v \in Executor, pc'[v] \in HasRow
        PROVE  /\ shards'[job'[v].shard].status # "none"
               /\ shards'[job'[v].shard].key = job'[v].key
    <2>1. CASE v = w
      <3>1. job'[v] = j
        BY <1>1, <1>4, <2>1 DEF Locals
      <3>2. job'[v].shard = s /\ job'[v].key = k
        BY <1>4, <3>1
      <3>3. QED
        BY <1>4, <1>7, <3>2
    <2>2. CASE v # w
      <3>1. pc'[v] = pc[v] /\ job'[v] = job[v]
        BY <1>1, <1>4, <2>2 DEF Locals
      <3>2. job[v].shard \in ShardId
        BY <1>1, <1>9, <3>1, RowLocals
      <3>3. shards[job[v].shard].status # "none" /\ shards[job[v].shard].key = job[v].key
        BY <1>9, <3>1 DEF IInv, RowsOK
      <3>4. QED
        BY <1>6, <1>7, <3>1, <3>2, <3>3
    <2>3. QED
      BY <2>1, <2>2
  <1>10. RowsOK'
    BY <1>8, <1>9 DEF RowsOK, HasRow
  <1>11. QED
    BY <1>2, <1>5, <1>10 DEF IInv, TypeInv

\* The lease is granted to a row of the key, and no other row of it keeps one.
LEMMA AcquireLeaseInv == ASSUME IInv, NEW w \in Executor, AcquireLease(w) PROVE IInv'
  <1>1. Tables /\ Locals
    BY DEF IInv, TypeInv
  <1>2. Tables' /\ Locals'
    BY <1>1, AcquireLeaseType
  <1>3. KeepRows /\ shards' = shards
    BY DEF AcquireLease, KeepRows
  <1>4. AttemptsBounded' /\ AttemptUnique' /\ \A k \in Key : Rows(k)' = Rows(k)
    BY <1>3, KeepRowsBounded
  <1>5. pc[w] \in HasRow /\ {"start", "fail"} \subseteq Phase
    BY DEF AcquireLease, HasRow, Phase, InTry, StatusPhase
  <1>6. KeepJobs
    BY <1>1, <1>5, PlainMoveKeepsJobs DEF AcquireLease
  <1>7. CASE leases' = leases
    <2>1. KeepLeases
      BY <1>7 DEF KeepLeases
    <2>2. QED
      BY <1>2, <1>3, <1>6, <2>1, KeepInv
  <1>8. CASE leases' # leases
    <2>1. PICK s \in ShardId, k \in Key :
            /\ s = job[w].shard /\ k = job[w].key
            /\ shards[s].status # "none" /\ shards[s].key = k
      BY <1>1, <1>5, RowLocals DEF IInv, RowsOK
    <2>2. \A t \in ShardId :
            /\ t = s => leases'[t].status = "acquired"
            /\ t # s /\ t \in Held(k) => leases'[t].status = "expired"
            /\ t # s /\ t \notin Held(k) => leases'[t] = leases[t]
      BY <1>1, <1>8, <2>1 DEF AcquireLease, Granted, Tables, Lease
    <2>3. Held(k)' \subseteq {s}
      BY <1>3, <1>4, <2>2 DEF Held, Rows
    <2>4. \A i \in Key \ {k} : Held(i)' \subseteq Held(i)
      BY <1>3, <1>4, <2>1, <2>2 DEF Held, Rows
    <2>5. LeaseExclusive'
      BY <2>3, <2>4 DEF IInv, LeaseExclusive
    <2>6. \A t \in ShardId : shards'[t].status = "none" =>
            shards'[t].key = None /\ leases'[t].status # "acquired"
      <3> SUFFICES ASSUME NEW t \in ShardId, shards[t].status = "none"
                   PROVE  shards[t].key = None /\ leases'[t].status # "acquired"
        BY <1>3
      <3>1. t # s /\ t \notin Held(k)
        BY <2>1 DEF Held, Rows
      <3>2. QED
        BY <2>2, <3>1 DEF IInv, RowsOK
    <2>7. ASSUME NEW v \in Executor, pc'[v] \in HasRow
          PROVE  /\ shards'[job'[v].shard].status # "none"
                 /\ shards'[job'[v].shard].key = job'[v].key
      BY <1>3, <1>6, <2>7 DEF IInv, RowsOK, KeepJobs
    <2>8. RowsOK'
      BY <2>6, <2>7 DEF RowsOK, HasRow
    <2>9. QED
      BY <1>2, <1>4, <2>5, <2>8 DEF IInv, TypeInv
  <1>9. QED
    BY <1>7, <1>8

\* A status change keeps the key and the attempt of the row it rewrites.
LEMMA WriteKeeps ==
  ASSUME Tables, Locals, NEW w \in Executor, pc[w] \in StatusPhase, Write(w)
  PROVE  KeepRows /\ KeepJobs
  <1>1. pc[w] \in HasRow
    BY DEF HasRow, Phase, InTry, StatusPhase
  <1>2. job[w].shard \in ShardId /\ job[w] \in Job /\ LocalOK(pc[w], job[w])
    BY <1>1, RowLocals DEF Locals
  <1>3. PICK s \in ShardId : s = job[w].shard
    BY <1>2
  <1>4. Target(w) # "none"
    BY <1>2 DEF Target, LocalOK, Accepts, InTry, StatusPhase, Accepted
  <1>5. shards[s] \in Row
    BY DEF Tables
  <1>6. /\ Written(w).key = shards[s].key /\ Written(w).attempt = shards[s].attempt
        /\ Written(w).status = Target(w)
    BY <1>3, <1>5 DEF Written, Row
  <1>7. shards' = [shards EXCEPT ![s] = Written(w)]
    BY <1>3 DEF Write
  <1>8. KeepRows
    BY <1>4, <1>6, <1>7 DEF KeepRows, Tables
  <1>9. CASE ReturnAnswer(w)
    BY <1>1, <1>8, <1>9, PlainMoveKeepsJobs
  <1>10. CASE ~ReturnAnswer(w)
    <2> DEFINE j == [job[w] EXCEPT !.read = FALSE]
    <2>1. j.shard = job[w].shard /\ j.key = job[w].key
      BY <1>2 DEF Job
    <2>2. job' = [job EXCEPT ![w] = j] /\ pc' = [pc EXCEPT ![w] = After[pc[w]]]
      BY <1>10 DEF Write, Goto, Locals
    <2>3. QED
      BY <1>1, <1>8, <2>1, <2>2, MoveKeepsJobs
  <1>11. QED
    BY <1>9, <1>10

\* Both halves of transition_shard preserve the invariant.
LEMMA StatusInv == ASSUME IInv, NEW w \in Executor, ReadRow(w) \/ WriteRow(w) PROVE IInv'
  <1>1. Tables /\ Locals
    BY DEF IInv, TypeInv
  <1>2. Tables' /\ Locals'
    BY <1>1, ReadRowType, WriteRowType
  <1>3. KeepLeases
    BY DEF ReadRow, WriteRow, KeepLeases
  <1>4. pc[w] \in StatusPhase /\ pc[w] \in HasRow /\ job[w] \in Job /\ "release" \in Phase
    BY <1>1 DEF ReadRow, WriteRow, HasRow, Phase, InTry, StatusPhase, Locals
  <1>5. CASE Write(w)
    BY <1>1, <1>2, <1>3, <1>4, <1>5, WriteKeeps, KeepInv
  <1>6. CASE shards' = shards /\ job' = [job EXCEPT ![w].read = TRUE] /\ pc' = pc
    <2> DEFINE j == [job[w] EXCEPT !.read = TRUE]
    <2>1. j.shard = job[w].shard /\ j.key = job[w].key
      BY <1>4 DEF Job
    <2>2. job' = [job EXCEPT ![w] = j] /\ pc' = [pc EXCEPT ![w] = pc[w]]
      BY <1>1, <1>6 DEF Locals
    <2>3. KeepRows /\ KeepJobs
      BY <1>1, <1>4, <1>6, <2>1, <2>2, MoveKeepsJobs DEF KeepRows
    <2>4. QED
      BY <1>2, <1>3, <2>3, KeepInv
  <1>7. CASE shards' = shards /\ ((Goto(w, "release") /\ job' = job) \/ ReturnAnswer(w))
    <2>1. KeepRows /\ KeepJobs
      BY <1>1, <1>4, <1>7, PlainMoveKeepsJobs DEF KeepRows
    <2>2. QED
      BY <1>2, <1>3, <2>1, KeepInv
  <1>8. QED
    BY <1>5, <1>6, <1>7 DEF ReadRow, WriteRow

\* invalidate_owned preserves the invariant: mark_stale keeps key and attempt.
LEMMA InvalidateInv ==
  ASSUME IInv, Invalidate \/ \E v \in {Owned[k] : k \in Key} : InvalidateOwned(v)
  PROVE  IInv'
  <1>1. Tables' /\ Locals'
    BY InvalidateType DEF IInv, TypeInv
  <1>2. KeepJobs /\ KeepLeases
    BY DEF Invalidate, ReadLineage, SelectRows, UpdateRows, InvalidateOwned, KeepJobs, KeepLeases,
           ledger
  <1>3. \A rows : MarkRows(rows) => KeepRows
    <2> SUFFICES ASSUME NEW rows, MarkRows(rows), NEW s \in ShardId
                 PROVE  /\ shards'[s].key = shards[s].key
                        /\ shards'[s].attempt = shards[s].attempt
                        /\ shards'[s].status = "none" => shards[s].status = "none"
      BY DEF KeepRows
    <2>1. shards[s] \in Row
      BY DEF IInv, TypeInv, Tables
    <2>2. QED
      BY <2>1 DEF MarkRows, Row
  <1>4. KeepRows
    BY <1>3 DEF Invalidate, ReadLineage, SelectRows, UpdateRows, InvalidateOwned, KeepRows, ledger
  <1>5. QED
    BY <1>1, <1>2, <1>4, KeepInv

\* Restart starts over with an empty ledger and idle executors.
LEMMA EnvironmentInv ==
  ASSUME IInv, Advance \/ Restart \/ \E d \in DOMAIN disk : Damage(d)
  PROVE  IInv'
  <1>1. Tables' /\ Locals'
    BY EnvironmentType DEF IInv, TypeInv
  <1>2. CASE Advance \/ \E d \in DOMAIN disk : Damage(d)
    <2>1. KeepRows /\ KeepJobs /\ KeepLeases
      BY <1>2 DEF Advance, Damage, KeepRows, KeepJobs, KeepLeases, ledger
    <2>2. QED
      BY <1>1, <2>1, KeepInv
  <1>3. CASE Restart
    <2>1. \A k \in Key : Rows(k)' = {}
      BY <1>3 DEF Restart, Rows, EmptyRow
    <2>2. LeaseExclusive' /\ AttemptUnique'
      BY <2>1 DEF LeaseExclusive, AttemptUnique, Held
    <2>3. AttemptsBounded'
      BY <2>1 DEF AttemptsBounded, Attempts
    <2>4. RowsOK'
      BY <1>3 DEF Restart, RowsOK, EmptyRow, NoLease, HasRow
    <2>5. QED
      BY <1>1, <2>2, <2>3, <2>4 DEF IInv, TypeInv
  <1>4. QED
    BY <1>2, <1>3

-----------------------------------------------------------------------------
(* Theorems: types, leases and attempt numbers.                            *)

\* The invariant holds in the empty ledger.
LEMMA InitInv == Init => IInv
  <1> SUFFICES ASSUME Init PROVE IInv
    OBVIOUS
  <1>1. TypeInv
    BY InitTypeInv
  <1>2. \A k \in Key : Rows(k) = {}
    BY DEF Init, Rows, EmptyRow
  <1>3. LeaseExclusive /\ AttemptUnique
    BY <1>2 DEF LeaseExclusive, AttemptUnique, Held
  <1>4. RowsOK
    BY DEF Init, RowsOK, EmptyRow, NoLease, HasRow
  <1>5. QED
    BY <1>1, <1>3, <1>4 DEF IInv

\* Every step of executors, invalidation and environment preserves the invariant.
LEMMA NextInv == IInv /\ [Next]_vars => IInv'
  <1> SUFFICES ASSUME IInv, [Next]_vars PROVE IInv'
    OBVIOUS
  <1>1. ASSUME NEW w \in Executor, Step(w)
        PROVE  IInv'
    BY <1>1, StartInv, AddShardInv, MkdirInv, AcquireLeaseInv, StatusInv, TryInv DEF Step, TryStep
  <1>2. ASSUME NEW w \in Executor, NEW k \in Key, NEW d \in Slot, NEW force \in Forces,
               NEW verdict \in Verdicts, Execute(w, k, d, force, verdict)
        PROVE  IInv'
    BY <1>2, StartInv
  <1>3. ASSUME NEW w \in Executor, Interrupt(w) \/ Crash(w)
        PROVE  IInv'
    BY <1>3, StopInv
  <1>4. CASE Invalidate \/ \E k \in Key : InvalidateOwned(Owned[k])
    BY <1>4, InvalidateInv
  <1>5. CASE Advance \/ Restart \/ \E d \in DOMAIN disk : Damage(d)
    BY <1>5, EnvironmentInv
  <1>6. CASE UNCHANGED vars
    BY <1>6 DEF vars, ledger, counts, IInv, TypeInv, Tables, Locals, AttemptsBounded, Attempts,
                RowsOK, LeaseExclusive, AttemptUnique, Held, Rows
  <1>7. QED
    BY <1>1, <1>2, <1>3, <1>4, <1>5, <1>6 DEF Next

\* The inductive invariant holds in every reachable state: rows are well formed,
\* each executor works on a row of its own key, and leases and attempt numbers of
\* a key are exclusive.
THEOREM InductiveInvariant == Spec => []IInv
  BY InitInv, NextInv, PTL DEF Spec

\* Every variable of the ledger and of the executors keeps its type, whatever
\* the executors, the invalidation and the environment do.
THEOREM TypeCorrect == Spec => []TypeOK
  <1>1. IInv => TypeOK
    BY TypeInvImpliesTypeOK DEF IInv
  <1>2. QED
    BY <1>1, InductiveInvariant, PTL

\* acquire_lease never leaves two acquired leases on one reuse key, for any
\* number of executors and any lease length.
THEOREM LeaseExclusion == Spec => []LeaseExclusive
  <1>1. IInv => LeaseExclusive
    BY DEF IInv
  <1>2. QED
    BY <1>1, InductiveInvariant, PTL

\* add_shard never numbers two attempts of one reuse key alike.
THEOREM AttemptsUnique == Spec => []AttemptUnique
  <1>1. IInv => AttemptUnique
    BY DEF IInv
  <1>2. QED
    BY <1>1, InductiveInvariant, PTL

-----------------------------------------------------------------------------
(* The moves of one executor.                                               *)

\* The other executors.
Others(w) == Executor \ {w}

\* The phases in which an executor has no attempt of its own.
NoAttempt == {"idle", "lookup", "hit"}

\* An attempt that an executor has is a row of its key, and nobody else's.
RowsOwned ==
  \A w \in Executor :
    LET s == job[w].shard
    IN  /\ pc[w] \in NoAttempt => s = None
        /\ s # None => /\ shards[s].status # "none" /\ shards[s].key = job[w].key
                       /\ \A v \in Others(w) : job[v].shard # s

\* The moves of one executor: the others keep their phases and variables.
OthersStay(w) == \A v \in Others(w) : pc'[v] = pc[v] /\ job'[v] = job[v]

\* It goes on with the same attempt.
SameWork(w) ==
  /\ job'[w].shard = job[w].shard /\ job'[w].key = job[w].key
  /\ job'[w].slot = job[w].slot /\ job'[w].source = job[w].source

\* It returns: nothing of the call is left in its variables.
Leaves(w) == pc'[w] = "idle" /\ job'[w] = NoJob

\* Moving on with the variables as they are.
LEMMA GotoMoves ==
  ASSUME Locals, NEW w \in Executor, NEW x, Goto(w, x), job' = job
  PROVE  OthersStay(w) /\ pc'[w] = x /\ job'[w] = job[w] /\ SameWork(w)
  BY DEF Goto, Locals, OthersStay, Others, SameWork

\* Moving on with an error code to report.
LEMMA FailMoves ==
  ASSUME Locals, NEW w \in Executor, NEW x, NEW c, Fail(w, x, c)
  PROVE  /\ OthersStay(w) /\ pc'[w] = x /\ SameWork(w) /\ job'[w].at = job[w].at
         /\ job'[w].read = job[w].read
  <1>1. job[w] \in Job
    BY DEF Locals
  <1>2. OthersStay(w) /\ pc'[w] = x /\ job'[w] = [job[w] EXCEPT !.code = c]
    BY DEF Fail, Goto, Locals, OthersStay, Others
  <1>3. QED
    BY <1>1, <1>2 DEF SameWork, Job

\* Moving on with a clock value.
LEMMA ClockMoves ==
  ASSUME Locals, NEW w \in Executor, NEW x, GotoClocked(w, x)
  PROVE  /\ OthersStay(w) /\ pc'[w] = x /\ SameWork(w) /\ job'[w].at = now
         /\ job'[w].read = job[w].read
  <1>1. job[w] \in Job
    BY DEF Locals
  <1>2. OthersStay(w) /\ pc'[w] = x /\ job'[w] = [job[w] EXCEPT !.at = now]
    BY DEF GotoClocked, Goto, Locals, OthersStay, Others
  <1>3. QED
    BY <1>1, <1>2 DEF SameWork, Job

\* Returning.
LEMMA ReturnMoves ==
  ASSUME Locals, NEW w \in Executor, ReturnAnswer(w)
  PROVE  OthersStay(w) /\ Leaves(w)
  BY DEF ReturnAnswer, Goto, Locals, OthersStay, Others, Leaves

\* The steps of the try block and its handlers: the next phase.
TryMoves(w) ==
  \/ pc[w] \in InTry \cup {"abort", "fail"} /\ Leaves(w) /\ pc[w] \in {"release", "fail"}
  \/ SameWork(w) /\ pc'[w] \in InTry \cup {"abort", "fail", "failing"}

\* Every step of the try block and of its handlers moves in one of these ways.
LEMMA TryShape ==
  ASSUME Locals, NEW w \in Executor, TryStep(w)
  PROVE  OthersStay(w) /\ TryMoves(w) /\ pc[w] \in InTry \cup {"abort", "fail"}
  <1>0. /\ {"work", "beat", "publish", "rename", "validate", "renew", "accept",
          "manifest", "lineage", "insert", "commit", "release"} \subseteq InTry
        /\ "commit" \in InTry
    BY DEF InTry
  <1>1. CASE Work(w) \/ Validate(w)
    BY <1>0, <1>1, ClockMoves, FailMoves DEF Work, Validate, TryMoves
  <1>2. CASE Heartbeat(w) \/ Publish(w) \/ RenameManifest(w)
    BY <1>0, <1>2, GotoMoves, FailMoves DEF Heartbeat, Publish, RenameManifest, TryMoves
  <1>3. CASE Accept(w) \/ AddManifest(w) \/ Abort(w)
    BY <1>0, <1>3, GotoMoves DEF Accept, AddManifest, Abort, TryMoves
  <1>4. CASE Release(w) \/ RecordError(w)
    BY <1>0, <1>4, GotoMoves, FailMoves, ReturnMoves DEF Release, RecordError, TryMoves
  <1>5. ASSUME NEW u, NEW x, Goto(w, x), job' = [job EXCEPT ![w].edge = u]
        PROVE  OthersStay(w) /\ SameWork(w) /\ pc'[w] = x
    <2>1. job[w] \in Job
      BY DEF Locals
    <2>2. OthersStay(w) /\ pc'[w] = x /\ job'[w] = [job[w] EXCEPT !.edge = u]
      BY <1>5 DEF Goto, Locals, OthersStay, Others
    <2>3. QED
      BY <2>1, <2>2 DEF SameWork, Job
  <1>6. CASE AddLineage(w)
    <2>1. CASE pc' = pc /\ job' = job
      BY <1>0, <1>6, <2>1 DEF OthersStay, Others, SameWork, TryMoves, AddLineage
    <2>2. QED
      BY <1>0, <1>5, <1>6, <2>1, GotoMoves DEF AddLineage, TryMoves
  <1>7. CASE InsertLineage(w)
    BY <1>0, <1>5, <1>7, FailMoves DEF InsertLineage, TryMoves
  <1>8. QED
    BY <1>1, <1>2, <1>3, <1>4, <1>6, <1>7 DEF TryStep

\* What transition_shard's write does.
LEMMA WriteMoves ==
  ASSUME Locals, NEW w \in Executor, pc[w] \in StatusPhase, Write(w)
  PROVE  /\ OthersStay(w)
         /\ \/ Leaves(w) /\ After[pc[w]] = "idle"
            \/ /\ SameWork(w) /\ pc'[w] = After[pc[w]] /\ After[pc[w]] # "idle"
               /\ job'[w].at = job[w].at /\ ~job'[w].read
  <1>1. job[w] \in Job
    BY DEF Locals
  <1>2. CASE After[pc[w]] = "idle"
    BY <1>2, ReturnMoves DEF Write
  <1>3. CASE After[pc[w]] # "idle"
    <2>1. /\ OthersStay(w) /\ pc'[w] = After[pc[w]]
          /\ job'[w] = [job[w] EXCEPT !.read = FALSE]
      BY <1>3 DEF Write, Goto, Locals, OthersStay, Others
    <2>2. QED
      BY <1>1, <1>3, <2>1 DEF SameWork, Job
  <1>4. QED
    BY <1>2, <1>3

\* The select half.
LEMMA ReadMoves ==
  ASSUME Locals, NEW w \in Executor,
         job' = [job EXCEPT ![w].read = TRUE], pc' = pc
  PROVE  /\ OthersStay(w) /\ SameWork(w) /\ pc'[w] = pc[w]
         /\ job'[w].at = job[w].at /\ job'[w].read
  <1>1. job[w] \in Job
    BY DEF Locals
  <1>2. /\ OthersStay(w) /\ pc'[w] = pc[w]
        /\ job'[w] = [job[w] EXCEPT !.read = TRUE]
    BY DEF Locals, OthersStay, Others
  <1>3. QED
    BY <1>1, <1>2 DEF SameWork, Job

\* An interrupt keeps the attempt.
LEMMA InterruptMoves ==
  ASSUME Locals, NEW w \in Executor, Interrupt(w)
  PROVE  /\ OthersStay(w) /\ SameWork(w) /\ pc[w] \in InTry /\ pc'[w] = "abort"
         /\ job'[w].at = job[w].at /\ ~job'[w].read
  <1>1. job[w] \in Job
    BY DEF Locals
  <1>2. /\ OthersStay(w) /\ pc'[w] = "abort"
        /\ job'[w] = [job[w] EXCEPT !.code = "interrupted", !.read = FALSE]
    BY DEF Interrupt, Goto, Locals, OthersStay, Others
  <1>3. pc[w] \in InTry
    BY DEF Interrupt
  <1>4. SameWork(w) /\ job'[w].at = job[w].at /\ ~job'[w].read
    BY <1>1, <1>2 DEF SameWork, Job
  <1>5. QED
    BY <1>2, <1>3, <1>4

\* A new call of execute has no attempt yet.
LEMMA ExecuteMoves ==
  ASSUME Locals, NEW w \in Executor, NEW k \in Key, NEW d \in Slot, NEW force \in Forces,
         NEW verdict \in Verdicts, Execute(w, k, d, force, verdict)
  PROVE  /\ OthersStay(w) /\ pc[w] = "idle" /\ pc'[w] \in {"add", "lookup"}
         /\ job'[w].shard = None /\ job'[w].at = now /\ ~job'[w].read
  <1>1. /\ OthersStay(w) /\ pc[w] = "idle" /\ pc'[w] \in {"add", "lookup"}
        /\ job'[w] = [NoJob EXCEPT !.key = k, !.slot = d, !.want = verdict, !.at = now]
    BY DEF Execute, Goto, Locals, OthersStay, Others
  <1>2. QED
    BY <1>1 DEF NoJob

\* A lookup names its source or goes on without.
LEMMA LookupMoves ==
  ASSUME Locals, NEW w \in Executor, Lookup(w)
  PROVE  /\ OthersStay(w) /\ pc[w] = "lookup"
         /\ job'[w].shard = job[w].shard /\ job'[w].key = job[w].key
         /\ job'[w].at \in {job[w].at, now} /\ job'[w].read = job[w].read
         /\ \/ pc'[w] = "add"
            \/ /\ pc'[w] = "hit" /\ job'[w].source \in Adoptable(job[w].key)
               /\ Valid(shards[job'[w].source].dir, job[w].key)
  <1>1. job[w] \in Job
    BY DEF Locals
  <1>2. ASSUME NEW s \in Adoptable(job[w].key), Valid(shards[s].dir, job[w].key), Goto(w, "hit"),
               job' = [job EXCEPT ![w].source = s, ![w].want = shards[s].status]
        PROVE  /\ OthersStay(w) /\ pc'[w] = "hit" /\ job'[w].source = s
               /\ job'[w].shard = job[w].shard /\ job'[w].key = job[w].key
               /\ job'[w].at = job[w].at /\ job'[w].read = job[w].read
    <2>1. OthersStay(w) /\ pc'[w] = "hit"
          /\ job'[w] = [job[w] EXCEPT !.source = s, !.want = shards[s].status]
      BY <1>2 DEF Goto, Locals, OthersStay, Others
    <2>2. QED
      BY <1>1, <2>1 DEF Job
  <1>3. QED
    BY <1>2, ClockMoves DEF Lookup, SameWork

\* A new attempt is a row that nobody had.
LEMMA AddShardMoves ==
  ASSUME Locals, NEW w \in Executor, AddShard(w)
  PROVE  /\ OthersStay(w) /\ pc[w] \in {"hit", "add"}
         /\ pc'[w] = IF pc[w] = "hit" THEN "hit start" ELSE "mkdir"
         /\ job'[w].shard \in Unused /\ job'[w].key = job[w].key
         /\ job'[w].slot = job[w].slot /\ job'[w].source = job[w].source
         /\ job'[w].at = job[w].at /\ job'[w].read = job[w].read
         /\ shards' = [shards EXCEPT ![job'[w].shard] =
                         [EmptyRow EXCEPT !.status = "pending", !.key = job[w].key,
                                       !.attempt = NextAttempt(job[w].key),
                                       !.hit = pc[w] = "hit"]]
  <1> DEFINE s == CHOOSE s \in Unused : TRUE
  <1>1. job[w] \in Job /\ s \in Unused
    BY DEF Locals, AddShard
  <1>2. /\ OthersStay(w) /\ pc[w] \in {"hit", "add"}
        /\ pc'[w] = IF pc[w] = "hit" THEN "hit start" ELSE "mkdir"
        /\ job'[w] = [job[w] EXCEPT !.shard = s]
    BY DEF AddShard, Goto, Locals, OthersStay, Others
  <1>3. job'[w].shard = s
    BY <1>1, <1>2 DEF Job
  <1>4. /\ job'[w].key = job[w].key /\ job'[w].slot = job[w].slot
        /\ job'[w].source = job[w].source /\ job'[w].at = job[w].at
        /\ job'[w].read = job[w].read
    BY <1>1, <1>2 DEF Job
  <1>5. QED
    BY <1>1, <1>2, <1>3, <1>4 DEF AddShard

-----------------------------------------------------------------------------
(* Nobody works on another's attempt.                                      *)

\* A step of w that keeps the rows, and w's own row if it keeps one.
LEMMA KeepOwned ==
  ASSUME IInv, RowsOwned, KeepRows, NEW w \in Executor, OthersStay(w),
         \/ pc'[w] \notin NoAttempt /\ job'[w].shard = job[w].shard /\ job'[w].key = job[w].key
         \/ job'[w].shard = None
  PROVE  RowsOwned'
  <1>1. Tables /\ Locals
    BY DEF IInv, TypeInv
  <1>2. \A v \in Executor : job[v].shard \in ShardId \cup {None}
    BY <1>1 DEF Locals, Job
  <1>3. \A v \in Executor : job'[v].shard = None \/ job'[v].shard = job[v].shard
    BY DEF OthersStay, Others
  <1>4. ASSUME NEW v \in Executor
        PROVE  /\ pc'[v] \in NoAttempt => job'[v].shard = None
               /\ job'[v].shard # None =>
                    /\ shards'[job'[v].shard].status # "none"
                    /\ shards'[job'[v].shard].key = job'[v].key
                    /\ \A u \in Others(v) : job'[u].shard # job'[v].shard
    <2>1. pc'[v] \in NoAttempt => job'[v].shard = None
      BY DEF OthersStay, Others, RowsOwned
    <2>2. ASSUME job'[v].shard # None
          PROVE  /\ shards'[job'[v].shard].status # "none"
                 /\ shards'[job'[v].shard].key = job'[v].key
      <3>1. job'[v].shard = job[v].shard /\ job'[v].key = job[v].key
        BY <2>2 DEF OthersStay, Others
      <3>2. job[v].shard \in ShardId
        BY <1>2, <2>2, <3>1
      <3>3. QED
        BY <2>2, <3>1, <3>2 DEF RowsOwned, KeepRows
    <2>3. ASSUME job'[v].shard # None, NEW u \in Others(v)
          PROVE  job'[u].shard # job'[v].shard
      <3>1. job'[v].shard = job[v].shard /\ job'[u].shard \in {None, job[u].shard}
        BY <1>3, <2>3 DEF Others
      <3>2. job[u].shard # job[v].shard
        BY <2>3, <3>1 DEF RowsOwned
      <3>3. QED
        BY <2>3, <3>1, <3>2
    <2>4. QED
      BY <2>1, <2>2, <2>3
  <1>5. QED
    BY <1>4 DEF RowsOwned, Others

\* A step of no executor.
LEMMA StillOwned ==
  ASSUME IInv, RowsOwned, KeepRows, pc' = pc, job' = job
  PROVE  RowsOwned'
  <1>1. \A v \in Executor : job[v].shard \in ShardId \cup {None}
    BY DEF IInv, TypeInv, Locals, Job
  <1>2. QED
    BY <1>1 DEF RowsOwned, KeepRows, Others

\* add_shard takes a row that no executor can have had.
LEMMA AddShardOwned ==
  ASSUME IInv, RowsOwned, NEW w \in Executor, AddShard(w)
  PROVE  RowsOwned'
  <1>1. Tables /\ Locals
    BY DEF IInv, TypeInv
  <1> DEFINE s == job'[w].shard
  <1>2. /\ OthersStay(w) /\ s \in Unused /\ job'[w].key = job[w].key
        /\ pc'[w] \notin NoAttempt
    BY <1>1, AddShardMoves DEF NoAttempt
  <1>3. s \in ShardId /\ shards[s].status = "none" /\ s # None
    BY <1>2, LedgerAssumption DEF Unused
  <1>4. /\ shards'[s].status = "pending" /\ shards'[s].key = job[w].key
        /\ \A t \in ShardId \ {s} : shards'[t] = shards[t]
    <2> DEFINE row == [EmptyRow EXCEPT !.status = "pending", !.key = job[w].key,
                                    !.attempt = NextAttempt(job[w].key),
                                    !.hit = pc[w] = "hit"]
    <2>1. shards' = [shards EXCEPT ![s] = row]
      BY <1>1, AddShardMoves
    <2>2. row.status = "pending" /\ row.key = job[w].key
      BY DEF EmptyRow
    <2>3. QED
      BY <1>1, <1>3, <2>1, <2>2 DEF Tables
  <1>5. \A v \in Executor : job[v].shard \in ShardId \cup {None} /\ job[v].shard # s
    BY <1>1, <1>3 DEF RowsOwned, Locals, Job
  <1>6. ASSUME NEW v \in Executor
        PROVE  /\ pc'[v] \in NoAttempt => job'[v].shard = None
               /\ job'[v].shard # None =>
                    /\ shards'[job'[v].shard].status # "none"
                    /\ shards'[job'[v].shard].key = job'[v].key
                    /\ \A u \in Others(v) : job'[u].shard # job'[v].shard
    <2>1. CASE v = w
      BY <1>2, <1>4, <1>5, <2>1 DEF OthersStay, Others
    <2>2. CASE v # w
      <3>1. pc'[v] = pc[v] /\ job'[v] = job[v]
        BY <1>2, <2>2 DEF OthersStay, Others
      <3>2. job[v].shard # None => shards'[job[v].shard] = shards[job[v].shard]
        BY <1>4, <1>5
      <3>3. \A u \in Others(v) : job'[u].shard = s \/ job'[u].shard = job[u].shard
        BY <1>2 DEF OthersStay, Others
      <3>4. QED
        BY <1>5, <3>1, <3>2, <3>3 DEF RowsOwned
    <2>3. QED
      BY <2>1, <2>2
  <1>7. QED
    BY <1>6 DEF RowsOwned, Others

\* invalidate_owned keeps key and attempt of every row.
LEMMA InvalidateKeeps ==
  ASSUME Tables, Invalidate \/ \E k \in Key : InvalidateOwned(Owned[k])
  PROVE  KeepRows
  <1>1. \A rows : MarkRows(rows) => KeepRows
    <2> SUFFICES ASSUME NEW rows, MarkRows(rows), NEW s \in ShardId
                 PROVE  /\ shards'[s].key = shards[s].key
                        /\ shards'[s].attempt = shards[s].attempt
                        /\ shards'[s].status = "none" => shards[s].status = "none"
      BY DEF KeepRows
    <2>1. shards[s] \in Row
      BY DEF Tables
    <2>2. QED
      BY <2>1 DEF MarkRows, Row
  <1>2. QED
    BY <1>1 DEF Invalidate, ReadLineage, SelectRows, UpdateRows, InvalidateOwned, KeepRows, ledger

\* Each action keeps the attempts apart.
LEMMA NextOwned == IInv /\ RowsOwned /\ [Next]_vars => RowsOwned'
  <1> SUFFICES ASSUME IInv, RowsOwned, [Next]_vars PROVE RowsOwned'
    OBVIOUS
  <1>1. Tables /\ Locals
    BY DEF IInv, TypeInv
  <1>2. NoJob.shard = None
    BY DEF NoJob
  <1>3. ASSUME NEW w \in Executor, TryStep(w) PROVE RowsOwned'
    <2>1. KeepRows
      BY <1>3 DEF TryStep, Work, Heartbeat, Publish, RenameManifest, Validate, Accept, AddManifest,
           AddLineage, InsertLineage, Release, Abort, RecordError, ledger, KeepRows
    <2>2. OthersStay(w) /\ TryMoves(w)
      BY <1>1, <1>3, TryShape
    <2>3. QED
      BY <1>2, <2>1, <2>2, KeepOwned DEF TryMoves, Leaves, SameWork, NoAttempt, InTry
  <1>4. ASSUME NEW w \in Executor, ReadRow(w) \/ WriteRow(w) PROVE RowsOwned'
    <2>1. pc[w] \in StatusPhase /\ "release" \notin NoAttempt /\ pc[w] \notin NoAttempt
      BY <1>4 DEF ReadRow, WriteRow, StatusPhase, NoAttempt
    <2>2. CASE Write(w)
      <3>1. OthersStay(w) /\ (Leaves(w) \/ (SameWork(w) /\ pc'[w] = After[pc[w]]))
        BY <1>1, <2>1, <2>2, WriteMoves
      <3>2. After[pc[w]] \notin NoAttempt \/ Leaves(w)
        BY <1>1, <2>1, <2>2, WriteMoves DEF After, StatusPhase, NoAttempt
      <3>3. QED
        BY <1>1, <1>2, <2>1, <2>2, <3>1, <3>2, WriteKeeps, KeepOwned DEF Leaves, SameWork
    <2>3. CASE shards' = shards /\ job' = [job EXCEPT ![w].read = TRUE] /\ pc' = pc
      BY <1>1, <2>1, <2>3, ReadMoves, KeepOwned DEF KeepRows, SameWork
    <2>4. CASE shards' = shards /\ ((Goto(w, "release") /\ job' = job) \/ ReturnAnswer(w))
      BY <1>1, <1>2, <2>1, <2>4, GotoMoves, ReturnMoves, KeepOwned DEF KeepRows, SameWork, Leaves
    <2>5. QED
      BY <1>4, <2>2, <2>3, <2>4 DEF ReadRow, WriteRow
  <1>5. ASSUME NEW w \in Executor, Mkdir(w) \/ AcquireLease(w) \/ Interrupt(w) \/ Crash(w)
        PROVE  RowsOwned'
    <2>1. KeepRows
      BY <1>5 DEF Mkdir, AcquireLease, Interrupt, Crash, ledger, KeepRows
    <2>2. CASE Mkdir(w) \/ AcquireLease(w)
      BY <1>1, <2>1, <2>2, GotoMoves, FailMoves, KeepOwned DEF Mkdir, AcquireLease, SameWork, NoAttempt
    <2>3. CASE Interrupt(w) \/ Crash(w)
      BY <1>1, <1>2, <2>1, <2>3, InterruptMoves, ReturnMoves, KeepOwned
      DEF Crash, SameWork, NoAttempt, Leaves
    <2>4. QED
      BY <1>5, <2>2, <2>3
  <1>6. ASSUME NEW w \in Executor, Lookup(w) PROVE RowsOwned'
    <2>1. KeepRows
      BY <1>6 DEF Lookup, ledger, KeepRows
    <2>2. job[w].shard = None
      BY <1>6 DEF Lookup, RowsOwned, NoAttempt
    <2>3. QED
      BY <1>1, <1>6, <2>1, <2>2, LookupMoves, KeepOwned
  <1>7. ASSUME NEW w \in Executor, NEW k \in Key, NEW d \in Slot, NEW force \in Forces,
               NEW verdict \in Verdicts, Execute(w, k, d, force, verdict)
        PROVE  RowsOwned'
    <2>1. KeepRows
      BY <1>7 DEF Execute, ledger, KeepRows
    <2>2. QED
      BY <1>1, <1>7, <2>1, ExecuteMoves, KeepOwned
  <1>8. CASE Invalidate \/ \E k \in Key : InvalidateOwned(Owned[k])
    <2>1. pc' = pc /\ job' = job
      BY <1>8 DEF Invalidate, ReadLineage, SelectRows, UpdateRows, InvalidateOwned
    <2>2. KeepRows
      BY <1>1, <1>8, InvalidateKeeps
    <2>3. QED
      BY <2>1, <2>2, StillOwned
  <1>9. CASE Advance \/ \E d \in DOMAIN disk : Damage(d)
    BY <1>9, StillOwned DEF Advance, Damage, ledger, KeepRows
  <1>10. CASE Restart
    BY <1>10 DEF Restart, RowsOwned, NoAttempt
  <1>11. CASE UNCHANGED vars
    BY <1>11, StillOwned DEF vars, ledger, KeepRows
  <1>12. QED
    BY <1>3, <1>4, <1>5, <1>6, <1>7, <1>8, <1>9, <1>10, <1>11, AddShardOwned
    DEF Next, Step, TryStep

-----------------------------------------------------------------------------
(* What a call leaves behind.                                              *)

\* The statuses of an attempt that somebody still has to settle; the phases of an
\* executor that has no lease; and those between "running" and the acceptance.
Open == {"pending", "running"}
Unleased == {"add", "hit start", "hit commit", "mkdir", "collided", "lease", "fail", "failing"}
Producing == {"work", "beat", "publish", "rename", "validate", "renew", "accept",
              "manifest", "lineage", "insert", "commit"}

\* Before it has a lease and after it gave it up, an executor's attempt has no
\* acquired one; an attempt it is about to leave is no longer open; and one that
\* it produces has been started.
Closing(w) ==
  LET s == job[w].shard
  IN  s # None =>
        /\ pc[w] \in Unleased => leases[s].status # "acquired"
        /\ pc[w] \in {"add", "release"} => shards[s].status \notin Open
        /\ pc[w] \in Producing => shards[s].status # "pending"

\* The invariant behind NothingLeftOpen.
Settling == (\A w \in Executor : Closing(w)) /\ NothingLeftOpen

\* Nothing is open for attempt s, or nobody is left to close it.
Closed(s) ==
  \/ leases[s].status # "acquired" /\ shards[s].status \notin Open
  \/ Abandoned(s)

\* A step of w changes only its own attempts.
OnlyOwn(w) ==
  /\ \A t \in ShardId \ {job[w].shard, job'[w].shard} :
       /\ shards'[t].status = shards[t].status
       /\ leases'[t].status = "acquired" => leases[t].status = "acquired"
  /\ crashed \subseteq crashed' /\ escaped \subseteq escaped'

\* What a process abandoned stays abandoned.
LEMMA AbandonedStays ==
  ASSUME crashed \subseteq crashed', escaped \subseteq escaped', NEW s, Abandoned(s)
  PROVE  Abandoned(s)'
  BY DEF Abandoned

\* A step of w is fine if its own attempt is, and the one that it leaves.
LEMMA KeepSettling ==
  ASSUME IInv, RowsOwned, RowsOwned', Settling, NEW w \in Executor, OthersStay(w), OnlyOwn(w),
         Closing(w)',
         \A s \in ShardId : s = job[w].shard /\ s # job'[w].shard => Closed(s)'
  PROVE  Settling'
  <1>1. \A v \in Executor : job[v].shard \in ShardId \cup {None}
    BY DEF IInv, TypeInv, Locals, Job
  <1>2. ASSUME NEW v \in Executor PROVE Closing(v)'
    <2>1. CASE v = w
      BY <2>1
    <2>2. CASE v # w
      <3>1. pc'[v] = pc[v] /\ job'[v] = job[v]
        BY <2>2 DEF OthersStay, Others
      <3>2. CASE job[v].shard = None
        BY <3>1, <3>2 DEF Closing
      <3>3. CASE job[v].shard # None
        <4> DEFINE s == job[v].shard
        <4>1. s # job[w].shard /\ s \in ShardId
          BY <1>1, <2>2, <3>3 DEF RowsOwned, Others
        <4>2. s # job'[w].shard
          BY <2>2, <3>1, <3>3 DEF RowsOwned, Others
        <4>3. /\ shards'[s].status = shards[s].status
              /\ leases'[s].status = "acquired" => leases[s].status = "acquired"
          BY <4>1, <4>2 DEF OnlyOwn
        <4>4. Closing(v)
          BY DEF Settling
        <4>5. QED
          BY <3>1, <4>3, <4>4 DEF Closing
      <3>4. QED
        BY <3>2, <3>3
    <2>3. QED
      BY <2>1, <2>2
  <1>3. ASSUME NEW s \in ShardId,
               leases'[s].status = "acquired" \/ shards'[s].status \in {"pending", "running"}
        PROVE  Working(s)' \/ Abandoned(s)'
    <2>1. CASE s = job'[w].shard
      <3>1. s # None
        BY LedgerAssumption
      <3>2. pc'[w] # "idle"
        BY <2>1, <3>1 DEF RowsOwned, NoAttempt
      <3>3. QED
        BY <2>1, <3>2 DEF Working
    <2>2. CASE s # job'[w].shard /\ s = job[w].shard
      <3>1. Closed(s)'
        BY <2>2
      <3>2. QED
        BY <1>3, <3>1 DEF Closed, Open
    <2>3. CASE s # job'[w].shard /\ s # job[w].shard
      <3>1. leases[s].status = "acquired" \/ shards[s].status \in {"pending", "running"}
        BY <1>3, <2>3 DEF OnlyOwn
      <3>2. Working(s) \/ Abandoned(s)
        BY <3>1 DEF Settling, NothingLeftOpen
      <3>3. CASE Abandoned(s)
        BY <3>3, AbandonedStays DEF OnlyOwn
      <3>4. ASSUME NEW v \in Executor, pc[v] # "idle", job[v].shard = s
            PROVE  Working(s)'
        <4>1. v # w
          BY <2>3, <3>4
        <4>2. pc'[v] = pc[v] /\ job'[v] = job[v]
          BY <4>1 DEF OthersStay, Others
        <4>3. QED
          BY <3>4, <4>2 DEF Working
      <3>5. QED
        BY <3>2, <3>3, <3>4 DEF Working
    <2>4. QED
      BY <2>1, <2>2, <2>3
  <1>4. NothingLeftOpen'
    BY <1>3 DEF NothingLeftOpen
  <1>5. QED
    BY <1>2, <1>4 DEF Settling

\* A step of nobody that at most marks attempts stale.
LEMMA StillSettling ==
  ASSUME IInv, Settling, pc' = pc, job' = job, leases' = leases,
         crashed' = crashed, escaped' = escaped,
         \A s \in ShardId : shards'[s].status \in {shards[s].status, "stale"}
  PROVE  Settling'
  <1>1. \A v \in Executor : job[v].shard \in ShardId \cup {None}
    BY DEF IInv, TypeInv, Locals, Job
  <1>2. ASSUME NEW v \in Executor PROVE Closing(v)'
    <2>1. Closing(v)
      BY DEF Settling
    <2>2. CASE job[v].shard = None
      BY <2>2 DEF Closing
    <2>3. CASE job[v].shard # None
      <3>1. shards'[job[v].shard].status \in {shards[job[v].shard].status, "stale"}
        BY <1>1, <2>3
      <3>2. QED
        BY <2>1, <3>1 DEF Closing, Open
    <2>4. QED
      BY <2>2, <2>3
  <1>3. ASSUME NEW s \in ShardId,
               leases'[s].status = "acquired" \/ shards'[s].status \in {"pending", "running"}
        PROVE  Working(s)' \/ Abandoned(s)'
    <2>1. leases[s].status = "acquired" \/ shards[s].status \in {"pending", "running"}
      BY <1>3
    <2>2. Working(s) \/ Abandoned(s)
      BY <2>1 DEF Settling, NothingLeftOpen
    <2>3. QED
      BY <2>2 DEF Working, Abandoned
  <1>4. NothingLeftOpen'
    BY <1>3 DEF NothingLeftOpen
  <1>5. QED
    BY <1>2, <1>4 DEF Settling

\* A retired or failed attempt is not open, and an acquired lease can be failed.
LEMMA StatusFacts ==
  /\ Terminal \cap Open = {} /\ Retired \cap Open = {} /\ Accepted \cap Open = {}
  /\ Legal(LeaseTransitions, "acquired", "failed")
  /\ \A x \in Accepted : Legal(LedgerTransitions, "running", x)
  BY DEF Terminal, Retired, Open, Accepted, Legal, LeaseTransitions, LedgerTransitions

\* The steps of the try block that change neither the row nor its lease's status.
LEMMA PlainTrySettling ==
  ASSUME IInv, RowsOwned, RowsOwned', Settling, NEW w \in Executor,
         \/ Work(w) \/ Heartbeat(w) \/ Publish(w) \/ RenameManifest(w) \/ Validate(w)
         \/ Accept(w) \/ AddManifest(w) \/ AddLineage(w) \/ InsertLineage(w)
  PROVE  Settling'
  <1> DEFINE s == job[w].shard
  <1>1. Tables /\ Locals
    BY DEF IInv, TypeInv
  <1>2. TryStep(w) /\ pc[w] \in Producing
    BY DEF TryStep, Producing, Work, Heartbeat, Publish, RenameManifest, Validate, Accept,
           AddManifest, AddLineage, InsertLineage
  <1>3. OthersStay(w) /\ TryMoves(w)
    BY <1>1, <1>2, TryShape
  <1>4. pc[w] \notin {"release", "fail"}
    BY <1>2 DEF Producing
  <1>5. job'[w].shard = s
    BY <1>3, <1>4 DEF TryMoves, SameWork
  <1>6. shards' = shards /\ crashed' = crashed /\ escaped' = escaped
    BY DEF Work, Heartbeat, Publish, RenameManifest, Validate, Accept, AddManifest, AddLineage,
           InsertLineage, ledger
  <1>7. \A t \in ShardId : leases'[t].status = leases[t].status
    <2>1. CASE Heartbeat(w)
      BY <1>1, <2>1 DEF Heartbeat, Tables, Lease
    <2>2. CASE ~Heartbeat(w)
      BY <2>2 DEF Work, Publish, RenameManifest, Validate, Accept, AddManifest, AddLineage,
             InsertLineage, ledger
    <2>3. QED
      BY <2>1, <2>2
  <1>8. OnlyOwn(w)
    BY <1>6, <1>7 DEF OnlyOwn
  <1>9. Closing(w)'
    <2>1. CASE s = None
      BY <1>5, <2>1 DEF Closing
    <2>2. CASE s # None
      <3>1. shards[s].status # "pending"
        BY <1>2, <2>2 DEF Settling, Closing
      <3>2. \/ pc'[w] \in Producing \cup {"abort"}
            \/ pc'[w] = "release" /\ shards[s].status \in Retired
        <4>1. CASE Work(w) \/ Heartbeat(w) \/ Publish(w)
          BY <1>1, <4>1 DEF Locals, Goto, Fail, GotoClocked, Producing, Work, Heartbeat, Publish
        <4>2. CASE RenameManifest(w) \/ Validate(w) \/ Accept(w) \/ AddManifest(w)
          BY <1>1, <4>2 DEF Locals, Goto, Fail, GotoClocked, Producing, RenameManifest, Validate,
                            Accept, AddManifest
        <4>3. CASE AddLineage(w) \/ InsertLineage(w)
          BY <1>1, <4>3 DEF Locals, Goto, Fail, Producing, AddLineage, InsertLineage
        <4>4. QED
          BY <4>1, <4>2, <4>3
      <3>3. pc'[w] = "release" => shards[s].status \notin Open
        BY <3>2, StatusFacts DEF Producing
      <3>4. QED
        BY <1>5, <1>6, <3>1, <3>2, <3>3 DEF Closing, Unleased, Producing
    <2>3. QED
      BY <2>1, <2>2
  <1>10. QED
    BY <1>3, <1>5, <1>8, <1>9, KeepSettling

\* Release, abort and fail close the attempt.
LEMMA EndSettling ==
  ASSUME IInv, RowsOwned, RowsOwned', Settling, NEW w \in Executor,
         Release(w) \/ Abort(w) \/ RecordError(w)
  PROVE  Settling'
  <1> DEFINE s == job[w].shard
  <1>1. Tables /\ Locals
    BY DEF IInv, TypeInv
  <1>2. TryStep(w) /\ pc[w] \in HasRow
    BY DEF TryStep, Release, Abort, RecordError, HasRow, Phase, InTry
  <1>3. s \in ShardId /\ s # None /\ Closing(w)
    BY <1>1, <1>2, RowLocals, LedgerAssumption DEF Settling
  <1>4. OthersStay(w) /\ TryMoves(w)
    BY <1>1, <1>2, TryShape
  <1>5. shards' = shards /\ crashed' = crashed /\ escaped' = escaped
    BY DEF Release, Abort, RecordError
  <1>6. \A t \in ShardId \ {s} : leases'[t] = leases[t]
    BY <1>1, <1>3 DEF Release, Abort, RecordError, Tables
  <1>7. OnlyOwn(w)
    BY <1>5, <1>6 DEF OnlyOwn
  <1>8. CASE Release(w)
    <2>1. pc[w] = "release" /\ shards[s].status \notin Open
      BY <1>3, <1>8 DEF Release, Closing
    <2>2. CASE ReturnAnswer(w) /\ leases' = [leases EXCEPT ![s].status = "released"]
      <3>1. Leaves(w)
        BY <1>1, <2>2, ReturnMoves
      <3>2. leases'[s].status = "released"
        BY <1>1, <1>3, <2>2 DEF Tables, Lease
      <3>3. Closing(w)'
        BY <3>1 DEF Closing, Leaves, NoJob
      <3>4. \A t \in ShardId : t = s /\ t # job'[w].shard => Closed(t)'
        BY <1>5, <2>1, <3>2 DEF Closed
      <3>5. QED
        BY <1>4, <1>7, <3>3, <3>4, KeepSettling
    <2>3. CASE Fail(w, "abort", "interrupted")
      <3>1. pc'[w] = "abort" /\ job'[w].shard = s
        BY <1>1, <2>3, FailMoves DEF SameWork
      <3>2. Closing(w)'
        BY <3>1 DEF Closing, Unleased, Producing
      <3>3. QED
        BY <1>4, <1>7, <3>1, <3>2, KeepSettling
    <2>4. QED
      BY <1>8, <2>2, <2>3 DEF Release
  <1>9. CASE Abort(w)
    <2>1. pc'[w] = "fail" /\ job'[w].shard = s
      BY <1>1, <1>9, GotoMoves DEF Abort, SameWork
    <2>2. leases'[s].status # "acquired"
      BY <1>1, <1>3, <1>9, StatusFacts DEF Abort, Tables, Lease
    <2>3. Closing(w)'
      BY <2>1, <2>2 DEF Closing, Producing
    <2>4. QED
      BY <1>4, <1>7, <2>1, <2>3, KeepSettling
  <1>10. CASE RecordError(w)
    <2>1. leases[s].status # "acquired" /\ leases' = leases
      BY <1>3, <1>10 DEF RecordError, Closing, Unleased
    <2>2. CASE shards[s].status \in Terminal /\ ReturnAnswer(w)
      <3>1. Leaves(w)
        BY <1>1, <2>2, ReturnMoves
      <3>2. Closing(w)'
        BY <3>1 DEF Closing, Leaves, NoJob
      <3>3. \A t \in ShardId : t = s /\ t # job'[w].shard => Closed(t)'
        BY <1>5, <2>1, <2>2, StatusFacts DEF Closed
      <3>4. QED
        BY <1>4, <1>7, <3>2, <3>3, KeepSettling
    <2>3. CASE Goto(w, "failing") /\ job' = job
      <3>1. pc'[w] = "failing" /\ job'[w].shard = s
        BY <1>1, <2>3, GotoMoves
      <3>2. Closing(w)'
        BY <2>1, <3>1 DEF Closing, Producing
      <3>3. QED
        BY <1>4, <1>7, <3>1, <3>2, KeepSettling
    <2>4. QED
      BY <1>10, <2>2, <2>3 DEF RecordError
  <1>11. QED
    BY <1>8, <1>9, <1>10

\* What a write leaves in the row.
LEMMA WrittenRow ==
  ASSUME IInv, NEW w \in Executor, pc[w] \in StatusPhase, Write(w)
  PROVE  /\ job[w].shard \in ShardId
         /\ shards'[job[w].shard].status = Target(w)
         /\ \A t \in ShardId \ {job[w].shard} : shards'[t] = shards[t]
  <1>1. Tables /\ Locals /\ pc[w] \in HasRow
    BY DEF IInv, TypeInv, HasRow, Phase, StatusPhase, InTry
  <1>2. job[w].shard \in ShardId
    BY <1>1, RowLocals
  <1>3. shards[job[w].shard] \in Row
    BY <1>1, <1>2 DEF Tables
  <1>4. Written(w).status = Target(w)
    BY <1>3 DEF Written, Row
  <1>5. shards' = [shards EXCEPT ![job[w].shard] = Written(w)]
    BY DEF Write
  <1>6. QED
    BY <1>1, <1>2, <1>4, <1>5 DEF Tables

\* A status change, whatever became of the row since it was read.
LEMMA StatusSettling ==
  ASSUME IInv, RowsOwned, RowsOwned', Settling, NEW w \in Executor, ReadRow(w) \/ WriteRow(w)
  PROVE  Settling'
  <1> DEFINE s == job[w].shard
  <1>1. Tables /\ Locals
    BY DEF IInv, TypeInv
  <1>2. pc[w] \in StatusPhase /\ pc[w] \in HasRow /\ LocalOK(pc[w], job[w])
    BY <1>1 DEF ReadRow, WriteRow, HasRow, Phase, InTry, StatusPhase, Locals
  <1>3. s \in ShardId /\ s # None /\ Closing(w)
    BY <1>1, <1>2, RowLocals, LedgerAssumption DEF Settling
  <1>4. leases' = leases /\ crashed' = crashed
    BY DEF ReadRow, WriteRow
  <1>5. pc[w] \in Unleased => leases[s].status # "acquired"
    BY <1>3 DEF Closing
  <1>6. pc[w] \in {"commit", "hit commit"} => job[w].want \in Accepted
    BY <1>2 DEF LocalOK, Accepts, InTry
  <1>7. CASE Write(w)
    <2>1. /\ shards'[s].status = Target(w)
          /\ \A t \in ShardId \ {s} : shards'[t] = shards[t]
      BY <1>2, <1>7, WrittenRow
    <2>2. OnlyOwn(w)
      BY <1>4, <1>7, <2>1 DEF OnlyOwn, Write
    <2>3. /\ OthersStay(w)
          /\ \/ Leaves(w) /\ After[pc[w]] = "idle"
             \/ SameWork(w) /\ pc'[w] = After[pc[w]] /\ After[pc[w]] # "idle"
      BY <1>1, <1>2, <1>7, WriteMoves
    <2>4. CASE Leaves(w) /\ After[pc[w]] = "idle"
      <3>1. pc[w] \in {"hit commit", "failing"}
        BY <1>2, <2>4 DEF After, StatusPhase
      <3>2. Target(w) \notin Open
        BY <1>6, <3>1, StatusFacts DEF Target, Open
      <3>3. Closing(w)'
        BY <2>4 DEF Closing, Leaves, NoJob
      <3>4. \A t \in ShardId : t = s /\ t # job'[w].shard => Closed(t)'
        BY <1>4, <1>5, <2>1, <3>1, <3>2 DEF Closed, Unleased
      <3>5. QED
        BY <2>2, <2>3, <3>3, <3>4, KeepSettling
    <2>5. CASE SameWork(w) /\ pc'[w] = After[pc[w]] /\ After[pc[w]] # "idle"
      <3>1. /\ pc[w] = "hit start" => pc'[w] = "hit commit"
            /\ pc[w] = "collided" => pc'[w] = "add" /\ Target(w) = "failed"
            /\ pc[w] = "start" => pc'[w] = "work" /\ Target(w) = "running"
            /\ pc[w] = "commit" => pc'[w] = "release" /\ Target(w) \in Accepted
            /\ pc[w] \in {"hit start", "collided", "start", "commit"}
        BY <1>2, <1>6, <2>5 DEF After, Target, StatusPhase
      <3>2. Closing(w)'
        BY <1>4, <1>5, <2>1, <2>5, <3>1, StatusFacts DEF Closing, SameWork, Unleased, Producing, Open
      <3>3. QED
        BY <2>2, <2>3, <2>5, <3>2, KeepSettling DEF SameWork
    <2>6. QED
      BY <2>3, <2>4, <2>5
  <1>8. CASE job' = [job EXCEPT ![w].read = TRUE] /\ UNCHANGED <<shards, pc, escaped>>
    <2>1. OthersStay(w) /\ job'[w].shard = s /\ pc'[w] = pc[w]
      BY <1>1, <1>8, ReadMoves DEF SameWork
    <2>2. Closing(w)'
      BY <1>3, <1>4, <1>8, <2>1 DEF Closing
    <2>3. OnlyOwn(w)
      BY <1>4, <1>8 DEF OnlyOwn
    <2>4. QED
      BY <2>1, <2>2, <2>3, KeepSettling
  <1>9. CASE /\ pc[w] = "commit" /\ Goto(w, "release") /\ UNCHANGED <<job, escaped, shards>>
             /\ ~Legal(LedgerTransitions, shards[s].status, Target(w))
    <2>1. OthersStay(w) /\ job'[w].shard = s /\ pc'[w] = "release"
      BY <1>1, <1>9, GotoMoves
    <2>2. shards[s].status \notin Open
      <3>1. Target(w) \in Accepted
        BY <1>6, <1>9 DEF Target
      <3>2. shards[s].status # "running"
        BY <1>9, <3>1, StatusFacts
      <3>3. shards[s].status # "pending"
        BY <1>3, <1>9 DEF Closing, Producing
      <3>4. QED
        BY <3>2, <3>3 DEF Open
    <2>3. Closing(w)'
      BY <1>9, <2>1, <2>2 DEF Closing, Unleased, Producing
    <2>4. OnlyOwn(w)
      BY <1>4, <1>9 DEF OnlyOwn
    <2>5. QED
      BY <2>1, <2>3, <2>4, KeepSettling
  <1>10. CASE /\ ReturnAnswer(w) /\ escaped' = escaped \cup {<<s, pc[w]>>} /\ shards' = shards
    <2>1. OthersStay(w) /\ Leaves(w)
      BY <1>1, <1>10, ReturnMoves
    <2>2. Closing(w)'
      BY <2>1 DEF Closing, Leaves, NoJob
    <2>3. \A t \in ShardId : t = s /\ t # job'[w].shard => Closed(t)'
      BY <1>2, <1>10 DEF Closed, Abandoned
    <2>4. OnlyOwn(w)
      BY <1>4, <1>10 DEF OnlyOwn
    <2>5. QED
      BY <2>1, <2>2, <2>3, <2>4, KeepSettling
  <1>11. QED
    BY <1>7, <1>8, <1>9, <1>10 DEF ReadRow, WriteRow

\* A lease is granted to the caller only; a refusal leaves it without one.
LEMMA LeaseSettling ==
  ASSUME IInv, RowsOwned, RowsOwned', Settling, NEW w \in Executor, Mkdir(w) \/ AcquireLease(w)
  PROVE  Settling'
  <1> DEFINE s == job[w].shard
  <1>1. Tables /\ Locals
    BY DEF IInv, TypeInv
  <1>2. pc[w] \in HasRow /\ pc[w] \in Unleased
    BY DEF Mkdir, AcquireLease, HasRow, Phase, InTry, StatusPhase, Unleased
  <1>3. s \in ShardId /\ s # None /\ leases[s].status # "acquired"
    BY <1>1, <1>2, RowLocals, LedgerAssumption DEF Settling, Closing
  <1>4. shards' = shards /\ crashed' = crashed /\ escaped' = escaped
    BY DEF Mkdir, AcquireLease, ledger
  <1>5. /\ OthersStay(w) /\ job'[w].shard = s
        /\ \/ pc'[w] \in {"collided", "fail", "lease"} /\ leases' = leases
           \/ pc'[w] = "start" /\ leases' = Granted(s, Held(job[w].key), job[w].at)
    <2>1. CASE Mkdir(w)
      BY <1>1, <2>1, GotoMoves, FailMoves DEF Mkdir, ledger, SameWork
    <2>2. CASE AcquireLease(w)
      BY <1>1, <2>2, GotoMoves, FailMoves DEF AcquireLease, SameWork
    <2>3. QED
      BY <2>1, <2>2
  <1>6. \A t \in ShardId \ {s} : leases'[t].status = "acquired" => leases[t].status = "acquired"
    <2> SUFFICES ASSUME NEW t \in ShardId \ {s}, leases'[t].status = "acquired"
                 PROVE  leases[t].status = "acquired"
      OBVIOUS
    <2>1. CASE leases' = leases
      BY <2>1
    <2>2. CASE leases' = Granted(s, Held(job[w].key), job[w].at)
      <3>1. leases[t] \in Lease
        BY <1>1 DEF Tables
      <3>2. QED
        BY <2>2, <3>1 DEF Granted, Lease
    <2>3. QED
      BY <1>5, <2>1, <2>2
  <1>7. OnlyOwn(w)
    BY <1>4, <1>5, <1>6 DEF OnlyOwn
  <1>8. Closing(w)'
    BY <1>3, <1>5 DEF Closing, Unleased, Producing
  <1>9. QED
    BY <1>5, <1>7, <1>8, KeepSettling

\* A process that is interrupted or dies.
LEMMA StopSettling ==
  ASSUME IInv, RowsOwned, RowsOwned', Settling, NEW w \in Executor, Interrupt(w) \/ Crash(w)
  PROVE  Settling'
  <1>1. Tables /\ Locals
    BY DEF IInv, TypeInv
  <1>2. shards' = shards /\ leases' = leases /\ escaped' = escaped /\ crashed \subseteq crashed'
    BY DEF Interrupt, Crash, ledger
  <1>3. OnlyOwn(w)
    BY <1>2 DEF OnlyOwn
  <1>4. CASE Interrupt(w)
    <2>1. OthersStay(w) /\ job'[w].shard = job[w].shard /\ pc'[w] = "abort"
      BY <1>1, <1>4, InterruptMoves DEF SameWork
    <2>2. Closing(w)'
      BY <2>1 DEF Closing, Unleased, Producing
    <2>3. QED
      BY <1>3, <2>1, <2>2, KeepSettling
  <1>5. CASE Crash(w)
    <2>1. OthersStay(w) /\ Leaves(w)
      BY <1>1, <1>5, ReturnMoves DEF Crash
    <2>2. Closing(w)'
      BY <2>1 DEF Closing, Leaves, NoJob
    <2>3. \A t \in ShardId : t = job[w].shard /\ t # job'[w].shard => Closed(t)'
      <3>1. \A t \in ShardId : t = job[w].shard => t \in crashed'
        BY <1>5, LedgerAssumption DEF Crash
      <3>2. QED
        BY <3>1 DEF Closed, Abandoned
    <2>4. QED
      BY <1>3, <2>1, <2>2, <2>3, KeepSettling
  <1>6. QED
    BY <1>4, <1>5

\* A call that begins has no attempt, and the one it then adds is new.
LEMMA BeginSettling ==
  ASSUME IInv, RowsOwned, RowsOwned', Settling, NEW w \in Executor,
         \/ Lookup(w)
         \/ \E k \in Key, d \in Slot, force \in Forces, verdict \in Verdicts :
              Execute(w, k, d, force, verdict)
  PROVE  Settling'
  <1>1. Tables /\ Locals
    BY DEF IInv, TypeInv
  <1>2. shards' = shards /\ leases' = leases /\ escaped' = escaped /\ crashed' = crashed
    BY DEF Lookup, Execute, ledger
  <1>3. OthersStay(w) /\ job[w].shard = None /\ job'[w].shard = None
    <2>1. pc[w] \in NoAttempt
      BY DEF Lookup, Execute, NoAttempt
    <2>2. job[w].shard = None
      BY <2>1 DEF RowsOwned
    <2>3. QED
      BY <1>1, <2>2, LookupMoves, ExecuteMoves
  <1>4. Closing(w)'
    BY <1>3 DEF Closing
  <1>5. OnlyOwn(w)
    BY <1>2 DEF OnlyOwn
  <1>6. QED
    BY <1>3, <1>4, <1>5, KeepSettling

\* add_shard opens a new row, and leaves only a collided one, which is closed.
LEMMA AddShardSettling ==
  ASSUME IInv, RowsOwned, RowsOwned', Settling, NEW w \in Executor, AddShard(w)
  PROVE  Settling'
  <1> DEFINE s == job'[w].shard
  <1>1. Tables /\ Locals
    BY DEF IInv, TypeInv
  <1>2. /\ OthersStay(w) /\ pc[w] \in {"hit", "add"} /\ pc'[w] \in {"hit start", "mkdir"}
        /\ s \in Unused
    BY <1>1, AddShardMoves
  <1>3. s \in ShardId /\ shards[s].status = "none" /\ leases[s].status # "acquired"
    BY <1>2 DEF Unused, IInv, RowsOK
  <1>4. \A t \in ShardId \ {s} : shards'[t] = shards[t]
    BY <1>1, AddShardMoves DEF Tables
  <1>5. leases' = leases /\ escaped' = escaped /\ crashed' = crashed
    BY DEF AddShard
  <1>6. OnlyOwn(w)
    BY <1>4, <1>5 DEF OnlyOwn
  <1>7. Closing(w)'
    BY <1>2, <1>3, <1>5 DEF Closing, Producing
  <1>8. ASSUME NEW t \in ShardId, t = job[w].shard, t # s
        PROVE  Closed(t)'
    <2>1. t # None
      BY LedgerAssumption
    <2>2. pc[w] = "add"
      BY <1>2, <1>8, <2>1 DEF RowsOwned, NoAttempt
    <2>3. leases[t].status # "acquired" /\ shards[t].status \notin Open
      BY <1>8, <2>1, <2>2 DEF Settling, Closing, Unleased
    <2>4. QED
      BY <1>4, <1>5, <1>8, <2>3 DEF Closed
  <1>9. QED
    BY <1>2, <1>6, <1>7, <1>8, KeepSettling

\* Nobody but the executors opens an attempt or grants a lease.
LEMMA NextSettling == IInv /\ RowsOwned /\ RowsOwned' /\ Settling /\ [Next]_vars => Settling'
  <1> SUFFICES ASSUME IInv, RowsOwned, RowsOwned', Settling, [Next]_vars PROVE Settling'
    OBVIOUS
  <1>1. ASSUME NEW w \in Executor, Step(w) PROVE Settling'
    BY <1>1, PlainTrySettling, EndSettling, StatusSettling, LeaseSettling, BeginSettling,
       AddShardSettling DEF Step
  <1>2. ASSUME NEW w \in Executor, NEW k \in Key, NEW d \in Slot, NEW force \in Forces,
               NEW verdict \in Verdicts, Execute(w, k, d, force, verdict)
        PROVE  Settling'
    BY <1>2, BeginSettling
  <1>3. ASSUME NEW w \in Executor, Interrupt(w) \/ Crash(w) PROVE Settling'
    BY <1>3, StopSettling
  <1>4. CASE Invalidate \/ \E k \in Key : InvalidateOwned(Owned[k])
    <2>1. pc' = pc /\ job' = job /\ leases' = leases /\ crashed' = crashed /\ escaped' = escaped
      BY <1>4 DEF Invalidate, ReadLineage, SelectRows, UpdateRows, InvalidateOwned, ledger
    <2>2. \A rows : MarkRows(rows) => \A s \in ShardId : shards'[s].status \in {shards[s].status, "stale"}
      <3> SUFFICES ASSUME NEW rows, MarkRows(rows), NEW s \in ShardId
                   PROVE  shards'[s].status \in {shards[s].status, "stale"}
        OBVIOUS
      <3>1. shards[s] \in Row
        BY DEF IInv, TypeInv, Tables
      <3>2. QED
        BY <3>1 DEF MarkRows, Row
    <2>3. \A s \in ShardId : shards'[s].status \in {shards[s].status, "stale"}
      BY <1>4, <2>2 DEF Invalidate, ReadLineage, SelectRows, UpdateRows, InvalidateOwned, ledger
    <2>4. QED
      BY <2>1, <2>3, StillSettling
  <1>5. CASE Advance \/ (\E d \in DOMAIN disk : Damage(d)) \/ UNCHANGED vars
    BY <1>5, StillSettling DEF Advance, Damage, vars, ledger
  <1>6. CASE Restart
    <2>1. \A w \in Executor : pc'[w] = "idle" /\ job'[w].shard = None
      BY <1>6 DEF Restart, RowsOwned, NoAttempt
    <2>2. \A s \in ShardId : shards'[s].status = "none" /\ leases'[s].status = "none"
      BY <1>6 DEF Restart, EmptyRow, NoLease
    <2>3. NothingLeftOpen'
      BY <2>2 DEF NothingLeftOpen
    <2>4. QED
      BY <2>1, <2>3 DEF Settling, Closing
  <1>7. QED
    BY <1>1, <1>2, <1>3, <1>4, <1>5, <1>6 DEF Next

-----------------------------------------------------------------------------
(* What an accepted attempt rests on.                                      *)

\* The phases between mkdir and the rename of the payloads, those in which the
\* tree is still written, those in which it is complete, and those of a hit.
Reserved == {"lease", "start", "work", "beat", "publish"}
Writing == Reserved \cup {"rename"}
Complete == {"validate", "renew", "accept", "manifest", "lineage", "insert", "commit"}
Hitting == {"hit", "hit start", "hit commit"}

\* Directory d has been completed for key k.
Whole(d, k) ==
  d \in DOMAIN disk /\ disk[d].state \in {"complete", "damaged"} /\ disk[d].key = k

\* The lineage of key k has been recorded.
Linked(k) == \A u \in Upstream[k] : <<u, k>> \in lineage

\* What an executor has on disk and in the ledger for the phase it is in.
Prepared(w) ==
  /\ pc[w] \in Reserved => Dir(w) \in DOMAIN disk /\ disk[Dir(w)].state = "reserved"
  /\ pc[w] = "rename" => Dir(w) \in DOMAIN disk /\ disk[Dir(w)].state = "partial"
  /\ pc[w] \in Complete => Whole(Dir(w), job[w].key)
  /\ pc[w] \in {"lineage", "insert", "commit"} => job[w].shard \in manifests
  /\ pc[w] = "commit" => Linked(job[w].key)
  /\ pc[w] \in Hitting => /\ shards[job[w].source].dir # None
                          /\ shards[job[w].source].key = job[w].key
  /\ pc[w] \in {"hit start", "hit commit"} => shards[job[w].shard].hit

\* No two executors write into one directory.
DirsApart ==
  \A w \in Executor : \A v \in Others(w) :
    pc[w] \in Writing /\ pc[v] \in Writing => Dir(w) # Dir(v)

\* A row that names a directory names a completed one of its key.
RecordOK(s) ==
  LET row == shards[s]
  IN  /\ row.status = "none" => row.dir = None
      /\ row.status \in Accepted => row.dir # None
      /\ row.dir # None => /\ Whole(row.dir, row.key)
                           /\ Linked(row.key)
                           /\ ~row.hit => s \in manifests /\ row.dir[2] = row.attempt

\* The invariant behind AcceptedComplete.
Filing ==
  /\ \A w \in Executor : Prepared(w)
  /\ DirsApart
  /\ \A s \in ShardId : RecordOK(s)

\* Filing says more than the checked property.
LEMMA FilingComplete == Filing => AcceptedComplete
  BY DEF Filing, RecordOK, Whole, Linked, AcceptedComplete

\* What a step keeps of rows, of completed trees and of what has been recorded.
RowsFixed ==
  \A s \in ShardId : shards[s].status # "none" =>
    /\ shards'[s].key = shards[s].key /\ shards'[s].attempt = shards[s].attempt
    /\ shards'[s].hit = shards[s].hit
    /\ shards[s].dir # None => shards'[s].dir # None
\* Completed trees stay, and stay their key's.
WholeStays ==
  \A d \in DOMAIN disk : disk[d].state \in {"complete", "damaged"} =>
    /\ d \in DOMAIN disk' /\ disk'[d].state \in {"complete", "damaged"}
    /\ disk'[d].key = disk[d].key
\* So do manifest rows and lineage edges.
Grows == WholeStays /\ manifests \subseteq manifests' /\ lineage \subseteq lineage'

\* Then what an acceptance rests on stays true.
LEMMA GrowsKeeps ==
  ASSUME Grows
  PROVE  /\ \A d, k : Whole(d, k) => Whole(d, k)'
         /\ \A k : Linked(k) => Linked(k)'
  BY DEF Grows, WholeStays, Whole, Linked

\* The directory of an executor that stays where it is.
LEMMA DirStays ==
  ASSUME IInv, RowsFixed, NEW v \in Executor, pc[v] \in HasRow, job'[v] = job[v]
  PROVE  Dir(v)' = Dir(v)
  <1>1. job[v].shard \in ShardId /\ shards[job[v].shard].status # "none"
    BY RowLocals DEF IInv, TypeInv, RowsOK
  <1>2. QED
    BY <1>1 DEF RowsFixed, Dir

\* What one executor has prepared stands while another one moves.
LEMMA PreparedStays ==
  ASSUME IInv, Filing, Grows, RowsFixed, NEW v \in Executor, Prepared(v),
         pc'[v] = pc[v], job'[v] = job[v],
         pc[v] \in Writing => Dir(v) \in DOMAIN disk' /\ disk'[Dir(v)].state = disk[Dir(v)].state
  PROVE  Prepared(v)'
  <1>1. Locals
    BY DEF IInv, TypeInv
  <1>2. pc[v] \in HasRow => Dir(v)' = Dir(v)
    BY DirStays
  <1>3. Writing \cup Complete \cup {"hit start", "hit commit"} \subseteq HasRow
    BY DEF Writing, Reserved, Complete, HasRow, Phase, InTry, StatusPhase
  <1>4. CASE pc[v] \in Writing
    BY <1>2, <1>3, <1>4 DEF Prepared, Writing, Reserved, Complete, Hitting
  <1>5. CASE pc[v] \in Complete
    <2>1. Whole(Dir(v), job[v].key) /\ Dir(v)' = Dir(v)
      BY <1>2, <1>3, <1>5 DEF Prepared
    <2>2. Whole(Dir(v), job[v].key)'
      BY <1>5, <2>1, GrowsKeeps DEF Whole
    <2>3. pc[v] = "commit" => Linked(job[v].key)'
      BY GrowsKeeps DEF Prepared, Linked
    <2>4. QED
      BY <1>5, <2>2, <2>3 DEF Prepared, Writing, Reserved, Complete, Hitting, Grows
  <1>6. CASE pc[v] \in Hitting
    <2>1. job[v].source \in ShardId /\ shards[job[v].source].dir # None
          /\ shards[job[v].source].key = job[v].key
      BY <1>1, <1>6 DEF Prepared, Locals, LocalOK, Hitting
    <2>2. shards[job[v].source].status # "none"
      BY <2>1 DEF Filing, RecordOK
    <2>3. pc[v] \in {"hit start", "hit commit"} =>
            job[v].shard \in ShardId /\ shards[job[v].shard].status # "none"
      BY <1>1, <1>3, RowLocals DEF IInv, RowsOK
    <2>4. QED
      BY <1>6, <2>1, <2>2, <2>3 DEF Prepared, Writing, Reserved, Complete, Hitting, RowsFixed
  <1>7. CASE pc[v] \notin Writing \cup Complete \cup Hitting
    BY <1>7 DEF Prepared, Writing, Reserved, Complete, Hitting
  <1>8. QED
    BY <1>4, <1>5, <1>6, <1>7

\* A step of w keeps the files if its own are in order, and it writes into no
\* directory that is written by another.
LEMMA KeepFiling ==
  ASSUME IInv, Filing, Grows, RowsFixed, NEW w \in Executor, OthersStay(w), Prepared(w)',
         \A v \in Others(w) : pc[v] \in Writing =>
           /\ Dir(v) \in DOMAIN disk' /\ disk'[Dir(v)].state = disk[Dir(v)].state
           /\ pc'[w] \in Writing => Dir(w)' # Dir(v),
         \A s \in ShardId : RecordOK(s)'
  PROVE  Filing'
  <1>1. ASSUME NEW v \in Executor PROVE Prepared(v)'
    <2>1. CASE v = w
      BY <2>1
    <2>2. CASE v # w
      BY <2>2, PreparedStays DEF OthersStay, Others, Filing
    <2>3. QED
      BY <2>1, <2>2
  <1>2. \A v \in Executor : Writing \subseteq HasRow
    BY DEF Writing, Reserved, HasRow, Phase, InTry, StatusPhase
  <1>3. \A v \in Others(w) : pc'[v] \in Writing => pc[v] \in Writing /\ Dir(v)' = Dir(v)
    BY <1>2, DirStays DEF OthersStay, Others
  <1>4. ASSUME NEW u \in Executor, NEW v \in Others(u), pc'[u] \in Writing, pc'[v] \in Writing
        PROVE  Dir(u)' # Dir(v)'
    <2>1. CASE u = w
      BY <1>3, <1>4, <2>1
    <2>2. CASE v = w
      BY <1>3, <1>4, <2>2 DEF Others
    <2>3. CASE u # w /\ v # w
      BY <1>3, <1>4, <2>3 DEF Others, Filing, DirsApart
    <2>4. QED
      BY <2>1, <2>2, <2>3
  <1>5. DirsApart'
    BY <1>4 DEF DirsApart, Others
  <1>6. QED
    BY <1>1, <1>5 DEF Filing

\* A row that keeps its directory stays in order.
LEMMA RecordStays ==
  ASSUME Filing, Grows, NEW s \in ShardId,
         shards'[s].key = shards[s].key, shards'[s].attempt = shards[s].attempt,
         shards'[s].hit = shards[s].hit, shards'[s].dir = shards[s].dir,
         shards'[s].status \in Accepted => shards[s].status \in Accepted,
         shards'[s].status = "none" => shards[s].status = "none"
  PROVE  RecordOK(s)'
  <1>1. RecordOK(s)
    BY DEF Filing
  <1>2. shards[s].dir # None => Whole(shards[s].dir, shards[s].key) /\ Linked(shards[s].key)
    BY <1>1 DEF RecordOK
  <1>3. PICK d, k : d = shards[s].dir /\ k = shards[s].key
    OBVIOUS
  <1>4. d # None => Whole(d, k)' /\ Linked(k)'
    BY <1>2, <1>3, GrowsKeeps
  <1>5. shards[s].dir # None => Whole(shards[s].dir, shards[s].key)' /\ Linked(shards[s].key)'
    BY <1>3, <1>4 DEF Whole, Linked
  <1>6. QED
    BY <1>1, <1>5 DEF RecordOK, Grows

\* A step that touches neither rows nor disk.
LEMMA StillRecords ==
  ASSUME Filing, shards' = shards, Grows
  PROVE  RowsFixed /\ \A s \in ShardId : RecordOK(s)'
  BY RecordStays DEF RowsFixed

\* An executor that goes on, or gives up, without writing a file or a row.
LEMMA StillFiling ==
  ASSUME IInv, Filing, shards' = shards, disk' = disk, Grows, NEW w \in Executor, OthersStay(w),
         \/ pc'[w] \notin Writing \cup Complete \cup Hitting
         \/ /\ SameWork(w) /\ pc[w] \in HasRow
            /\ pc'[w] \in Reserved => pc[w] \in Reserved
            /\ pc'[w] = "rename" => pc[w] = "rename"
            /\ pc'[w] \in Complete => pc[w] \in Complete
            /\ pc'[w] \in Hitting => pc'[w] = pc[w]
            /\ pc'[w] \in {"lineage", "insert", "commit"} =>
                 \/ pc[w] \in {"lineage", "insert", "commit"}
                 \/ job[w].shard \in manifests'
            /\ pc'[w] = "commit" => pc[w] = "commit" \/ Linked(job[w].key)
  PROVE  Filing'
  <1>1. RowsFixed /\ \A s \in ShardId : RecordOK(s)'
    BY StillRecords
  <1>2. Prepared(w)'
    <2>1. CASE pc'[w] \notin Writing \cup Complete \cup Hitting
      BY <2>1 DEF Prepared, Writing, Reserved, Complete, Hitting
    <2>2. CASE pc'[w] \in Writing \cup Complete \cup Hitting
      <3>1. Prepared(w)
        BY DEF Filing
      <3>2. SameWork(w) /\ Dir(w)' = Dir(w)
        BY <2>2 DEF SameWork, Dir
      <3>3. CASE pc'[w] \in Writing
        BY <2>2, <3>1, <3>2, <3>3 DEF Prepared, Writing, Reserved, Complete, Hitting
      <3>4. CASE pc'[w] \in Complete
        <4>1. Whole(Dir(w), job[w].key)
          BY <2>2, <3>1, <3>4 DEF Prepared, Writing, Reserved, Complete, Hitting
        <4>2. Whole(Dir(w), job[w].key)'
          BY <3>2, <4>1 DEF Whole, SameWork
        <4>3. pc'[w] = "commit" => Linked(job[w].key)'
          BY <2>2, <3>1, <3>2, GrowsKeeps DEF Prepared, Linked, SameWork, Writing, Reserved, Complete, Hitting
        <4>4. pc'[w] \in {"lineage", "insert", "commit"} => job'[w].shard \in manifests'
          BY <2>2, <3>1, <3>2 DEF Prepared, SameWork, Grows, Writing, Reserved, Complete, Hitting
        <4>5. QED
          BY <3>4, <4>2, <4>3, <4>4 DEF Prepared, Writing, Reserved, Complete, Hitting
      <3>5. CASE pc'[w] \in Hitting
        BY <2>2, <3>1, <3>2, <3>5 DEF Prepared, SameWork, Writing, Reserved, Complete, Hitting
      <3>6. QED
        BY <2>2, <3>3, <3>4, <3>5
    <2>3. QED
      BY <2>1, <2>2
  <1>3. ASSUME NEW v \in Others(w), pc[v] \in Writing
        PROVE  /\ Dir(v) \in DOMAIN disk' /\ disk'[Dir(v)].state = disk[Dir(v)].state
               /\ pc'[w] \in Writing => Dir(w)' # Dir(v)
    <2>1. Dir(v) \in DOMAIN disk
      BY <1>3 DEF Filing, Prepared, Writing, Others
    <2>2. pc'[w] \in Writing => pc[w] \in Writing /\ Dir(w)' = Dir(w)
      BY DEF Writing, Complete, Hitting, Reserved, SameWork, Dir
    <2>3. QED
      BY <1>3, <2>1, <2>2 DEF Filing, DirsApart
  <1>4. QED
    BY <1>1, <1>2, <1>3, KeepFiling

\* The steps of the try block that write no file.
LEMMA TryFiling ==
  ASSUME IInv, RowsOwned, Filing, NEW w \in Executor, TryStep(w), ~Publish(w), ~RenameManifest(w)
  PROVE  Filing'
  <1>1. Tables /\ Locals
    BY DEF IInv, TypeInv
  <1>2. /\ shards' = shards /\ disk' = disk
        /\ manifests \subseteq manifests' /\ lineage \subseteq lineage'
    BY DEF TryStep, Work, Heartbeat, Publish, RenameManifest, Validate, Accept, AddManifest,
           AddLineage, InsertLineage, Release, Abort, RecordError, ledger
  <1>3. Grows
    BY <1>2 DEF Grows, WholeStays
  <1>4. OthersStay(w) /\ TryMoves(w) /\ pc[w] \in HasRow
    BY <1>1, TryShape DEF HasRow, Phase, InTry, StatusPhase
  <1>5. CASE Leaves(w)
    BY <1>2, <1>3, <1>4, <1>5, StillFiling DEF Leaves, Writing, Reserved, Complete, Hitting
  <1>6. CASE SameWork(w)
    <2>1. CASE Work(w) \/ Heartbeat(w) \/ Validate(w)
      <3>1. \/ pc[w] = "work" /\ pc'[w] = "beat"
            \/ pc[w] = "beat" /\ pc'[w] = "publish"
            \/ pc[w] = "renew" /\ pc'[w] = "accept"
            \/ pc[w] = "validate" /\ pc'[w] = "renew"
            \/ pc'[w] = "abort"
        BY <1>1, <2>1 DEF Locals, Goto, Fail, GotoClocked, Work, Heartbeat, Validate
      <3>2. QED
        BY <1>2, <1>3, <1>4, <1>6, <3>1, StillFiling DEF Writing, Reserved, Complete, Hitting
    <2>2. CASE Accept(w) \/ AddManifest(w)
      <3>1. \/ pc[w] = "accept" /\ pc'[w] \in {"release", "manifest"}
            \/ pc[w] = "manifest" /\ pc'[w] = "lineage" /\ job[w].shard \in manifests'
        BY <1>1, <2>2 DEF Locals, Goto, Accept, AddManifest
      <3>2. QED
        BY <1>2, <1>3, <1>4, <1>6, <3>1, StillFiling DEF Writing, Reserved, Complete, Hitting
    <2>3. CASE AddLineage(w) \/ InsertLineage(w)
      <3>1. \/ pc[w] = "lineage" /\ pc'[w] \in {"lineage", "insert"}
            \/ pc[w] = "lineage" /\ pc'[w] = "commit" /\ Missing(w) = {}
            \/ pc[w] = "insert" /\ pc'[w] \in {"lineage", "abort"}
        BY <1>1, <2>3 DEF Locals, Goto, Fail, AddLineage, InsertLineage
      <3>2. Missing(w) = {} => Linked(job[w].key)
        BY DEF Missing, Linked
      <3>3. QED
        BY <1>2, <1>3, <1>4, <1>6, <3>1, <3>2, StillFiling DEF Writing, Reserved, Complete, Hitting
    <2>4. CASE Release(w) \/ Abort(w) \/ RecordError(w)
      <3>1. pc'[w] \in {"idle", "abort", "fail", "failing"}
        BY <1>1, <2>4 DEF Locals, Goto, Fail, ReturnAnswer, Release, Abort, RecordError
      <3>2. QED
        BY <1>2, <1>3, <1>4, <3>1, StillFiling DEF Writing, Reserved, Complete, Hitting
    <2>5. QED
      BY <2>1, <2>2, <2>3, <2>4 DEF TryStep
  <1>7. QED
    BY <1>4, <1>5, <1>6 DEF TryMoves

\* A step of w that writes its own directory d and keeps the rows.
LEMMA WriteFiling ==
  ASSUME IInv, Filing, shards' = shards, manifests' = manifests, lineage' = lineage,
         NEW w \in Executor, OthersStay(w), SameWork(w), Prepared(w)',
         DOMAIN disk' = DOMAIN disk \cup {Dir(w)},
         \A d \in DOMAIN disk \ {Dir(w)} : disk'[d] = disk[d],
         pc[w] \in Writing \/ Dir(w) \notin DOMAIN disk
  PROVE  Filing'
  <1>1. Prepared(w) /\ Dir(w)' = Dir(w)
    BY DEF Filing, SameWork, Dir
  <1>2. Dir(w) \in DOMAIN disk => disk[Dir(w)].state \notin {"complete", "damaged"}
    BY <1>1 DEF Prepared, Writing
  <1>3. Grows
    BY <1>2 DEF Grows, WholeStays
  <1>4. RowsFixed /\ \A s \in ShardId : RecordOK(s)'
    BY <1>3, StillRecords
  <1>5. ASSUME NEW v \in Others(w), pc[v] \in Writing
        PROVE  /\ Dir(v) \in DOMAIN disk' /\ disk'[Dir(v)].state = disk[Dir(v)].state
               /\ pc'[w] \in Writing => Dir(w)' # Dir(v)
    <2>1. Dir(v) \in DOMAIN disk
      BY <1>5 DEF Filing, Prepared, Writing, Others
    <2>2. Dir(v) # Dir(w)
      BY <1>5, <2>1 DEF Filing, DirsApart
    <2>3. QED
      BY <1>1, <2>1, <2>2
  <1>6. QED
    BY <1>3, <1>4, <1>5, KeepFiling

\* publish_attempt writes into the executor's own directory.
LEMMA PublishFiling ==
  ASSUME IInv, RowsOwned, Filing, NEW w \in Executor, Publish(w) \/ RenameManifest(w)
  PROVE  Filing'
  <1>1. Tables /\ Locals
    BY DEF IInv, TypeInv
  <1>2. /\ shards' = shards /\ manifests' = manifests /\ lineage' = lineage
    BY DEF Publish, RenameManifest, ledger
  <1>3. Prepared(w) /\ pc[w] \in Writing
    BY DEF Filing, Publish, RenameManifest, Writing, Reserved
  <1>4. Dir(w) \in DOMAIN disk
    BY <1>3 DEF Prepared, Writing
  <1>5. CASE disk' = disk
    <2>1. OthersStay(w) /\ pc'[w] \in {"abort"}
      <3>1. Fail(w, "abort", "validation") \/ Fail(w, "abort", "interrupted")
        <4>1. \A x : [disk EXCEPT ![Dir(w)] = x] = disk => disk[Dir(w)] = x
          BY <1>4
        <4>2. pc[w] = "publish" => disk[Dir(w)].state = "reserved"
          BY <1>3 DEF Prepared, Reserved
        <4>3. pc[w] = "rename" => disk[Dir(w)].state = "partial"
          BY <1>3 DEF Prepared
        <4>4. QED
          BY <1>5, <4>1, <4>2, <4>3 DEF Publish, RenameManifest
      <3>2. QED
        BY <1>1, <3>1, FailMoves
    <2>2. Grows
      BY <1>2, <1>5 DEF Grows, WholeStays
    <2>3. QED
      BY <1>2, <1>5, <2>1, <2>2, StillFiling DEF Writing, Reserved, Complete, Hitting
  <1>6. CASE /\ pc[w] = "publish" /\ Goto(w, "rename") /\ job' = job
             /\ disk' = [disk EXCEPT ![Dir(w)] = [state |-> "partial", key |-> None]]
    <2>1. OthersStay(w) /\ pc'[w] = "rename" /\ SameWork(w)
      BY <1>1, <1>6, GotoMoves
    <2>2. Dir(w)' = Dir(w)
      BY <1>2, <2>1 DEF SameWork, Dir
    <2>3. Prepared(w)'
      BY <1>4, <1>6, <2>1, <2>2 DEF Prepared, Reserved, Complete, Hitting
    <2>4. QED
      BY <1>2, <1>3, <1>4, <1>6, <2>1, <2>3, WriteFiling
  <1>7. CASE /\ pc[w] = "rename" /\ Goto(w, "validate") /\ job' = job
             /\ disk' = [disk EXCEPT ![Dir(w)] = [state |-> "complete", key |-> job[w].key]]
    <2>1. OthersStay(w) /\ pc'[w] = "validate" /\ SameWork(w)
      BY <1>1, <1>7, GotoMoves
    <2>2. Dir(w)' = Dir(w)
      BY <1>2, <2>1 DEF SameWork, Dir
    <2>3. Whole(Dir(w), job[w].key)'
      BY <1>4, <1>7, <2>1, <2>2 DEF Whole
    <2>4. Prepared(w)'
      BY <2>1, <2>3 DEF Prepared, Reserved, Complete, Hitting
    <2>5. QED
      BY <1>2, <1>3, <1>4, <1>7, <2>1, <2>4, WriteFiling
  <1>8. QED
    BY <1>5, <1>6, <1>7 DEF Publish, RenameManifest

\* new_shard takes a directory that does not exist yet.
LEMMA MkdirFiling ==
  ASSUME IInv, RowsOwned, Filing, NEW w \in Executor, Mkdir(w)
  PROVE  Filing'
  <1>1. Tables /\ Locals
    BY DEF IInv, TypeInv
  <1>2. /\ shards' = shards /\ manifests' = manifests /\ lineage' = lineage
    BY DEF Mkdir, ledger
  <1>3. OthersStay(w) /\ SameWork(w) /\ pc'[w] \in {"collided", "fail", "lease"}
    BY <1>1, GotoMoves, FailMoves DEF Mkdir
  <1>4. CASE disk' = disk /\ pc'[w] = "collided"
    <2>1. Grows
      BY <1>2, <1>4 DEF Grows, WholeStays
    <2>2. QED
      BY <1>2, <1>3, <1>4, <2>1, StillFiling DEF Writing, Reserved, Complete, Hitting
  <1>5. CASE /\ Dir(w) \notin DOMAIN disk
             /\ disk' = [d \in DOMAIN disk \cup {Dir(w)} |->
                           IF d = Dir(w) THEN [state |-> "reserved", key |-> None] ELSE disk[d]]
             /\ pc'[w] \in {"fail", "lease"}
    <2>1. Dir(w)' = Dir(w)
      BY <1>2, <1>3 DEF SameWork, Dir
    <2>2. Prepared(w)'
      BY <1>5, <2>1 DEF Prepared, Reserved, Complete, Hitting
    <2>3. /\ DOMAIN disk' = DOMAIN disk \cup {Dir(w)}
          /\ \A d \in DOMAIN disk \ {Dir(w)} : disk'[d] = disk[d]
      BY <1>5
    <2>4. QED
      BY <1>2, <1>3, <1>5, <2>2, <2>3, WriteFiling
  <1>6. QED
    BY <1>1, <1>4, <1>5, GotoMoves, FailMoves DEF Mkdir

\* Leases, interrupts and crashes touch neither rows nor files.
LEMMA StopFiling ==
  ASSUME IInv, RowsOwned, Filing, NEW w \in Executor, AcquireLease(w) \/ Interrupt(w) \/ Crash(w)
  PROVE  Filing'
  <1>1. Tables /\ Locals
    BY DEF IInv, TypeInv
  <1>2. shards' = shards /\ disk' = disk /\ manifests' = manifests /\ lineage' = lineage
    BY DEF AcquireLease, Interrupt, Crash, ledger
  <1>3. Grows
    BY <1>2 DEF Grows, WholeStays
  <1>4. CASE AcquireLease(w)
    <2>1. OthersStay(w) /\ SameWork(w) /\ pc'[w] \in {"start", "fail"} /\ pc[w] = "lease"
      BY <1>1, <1>4, GotoMoves, FailMoves DEF AcquireLease
    <2>2. QED
      BY <1>2, <1>3, <2>1, StillFiling
      DEF Writing, Reserved, Complete, Hitting, HasRow, Phase, InTry, StatusPhase
  <1>5. CASE Interrupt(w) \/ Crash(w)
    <2>1. OthersStay(w) /\ pc'[w] \in {"abort", "idle"}
      BY <1>1, <1>5, InterruptMoves, ReturnMoves DEF Crash, Leaves
    <2>2. QED
      BY <1>2, <1>3, <2>1, StillFiling DEF Writing, Reserved, Complete, Hitting
  <1>6. QED
    BY <1>4, <1>5

\* The row that a status change writes back.
LEMMA WrittenFields ==
  ASSUME IInv, NEW w \in Executor, pc[w] \in StatusPhase, Write(w), NEW s, s = job[w].shard
  PROVE  /\ s \in ShardId /\ shards[s].status # "none" /\ shards[s].key = job[w].key
         /\ shards'[s].status = Target(w) /\ Target(w) # "none"
         /\ shards'[s].key = shards[s].key /\ shards'[s].attempt = shards[s].attempt
         /\ shards'[s].hit = shards[s].hit
         /\ pc[w] = "commit" => shards'[s].dir = Dir(w)
         /\ pc[w] = "hit commit" => shards'[s].dir = shards[job[w].source].dir
         /\ pc[w] \notin {"commit", "hit commit"} => shards'[s].dir = shards[s].dir
         /\ Target(w) \in Accepted => pc[w] \in {"commit", "hit commit"}
         /\ \A t \in ShardId \ {s} : shards'[t] = shards[t]
  <1>1. Tables /\ Locals /\ pc[w] \in HasRow /\ LocalOK(pc[w], job[w])
    BY DEF IInv, TypeInv, HasRow, Phase, StatusPhase, InTry, Locals
  <1>2. s \in ShardId /\ shards[s].status # "none" /\ shards[s].key = job[w].key
    BY <1>1, RowLocals DEF IInv, RowsOK
  <1>3. shards[s] \in Row
    BY <1>1, <1>2 DEF Tables
  <1>4. Target(w) # "none" /\ (Target(w) \in Accepted => pc[w] \in {"commit", "hit commit"})
    BY <1>1 DEF Target, LocalOK, Accepts, InTry, StatusPhase, Accepted
  <1>5. shards'[s] = Written(w) /\ \A t \in ShardId \ {s} : shards'[t] = shards[t]
    BY <1>1, <1>2 DEF Write, Tables
  <1>6. CASE pc[w] = "commit"
    <2>1. Written(w) = [shards[s] EXCEPT !.status = Target(w), !.dir = Dir(w)]
      BY <1>6 DEF Written
    <2>2. QED
      BY <1>2, <1>3, <1>4, <1>5, <1>6, <2>1 DEF Row
  <1>7. CASE pc[w] = "hit commit"
    <2>1. Written(w) = [shards[s] EXCEPT !.status = Target(w), !.dir = shards[job[w].source].dir]
      BY <1>7 DEF Written
    <2>2. QED
      BY <1>2, <1>3, <1>4, <1>5, <1>7, <2>1 DEF Row
  <1>8. CASE pc[w] \notin {"commit", "hit commit"}
    <2>1. Written(w) = [shards[s] EXCEPT !.status = Target(w), !.dir = shards[s].dir]
      BY <1>8 DEF Written
    <2>2. QED
      BY <1>2, <1>3, <1>4, <1>5, <1>8, <2>1 DEF Row
  <1>9. QED
    BY <1>6, <1>7, <1>8

\* A status change records a directory only when its tree is complete.
LEMMA StatusFiling ==
  ASSUME IInv, RowsOwned, Filing, NEW w \in Executor, ReadRow(w) \/ WriteRow(w)
  PROVE  Filing'
  <1>1. Tables /\ Locals
    BY DEF IInv, TypeInv
  <1>2. /\ disk' = disk /\ manifests' = manifests /\ lineage' = lineage
        /\ pc[w] \in StatusPhase /\ pc[w] \in HasRow
    BY DEF ReadRow, WriteRow, HasRow, Phase, InTry, StatusPhase
  <1>3. Grows
    BY <1>2 DEF Grows, WholeStays
  <1>4. Prepared(w)
    BY DEF Filing
  <1>5. CASE Write(w)
    <2>1. PICK s : s = job[w].shard
      OBVIOUS
    <2>2. /\ s \in ShardId /\ shards[s].status # "none" /\ shards[s].key = job[w].key
          /\ shards'[s].status = Target(w) /\ Target(w) # "none"
          /\ shards'[s].key = shards[s].key /\ shards'[s].attempt = shards[s].attempt
          /\ shards'[s].hit = shards[s].hit
          /\ Target(w) \in Accepted => pc[w] \in {"commit", "hit commit"}
          /\ \A t \in ShardId \ {s} : shards'[t] = shards[t]
      BY <1>2, <1>5, <2>1, WrittenFields
    <2>3. /\ pc[w] = "commit" => shards'[s].dir = Dir(w)
          /\ pc[w] = "hit commit" => shards'[s].dir = shards[job[w].source].dir
          /\ pc[w] \notin {"commit", "hit commit"} => shards'[s].dir = shards[s].dir
      BY <1>2, <1>5, <2>1, WrittenFields
    <2>4. Dir(w) # None /\ Dir(w)[2] = shards[s].attempt
      <3>1. Dir(w) \in Slot \X Nat
        BY <1>1, <1>2, RowLocals DEF Dir, Tables, Row
      <3>2. QED
        BY <2>1, <3>1, LedgerAssumption DEF Dir
    <2>5. RowsFixed
      BY <1>4, <2>2, <2>3, <2>4 DEF RowsFixed, Prepared, Hitting
    <2>6. RecordOK(s)'
      <3>1. CASE pc[w] = "commit"
        <4>1. Whole(Dir(w), job[w].key) /\ Linked(job[w].key) /\ s \in manifests
          BY <1>4, <2>1, <3>1 DEF Prepared, Complete
        <4>2. Whole(shards[s].dir, shards[s].key)' /\ Linked(shards[s].key)'
          BY <1>2, <2>2, <2>3, <3>1, <4>1 DEF Whole, Linked
        <4>3. QED
          BY <1>2, <2>2, <2>3, <2>4, <3>1, <4>1, <4>2 DEF RecordOK
      <3>2. CASE pc[w] = "hit commit"
        <4>1. PICK t : t = job[w].source
          OBVIOUS
        <4>2. t \in ShardId /\ shards[t].dir # None /\ shards[t].key = job[w].key
              /\ shards[s].hit
          BY <1>1, <1>4, <2>1, <3>2, <4>1 DEF Prepared, Hitting, Locals, LocalOK
        <4>3. Whole(shards[t].dir, shards[t].key) /\ Linked(shards[t].key)
          BY <4>2 DEF Filing, RecordOK
        <4>4. Whole(shards[s].dir, shards[s].key)' /\ Linked(shards[s].key)'
          BY <1>2, <2>2, <2>3, <3>2, <4>1, <4>2, <4>3 DEF Whole, Linked
        <4>5. QED
          BY <2>2, <2>3, <3>2, <4>1, <4>2, <4>4 DEF RecordOK
      <3>3. CASE pc[w] \notin {"commit", "hit commit"}
        BY <1>3, <2>2, <2>3, <3>3, RecordStays
      <3>4. QED
        BY <3>1, <3>2, <3>3
    <2>7. \A t \in ShardId : RecordOK(t)'
      BY <1>3, <2>2, <2>6, RecordStays
    <2>8. /\ OthersStay(w)
          /\ \/ Leaves(w)
             \/ SameWork(w) /\ pc'[w] = After[pc[w]]
      BY <1>1, <1>2, <1>5, WriteMoves
    <2>9. \/ pc'[w] \in {"idle", "add", "release"}
          \/ pc[w] = "hit start" /\ pc'[w] = "hit commit" /\ SameWork(w)
          \/ pc[w] = "start" /\ pc'[w] = "work" /\ SameWork(w)
      BY <1>2, <2>8 DEF Leaves, After, StatusPhase
    <2>10. SameWork(w) => Dir(w)' = Dir(w)
      BY <2>1, <2>2 DEF SameWork, Dir
    <2>11. Prepared(w)'
      <3>1. CASE pc'[w] \in {"idle", "add", "release"}
        BY <3>1 DEF Prepared, Reserved, Complete, Hitting
      <3>2. CASE pc[w] = "start" /\ pc'[w] = "work" /\ SameWork(w)
        BY <1>2, <1>4, <2>10, <3>2 DEF Prepared, Reserved, Complete, Hitting
      <3>3. CASE pc[w] = "hit start" /\ pc'[w] = "hit commit" /\ SameWork(w)
        <4>1. job[w].source \in ShardId /\ shards[job[w].source].dir # None
              /\ shards[job[w].source].key = job[w].key /\ shards[s].hit
          BY <1>1, <1>4, <2>1, <3>3 DEF Prepared, Hitting, Locals, LocalOK
        <4>2. shards[job[w].source].status # "none"
          BY <4>1 DEF Filing, RecordOK
        <4>3. QED
          BY <2>1, <2>2, <2>5, <3>3, <4>1, <4>2 DEF Prepared, Reserved, Complete, Hitting, SameWork, RowsFixed
      <3>4. QED
        BY <2>9, <3>1, <3>2, <3>3
    <2>12. ASSUME NEW v \in Others(w), pc[v] \in Writing
           PROVE  /\ Dir(v) \in DOMAIN disk' /\ disk'[Dir(v)].state = disk[Dir(v)].state
                  /\ pc'[w] \in Writing => Dir(w)' # Dir(v)
      <3>1. Dir(v) \in DOMAIN disk
        BY <2>12 DEF Filing, Prepared, Writing, Others
      <3>2. pc'[w] \in Writing => pc[w] \in Writing /\ Dir(w)' = Dir(w)
        BY <2>9, <2>10 DEF Writing, Reserved
      <3>3. QED
        BY <1>2, <2>12, <3>1, <3>2 DEF Filing, DirsApart
    <2>13. QED
      BY <1>3, <2>5, <2>7, <2>8, <2>11, <2>12, KeepFiling
  <1>6. CASE job' = [job EXCEPT ![w].read = TRUE] /\ UNCHANGED <<shards, pc, escaped>>
    <2>1. OthersStay(w) /\ SameWork(w) /\ pc'[w] = pc[w] /\ shards' = shards
      BY <1>1, <1>6, ReadMoves
    <2>2. QED
      BY <1>2, <1>3, <2>1, StillFiling
  <1>7. CASE shards' = shards /\ ((Goto(w, "release") /\ job' = job) \/ ReturnAnswer(w))
    <2>1. OthersStay(w) /\ pc'[w] \in {"release", "idle"}
      BY <1>1, <1>7, GotoMoves, ReturnMoves DEF Leaves
    <2>2. QED
      BY <1>2, <1>3, <1>7, <2>1, StillFiling DEF Writing, Reserved, Complete, Hitting
  <1>8. QED
    BY <1>5, <1>6, <1>7 DEF ReadRow, WriteRow

\* A hit names an attempt with a directory of the same key.
LEMMA BeginFiling ==
  ASSUME IInv, RowsOwned, Filing, NEW w \in Executor,
         \/ Lookup(w)
         \/ \E k \in Key, d \in Slot, force \in Forces, verdict \in Verdicts :
              Execute(w, k, d, force, verdict)
  PROVE  Filing'
  <1>1. Tables /\ Locals
    BY DEF IInv, TypeInv
  <1>2. shards' = shards /\ disk' = disk /\ manifests' = manifests /\ lineage' = lineage
    BY DEF Lookup, Execute, ledger
  <1>3. Grows
    BY <1>2 DEF Grows, WholeStays
  <1>4. /\ OthersStay(w)
        /\ \/ pc'[w] \in {"add", "lookup"}
           \/ /\ pc'[w] = "hit" /\ job'[w].source \in Adoptable(job[w].key)
              /\ job'[w].key = job[w].key
    BY <1>1, LookupMoves, ExecuteMoves
  <1>5. CASE pc'[w] \in {"add", "lookup"}
    BY <1>2, <1>3, <1>4, <1>5, StillFiling DEF Writing, Reserved, Complete, Hitting
  <1>6. CASE /\ pc'[w] = "hit" /\ job'[w].source \in Adoptable(job[w].key)
             /\ job'[w].key = job[w].key
    <2>1. shards[job'[w].source].dir # None /\ shards[job'[w].source].key = job[w].key
      BY <1>6 DEF Adoptable, Rows
    <2>2. Prepared(w)'
      BY <1>2, <1>6, <2>1 DEF Prepared, Reserved, Complete, Hitting
    <2>3. RowsFixed /\ \A s \in ShardId : RecordOK(s)'
      BY <1>2, <1>3, StillRecords
    <2>4. \A v \in Others(w) : pc[v] \in Writing =>
            /\ Dir(v) \in DOMAIN disk' /\ disk'[Dir(v)].state = disk[Dir(v)].state
            /\ pc'[w] \in Writing => Dir(w)' # Dir(v)
      BY <1>2, <1>6 DEF Filing, Prepared, Writing, Reserved, Others
    <2>5. QED
      BY <1>3, <1>4, <2>2, <2>3, <2>4, KeepFiling
  <1>7. QED
    BY <1>4, <1>5, <1>6

\* add_shard's row names no directory yet.
LEMMA AddShardFiling ==
  ASSUME IInv, RowsOwned, Filing, NEW w \in Executor, AddShard(w)
  PROVE  Filing'
  <1> DEFINE s == job'[w].shard
             row == [EmptyRow EXCEPT !.status = "pending", !.key = job[w].key,
                                  !.attempt = NextAttempt(job[w].key), !.hit = pc[w] = "hit"]
  <1>1. Tables /\ Locals /\ Prepared(w)
    BY DEF IInv, TypeInv, Filing
  <1>2. disk' = disk /\ manifests' = manifests /\ lineage' = lineage
    BY DEF AddShard
  <1>3. Grows
    BY <1>2 DEF Grows, WholeStays
  <1>4. /\ OthersStay(w) /\ s \in Unused /\ shards' = [shards EXCEPT ![s] = row]
        /\ job'[w].key = job[w].key /\ job'[w].source = job[w].source
        /\ \/ pc[w] = "hit" /\ pc'[w] = "hit start"
           \/ pc[w] = "add" /\ pc'[w] = "mkdir"
    BY <1>1, AddShardMoves
  <1>5. s \in ShardId /\ shards[s].status = "none"
    BY <1>4 DEF Unused
  <1>6. row.status = "pending" /\ row.dir = None /\ (pc[w] = "hit" => row.hit)
    BY DEF EmptyRow
  <1>7. shards'[s] = row /\ \A t \in ShardId \ {s} : shards'[t] = shards[t]
    BY <1>1, <1>4, <1>5 DEF Tables
  <1>8. RowsFixed
    BY <1>5, <1>7 DEF RowsFixed
  <1>9. \A t \in ShardId : t = s => RecordOK(t)'
    BY <1>6, <1>7 DEF RecordOK, Accepted
  <1>10. \A t \in ShardId : RecordOK(t)'
    BY <1>3, <1>7, <1>9, RecordStays
  <1>11. Prepared(w)'
    <2>1. CASE pc[w] = "add" /\ pc'[w] = "mkdir"
      BY <2>1 DEF Prepared, Reserved, Complete, Hitting
    <2>2. CASE pc[w] = "hit" /\ pc'[w] = "hit start"
      <3>1. job[w].source \in ShardId /\ shards[job[w].source].dir # None
            /\ shards[job[w].source].key = job[w].key
        BY <1>1, <2>2 DEF Prepared, Hitting, Locals, LocalOK
      <3>2. shards[job[w].source].status # "none"
        BY <3>1 DEF Filing, RecordOK
      <3>3. shards'[job[w].source] = shards[job[w].source]
        BY <1>5, <1>7, <3>1, <3>2
      <3>4. shards'[s].hit
        BY <1>6, <1>7, <2>2
      <3>5. QED
        BY <1>4, <2>2, <3>1, <3>3, <3>4 DEF Prepared, Reserved, Complete, Hitting
    <2>3. QED
      BY <1>4, <2>1, <2>2
  <1>12. \A v \in Others(w) : pc[v] \in Writing =>
           /\ Dir(v) \in DOMAIN disk' /\ disk'[Dir(v)].state = disk[Dir(v)].state
           /\ pc'[w] \in Writing => Dir(w)' # Dir(v)
    BY <1>2, <1>4 DEF Filing, Prepared, Writing, Reserved, Others
  <1>13. QED
    BY <1>3, <1>4, <1>8, <1>10, <1>11, <1>12, KeepFiling

\* A step of no executor that marks rows at most and damages complete trees.
LEMMA EnvironmentFiling ==
  ASSUME IInv, Filing, Grows, pc' = pc, job' = job,
         \A d \in DOMAIN disk : disk[d].state # "complete" =>
           d \in DOMAIN disk' /\ disk'[d] = disk[d],
         \A s \in ShardId :
           /\ shards'[s].key = shards[s].key /\ shards'[s].attempt = shards[s].attempt
           /\ shards'[s].hit = shards[s].hit /\ shards'[s].dir = shards[s].dir
           /\ shards'[s].status \in {shards[s].status, "stale"}
  PROVE  Filing'
  <1>1. RowsFixed
    BY DEF RowsFixed
  <1>2. \A s \in ShardId : RecordOK(s)'
    BY RecordStays DEF Accepted
  <1>3. ASSUME NEW v \in Executor PROVE Prepared(v)'
    <2>1. Prepared(v)
      BY DEF Filing
    <2>2. pc[v] \in Writing => Dir(v) \in DOMAIN disk /\ disk[Dir(v)].state # "complete"
      BY <2>1 DEF Prepared, Writing
    <2>3. QED
      BY <1>1, <2>1, <2>2, PreparedStays
  <1>4. Writing \subseteq HasRow
    BY DEF Writing, Reserved, HasRow, Phase, InTry, StatusPhase
  <1>5. \A v \in Executor : pc[v] \in Writing => Dir(v)' = Dir(v)
    BY <1>1, <1>4, DirStays
  <1>6. DirsApart'
    BY <1>5 DEF Filing, DirsApart, Others
  <1>7. QED
    BY <1>2, <1>3, <1>6 DEF Filing

\* Every step keeps files, rows and phases in agreement.
LEMMA NextFiling == IInv /\ RowsOwned /\ Filing /\ [Next]_vars => Filing'
  <1> SUFFICES ASSUME IInv, RowsOwned, Filing, [Next]_vars PROVE Filing'
    OBVIOUS
  <1>1. ASSUME NEW w \in Executor, Step(w) PROVE Filing'
    BY <1>1, TryFiling, PublishFiling, MkdirFiling, StopFiling, StatusFiling, BeginFiling,
       AddShardFiling DEF Step, TryStep
  <1>2. ASSUME NEW w \in Executor, NEW k \in Key, NEW d \in Slot, NEW force \in Forces,
               NEW verdict \in Verdicts, Execute(w, k, d, force, verdict)
        PROVE  Filing'
    BY <1>2, BeginFiling
  <1>3. ASSUME NEW w \in Executor, Interrupt(w) \/ Crash(w) PROVE Filing'
    BY <1>3, StopFiling
  <1>4. CASE Invalidate \/ \E k \in Key : InvalidateOwned(Owned[k])
    <2>1. /\ pc' = pc /\ job' = job /\ disk' = disk /\ manifests' = manifests
          /\ lineage' = lineage
      BY <1>4 DEF Invalidate, ReadLineage, SelectRows, UpdateRows, InvalidateOwned, ledger
    <2>2. ASSUME NEW s \in ShardId
          PROVE  /\ shards'[s].key = shards[s].key /\ shards'[s].attempt = shards[s].attempt
                 /\ shards'[s].hit = shards[s].hit /\ shards'[s].dir = shards[s].dir
                 /\ shards'[s].status \in {shards[s].status, "stale"}
      <3>1. shards[s] \in Row
        BY DEF IInv, TypeInv, Tables
      <3>2. ASSUME NEW rows, MarkRows(rows)
            PROVE  \/ shards'[s] = shards[s]
                   \/ shards'[s] = [shards[s] EXCEPT !.status = "stale"]
        BY <3>2 DEF MarkRows
      <3>3. shards'[s] = shards[s] \/ shards'[s] = [shards[s] EXCEPT !.status = "stale"]
        BY <1>4, <3>2 DEF Invalidate, ReadLineage, SelectRows, UpdateRows, InvalidateOwned, ledger
      <3>4. QED
        BY <3>1, <3>3 DEF Row
    <2>3. QED
      BY <2>1, <2>2, EnvironmentFiling DEF Grows, WholeStays
  <1>5. CASE Advance \/ UNCHANGED vars
    BY <1>5, EnvironmentFiling DEF Advance, vars, ledger, Grows, WholeStays
  <1>6. ASSUME NEW d \in DOMAIN disk, Damage(d) PROVE Filing'
    <2>1. \A e \in DOMAIN disk : e # d => disk'[e] = disk[e]
      BY <1>6 DEF Damage
    <2>2. disk[d].state = "complete" /\ disk[d] \in Tree /\ disk'[d] = [disk[d] EXCEPT !.state = "damaged"]
      BY <1>6 DEF Damage, IInv, TypeInv, Tables
    <2>3. disk'[d].state = "damaged" /\ disk'[d].key = disk[d].key /\ DOMAIN disk' = DOMAIN disk
      BY <1>6, <2>2 DEF Tree, Damage
    <2>4. Grows
      BY <1>6, <2>1, <2>3 DEF Grows, WholeStays, Damage, ledger
    <2>5. QED
      BY <1>6, <2>1, <2>2, <2>3, <2>4, EnvironmentFiling DEF Damage, ledger
  <1>7. CASE Restart
    <2>1. \A w \in Executor : pc'[w] = "idle"
      BY <1>7 DEF Restart
    <2>2. \A s \in ShardId : shards'[s] = EmptyRow
      BY <1>7 DEF Restart
    <2>3. \A w \in Executor : Prepared(w)'
      BY <2>1 DEF Prepared, Reserved, Complete, Hitting
    <2>4. DirsApart'
      BY <2>1 DEF DirsApart, Writing, Reserved
    <2>5. \A s \in ShardId : RecordOK(s)'
      BY <2>2 DEF RecordOK, EmptyRow, Accepted
    <2>6. QED
      BY <2>3, <2>4, <2>5 DEF Filing
  <1>8. QED
    BY <1>1, <1>2, <1>3, <1>4, <1>5, <1>6, <1>7 DEF Next

-----------------------------------------------------------------------------
(* Whose lease an attempt is accepted under.                               *)

\* The phases between the second heartbeat and the accepting transition.
Holding == {"accept", "manifest", "lineage", "insert", "commit"}

\* An executor took its clock value in the past; since the second heartbeat its
\* lease is the one it renewed, or the time of that lease is over.
Timed(w) ==
  /\ job[w].at <= now
  /\ pc[w] \in Holding =>
       \/ job[w].at + TTL <= now
       \/ leases[job[w].shard] = [status |-> "acquired", expires |-> job[w].at + TTL]

\* The invariant behind AcceptedUnderLease.
Timing == \A w \in Executor : Timed(w)

\* A step of w takes a lease from nobody before its time.
LEMMA KeepTiming ==
  ASSUME IInv, Timing, NEW w \in Executor, OthersStay(w), now' = now, Timed(w)',
         \A v \in Others(w) : pc[v] \in Holding =>
           \/ leases'[job[v].shard] = leases[job[v].shard]
           \/ leases[job[v].shard].expires <= now
  PROVE  Timing'
  <1>1. ASSUME NEW v \in Others(w) PROVE Timed(v)'
    <2>1. Timed(v) /\ pc'[v] = pc[v] /\ job'[v] = job[v]
      BY DEF Timing, Others, OthersStay
    <2>2. CASE pc[v] \in Holding /\ leases'[job[v].shard] # leases[job[v].shard]
      <3>1. job[v].at + TTL <= now
        BY <2>1, <2>2 DEF Timed
      <3>2. QED
        BY <2>1, <3>1 DEF Timed
    <2>3. CASE pc[v] \notin Holding \/ leases'[job[v].shard] = leases[job[v].shard]
      BY <2>1, <2>3 DEF Timed
    <2>4. QED
      BY <2>2, <2>3
  <1>2. QED
    BY <1>1 DEF Timing, Others

\* A step of w that changes no lease but its own.
LEMMA OwnTiming ==
  ASSUME IInv, RowsOwned, Timing, NEW w \in Executor, OthersStay(w), now' = now, Timed(w)',
         \A t \in ShardId : t # job[w].shard => leases'[t] = leases[t]
  PROVE  Timing'
  <1>1. ASSUME NEW v \in Others(w), pc[v] \in Holding
        PROVE  leases'[job[v].shard] = leases[job[v].shard]
    <2>1. pc[v] \in HasRow
      BY <1>1 DEF Holding, HasRow, Phase, InTry, StatusPhase
    <2>2. job[v].shard \in ShardId
      BY <2>1, RowLocals DEF IInv, TypeInv, Others
    <2>3. job[v].shard # job[w].shard
      BY <2>2, LedgerAssumption DEF RowsOwned, Others
    <2>4. QED
      BY <2>2, <2>3
  <1>2. QED
    BY <1>1, KeepTiming

\* The steps of the try block: the second heartbeat sets what acceptance relies on.
LEMMA TryTiming ==
  ASSUME IInv, RowsOwned, Timing, NEW w \in Executor, TryStep(w)
  PROVE  Timing'
  <1> DEFINE s == job[w].shard
  <1>1. Tables /\ Locals
    BY DEF IInv, TypeInv
  <1>2. OthersStay(w) /\ pc[w] \in InTry \cup {"abort", "fail"}
    BY <1>1, TryShape
  <1>3. s \in ShardId /\ job[w] \in Job /\ Timed(w) /\ now' = now
    <2>1. pc[w] \in HasRow
      BY <1>2 DEF HasRow, Phase, InTry, StatusPhase
    <2>2. now' = now
      BY DEF TryStep, Work, Heartbeat, Publish, RenameManifest, Validate, Accept, AddManifest,
             AddLineage, InsertLineage, Release, Abort, RecordError
    <2>3. QED
      BY <1>1, <2>1, <2>2, RowLocals DEF Timing
  <1>4. job[w].at \in Nat /\ now \in Nat /\ TTL \in Nat
    BY <1>1, <1>3, LedgerAssumption DEF Job, Tables
  <1>5. \A t \in ShardId : t # s => leases'[t] = leases[t]
    <2>1. CASE Heartbeat(w)
      BY <1>1, <1>3, <2>1 DEF Heartbeat, Tables
    <2>2. CASE Release(w) \/ Abort(w)
      BY <1>1, <1>3, <2>2 DEF Release, Abort, Tables
    <2>3. CASE leases' = leases
      BY <2>3
    <2>4. QED
      BY <2>1, <2>2, <2>3 DEF TryStep, Work, Publish, RenameManifest, Validate, Accept,
             AddManifest, AddLineage, InsertLineage, RecordError, ledger
  <1>6. CASE Work(w) \/ Validate(w)
    <2>1. pc'[w] \notin Holding /\ job'[w].at \in {job[w].at, now}
      BY <1>1, <1>6, ClockMoves, FailMoves DEF Work, Validate, Holding
    <2>2. Timed(w)'
      BY <1>3, <1>4, <2>1 DEF Timed
    <2>3. QED
      BY <1>2, <1>3, <1>5, <2>2, OwnTiming
  <1>7. CASE Heartbeat(w)
    <2>1. CASE Alive(w) /\ leases' = [leases EXCEPT ![s].expires = job[w].at + TTL]
               /\ pc'[w] \in {"publish", "accept"} /\ job' = job
      <3>1. leases'[s] = [status |-> "acquired", expires |-> job[w].at + TTL]
        <4>1. leases[s] \in Lease /\ leases[s].status = "acquired"
          BY <1>1, <1>3, <2>1 DEF Tables, Alive
        <4>2. leases'[s] = [leases[s] EXCEPT !.expires = job[w].at + TTL]
          BY <1>1, <1>3, <2>1 DEF Tables
        <4>3. QED
          BY <4>1, <4>2 DEF Lease
      <3>2. Timed(w)'
        BY <1>3, <2>1, <3>1 DEF Timed
      <3>3. QED
        BY <1>2, <1>3, <1>5, <3>2, OwnTiming
    <2>2. CASE Fail(w, "abort", "lease-expired")
      <3>1. Timed(w)'
        BY <1>1, <1>3, <2>2, FailMoves DEF Timed, Holding
      <3>2. QED
        BY <1>2, <1>3, <1>5, <3>1, OwnTiming
    <2>3. QED
      BY <1>1, <1>7, <2>1, <2>2, GotoMoves DEF Heartbeat
  <1>8. CASE Publish(w) \/ RenameManifest(w) \/ Release(w) \/ Abort(w) \/ RecordError(w)
    <2>1. pc'[w] \notin Holding
      BY <1>1, <1>8 DEF Locals, Goto, Fail, ReturnAnswer, Holding, Publish, RenameManifest, Release, Abort,
                        RecordError
    <2>2. job'[w].at \in {job[w].at, 0}
      <3>1. NoJob.at = 0
        BY DEF NoJob
      <3>2. QED
        BY <1>1, <1>8, <3>1, GotoMoves, FailMoves, ReturnMoves
        DEF Leaves, Publish, RenameManifest, Release, Abort, RecordError
    <2>3. Timed(w)'
      BY <1>3, <1>4, <2>1, <2>2 DEF Timed
    <2>4. QED
      BY <1>2, <1>3, <1>5, <2>3, OwnTiming
  <1>9. CASE Accept(w) \/ AddManifest(w) \/ AddLineage(w) \/ InsertLineage(w)
    <2>1. /\ leases' = leases /\ pc[w] \in Holding
          /\ \/ job'[w] = job[w]
             \/ \E u : job'[w] = [job[w] EXCEPT !.edge = u]
             \/ \E c : job'[w] = [job[w] EXCEPT !.code = c]
      <3>1. CASE Accept(w) \/ AddManifest(w)
        BY <3>1 DEF Accept, AddManifest, Holding, ledger
      <3>2. CASE AddLineage(w)
        BY <1>1, <3>2 DEF Locals, AddLineage, Holding
      <3>3. CASE InsertLineage(w)
        BY <1>1, <3>3 DEF Locals, InsertLineage, Fail, Holding
      <3>4. QED
        BY <1>9, <3>1, <3>2, <3>3
    <2>2. job'[w].at = job[w].at /\ job'[w].shard = s
      BY <1>3, <2>1 DEF Job
    <2>3. Timed(w)'
      BY <1>3, <2>1, <2>2 DEF Timed
    <2>4. QED
      BY <1>2, <1>3, <1>5, <2>3, OwnTiming
  <1>10. QED
    BY <1>6, <1>7, <1>8, <1>9 DEF TryStep

\* acquire_lease takes over what is overdue at its own clock value only.
LEMMA AcquireTiming ==
  ASSUME IInv, RowsOwned, Timing, NEW w \in Executor, AcquireLease(w)
  PROVE  Timing'
  <1> DEFINE s == job[w].shard
             held == Held(job[w].key)
  <1>1. Tables /\ Locals
    BY DEF IInv, TypeInv
  <1>2. now' = now /\ OthersStay(w) /\ pc'[w] \in {"start", "fail"} /\ job'[w].at = job[w].at
    BY <1>1, GotoMoves, FailMoves DEF AcquireLease
  <1>3. Timed(w) /\ job[w].at \in Nat /\ now \in Nat
    BY <1>1 DEF Timing, Locals, Job, Tables
  <1>4. Timed(w)'
    BY <1>2, <1>3 DEF Timed, Holding
  <1>5. ASSUME NEW v \in Others(w), pc[v] \in Holding
        PROVE  \/ leases'[job[v].shard] = leases[job[v].shard]
               \/ leases[job[v].shard].expires <= now
    <2>1. pc[v] \in HasRow
      BY <1>5 DEF Holding, HasRow, Phase, InTry, StatusPhase
    <2>2. job[v].shard \in ShardId
      BY <2>1, RowLocals DEF IInv, TypeInv, Others
    <2>3. job[v].shard # s
      BY <2>2, LedgerAssumption DEF RowsOwned, Others
    <2>4. leases[job[v].shard].expires \in Nat
      BY <1>1, <2>2 DEF Tables, Lease
    <2>5. CASE leases' = leases
      BY <2>5
    <2>6. CASE (\A t \in held \ {s} : leases[t].expires <= job[w].at)
               /\ leases' = Granted(s, held, job[w].at)
      <3>1. CASE job[v].shard \in held
        BY <1>3, <2>3, <2>4, <2>6, <3>1 DEF Timed
      <3>2. CASE job[v].shard \notin held
        BY <2>2, <2>3, <2>6, <3>2 DEF Granted
      <3>3. QED
        BY <3>1, <3>2
    <2>7. QED
      BY <2>5, <2>6 DEF AcquireLease
  <1>6. QED
    BY <1>2, <1>4, <1>5, KeepTiming

\* Every step leaves a renewed lease to its holder until its time is over.
LEMMA NextTiming == IInv /\ RowsOwned /\ Timing /\ [Next]_vars => Timing'
  <1> SUFFICES ASSUME IInv, RowsOwned, Timing, [Next]_vars PROVE Timing'
    OBVIOUS
  <1>1. Tables /\ Locals
    BY DEF IInv, TypeInv
  <1>2. \A w \in Executor : Timed(w) /\ job[w].at \in Nat
    BY <1>1 DEF Timing, Locals, Job
  <1>3. now \in Nat /\ NoJob.at = 0
    BY <1>1 DEF Tables, NoJob
  <1>4. ASSUME NEW w \in Executor, leases' = leases, now' = now, OthersStay(w),
               pc'[w] \notin Holding, job'[w].at \in {job[w].at, now, 0}
        PROVE  Timing'
    <2>1. Timed(w)'
      BY <1>2, <1>3, <1>4 DEF Timed
    <2>2. QED
      BY <1>4, <2>1, OwnTiming
  <1>5. ASSUME NEW w \in Executor, ReadRow(w) \/ WriteRow(w) PROVE Timing'
    <2>1. pc[w] \in StatusPhase /\ leases' = leases /\ now' = now
      BY <1>5 DEF ReadRow, WriteRow
    <2>2. CASE Write(w)
      <3>1. /\ OthersStay(w)
            /\ \/ Leaves(w)
               \/ pc'[w] = After[pc[w]] /\ job'[w].at = job[w].at
        BY <1>1, <2>1, <2>2, WriteMoves
      <3>2. pc'[w] \notin Holding /\ job'[w].at \in {job[w].at, 0}
        BY <1>3, <2>1, <3>1 DEF Leaves, After, StatusPhase, Holding
      <3>3. QED
        BY <1>4, <2>1, <3>1, <3>2
    <2>3. CASE job' = [job EXCEPT ![w].read = TRUE] /\ pc' = pc
      <3>1. OthersStay(w) /\ SameWork(w) /\ pc'[w] = pc[w] /\ job'[w].at = job[w].at
        BY <1>1, <2>3, ReadMoves
      <3>2. Timed(w)'
        BY <1>2, <2>1, <3>1 DEF Timed, SameWork
      <3>3. QED
        BY <2>1, <3>1, <3>2, OwnTiming
    <2>4. CASE (Goto(w, "release") /\ job' = job) \/ ReturnAnswer(w)
      BY <1>1, <1>3, <1>4, <2>1, <2>4, GotoMoves, ReturnMoves DEF Leaves, Holding
    <2>5. QED
      BY <1>5, <2>2, <2>3, <2>4 DEF ReadRow, WriteRow
  <1>6. ASSUME NEW w \in Executor, Mkdir(w) \/ Lookup(w) \/ AddShard(w) PROVE Timing'
    <2>1. leases' = leases /\ now' = now
      BY <1>6 DEF Mkdir, Lookup, AddShard, ledger
    <2>2. CASE Mkdir(w)
      BY <1>1, <1>4, <2>1, <2>2, GotoMoves, FailMoves DEF Mkdir, Holding
    <2>3. CASE Lookup(w)
      BY <1>1, <1>4, <2>1, <2>3, LookupMoves DEF Holding
    <2>4. CASE AddShard(w)
      BY <1>1, <1>4, <2>1, <2>4, AddShardMoves DEF Holding
    <2>5. QED
      BY <1>6, <2>2, <2>3, <2>4
  <1>7. ASSUME NEW w \in Executor, Interrupt(w) \/ Crash(w) PROVE Timing'
    <2>1. leases' = leases /\ now' = now
      BY <1>7 DEF Interrupt, Crash, ledger
    <2>2. QED
      BY <1>1, <1>3, <1>4, <1>7, <2>1, InterruptMoves, ReturnMoves DEF Crash, Leaves, Holding
  <1>8. ASSUME NEW w \in Executor, NEW k \in Key, NEW d \in Slot, NEW force \in Forces,
               NEW verdict \in Verdicts, Execute(w, k, d, force, verdict)
        PROVE  Timing'
    <2>1. leases' = leases /\ now' = now
      BY <1>8 DEF Execute, ledger
    <2>2. OthersStay(w) /\ pc'[w] \in {"add", "lookup"} /\ job'[w].at = now
      BY <1>1, <1>8, ExecuteMoves
    <2>3. QED
      BY <1>4, <2>1, <2>2 DEF Holding
  <1>9. CASE Restart
    BY <1>2, <1>9 DEF Restart, Timing, Timed, Holding
  <1>10. CASE Advance
    <2>1. now' = now + 1 /\ pc' = pc /\ job' = job /\ leases' = leases
      BY <1>10 DEF Advance, ledger
    <2>2. TTL \in Nat
      BY LedgerAssumption
    <2>3. QED
      BY <1>2, <1>3, <2>1, <2>2 DEF Timing, Timed
  <1>11. CASE Invalidate \/ (\E k \in Key : InvalidateOwned(Owned[k]))
              \/ (\E d \in DOMAIN disk : Damage(d)) \/ UNCHANGED vars
    <2>1. now' = now /\ pc' = pc /\ job' = job /\ leases' = leases
      BY <1>11 DEF Invalidate, ReadLineage, SelectRows, UpdateRows, InvalidateOwned, Damage, vars, ledger
    <2>2. QED
      BY <2>1 DEF Timing, Timed
  <1>12. QED
    BY <1>5, <1>6, <1>7, <1>8, <1>9, <1>10, <1>11, TryTiming, AcquireTiming DEF Next, Step, TryStep

-----------------------------------------------------------------------------
(* The ledger in memory.                                                   *)

\* In memory a status change and mark_stale are one step each.
Undivided == inval.pc # "update" /\ \A w \in Executor : ~job[w].read

\* Every step keeps it so.
LEMMA NextUndivided == ~Durable /\ IInv /\ Undivided /\ [Next]_vars => Undivided'
  <1> SUFFICES ASSUME ~Durable, IInv, Undivided, [Next]_vars PROVE Undivided'
    OBVIOUS
  <1>1. Tables /\ Locals /\ ~NoJob.read /\ NoInval.pc = "rest"
    BY DEF IInv, TypeInv, NoJob, NoInval
  <1>2. ASSUME NEW w \in Executor, inval' = inval, OthersStay(w), ~job'[w].read
        PROVE  Undivided'
    BY <1>2 DEF Undivided, OthersStay, Others
  <1>3. ASSUME NEW w \in Executor, TryStep(w) PROVE Undivided'
    <2>1. inval' = inval
      BY <1>3 DEF TryStep, Work, Heartbeat, Publish, RenameManifest, Validate, Accept, AddManifest,
             AddLineage, InsertLineage, Release, Abort, RecordError
    <2>2. OthersStay(w)
      BY <1>1, <1>3, TryShape
    <2>3. job[w] \in Job /\ ~job[w].read
      BY <1>1 DEF Locals, Undivided
    <2>4. ASSUME Work(w) \/ Heartbeat(w) \/ Publish(w) \/ RenameManifest(w) \/ Validate(w)
          PROVE  ~job'[w].read
      BY <1>1, <2>3, <2>4, GotoMoves, FailMoves, ClockMoves
      DEF Work, Heartbeat, Publish, RenameManifest, Validate
    <2>5. ASSUME Accept(w) \/ AddManifest(w) \/ Release(w) \/ Abort(w) \/ RecordError(w)
          PROVE  ~job'[w].read
      BY <1>1, <2>3, <2>5, GotoMoves, FailMoves, ReturnMoves
      DEF Accept, AddManifest, Release, Abort, RecordError, Leaves
    <2>6. ASSUME AddLineage(w) \/ InsertLineage(w) PROVE ~job'[w].read
      <3>1. \/ job'[w] = job[w]
            \/ \E u : job'[w] = [job[w] EXCEPT !.edge = u]
            \/ \E c : job'[w] = [job[w] EXCEPT !.code = c]
        <4>1. CASE AddLineage(w)
          BY <1>1, <4>1 DEF Locals, AddLineage
        <4>2. CASE InsertLineage(w)
          BY <1>1, <4>2 DEF Locals, InsertLineage, Fail
        <4>3. QED
          BY <2>6, <4>1, <4>2
      <3>2. QED
        BY <2>3, <3>1 DEF Job
    <2>7. QED
      BY <1>2, <1>3, <2>1, <2>2, <2>4, <2>5, <2>6 DEF TryStep
  <1>4. ASSUME NEW w \in Executor, ReadRow(w) \/ WriteRow(w) PROVE Undivided'
    <2>1. pc[w] \in StatusPhase /\ inval' = inval /\ ~job[w].read
      BY <1>4 DEF ReadRow, WriteRow, Undivided
    <2>2. CASE Write(w)
      BY <1>1, <1>2, <2>1, <2>2, WriteMoves DEF Leaves
    <2>3. CASE (Goto(w, "release") /\ job' = job) \/ ReturnAnswer(w)
      BY <1>1, <1>2, <2>1, <2>3, GotoMoves, ReturnMoves DEF Leaves
    <2>4. QED
      BY <1>4, <2>2, <2>3 DEF ReadRow, WriteRow
  <1>5. ASSUME NEW w \in Executor, Mkdir(w) \/ AcquireLease(w) \/ Lookup(w) \/ AddShard(w)
        PROVE  Undivided'
    <2>1. inval' = inval /\ ~job[w].read
      BY <1>5 DEF Mkdir, AcquireLease, Lookup, AddShard, Undivided
    <2>2. CASE Mkdir(w) \/ AcquireLease(w)
      BY <1>1, <1>2, <2>1, <2>2, GotoMoves, FailMoves DEF Mkdir, AcquireLease
    <2>3. CASE Lookup(w) \/ AddShard(w)
      BY <1>1, <1>2, <2>1, <2>3, LookupMoves, AddShardMoves
    <2>4. QED
      BY <1>5, <2>2, <2>3
  <1>6. ASSUME NEW w \in Executor, Interrupt(w) \/ Crash(w) PROVE Undivided'
    <2>1. inval' = inval
      BY <1>6 DEF Interrupt, Crash
    <2>2. QED
      BY <1>1, <1>2, <1>6, <2>1, InterruptMoves, ReturnMoves DEF Crash, Leaves
  <1>7. ASSUME NEW w \in Executor, NEW k \in Key, NEW d \in Slot, NEW force \in Forces,
               NEW verdict \in Verdicts, Execute(w, k, d, force, verdict)
        PROVE  Undivided'
    <2>1. inval' = inval
      BY <1>7 DEF Execute
    <2>2. QED
      BY <1>1, <1>2, <1>7, <2>1, ExecuteMoves
  <1>8. CASE Invalidate \/ \E k \in Key : InvalidateOwned(Owned[k])
    <2>1. job' = job
      BY <1>8 DEF Invalidate, ReadLineage, SelectRows, UpdateRows, InvalidateOwned
    <2>2. inval'.pc # "update"
      <3>1. inval \in Inval
        BY <1>1 DEF Tables
      <3>2. CASE ReadLineage
        BY <3>1, <3>2 DEF ReadLineage, Inval
      <3>3. CASE SelectRows \/ UpdateRows
        BY <1>1, <3>3 DEF SelectRows, UpdateRows, MarkRows
      <3>4. CASE \E k \in Key : InvalidateOwned(Owned[k])
        BY <3>4 DEF InvalidateOwned
      <3>5. QED
        BY <1>8, <3>2, <3>3, <3>4 DEF Invalidate
    <2>3. QED
      BY <2>1, <2>2 DEF Undivided
  <1>9. CASE Advance \/ Restart \/ (\E d \in DOMAIN disk : Damage(d)) \/ UNCHANGED vars
    BY <1>1, <1>9 DEF Advance, Restart, Damage, vars, Undivided
  <1>10. QED
    BY <1>3, <1>4, <1>5, <1>6, <1>7, <1>8, <1>9 DEF Next, Step, TryStep

-----------------------------------------------------------------------------
(* The safety of the ledger.                                               *)

\* Everything proved of a reachable state.
LedgerInv == IInv /\ RowsOwned /\ Settling /\ Filing /\ Timing

\* An empty ledger and idle executors satisfy it.
LEMMA InitLedgerInv == Init => LedgerInv
  <1> SUFFICES ASSUME Init PROVE LedgerInv
    OBVIOUS
  <1>1. IInv
    BY InitInv
  <1>2. \A w \in Executor : pc[w] = "idle" /\ job[w].shard = None /\ job[w].at = 0
    BY DEF Init, NoJob
  <1>3. \A s \in ShardId : shards[s] = EmptyRow /\ leases[s] = NoLease
    BY DEF Init
  <1>4. RowsOwned
    BY <1>2 DEF RowsOwned
  <1>5. Settling
    BY <1>2, <1>3 DEF Settling, Closing, NothingLeftOpen, EmptyRow, NoLease
  <1>6. Filing
    <2>1. \A w \in Executor : Prepared(w)
      BY <1>2 DEF Prepared, Reserved, Complete, Hitting
    <2>2. DirsApart
      BY <1>2 DEF DirsApart, Writing, Reserved
    <2>3. \A s \in ShardId : RecordOK(s)
      BY <1>3 DEF RecordOK, EmptyRow, Accepted
    <2>4. QED
      BY <2>1, <2>2, <2>3 DEF Filing
  <1>7. Timing
    BY <1>2 DEF Timing, Timed, Holding, Init
  <1>8. QED
    BY <1>1, <1>4, <1>5, <1>6, <1>7 DEF LedgerInv

\* Every step preserves it, part by part.
LEMMA NextLedgerInv == LedgerInv /\ [Next]_vars => LedgerInv'
  BY NextInv, NextOwned, NextSettling, NextFiling, NextTiming DEF LedgerInv

\* In every reachable state attempts have one owner, files and rows agree with the
\* phases of the executors, and leases with their clocks.
THEOREM LedgerInvariant == Spec => []LedgerInv
  BY InitLedgerInv, NextLedgerInv, PTL DEF Spec

\* However a call of execute ends, its lease and its attempt are settled, and an
\* accepted attempt is complete on disk and recorded: for any number of executors,
\* keys and attempts, under crashes, invalidation and lease expiry.
THEOREM CallsSettle == Spec => []SettledWhole
  <1>1. LedgerInv => SettledWhole
    BY FilingComplete DEF LedgerInv, Settling, SettledWhole
  <1>2. QED
    BY <1>1, LedgerInvariant, PTL

\* accept_shard succeeds before the renewed lease runs out only under that lease.
THEOREM AcceptanceIsLeased == Spec => AcceptedUnderLease
  <1>1. ASSUME LedgerInv, NEW w \in Executor, pc[w] = "commit", now < job[w].at + TTL
        PROVE  leases[job[w].shard].status = "acquired"
    <2>1. Timed(w) /\ job[w] \in Job /\ now \in Nat
      BY <1>1 DEF LedgerInv, Timing, IInv, TypeInv, Tables, Locals
    <2>2. job[w].at \in Nat /\ TTL \in Nat
      BY <2>1, LedgerAssumption DEF Job
    <2>3. leases[job[w].shard] = [status |-> "acquired", expires |-> job[w].at + TTL]
      BY <1>1, <2>1, <2>2 DEF Timed, Holding
    <2>4. QED
      BY <2>3
  <1>2. LedgerInv =>
          [\A w \in Executor :
             /\ pc[w] = "commit" /\ pc'[w] = "release" /\ shards'[job[w].shard].status \in Accepted
             /\ now < job[w].at + TTL
             => leases[job[w].shard].status = "acquired"]_vars
    BY <1>1
  <1>3. QED
    BY <1>2, LedgerInvariant, PTL DEF AcceptedUnderLease

\* A complete tree: as it was, or damaged.
Kept(d) ==
  d \in DOMAIN disk' /\ disk'[d] \in {disk[d], [disk[d] EXCEPT !.state = "damaged"]}

\* Directories are created anew, written while they are incomplete, and damaged.
LEMMA TreesKept ==
  ASSUME IInv, Filing, [Next]_vars, NEW d \in DOMAIN disk, disk[d].state = "complete"
  PROVE  Kept(d)
  <1>1. CASE disk' = disk
    BY <1>1 DEF Kept
  <1>2. ASSUME NEW w \in Executor, Mkdir(w) PROVE Kept(d)
    BY <1>2 DEF Mkdir, Kept
  <1>3. ASSUME NEW w \in Executor, Publish(w) \/ RenameManifest(w) PROVE Kept(d)
    <2>1. Prepared(w)
      BY DEF Filing
    <2>2. Dir(w) # d
      BY <1>3, <2>1 DEF Publish, RenameManifest, Prepared, Reserved
    <2>3. QED
      BY <1>3, <2>2 DEF Publish, RenameManifest, Kept
  <1>4. ASSUME NEW e \in DOMAIN disk, Damage(e) PROVE Kept(d)
    BY <1>4 DEF Damage, Kept
  <1>5. ASSUME NEW w \in Executor, Step(w) PROVE disk' = disk \/ Mkdir(w) \/ Publish(w) \/ RenameManifest(w)
    BY <1>5 DEF Step, Lookup, AddShard, AcquireLease, ReadRow, WriteRow, Work, Heartbeat, Validate,
       Accept, AddManifest, AddLineage, InsertLineage, Release, Abort, RecordError
  <1>6. ASSUME NEW w \in Executor, Interrupt(w) \/ Crash(w) PROVE disk' = disk
    BY <1>6 DEF Interrupt, Crash
  <1>7. ASSUME NEW w \in Executor, NEW k \in Key, NEW p \in Slot, NEW force \in Forces,
               NEW verdict \in Verdicts, Execute(w, k, p, force, verdict)
        PROVE  disk' = disk
    BY <1>7 DEF Execute
  <1>8. Invalidate \/ (\E k \in Key : InvalidateOwned(Owned[k])) \/ Advance \/ Restart \/ UNCHANGED vars
          => disk' = disk
    BY DEF Invalidate, ReadLineage, SelectRows, UpdateRows, InvalidateOwned, Advance, Restart, vars
  <1>9. QED
    BY <1>1, <1>2, <1>3, <1>4, <1>5, <1>6, <1>7, <1>8 DEF Next

\* No retry, no key sharing the slot and no process that forgot the ledger writes
\* into a published tree.
THEOREM PublishedStays == Spec => PublishedImmutable
  <1>1. LedgerInv /\ [Next]_vars =>
          [\A d \in DOMAIN disk : disk[d].state = "complete" =>
             /\ d \in DOMAIN disk'
             /\ disk'[d] \in {disk[d], [disk[d] EXCEPT !.state = "damaged"]}]_vars
    BY TreesKept DEF LedgerInv, Kept
  <1>2. QED
    BY <1>1, LedgerInvariant, PTL DEF Spec, PublishedImmutable

\* In memory the rows change in one step each, so none leaves "stale" unseen.
LEMMA StaleStays ==
  ASSUME ~Durable, IInv, Undivided, [Next]_vars, NEW s \in ShardId, shards[s].status = "stale"
  PROVE  shards'[s].status \in Retired \cup {"none"}
  <1>1. Tables /\ Locals
    BY DEF IInv, TypeInv
  <1>2. "stale" \in Retired \cup {"none"}
    BY DEF Retired
  <1>3. CASE shards' = shards
    BY <1>2, <1>3
  <1>4. ASSUME NEW w \in Executor, AddShard(w) PROVE shards'[s].status = "stale"
    <2>1. \A t \in Unused : s # t
      BY DEF Unused
    <2>2. (CHOOSE t \in Unused : TRUE) \in Unused
      BY <1>4 DEF AddShard
    <2>3. s # (CHOOSE t \in Unused : TRUE)
      BY <2>1, <2>2
    <2>4. QED
      BY <1>1, <1>4, <2>3 DEF AddShard, Tables
  <1>5. ASSUME NEW w \in Executor, ReadRow(w) \/ WriteRow(w)
        PROVE  shards'[s].status \in Retired \cup {"none"}
    <2>1. pc[w] \in StatusPhase /\ ReadRow(w)
      BY <1>5 DEF ReadRow, WriteRow, Undivided
    <2>2. CASE Write(w) /\ Legal(LedgerTransitions, shards[job[w].shard].status, Target(w))
      <3>1. /\ shards'[job[w].shard].status = Target(w)
            /\ \A t \in ShardId \ {job[w].shard} : shards'[t] = shards[t]
        BY <2>1, <2>2, WrittenRow
      <3>2. Legal(LedgerTransitions, "stale", Target(w)) => Target(w) \in Retired
        BY DEF Legal, LedgerTransitions, Retired
      <3>3. QED
        BY <1>2, <2>2, <3>1, <3>2
    <2>3. QED
      BY <1>2, <2>1, <2>2 DEF ReadRow
  <1>6. ASSUME NEW rows, MarkRows(rows) PROVE shards'[s].status = "stale"
    <2>1. shards[s] \in Row
      BY <1>1 DEF Tables
    <2>2. QED
      BY <1>6, <2>1 DEF MarkRows, Row
  <1>7. CASE Invalidate \/ \E k \in Key : InvalidateOwned(Owned[k])
    BY <1>2, <1>6, <1>7 DEF Invalidate, ReadLineage, SelectRows, UpdateRows, InvalidateOwned, ledger
  <1>8. CASE Restart
    BY <1>8 DEF Restart, EmptyRow
  <1>9. ASSUME NEW w \in Executor, Step(w) PROVE shards' = shards \/ AddShard(w) \/ ReadRow(w) \/ WriteRow(w)
    BY <1>9 DEF Step, Lookup, Mkdir, AcquireLease, Work, Heartbeat, Publish, RenameManifest, Validate,
       Accept, AddManifest, AddLineage, InsertLineage, Release, Abort, RecordError, ledger
  <1>10. ASSUME NEW w \in Executor, Interrupt(w) \/ Crash(w) PROVE shards' = shards
    BY <1>10 DEF Interrupt, Crash, ledger
  <1>11. ASSUME NEW w \in Executor, NEW k \in Key, NEW p \in Slot, NEW force \in Forces,
                NEW verdict \in Verdicts, Execute(w, k, p, force, verdict)
         PROVE  shards' = shards
    BY <1>11 DEF Execute, ledger
  <1>12. Advance \/ (\E d \in DOMAIN disk : Damage(d)) \/ UNCHANGED vars => shards' = shards
    BY DEF Advance, Damage, vars, ledger
  <1>13. QED
    BY <1>2, <1>3, <1>4, <1>5, <1>7, <1>8, <1>9, <1>10, <1>11, <1>12 DEF Next

\* With the ledger in memory an attempt marked stale is never accepted afterwards.
\* In PostgreSQL it can be: a run shows how.
THEOREM StaleStaysStale ==
  ASSUME ~Durable
  PROVE  Spec => StaleIsFinal
  <1>1. Init => Undivided
    BY DEF Init, Undivided, NoInval, NoJob
  <1>2. IInv /\ Undivided /\ [Next]_vars => Undivided'
    BY NextUndivided
  <1>3. IInv /\ Undivided /\ [Next]_vars =>
          [\A s \in ShardId : shards[s].status = "stale" =>
             shards'[s].status \in Retired \cup {"none"}]_vars
    BY StaleStays
  <1>4. QED
    BY <1>1, <1>2, <1>3, InductiveInvariant, PTL DEF Spec, StaleIsFinal
=============================================================================
