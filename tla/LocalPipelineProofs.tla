------------------------ MODULE LocalPipelineProofs ------------------------
(***************************************************************************)
(* Proofs about LocalPipeline, for any number of processes, runs, stages   *)
(* and shards and any plan in topological order.  Until a prune dies or    *)
(* works beside one who holds the lock, the live entries of the index rest *)
(* on live ones, pruning takes neither them nor what is active, and no     *)
(* command forgets or revives an attempt.                                  *)
(***************************************************************************)
EXTENDS LocalPipeline, WellFoundedInduction, TLAPS

Job ==
  [run : Run \cup {None}, resume : BOOLEAN, force : BOOLEAN, todo : SUBSET Key,
   assumed : SUBSET Stage, entries : [Key -> Entry \cup {None}], edges : SUBSET (Key \X Key),
   replaced : SUBSET Dir, rows : [Key -> Execution \cup {None}], halted : BOOLEAN,
   dir : Dir \cup {None}, targets : SUBSET (Key \cup Dir), left : SUBSET Dir]

FormsOK ==
  /\ TypeOK
  /\ lock \in Command \cup {None} /\ job \in [Command -> Job]
  /\ \A c \in Command : pc[c] \in {"lock", "walk", "worker"} => job[c].run \in Run

-----------------------------------------------------------------------------
(* A copy of the index: entries, edges and superseded attempts. *)

\* A live entry was made from live ones, and the lineage says so.
Traced(entries, edges) ==
  \A k \in Key : \A p \in Producers[k[1]] :
    Live(entries, k) => Live(entries, <<p, k[2]>>) /\ <<<<p, k[2]>>, k>> \in edges

OwnKeys(entries) == \A k \in Key : entries[k] # None => entries[k].dir.key = k

\* What is live is on disk, is not superseded and was not revoked.
LiveApart(entries, replaced) ==
  \A k \in Key : Live(entries, k) =>
    /\ entries[k].dir \notin replaced \cup revoked
    /\ disk[entries[k].dir] \in {"produced", "partial"}

Sound(entries, edges, replaced) ==
  Traced(entries, edges) /\ OwnKeys(entries) /\ LiveApart(entries, replaced)

KnownIn(entries, replaced) == replaced \cup {entries[k].dir : k \in {k \in Key : entries[k] # None}}
OnDisk(dirs) == \A d \in dirs : disk[d] # "none"

StoredSound == Sound(index, lineage, superseded)

\* Who holds the lock works on a copy that is sound and misses nothing.
HeldSound ==
  \A c \in Command : pc[c] \in Locked =>
    /\ Sound(job[c].entries, job[c].edges, job[c].replaced)
    /\ Known \subseteq KnownIn(job[c].entries, job[c].replaced)
    /\ OnDisk(KnownIn(job[c].entries, job[c].replaced))

\* What a walk has still to execute is made from what it assumes to be there,
\* from what it executes before, or from what is live by now.
PlanCovered ==
  \A c \in Command : \A k \in job[c].todo : \A p \in Producers[k[1]] :
    /\ pc[c] = "lock" => p \in job[c].assumed \/ <<p, k[2]>> \in job[c].todo
    /\ pc[c] \in {"walk", "worker"} => Live(job[c].entries, <<p, k[2]>>) \/ <<p, k[2]>> \in job[c].todo

\* The directory of a worker is new to everybody.
WorkerApart ==
  \A c \in Command : pc[c] = "worker" =>
    /\ job[c].dir \in Dir /\ IsNext(job[c], job[c].dir.key)
    /\ disk[job[c].dir] = "reserved"
    /\ job[c].dir \notin KnownIn(job[c].entries, job[c].replaced) \cup revoked

\* Beside a prune the others wait at most for the lock; it works on the index
\* it has read and on attempts nobody serves.
PruneApart ==
  \A c \in Command : pc[c] = "delete" =>
    /\ \A o \in Command : o # c => pc[o] \in {"idle", "lock"}
    /\ job[c].entries = index /\ job[c].replaced = superseded
    /\ job[c].left \subseteq job[c].targets /\ job[c].targets \subseteq Dir
    /\ \A d \in job[c].targets \ job[c].left : disk[d] = "none"
    /\ \A k \in Key : Live(index, k) => index[k].dir \notin job[c].targets
    /\ \A d \in job[c].targets : active # None => d.run # active.run
    /\ OnDisk(Known \ job[c].targets)

KnownOnDisk == (\A c \in Command : pc[c] # "delete") => OnDisk(Known)

IInv ==
  /\ disturbed = FALSE
  /\ FormsOK /\ StoredSound /\ HeldSound /\ PlanCovered /\ WorkerApart /\ PruneApart
  /\ KnownOnDisk /\ PruneSparesOwn

-----------------------------------------------------------------------------
(* Local variables of a command. *)

\* The variables of an idle process are of their types.
LEMMA NoJobIsJob == NoJob \in Job
  <1>1. NoRows \in [Key -> Entry \cup {None}] /\ NoRows \in [Key -> Execution \cup {None}]
    BY DEF NoRows
  <1> QED
    BY <1>1 DEF NoJob, Job

\* What the execution of a key leaves in the copy of a walk.
LEMMA Committed ==
  ASSUME NEW j \in Job, NEW k \in Key, NEW dir \in Dir, NEW outcome \in Outcome,
         NEW h, h = Commit(j, k, dir, outcome)
  PROVE  /\ h \in Job /\ h.run = j.run
         /\ h.todo = j.todo \ {k}
         /\ h.edges = j.edges \cup {<<<<p, k[2]>>, k>> : p \in Producers[k[1]]}
         /\ h.entries = IF outcome = "failed" THEN j.entries
                         ELSE [j.entries EXCEPT ![k] = [dir |-> dir, stale |-> FALSE]]
         /\ h.replaced = IF outcome = "failed" THEN j.replaced
                          ELSE Supersede(j.replaced, j.entries[k], dir)
  <1> DEFINE todo == j.todo \ {k}
             halted == outcome # "produced"
             row == [dir |-> IF outcome = "failed" THEN None ELSE dir, outcome |-> outcome]
             rows == [j.rows EXCEPT ![k] = row]
             edges == j.edges \cup {<<<<p, k[2]>>, k>> : p \in Producers[k[1]]}
             replaced == IF Indexed(outcome) THEN Supersede(j.replaced, j.entries[k], dir) ELSE j.replaced
             entry == IF Indexed(outcome) THEN [dir |-> dir, stale |-> FALSE] ELSE j.entries[k]
             entries == [j.entries EXCEPT ![k] = entry]
  <1>1. todo \in SUBSET Key /\ halted \in BOOLEAN
    BY DEF Job
  <1>2. row \in Execution
    BY DEF Execution
  <1>3. rows \in [Key -> Execution \cup {None}]
    BY <1>2 DEF Job
  <1>4. edges \in SUBSET (Key \X Key)
    <2>1. \A p \in Producers[k[1]] : <<<<p, k[2]>>, k>> \in Key \X Key
      BY PipelineAssumption DEF Key
    <2>2. j.edges \in SUBSET (Key \X Key)
      BY DEF Job
    <2> QED
      BY <2>1, <2>2
  <1>5. j.entries[k] \in Entry \cup {None} /\ j.replaced \in SUBSET Dir
    BY DEF Job
  <1>6. replaced \in SUBSET Dir
    BY <1>5 DEF Supersede, Entry
  <1>7. [dir |-> dir, stale |-> FALSE] \in Entry
    BY DEF Entry
  <1>8. entries \in [Key -> Entry \cup {None}]
    BY <1>5, <1>7 DEF Job
  <1>9. h = [j EXCEPT !.todo = todo, !.dir = None, !.halted = halted,
                      !.rows = rows, !.edges = edges, !.replaced = replaced, !.entries = entries]
    BY DEF Commit, Indexed
  <1>10. ~Indexed(outcome) => entries = j.entries
    BY DEF Job
  <1>11. /\ h \in Job /\ h.run = j.run /\ h.todo = todo /\ h.edges = edges
         /\ h.replaced = replaced /\ h.entries = entries
    <2> HIDE DEF todo, halted, rows, edges, replaced, entries
    <2> QED
      BY ZenonT(40), <1>1, <1>3, <1>4, <1>6, <1>8, <1>9 DEF Job
  <1> QED
    BY <1>10, <1>11 DEF Indexed

\* The entry that a produced attempt gets is a live one.
LEMMA FreshEntry ==
  ASSUME NEW dir \in Dir, NEW entry, entry = [dir |-> dir, stale |-> FALSE]
  PROVE  entry \in Entry /\ entry # None /\ entry.dir = dir /\ ~entry.stale
  <1>1. entry \in Entry
    BY DEF Entry
  <1> QED
    BY <1>1, PipelineAssumption

-----------------------------------------------------------------------------
(* Copies of the index. *)

\* A copy stays sound while its live attempts stay on disk and unrevoked.
LEMMA SoundKept ==
  \A entries, edges, replaced :
    /\ Sound(entries, edges, replaced)
    /\ \A k \in Key : Live(entries, k) =>
         /\ disk'[entries[k].dir] \in {"produced", "partial"}
         /\ entries[k].dir \notin revoked'
    => Sound(entries, edges, replaced)'
  BY DEF Sound, Traced, OwnKeys, LiveApart, Live

\* A copy of the index stays sound while the disk and the revoked attempts do.
LEMMA SoundUnchanged ==
  ASSUME UNCHANGED <<disk, revoked>>
  PROVE  \A entries, edges, replaced : Sound(entries, edges, replaced) => Sound(entries, edges, replaced)'
  BY DEF Sound, Traced, OwnKeys, LiveApart, Live

\* A live key has an entry with a directory.
LEMMA LiveIsEntry ==
  ASSUME NEW entries \in [Key -> Entry \cup {None}], NEW k \in Key, Live(entries, k)
  PROVE  entries[k] \in Entry /\ entries[k].dir \in Dir /\ entries[k] # None
  BY DEF Live, Entry

\* Producers of a key are keys, and come before it.
LEMMA ProducersPrecede ==
  ASSUME NEW k \in Key, NEW p \in Producers[k[1]]
  PROVE  /\ p \in Stage /\ k[2] \in Shard /\ <<p, k[2]>> \in Key
         /\ Precedes(<<p, k[2]>>, k)
  BY PipelineAssumption DEF Key, Precedes

\* _commit_shard keeps a copy sound: a result is indexed only over live producers,
\* and what it replaces is stale with everything made from it.
LEMMA CommitSound ==
  ASSUME NEW j \in Job, NEW k \in Key, NEW dir \in Dir, NEW outcome \in Outcome,
         NEW h, h = Commit(j, k, dir, outcome),
         Sound(j.entries, j.edges, j.replaced), dir.key = k, dir \notin j.replaced \cup revoked,
         outcome # "failed" => \A p \in Producers[k[1]] : Live(j.entries, <<p, k[2]>>),
         outcome # "failed" => disk'[dir] \in {"produced", "partial"},
         \A d \in Dir : d # dir => disk'[d] = disk[d],
         outcome = "failed" => disk' = disk,
         revoked' = revoked
  PROVE  Sound(h.entries, h.edges, h.replaced)'
  <1>0. /\ h.entries = IF outcome = "failed" THEN j.entries
                        ELSE [j.entries EXCEPT ![k] = [dir |-> dir, stale |-> FALSE]]
        /\ h.replaced = IF outcome = "failed" THEN j.replaced
                         ELSE Supersede(j.replaced, j.entries[k], dir)
        /\ j.edges \subseteq h.edges
    BY Committed
  <1> USE DEF Sound, Live
  <1>1. CASE outcome = "failed"
    <2>1. h.entries = j.entries /\ h.replaced = j.replaced /\ j.edges \subseteq h.edges /\ disk' = disk
      BY <1>0, <1>1
    <2> QED
      BY <2>1 DEF Traced, OwnKeys, LiveApart
  <1>2. CASE outcome # "failed"
    <2> DEFINE entry == [dir |-> dir, stale |-> FALSE]
    <2>1. /\ h.entries = [j.entries EXCEPT ![k] = entry]
          /\ h.replaced = Supersede(j.replaced, j.entries[k], dir)
          /\ h.edges = j.edges \cup {<<<<p, k[2]>>, k>> : p \in Producers[k[1]]}
      BY <1>2, Committed
    <2>2. /\ j.entries \in [Key -> Entry \cup {None}]
          /\ entry \in Entry /\ entry # None /\ entry.dir = dir /\ ~entry.stale
      BY FreshEntry DEF Job
    <2>3. Live(h.entries, k) /\ h.entries[k].dir = dir
      BY <2>1, <2>2
    <2>4. \A o \in Key : o # k => h.entries[o] = j.entries[o]
      BY <2>1, <2>2
    <2>5. Traced(h.entries, h.edges)'
      <3>1. ASSUME NEW o \in Key, NEW p \in Producers[o[1]], Live(h.entries, o)
            PROVE  Live(h.entries, <<p, o[2]>>) /\ <<<<p, o[2]>>, o>> \in h.edges
        <4>1. <<p, o[2]>> \in Key
          BY ProducersPrecede
        <4>2. CASE o = k
          BY <1>2, <2>1, <2>3, <2>4, <4>1, <4>2
        <4>3. CASE o # k
          BY <2>1, <2>3, <2>4, <3>1, <4>1, <4>3 DEF Traced
        <4> QED
          BY <4>2, <4>3
      <3> QED
        BY <3>1 DEF Traced
    <2>6. OwnKeys(h.entries)'
      BY <2>3, <2>4 DEF OwnKeys
    <2>7. LiveApart(h.entries, h.replaced)'
      <3>1. ASSUME NEW o \in Key, Live(h.entries, o)
            PROVE  /\ h.entries[o].dir \notin h.replaced \cup revoked
                   /\ disk'[h.entries[o].dir] \in {"produced", "partial"}
        <4>1. CASE o = k
          BY <1>2, <2>1, <2>3, <4>1 DEF Supersede
        <4>2. CASE o # k
          <5>1. Live(j.entries, o) /\ h.entries[o] = j.entries[o]
            BY <2>4, <3>1, <4>2
          <5>2. j.entries[o].dir \in Dir /\ j.entries[o].dir.key = o
            BY <2>2, <5>1, LiveIsEntry DEF OwnKeys
          <5>3. j.entries[o].dir # dir /\ (j.entries[k] # None => j.entries[o].dir # j.entries[k].dir)
            BY <4>2, <5>2 DEF OwnKeys
          <5> QED
            BY <2>1, <5>1, <5>2, <5>3 DEF LiveApart, Supersede
        <4> QED
          BY <4>1, <4>2
      <3> QED
        BY <3>1 DEF LiveApart
    <2> QED
      BY <2>5, <2>6, <2>7
  <1> QED
    BY <1>1, <1>2

\* A walk that executes a key comes to know its attempt, and forgets none.
LEMMA CommitKnows ==
  ASSUME NEW j \in Job, NEW k \in Key, NEW dir \in Dir, NEW outcome \in Outcome,
         NEW h, h = Commit(j, k, dir, outcome)
  PROVE  /\ KnownIn(j.entries, j.replaced) \subseteq KnownIn(h.entries, h.replaced)
         /\ KnownIn(h.entries, h.replaced) \subseteq KnownIn(j.entries, j.replaced) \cup {dir}
  <1>0. /\ h.entries = IF outcome = "failed" THEN j.entries
                        ELSE [j.entries EXCEPT ![k] = [dir |-> dir, stale |-> FALSE]]
        /\ h.replaced = IF outcome = "failed" THEN j.replaced
                         ELSE Supersede(j.replaced, j.entries[k], dir)
        /\ j.edges \subseteq h.edges
    BY Committed
  <1> USE DEF KnownIn
  <1>1. CASE outcome = "failed"
    <2>1. h.entries = j.entries /\ h.replaced = j.replaced
      BY <1>0, <1>1
    <2> QED
      BY <2>1
  <1>2. CASE outcome # "failed"
    <2> DEFINE entry == [dir |-> dir, stale |-> FALSE]
    <2>1. /\ h.entries = [j.entries EXCEPT ![k] = entry]
          /\ h.replaced = Supersede(j.replaced, j.entries[k], dir)
      BY <1>2, Committed
    <2>2. j.entries \in [Key -> Entry \cup {None}] /\ entry \in Entry /\ entry # None /\ entry.dir = dir
      BY FreshEntry DEF Job
    <2>3. h.entries[k] = entry /\ \A o \in Key : o # k => h.entries[o] = j.entries[o]
      BY <2>1, <2>2
    <2> HIDE DEF entry
    <2>4. \A o \in Key : j.entries[o] # None => j.entries[o].dir \in KnownIn(h.entries, h.replaced)
      BY <2>1, <2>2, <2>3 DEF Supersede
    <2>5. \A o \in Key : h.entries[o] # None => h.entries[o].dir \in KnownIn(j.entries, j.replaced) \cup {dir}
      BY <2>2, <2>3
    <2> QED
      BY <2>1, <2>4, <2>5 DEF Supersede
  <1> QED
    BY <1>1, <1>2

-----------------------------------------------------------------------------
(* Steps of one command, beside which the others stay where they are. *)

\* One process moves, the others stay where they are.
LEMMA Moves ==
  ASSUME FormsOK, NEW c \in Command, NEW phase \in Phase, NEW j \in Job,
         pc' = [pc EXCEPT ![c] = phase], job' = [job EXCEPT ![c] = j]
  PROVE  /\ pc' \in [Command -> Phase] /\ job' \in [Command -> Job]
         /\ pc'[c] = phase /\ job'[c] = j
         /\ \A o \in Command : o # c => pc'[o] = pc[o] /\ job'[o] = job[o]
  BY DEF FormsOK, TypeOK

\* The lock is held by the one process that is in a phase under it.
LEMMA LockKept ==
  ASSUME FormsOK, NEW c \in Command, NEW phase \in Phase,
         pc' = [pc EXCEPT ![c] = phase],
         \/ lock' = lock /\ (phase \in Locked <=> pc[c] \in Locked)
         \/ lock = None /\ lock' = c /\ phase \in Locked
         \/ lock = c /\ lock' = None /\ phase \notin Locked
  PROVE  /\ lock' \in Command \cup {None}
         /\ \A o \in Command : pc'[o] \in Locked <=> lock' = o
         /\ lock' = None => \A o \in Command : pc'[o] \notin Locked
  <1>1. /\ pc'[c] = phase /\ \A o \in Command : o # c => pc'[o] = pc[o]
        /\ \A o \in Command : pc[o] \in Locked <=> lock = o
        /\ None \notin Command
    BY PipelineAssumption DEF FormsOK, TypeOK
  <1>2. CASE lock' = lock /\ (phase \in Locked <=> pc[c] \in Locked)
    BY <1>1, <1>2 DEF FormsOK
  <1>3. CASE lock = None /\ lock' = c /\ phase \in Locked
    BY <1>1, <1>3
  <1>4. CASE lock = c /\ lock' = None /\ phase \notin Locked
    BY <1>1, <1>4
  <1> QED
    BY <1>2, <1>3, <1>4

\* One process at a time holds the lock.
LEMMA OneHolder ==
  ASSUME FormsOK, NEW c \in Command, NEW o \in Command, pc[c] \in Locked, pc[o] \in Locked
  PROVE  o = c
  BY DEF FormsOK, TypeOK

\* While a command works under the lock nobody prunes.
LEMMA NobodyPrunes ==
  ASSUME IInv, NEW c \in Command, pc[c] \notin {"idle", "lock", "delete"}
  PROVE  \A o \in Command : pc[o] # "delete"
  BY DEF IInv, PruneApart

\* A step that leaves what is stored alone.
LEMMA QuietKeeps ==
  ASSUME disturbed' = FALSE, IInv, NEW c \in Command, NEW phase \in Phase \ {"worker", "delete"}, NEW j \in Job,
         pc' = [pc EXCEPT ![c] = phase], job' = [job EXCEPT ![c] = j],
         \/ \A o \in Command : pc[o] # "delete"
         \/ pc[c] \in {"idle", "lock"} /\ phase \in {"idle", "lock"},
         UNCHANGED <<index, lineage, superseded, disk, active, revoked>>,
         status' \in [Run -> RunStatus \cup {None}],
         phase \in {"lock", "walk"} => j.run \in Run,
         \/ lock' = lock /\ (phase \in Locked <=> pc[c] \in Locked)
         \/ lock = None /\ lock' = c /\ phase \in Locked
         \/ lock = c /\ lock' = None /\ phase \notin Locked,
         phase \in Locked =>
           /\ Sound(j.entries, j.edges, j.replaced)
           /\ Known \subseteq KnownIn(j.entries, j.replaced)
           /\ OnDisk(KnownIn(j.entries, j.replaced)),
         \A k \in j.todo : \A p \in Producers[k[1]] :
           /\ phase = "lock" => p \in j.assumed \/ <<p, k[2]>> \in j.todo
           /\ phase = "walk" => Live(j.entries, <<p, k[2]>>) \/ <<p, k[2]>> \in j.todo
  PROVE  IInv'
  <1> USE DEF IInv
  <1>1. /\ pc' \in [Command -> Phase] /\ job' \in [Command -> Job]
        /\ pc'[c] = phase /\ job'[c] = j
        /\ \A o \in Command : o # c => pc'[o] = pc[o] /\ job'[o] = job[o]
    BY Moves
  <1>2. FormsOK'
    <2>1. /\ lock' \in Command \cup {None}
          /\ \A o \in Command : pc'[o] \in Locked <=> lock' = o
          /\ lock' = None => \A o \in Command : pc'[o] \notin Locked
      BY LockKept
    <2> QED
      BY <1>1, <2>1 DEF FormsOK, TypeOK
  <1>3. StoredSound'
    BY SoundUnchanged DEF StoredSound
  <1>4. /\ \A dirs : OnDisk(dirs) => OnDisk(dirs)'
        /\ Known' = Known
        /\ \A entries, replaced : KnownIn(entries, replaced)' = KnownIn(entries, replaced)
        /\ \A entries, k : Live(entries, k)' <=> Live(entries, k)
    BY DEF OnDisk, Known, KnownIn, Live
  <1>5. HeldSound'
    <2>1. ASSUME NEW o \in Command, pc'[o] \in Locked
          PROVE  /\ Sound(job'[o].entries, job'[o].edges, job'[o].replaced)
                 /\ Known \subseteq KnownIn(job'[o].entries, job'[o].replaced)
                 /\ OnDisk(KnownIn(job'[o].entries, job'[o].replaced))
      BY <1>1, <2>1 DEF HeldSound
    <2>2. ASSUME NEW o \in Command, pc'[o] \in Locked
          PROVE  /\ Sound(job[o].entries, job[o].edges, job[o].replaced)'
                 /\ Known' \subseteq KnownIn(job[o].entries, job[o].replaced)'
                 /\ OnDisk(KnownIn(job[o].entries, job[o].replaced))'
      BY <1>4, <2>1, <2>2, SoundUnchanged DEF KnownIn, OnDisk, Known
    <2> QED
      BY <2>2 DEF HeldSound
  <1>6. PlanCovered'
    BY <1>1, <1>4 DEF PlanCovered
  <1>7. WorkerApart'
    BY <1>1 DEF WorkerApart, KnownIn, IsNext
  <1>8. PruneApart' /\ KnownOnDisk' /\ PruneSparesOwn'
    <2>1. \A o \in Command : pc'[o] = "delete" <=> pc[o] = "delete"
      BY <1>1
    <2>2. ASSUME NEW o \in Command, pc'[o] = "delete"
          PROVE  /\ \A q \in Command : q # o => pc'[q] \in {"idle", "lock"}
                 /\ pc[o] = "delete" /\ job'[o] = job[o]
      BY <1>1, <2>1, <2>2 DEF PruneApart
    <2>3. PruneApart'
      BY <1>4, <2>2 DEF PruneApart
    <2> QED
      BY <1>4, <2>1, <2>3 DEF KnownOnDisk, PruneSparesOwn
  <1> QED
    BY <1>2, <1>3, <1>5, <1>6, <1>7, <1>8

-----------------------------------------------------------------------------
(* Commands begin, wait for the lock and get it. *)

\* What a command loads is what is stored.
LEMMA Loaded ==
  ASSUME FormsOK, NEW j \in Job
  PROVE  /\ Load(j) \in Job
         /\ Load(j).entries = index /\ Load(j).edges = lineage /\ Load(j).replaced = superseded
         /\ Load(j).run = j.run /\ Load(j).todo = j.todo /\ Load(j).assumed = j.assumed
         /\ KnownIn(index, superseded) = Known
  <1>1. index \in [Key -> Entry \cup {None}] /\ lineage \in SUBSET (Key \X Key) /\ superseded \in SUBSET Dir
    BY DEF FormsOK, TypeOK
  <1> QED
    BY <1>1 DEF Load, Job, KnownIn, Known

\* The closure of a set of stages contains their producers.
LEMMA AncestorsHold ==
  ASSUME NEW stages \in SUBSET Stage
  PROVE  /\ stages \subseteq WithAncestors(stages) /\ WithAncestors(stages) \subseteq Stage
         /\ \A s \in stages : Producers[s] \subseteq WithAncestors(stages)
  <1>1. \A s \in Stage : Producers[s] \subseteq Stage
    BY PipelineAssumption
  <1> DEFINE edges == UNION {{<<s, p>> : p \in Producers[s]} : s \in Stage}
  <1>2. \A s \in Stage : \A p \in Producers[s] : <<s, p>> \in edges
    OBVIOUS
  <1> HIDE DEF edges
  <1>3. /\ stages \subseteq StaleClosure(Stage, stages, edges)
        /\ StaleClosure(Stage, stages, edges) \subseteq Stage
    BY DEF StaleClosure
  <1>4. ASSUME NEW s \in stages, NEW p \in Producers[s] PROVE p \in StaleClosure(Stage, stages, edges)
    <2>1. <<s, p>> \in edges /\ p \in Stage
      BY <1>1, <1>2
    <2>2. <<s, p>>[1] = s /\ <<s, p>>[2] = p
      OBVIOUS
    <2> QED
      BY <2>1, <2>2 DEF StaleClosure
  <1> QED
    BY <1>3, <1>4 DEF WithAncestors, edges

\* run_dag plans before it has the lock: what it leaves out it assumes.
LEMMA Planned ==
  ASSUME FormsOK, NEW c \in Command, BeginRun(c)
  PROVE  \E j \in Job :
           /\ job' = [job EXCEPT ![c] = j] /\ j.run \in Run
           /\ \A k \in j.todo : \A p \in Producers[k[1]] : p \in j.assumed \/ <<p, k[2]>> \in j.todo
  <1>2. PICK r \in Run, force \in Forces, todo \in SUBSET Key, assumed \in SUBSET Stage :
          /\ Set(c, Load([NoJob EXCEPT !.run = r, !.force = force, !.todo = todo, !.assumed = assumed]))
             \/ Set(c, Load([NoJob EXCEPT !.run = r, !.resume = TRUE, !.force = force, !.todo = todo, !.assumed = assumed]))
          /\ \A k \in todo : \A p \in Producers[k[1]] : p \in assumed \/ <<p, k[2]>> \in todo
    <2>1. PICK r \in Run, force \in Forces :
            \/ Set(c, Load([NoJob EXCEPT !.run = r, !.resume = TRUE, !.force = force,
                              !.todo = Walk(Stage \ Done(r)), !.assumed = Done(r)]))
            \/ \E s \in Stage :
                 Set(c, Load([NoJob EXCEPT !.run = r, !.force = force, !.todo = Walk({s}),
                                 !.assumed = WithAncestors({s}) \ {s}]))
      BY DEF BeginRun
    <2>2. /\ Walk(Stage \ Done(r)) \in SUBSET Key /\ Done(r) \in SUBSET Stage
          /\ \A k \in Walk(Stage \ Done(r)) : \A p \in Producers[k[1]] :
               p \in Done(r) \/ <<p, k[2]>> \in Walk(Stage \ Done(r))
      BY PipelineAssumption DEF Walk, Key, Done
    <2>3. ASSUME NEW s \in Stage
          PROVE  /\ Walk({s}) \in SUBSET Key /\ WithAncestors({s}) \ {s} \in SUBSET Stage
                 /\ \A k \in Walk({s}) : \A p \in Producers[k[1]] :
                      p \in WithAncestors({s}) \ {s} \/ <<p, k[2]>> \in Walk({s})
      <3>1. WithAncestors({s}) \subseteq Stage /\ Producers[s] \subseteq WithAncestors({s})
        BY AncestorsHold
      <3> QED
        BY <3>1 DEF Walk, Key
    <2>4. CASE Set(c, Load([NoJob EXCEPT !.run = r, !.resume = TRUE, !.force = force,
                              !.todo = Walk(Stage \ Done(r)), !.assumed = Done(r)]))
      BY <2>2, <2>4
    <2>5. ASSUME NEW s \in Stage,
                 Set(c, Load([NoJob EXCEPT !.run = r, !.force = force, !.todo = Walk({s}),
                                 !.assumed = WithAncestors({s}) \ {s}]))
          PROVE  \E todo \in SUBSET Key, assumed \in SUBSET Stage :
                   /\ Set(c, Load([NoJob EXCEPT !.run = r, !.force = force, !.todo = todo, !.assumed = assumed]))
                   /\ \A k \in todo : \A p \in Producers[k[1]] : p \in assumed \/ <<p, k[2]>> \in todo
      <3> DEFINE t == Walk({s})
                 a == WithAncestors({s}) \ {s}
      <3>1. /\ t \in SUBSET Key /\ a \in SUBSET Stage
            /\ \A k \in t : \A p \in Producers[k[1]] : p \in a \/ <<p, k[2]>> \in t
        BY <2>3
      <3>2. Set(c, Load([NoJob EXCEPT !.run = r, !.force = force, !.todo = t, !.assumed = a]))
        BY <2>5
      <3> HIDE DEF t, a
      <3> QED
        BY <3>1, <3>2
    <2> QED
      BY <2>1, <2>4, <2>5
  <1>3. \E j \in Job :
          /\ job' = [job EXCEPT ![c] = j] /\ j.run \in Run
          /\ \A k \in j.todo : \A p \in Producers[k[1]] : p \in j.assumed \/ <<p, k[2]>> \in j.todo
    <2>1. force \in BOOLEAN
      BY PipelineAssumption
    <2>2. ASSUME NEW i, \/ i = [NoJob EXCEPT !.run = r, !.force = force, !.todo = todo, !.assumed = assumed]
                        \/ i = [NoJob EXCEPT !.run = r, !.resume = TRUE, !.force = force,
                                             !.todo = todo, !.assumed = assumed]
          PROVE  i \in Job /\ i.run \in Run /\ i.todo = todo /\ i.assumed = assumed
      BY ZenonT(40), <2>1, <2>2, NoJobIsJob DEF Job
    <2>3. PICK i \in Job : i.run \in Run /\ i.todo = todo /\ i.assumed = assumed /\ Set(c, Load(i))
      BY <1>2, <2>2
    <2>4. Load(i) \in Job /\ Load(i).run \in Run /\ Load(i).todo = todo /\ Load(i).assumed = assumed
      BY <2>3, Loaded
    <2> QED
      BY <1>2, <2>3, <2>4 DEF Set
  <1> QED
    BY <1>3

\* A prune beside it does not matter, for the index is loaded again.
LEMMA BeginRunKeeps ==
  ASSUME disturbed' = FALSE, IInv, NEW c \in Command, BeginRun(c)
  PROVE  IInv'
  <1>1. FormsOK
    BY DEF IInv
  <1>3. PICK j \in Job :
          /\ job' = [job EXCEPT ![c] = j] /\ j.run \in Run
          /\ \A k \in j.todo : \A p \in Producers[k[1]] : p \in j.assumed \/ <<p, k[2]>> \in j.todo
    BY <1>1, Planned
  <1>4. /\ pc' = [pc EXCEPT ![c] = "lock"] /\ lock' = lock /\ pc[c] = "idle"
        /\ UNCHANGED <<index, lineage, superseded, disk, active, revoked, status>>
    BY DEF BeginRun, MayBegin, Goto, saved, history
  <1>5. status' \in [Run -> RunStatus \cup {None}] /\ "lock" \in Phase \ {"worker", "delete"}
        /\ "lock" \notin Locked /\ pc[c] \notin Locked
    BY <1>1, <1>4 DEF FormsOK, TypeOK, Phase, Locked
  <1> QED
    BY <1>1, <1>3, <1>4, <1>5, QuietKeeps

\* With the lock the index is loaded again, and what is assumed is looked up there.
LEMMA EnterKeeps ==
  ASSUME disturbed' = FALSE, IInv, NEW c \in Command, Enter(c)
  PROVE  IInv'
  <1> DEFINE j == Reload(job[c])
  <1>1. FormsOK /\ job[c] \in Job /\ pc[c] = "lock" /\ \A o \in Command : pc[o] # "delete"
    BY DEF Enter, DisturbedIf, Pruning, IInv, FormsOK
  <1>2. /\ j \in Job /\ j.entries = index /\ j.edges = lineage /\ j.replaced = superseded
        /\ j.run = job[c].run /\ j.todo = job[c].todo /\ j.assumed = job[c].assumed /\ KnownIn(index, superseded) = Known
    BY <1>1, Loaded DEF Reload
  <1>3. /\ pc' = [pc EXCEPT ![c] = "walk"] /\ job' = [job EXCEPT ![c] = j]
        /\ lock = None /\ lock' = c /\ Resolved(j)
        /\ UNCHANGED <<index, lineage, superseded, disk, active, revoked, status>>
    BY DEF Enter, Goto, Set, saved
  <1>4. "walk" \in Phase \ {"worker", "delete"} /\ "walk" \in Locked /\ status' \in [Run -> RunStatus \cup {None}]
    BY <1>1, <1>3 DEF FormsOK, TypeOK, Phase, Locked
  <1>7. j.run \in Run
    BY <1>1, <1>2 DEF FormsOK
  <1>5. /\ Sound(j.entries, j.edges, j.replaced) /\ Known \subseteq KnownIn(j.entries, j.replaced)
        /\ OnDisk(KnownIn(j.entries, j.replaced))
    BY <1>1, <1>2 DEF IInv, StoredSound, KnownOnDisk
  <1>6. ASSUME NEW k \in j.todo, NEW p \in Producers[k[1]]
        PROVE  Live(j.entries, <<p, k[2]>>) \/ <<p, k[2]>> \in j.todo
    <2>1. p \in j.assumed \/ <<p, k[2]>> \in j.todo
      BY <1>1, <1>2, <1>6 DEF IInv, PlanCovered
    <2>2. k \in Key /\ j.assumed \subseteq Stage
      BY <1>1, <1>2 DEF Job
    <2>3. p \in j.assumed => p \in WithAncestors(j.assumed) /\ k[2] \in Shard
      BY <2>2, AncestorsHold DEF Key
    <2> QED
      BY <1>3, <2>1, <2>3 DEF Resolved, Servable
  <1> HIDE DEF j
  <1> QED
    BY <1>1, <1>2, <1>3, <1>4, <1>5, <1>6, <1>7, QuietKeeps

\* An invalidation waits for the lock like a run.
LEMMA BeginInvalidateKeeps ==
  ASSUME disturbed' = FALSE, IInv, NEW c \in Command, BeginInvalidate(c)
  PROVE  IInv'
  <1>1. FormsOK /\ pc[c] = "idle" /\ \A o \in Command : pc[o] # "delete"
    BY DEF BeginInvalidate, MayBegin, DisturbedIf, Pruning, IInv
  <1>2. PICK j \in Job :
          /\ job' = [job EXCEPT ![c] = j] /\ j.todo = {}
          /\ j.entries = index /\ j.edges = lineage /\ j.replaced = superseded
    <2>1. PICK keys \in SUBSET Key : Set(c, Load([NoJob EXCEPT !.targets = keys]))
      <3>1. PICK keys \in {{s} \X Shard : s \in Stage} \cup {Stage \X {sh} : sh \in Shard} :
              Set(c, Load([NoJob EXCEPT !.targets = keys]))
        BY DEF BeginInvalidate
      <3>2. keys \in SUBSET Key
        BY DEF Key
      <3> QED
        BY <3>1, <3>2
    <2>2. PICK i \in Job : i.todo = {} /\ Set(c, Load(i))
      <3>1. ASSUME NEW i, i = [NoJob EXCEPT !.targets = keys] PROVE i \in Job /\ i.todo = {}
        BY <3>1, NoJobIsJob DEF Job, NoJob
      <3> QED
        BY <2>1, <3>1
    <2> QED
      BY <1>1, <2>2, Loaded DEF Set
  <1>3. /\ pc' = [pc EXCEPT ![c] = "invalidate"] /\ lock = None /\ lock' = c
        /\ UNCHANGED <<index, lineage, superseded, disk, active, revoked, status>>
    BY DEF BeginInvalidate, Goto, saved
  <1>4. /\ "invalidate" \in Phase \ {"worker", "delete"} /\ "invalidate" \in Locked
        /\ status' \in [Run -> RunStatus \cup {None}]
    BY <1>1, <1>3 DEF FormsOK, TypeOK, Phase, Locked
  <1>5. /\ Sound(j.entries, j.edges, j.replaced) /\ Known \subseteq KnownIn(j.entries, j.replaced)
        /\ OnDisk(KnownIn(j.entries, j.replaced))
    <2>1. KnownIn(index, superseded) = Known
      BY DEF KnownIn, Known
    <2> QED
      BY <1>1, <1>2, <2>1 DEF IInv, StoredSound, KnownOnDisk
  <1> QED
    BY <1>1, <1>2, <1>3, <1>4, <1>5, QuietKeeps

\* A command gives up the lock or its place in the queue without saving.
LEMMA GiveUpKeeps ==
  ASSUME disturbed' = FALSE, IInv, NEW c \in Command, Refuse(c) \/ Crash(c)
  PROVE  IInv'
  <1>1. FormsOK /\ pc[c] \notin {"idle", "delete"}
    BY DEF Refuse, Crash, DisturbedIf, IInv
  <1>2. /\ pc' = [pc EXCEPT ![c] = "idle"] /\ job' = [job EXCEPT ![c] = NoJob]
        /\ UNCHANGED <<index, lineage, superseded, disk, active, revoked, status>>
    BY <1>1 DEF Refuse, Crash, Return, Goto, Set, saved, history
  <1>3. /\ "idle" \in Phase \ {"worker", "delete"} /\ "idle" \notin Locked
        /\ status' \in [Run -> RunStatus \cup {None}]
    BY <1>1, <1>2 DEF FormsOK, TypeOK, Phase, Locked
  <1>4. \/ lock' = lock /\ pc[c] \notin Locked
        \/ lock = c /\ lock' = None
    BY <1>1 DEF Refuse, Crash, FormsOK, TypeOK, Locked
  <1>5. NoJob.todo = {}
    BY DEF NoJob
  <1>6. (\A o \in Command : pc[o] # "delete") \/ pc[c] = "lock"
    BY <1>1, NobodyPrunes
  <1> QED
    BY <1>1, <1>2, <1>3, <1>4, <1>5, <1>6, NoJobIsJob, QuietKeeps

-----------------------------------------------------------------------------
(* A walk. *)

\* What the holder of the lock has.
LEMMA HolderHas ==
  ASSUME IInv, NEW c \in Command, pc[c] \in Locked
  PROVE  /\ lock = c /\ job[c] \in Job
         /\ Sound(job[c].entries, job[c].edges, job[c].replaced)
         /\ Known \subseteq KnownIn(job[c].entries, job[c].replaced)
         /\ OnDisk(KnownIn(job[c].entries, job[c].replaced))
         /\ \A o \in Command : pc[o] # "delete"
         /\ \A o \in Command : o # c => pc[o] \notin Locked
  <1>1. pc[c] \notin {"idle", "lock", "delete"}
    BY DEF Locked
  <1> QED
    BY <1>1, NobodyPrunes, OneHolder DEF IInv, FormsOK, TypeOK, HeldSound

\* A result that did not fail is live afterwards, and nothing else dies of it.
LEMMA CommitLive ==
  ASSUME NEW j \in Job, NEW k \in Key, NEW dir \in Dir, NEW outcome \in Outcome,
         outcome # "failed", NEW h, h = Commit(j, k, dir, outcome)
  PROVE  /\ Live(h.entries, k)
         /\ \A o \in Key : Live(j.entries, o) => Live(h.entries, o)
  <1> DEFINE entry == [dir |-> dir, stale |-> FALSE]
  <1>1. h.entries = [j.entries EXCEPT ![k] = entry]
    BY Committed
  <1>2. j.entries \in [Key -> Entry \cup {None}] /\ entry \in Entry /\ entry # None /\ ~entry.stale
    BY FreshEntry DEF Job
  <1> HIDE DEF entry
  <1> QED
    BY <1>1, <1>2 DEF Live

\* The producers of the key that is next are live by now.
LEMMA NextIsFed ==
  ASSUME IInv, NEW c \in Command, pc[c] \in {"walk", "worker"}, NEW k \in Key, IsNext(job[c], k)
  PROVE  \A p \in Producers[k[1]] : Live(job[c].entries, <<p, k[2]>>)
  BY ProducersPrecede DEF IInv, PlanCovered, IsNext

\* A cache hit serves what is live in the copy under the lock.
LEMMA HitKeeps ==
  ASSUME disturbed' = FALSE, IInv, NEW c \in Command, NEW k \in Key, Hit(c, k)
  PROVE  IInv'
  <1>0. PICK dir, j : dir = job[c].entries[k].dir /\ j = Commit(job[c], k, dir, "produced")
    OBVIOUS
  <1>1. pc[c] = "walk" /\ pc[c] \in Locked /\ IsNext(job[c], k) /\ Servable(job[c].entries, k)
    BY DEF Hit, Locked
  <1>2. /\ job[c] \in Job
        /\ Sound(job[c].entries, job[c].edges, job[c].replaced)
        /\ Known \subseteq KnownIn(job[c].entries, job[c].replaced)
        /\ OnDisk(KnownIn(job[c].entries, job[c].replaced))
        /\ \A o \in Command : pc[o] # "delete"
    BY <1>1, HolderHas
  <1>3. dir \in Dir /\ Live(job[c].entries, k)
    BY <1>0, <1>1, <1>2, LiveIsEntry DEF Servable, Job
  <1>4. /\ dir.key = k /\ dir \notin job[c].replaced \cup revoked
        /\ disk[dir] = "produced" /\ dir \in KnownIn(job[c].entries, job[c].replaced)
    BY <1>0, <1>1, <1>2, <1>3 DEF Sound, OwnKeys, LiveApart, Live, Servable, KnownIn
  <1>5. "produced" \in Outcome
    BY DEF Outcome
  <1>6. /\ pc' = pc /\ job' = [job EXCEPT ![c] = j] /\ lock' = lock
        /\ UNCHANGED <<index, lineage, superseded, disk, active, revoked, status>>
    BY <1>0 DEF Hit, Set, saved, history
    <1>8. /\ j \in Job /\ j.run = job[c].run /\ j.todo = job[c].todo \ {k}
        /\ j.edges = job[c].edges \cup {<<<<p, k[2]>>, k>> : p \in Producers[k[1]]}
        /\ j.entries = [job[c].entries EXCEPT ![k] = [dir |-> dir, stale |-> FALSE]]
        /\ j.replaced = Supersede(job[c].replaced, job[c].entries[k], dir)
    <2>1. job[c] \in Job /\ j = Commit(job[c], k, dir, "produced")
      BY <1>0, <1>2
    <2> QED
      BY <2>1, <1>3, <1>5, Committed
  <1>10. j.entries = job[c].entries /\ j.replaced = job[c].replaced
    <2> DEFINE entry == [dir |-> dir, stale |-> FALSE]
    <2>1. job[c].entries[k] = entry
      <3>1. job[c].entries[k] \in Entry /\ ~job[c].entries[k].stale /\ job[c].entries[k].dir = dir
        BY <1>0, <1>2, <1>3, LiveIsEntry DEF Live, Job
      <3> QED
        BY <3>1 DEF Entry
    <2>2. j.entries = job[c].entries
      BY <1>2, <1>8, <2>1 DEF Job
    <2>3. j.replaced = job[c].replaced
      BY <1>8, <2>1 DEF Supersede
    <2> QED
      BY <2>2, <2>3
  <1>11. Sound(j.entries, j.edges, j.replaced)
    BY <1>2, <1>8, <1>10 DEF Sound, Traced
  <1>12. Known \subseteq KnownIn(j.entries, j.replaced) /\ OnDisk(KnownIn(j.entries, j.replaced))
    BY <1>2, <1>10
  <1>13. \A o \in j.todo : \A p \in Producers[o[1]] : Live(j.entries, <<p, o[2]>>) \/ <<p, o[2]>> \in j.todo
    <2>1. ASSUME NEW o \in j.todo, NEW p \in Producers[o[1]]
          PROVE  Live(j.entries, <<p, o[2]>>) \/ <<p, o[2]>> \in j.todo
      <3>1. o \in job[c].todo /\ o \in Key
        BY <1>2, <1>8 DEF Job
      <3>2. <<p, o[2]>> \in Key
        BY <3>1, ProducersPrecede
      <3>3. Live(job[c].entries, <<p, o[2]>>) \/ <<p, o[2]>> \in job[c].todo
        BY <1>1, <3>1 DEF IInv, PlanCovered
      <3> QED
        BY <1>3, <1>8, <1>10, <3>2, <3>3
    <2> QED
      BY <2>1
  <1>14. /\ "walk" \in Phase \ {"worker", "delete"} /\ pc' = [pc EXCEPT ![c] = "walk"]
         /\ status' \in [Run -> RunStatus \cup {None}] /\ j.run \in Run
    <2>1. j.run \in Run
      BY <1>1, <1>8 DEF IInv, FormsOK
    <2>2. pc \in [Command -> Phase] /\ status \in [Run -> RunStatus \cup {None}]
      BY DEF IInv, FormsOK, TypeOK
    <2>3. pc' = [pc EXCEPT ![c] = "walk"]
      BY <1>1, <1>6, <2>2
    <2> QED
      BY <1>6, <2>1, <2>2, <2>3 DEF Phase
  <1>15. \E phase \in Phase \ {"worker", "delete"} :
           phase = "walk" /\ phase \in Locked /\ pc[c] \in Locked /\ pc' = [pc EXCEPT ![c] = phase]
    BY <1>1, <1>14
  <1> QED
    BY <1>2, <1>6, <1>8, <1>11, <1>12, <1>13, <1>14, <1>15, QuietKeeps

\* merge_status leaves a status of its kind.
LEMMA StatusMerged ==
  ASSUME FormsOK, NEW c \in Command, SaveStatus(c)
  PROVE  status' \in [Run -> RunStatus \cup {None}]
  <1> DEFINE old == status[job[c].run]
             rows == [k \in Key |-> IF job[c].rows[k] # None \/ old = None THEN job[c].rows[k] ELSE old.rows[k]]
  <1>1. PICK interrupted : status' = [status EXCEPT ![job[c].run] =
                                        [halted |-> job[c].halted \/ interrupted, rows |-> rows]]
    BY DEF SaveStatus
  <1>2. status \in [Run -> RunStatus \cup {None}]
    BY DEF FormsOK, TypeOK
  <1>3. CASE job[c].run \in Run
    <2>1. old \in RunStatus \cup {None}
      BY <1>2, <1>3
    <2>2. rows \in [Key -> Execution \cup {None}]
      BY <2>1 DEF FormsOK, Job, RunStatus
    <2>3. (job[c].halted \/ interrupted) \in BOOLEAN
      OBVIOUS
    <2>4. [halted |-> job[c].halted \/ interrupted, rows |-> rows] \in RunStatus
      <3> HIDE DEF rows
      <3> DEFINE halted == job[c].halted \/ interrupted
      <3> HIDE DEF halted
      <3>1. [halted |-> halted, rows |-> rows] \in RunStatus
        BY <2>2, <2>3 DEF RunStatus, halted
      <3> QED
        BY <3>1 DEF halted
    <2> QED
      BY <1>1, <1>2, <2>4
  <1>4. CASE job[c].run \notin Run
    BY <1>1, <1>2, <1>4
  <1> QED
    BY <1>3, <1>4

\* The walk stops, or saves the status of its run.
LEMMA StopKeeps ==
  ASSUME disturbed' = FALSE, IInv, NEW c \in Command, Halt(c) \/ SaveStatus(c)
  PROVE  IInv'
  <1>1. pc[c] \in {"walk", "status"} /\ pc[c] \in Locked
    BY DEF Halt, SaveStatus, Locked
  <1>2. /\ job[c] \in Job
        /\ Sound(job[c].entries, job[c].edges, job[c].replaced)
        /\ Known \subseteq KnownIn(job[c].entries, job[c].replaced)
        /\ OnDisk(KnownIn(job[c].entries, job[c].replaced))
        /\ \A o \in Command : pc[o] # "delete"
    BY <1>1, HolderHas
  <1>3. lock' = lock /\ UNCHANGED <<index, lineage, superseded, disk, active, revoked>>
    BY DEF Halt, SaveStatus, saved, history
  <1>4. CASE Halt(c)
    <2>1. PICK j \in Job :
            /\ job' = [job EXCEPT ![c] = j] /\ j.todo = job[c].todo
            /\ j.entries = job[c].entries /\ j.edges = job[c].edges /\ j.replaced = job[c].replaced
      <3>1. ASSUME NEW i, i = [job[c] EXCEPT !.halted = TRUE]
            PROVE  /\ i \in Job /\ i.todo = job[c].todo
                   /\ i.entries = job[c].entries /\ i.edges = job[c].edges /\ i.replaced = job[c].replaced
        BY <1>2, <3>1 DEF Job
      <3> QED
        BY <1>4, <3>1 DEF Halt, Set
    <2>2. /\ pc' = [pc EXCEPT ![c] = "status"] /\ "status" \in Phase \ {"worker", "delete"} /\ "status" \in Locked
          /\ status' \in [Run -> RunStatus \cup {None}]
      BY <1>4 DEF Halt, Goto, IInv, FormsOK, TypeOK, Phase, Locked
    <2> QED
      BY <1>1, <1>2, <1>3, <2>1, <2>2, QuietKeeps
  <1>5. CASE SaveStatus(c)
    <2>1. /\ job' = [job EXCEPT ![c] = job[c]] /\ pc' = [pc EXCEPT ![c] = "index"]
          /\ "index" \in Phase \ {"worker", "delete"} /\ "index" \in Locked
      BY <1>5 DEF SaveStatus, Goto, IInv, FormsOK, TypeOK, Phase, Locked
    <2>2. status' \in [Run -> RunStatus \cup {None}]
      BY <1>5, StatusMerged DEF IInv
    <2> QED
      BY <1>1, <1>2, <1>3, <2>1, <2>2, QuietKeeps
  <1> QED
    BY <1>4, <1>5

-----------------------------------------------------------------------------
(* Steps of the process that holds the lock. *)

\* It need only answer for what it leaves in its variables and the files.
LEMMA HolderKeeps ==
  ASSUME disturbed' = FALSE, IInv, NEW c \in Command, pc[c] \in Locked, NEW phase \in Phase \ {"delete", "lock"},
         NEW j \in Job, pc' = [pc EXCEPT ![c] = phase], job' = [job EXCEPT ![c] = j],
         \/ lock' = lock /\ phase \in Locked
         \/ lock' = None /\ phase \notin Locked,
         index' \in [Key -> Entry \cup {None}], lineage' \subseteq Key \X Key,
         superseded' \subseteq Dir, revoked' \subseteq Dir, disk' \in [Dir -> Content],
         UNCHANGED <<active, status>>,
         StoredSound', OnDisk(Known)', PruneSparesOwn',
         phase \in Locked =>
           /\ Sound(j.entries, j.edges, j.replaced)'
           /\ Known' \subseteq KnownIn(j.entries, j.replaced)
           /\ \A d \in KnownIn(j.entries, j.replaced) : disk'[d] # "none",
         phase \in {"walk", "worker"} => j.run \in Run,
         phase \in {"walk", "worker"} =>
           \A k \in j.todo : \A p \in Producers[k[1]] :
             Live(j.entries, <<p, k[2]>>) \/ <<p, k[2]>> \in j.todo,
         phase = "worker" =>
           /\ j.dir \in Dir /\ IsNext(j, j.dir.key) /\ disk'[j.dir] = "reserved"
           /\ j.dir \notin KnownIn(j.entries, j.replaced) \cup revoked'
  PROVE  IInv'
  <1>1. /\ pc' \in [Command -> Phase] /\ job' \in [Command -> Job]
        /\ pc'[c] = phase /\ job'[c] = j
        /\ \A o \in Command : o # c => pc'[o] = pc[o] /\ job'[o] = job[o]
    BY Moves DEF IInv
  <1>2. /\ lock = c /\ \A o \in Command : pc[o] # "delete"
        /\ \A o \in Command : o # c => pc[o] \notin Locked
    BY HolderHas
  <1>3. FormsOK'
    <2>1. /\ lock' \in Command \cup {None}
          /\ \A o \in Command : pc'[o] \in Locked <=> lock' = o
          /\ lock' = None => \A o \in Command : pc'[o] \notin Locked
      BY <1>2, LockKept DEF IInv
    <2> QED
      BY <1>1, <2>1 DEF FormsOK, TypeOK, IInv
  <1>4. \A o \in Command : pc'[o] \in Locked => o = c
    BY <1>1, <1>2
  <1>5. HeldSound'
    <2>1. \A o \in Command : pc'[o] \in Locked =>
            /\ job'[o] = j /\ phase \in Locked
      BY <1>1, <1>4
    <2>2. phase \in Locked =>
            /\ Sound(j.entries, j.edges, j.replaced)'
            /\ Known' \subseteq KnownIn(j.entries, j.replaced)'
            /\ OnDisk(KnownIn(j.entries, j.replaced))'
      BY DEF KnownIn, OnDisk
    <2> QED
      BY <2>1, <2>2 DEF HeldSound
  <1>6. PlanCovered'
    <2>1. ASSUME NEW o \in Command, NEW k \in job'[o].todo, NEW p \in Producers[k[1]]
          PROVE  /\ pc'[o] = "lock" => p \in job'[o].assumed \/ <<p, k[2]>> \in job'[o].todo
                 /\ pc'[o] \in {"walk", "worker"} =>
                      Live(job'[o].entries, <<p, k[2]>>) \/ <<p, k[2]>> \in job'[o].todo
      <3>1. CASE o = c
        BY <1>1, <2>1, <3>1
      <3>2. CASE o # c
        <4>1. pc'[o] = pc[o] /\ job'[o] = job[o] /\ pc[o] \notin {"walk", "worker"}
          BY <1>1, <1>2, <3>2 DEF Locked
        <4> QED
          BY <2>1, <4>1 DEF IInv, PlanCovered
      <3> QED
        BY <3>1, <3>2
    <2> QED
      BY <2>1 DEF PlanCovered, Live
  <1>7. WorkerApart'
    <2>1. \A o \in Command : pc'[o] = "worker" => job'[o] = j /\ phase = "worker"
      BY <1>1, <1>4 DEF Locked
    <2> QED
      BY <2>1 DEF WorkerApart, IsNext, KnownIn
  <1>8. PruneApart' /\ KnownOnDisk'
    <2>1. \A o \in Command : pc'[o] # "delete"
      BY <1>1, <1>2
    <2> QED
      BY <2>1 DEF PruneApart, KnownOnDisk
  <1>9. StoredSound' /\ PruneSparesOwn'
    OBVIOUS
  <1> QED
    BY <1>3, <1>5, <1>6, <1>7, <1>8, <1>9 DEF IInv

\* A worker gets the directory after the last one anybody knows.
LEMMA ReserveKeeps ==
  ASSUME disturbed' = FALSE, IInv, NEW c \in Command, NEW k \in Key, Reserve(c, k)
  PROVE  IInv'
  <1>1. pc[c] = "walk" /\ pc[c] \in Locked /\ IsNext(job[c], k) /\ job[c].run \in Run
    BY DEF Reserve, Locked, IInv, FormsOK
  <1>2. /\ job[c] \in Job
        /\ Sound(job[c].entries, job[c].edges, job[c].replaced)
        /\ Known \subseteq KnownIn(job[c].entries, job[c].replaced)
        /\ OnDisk(KnownIn(job[c].entries, job[c].replaced))
    BY <1>1, HolderHas
  <1>3. PICK dir, j :
          /\ dir \in Dir /\ dir.key = k
          /\ j = [job[c] EXCEPT !.dir = dir] /\ job' = [job EXCEPT ![c] = j]
          /\ disk[dir] = "none" /\ disk' = [disk EXCEPT ![dir] = "reserved"]
          /\ revoked' = revoked \ {dir}
    <2>1. PICK n \in 1..MaxAttempts :
            LET a == [run |-> job[c].run, key |-> k, attempt |-> n] IN
            /\ disk[a] = "none" /\ disk' = [disk EXCEPT ![a] = "reserved"]
            /\ Set(c, [job[c] EXCEPT !.dir = a]) /\ revoked' = revoked \ {a}
      BY DEF Reserve
    <2>2. PICK a : a = [run |-> job[c].run, key |-> k, attempt |-> n]
      OBVIOUS
    <2>3. a \in Dir /\ a.key = k
      BY <1>1, <2>2 DEF Dir
    <2> QED
      BY <2>1, <2>2, <2>3 DEF Set
  <1>4. /\ pc' = [pc EXCEPT ![c] = "worker"] /\ lock' = lock
        /\ UNCHANGED <<index, lineage, superseded, active, status>>
    BY DEF Reserve, Goto, saved
  <1>5. /\ j \in Job /\ j.run = job[c].run /\ j.todo = job[c].todo /\ j.dir = dir
        /\ j.entries = job[c].entries /\ j.edges = job[c].edges /\ j.replaced = job[c].replaced
    BY <1>2, <1>3 DEF Job
  <1>6. /\ disk \in [Dir -> Content] /\ disk' \in [Dir -> Content]
        /\ disk'[dir] = "reserved" /\ \A d \in Dir : d # dir => disk'[d] = disk[d]
        /\ revoked \subseteq Dir /\ index \in [Key -> Entry \cup {None}] /\ superseded \subseteq Dir
        /\ lineage \subseteq Key \X Key /\ pc \in [Command -> Phase]
        /\ active \in Generation \cup {None}
    BY <1>3 DEF IInv, FormsOK, TypeOK, Content
  <1>7. dir \notin KnownIn(j.entries, j.replaced)
    BY <1>2, <1>3, <1>5 DEF OnDisk
  <1>8. \A e, g, r : e \in [Key -> Entry \cup {None}] /\ Sound(e, g, r) => Sound(e, g, r)'
    <2>1. ASSUME NEW e \in [Key -> Entry \cup {None}], NEW q \in Key, Live(e, q),
                 e[q].dir \notin revoked, disk[e[q].dir] \in {"produced", "partial"}
          PROVE  disk'[e[q].dir] \in {"produced", "partial"} /\ e[q].dir \notin revoked'
      BY <1>3, <1>6, <2>1, LiveIsEntry
    <2> QED
      BY <2>1, SoundKept DEF Sound, LiveApart
  <1>9. StoredSound' /\ Sound(j.entries, j.edges, j.replaced)'
    <2>1. Sound(index, lineage, superseded)' 
      <3>1. Sound(index, lineage, superseded)
        BY DEF IInv, StoredSound
      <3>2. \E e, g, r : e = index /\ g = lineage /\ r = superseded /\ Sound(e, g, r)'
        BY <1>6, <1>8, <3>1
      <3> QED
        BY <1>4, <3>2
    <2>2. j.entries \in [Key -> Entry \cup {None}]
      BY <1>5 DEF Job
    <2> QED
      BY <1>2, <1>5, <1>8, <2>1, <2>2 DEF StoredSound
  <1>10. /\ Known' = Known
         /\ \A d \in KnownIn(j.entries, j.replaced) : disk'[d] # "none"
    <2>1. KnownIn(j.entries, j.replaced) \subseteq Dir
      BY <1>5 DEF KnownIn, Job, Entry
    <2> QED
      BY <1>2, <1>4, <1>5, <1>6, <2>1 DEF OnDisk, Known
  <1>11. OnDisk(Known)' /\ PruneSparesOwn'
    <2>1. OnDisk(Known)'
      BY <1>2, <1>5, <1>10 DEF OnDisk
    <2>2. active # None => active.outputs \subseteq Dir
      BY <1>6 DEF Generation
    <2>3. PruneSparesOwn'
      BY <1>3, <1>4, <1>6, <2>2 DEF PruneSparesOwn, IInv
    <2> QED
      BY <2>1, <2>3
  <1>12. \A o \in j.todo : \A p \in Producers[o[1]] : Live(j.entries, <<p, o[2]>>) \/ <<p, o[2]>> \in j.todo
    BY <1>1, <1>5 DEF IInv, PlanCovered
  <1>13. IsNext(j, dir.key) /\ revoked' \subseteq Dir /\ dir \notin revoked'
    BY <1>1, <1>3, <1>5, <1>6 DEF IsNext
  <1>14. \E phase \in Phase \ {"delete", "lock"} :
           phase = "worker" /\ phase \in Locked /\ pc' = [pc EXCEPT ![c] = phase]
    BY <1>4 DEF Phase, Locked
  <1>15. /\ Known' \subseteq KnownIn(j.entries, j.replaced) /\ j.run \in Run
         /\ index' \in [Key -> Entry \cup {None}] /\ lineage' \subseteq Key \X Key
         /\ superseded' \subseteq Dir
    BY <1>1, <1>2, <1>4, <1>5, <1>6, <1>10
  <1>16. /\ j.dir \in Dir /\ IsNext(j, j.dir.key) /\ disk'[j.dir] = "reserved"
         /\ j.dir \notin KnownIn(j.entries, j.replaced) \cup revoked'
    BY <1>3, <1>5, <1>6, <1>7, <1>13
  <1> QED
    BY <1>1, <1>3, <1>4, <1>5, <1>6, <1>9, <1>10, <1>11, <1>12, <1>13, <1>14, <1>15, <1>16, HolderKeeps

\* A worker's result is committed in the copy, whatever its outcome.
LEMMA WorkKeeps ==
  ASSUME disturbed' = FALSE, IInv, NEW c \in Command, Work(c)
  PROVE  IInv'
  <1>1. pc[c] = "worker" /\ pc[c] \in Locked /\ job[c].run \in Run
    BY DEF Work, Locked, IInv, FormsOK
  <1>2. /\ job[c] \in Job
        /\ Sound(job[c].entries, job[c].edges, job[c].replaced)
        /\ Known \subseteq KnownIn(job[c].entries, job[c].replaced)
        /\ OnDisk(KnownIn(job[c].entries, job[c].replaced))
    BY <1>1, HolderHas
  <1>3. PICK dir, k :
          /\ dir = job[c].dir /\ k = job[c].dir.key /\ dir \in Dir /\ k \in Key /\ dir.key = k
          /\ IsNext(job[c], k) /\ disk[dir] = "reserved"
          /\ dir \notin KnownIn(job[c].entries, job[c].replaced) \cup revoked
    BY <1>1 DEF IInv, WorkerApart, Dir
  <1>3a. PICK outcome \in Outcome :
          /\ job' = [job EXCEPT ![c] = Commit(job[c], k, dir, outcome)]
          /\ disk' = IF outcome = "failed" THEN disk ELSE [disk EXCEPT ![dir] = outcome]
          /\ pc' = [pc EXCEPT ![c] = IF outcome = "produced" THEN "walk" ELSE "status"]
    BY <1>3 DEF Work, Set, Goto, Outcome
  <1>4. PICK j :
          /\ j = Commit(job[c], k, dir, outcome) /\ job' = [job EXCEPT ![c] = j]
          /\ disk' = IF outcome = "failed" THEN disk ELSE [disk EXCEPT ![dir] = outcome]
          /\ pc' = [pc EXCEPT ![c] = IF outcome = "produced" THEN "walk" ELSE "status"]
    BY <1>3a
  <1>5. lock' = lock /\ UNCHANGED <<index, lineage, superseded, active, status, revoked>>
    BY DEF Work, saved, history
  <1>6. /\ disk \in [Dir -> Content] /\ disk' \in [Dir -> Content]
        /\ \A d \in Dir : d # dir => disk'[d] = disk[d]
        /\ outcome = "failed" => disk' = disk
        /\ outcome # "failed" => disk'[dir] \in {"produced", "partial"}
        /\ disk'[dir] # "none"
        /\ revoked \subseteq Dir /\ index \in [Key -> Entry \cup {None}] /\ superseded \subseteq Dir
        /\ lineage \subseteq Key \X Key /\ pc \in [Command -> Phase]
        /\ active \in Generation \cup {None}
    BY <1>3, <1>4 DEF IInv, FormsOK, TypeOK, Content, Outcome
  <1>7. \A p \in Producers[k[1]] : Live(job[c].entries, <<p, k[2]>>)
    BY <1>1, <1>3, NextIsFed
  <1>20. PICK o : o = job[c]
    OBVIOUS
  <1>21. o \in Job /\ k \in Key /\ dir \in Dir /\ j = Commit(o, k, dir, outcome)
    BY <1>20, <1>2, <1>3, <1>4
  <1>8. j \in Job /\ j.run = job[c].run /\ j.todo = job[c].todo \ {k}
    <2>1. j \in Job
      BY <1>21, Committed
    <2>2. j.run = o.run /\ j.todo = o.todo \ {k}
      BY <1>21 DEF Commit, Job
    <2> QED
      BY <1>20, <2>1, <2>2
  <1>9. Sound(j.entries, j.edges, j.replaced)'
    <2>1. dir \notin job[c].replaced \cup revoked
      BY <1>3 DEF KnownIn
    <2>2. revoked' = revoked
      BY <1>5
    <2> QED
      BY <1>2, <1>3, <1>4, <1>6, <1>7, <2>1, <2>2, CommitSound
  <1>10. /\ KnownIn(job[c].entries, job[c].replaced) \subseteq KnownIn(j.entries, j.replaced)
         /\ KnownIn(j.entries, j.replaced) \subseteq KnownIn(job[c].entries, job[c].replaced) \cup {dir}
    <2>1. /\ KnownIn(o.entries, o.replaced) \subseteq KnownIn(j.entries, j.replaced)
          /\ KnownIn(j.entries, j.replaced) \subseteq KnownIn(o.entries, o.replaced) \cup {dir}
      BY <1>21, CommitKnows
    <2> QED
      BY <1>20, <2>1
  <1>11. KnownIn(job[c].entries, job[c].replaced) \subseteq Dir
    BY <1>2 DEF KnownIn, Job, Entry
  <1>12. /\ Known' = Known /\ Known' \subseteq KnownIn(j.entries, j.replaced)
         /\ \A d \in KnownIn(j.entries, j.replaced) : disk'[d] # "none"
    <2>1. Known' = Known
      BY <1>5 DEF Known
    <2> QED
      BY <1>2, <1>3, <1>6, <1>10, <1>11, <2>1 DEF OnDisk
  <1>13. OnDisk(Known)'
    BY <1>12 DEF OnDisk
  <1>14. StoredSound'
    <2>1. Sound(index, lineage, superseded)
      BY DEF IInv, StoredSound
    <2>2. ASSUME NEW q \in Key, Live(index, q)
          PROVE  disk'[index[q].dir] \in {"produced", "partial"} /\ index[q].dir \notin revoked'
      <3>1. index[q].dir \in Dir
        BY <1>6, <2>2, LiveIsEntry
      <3>2. disk[index[q].dir] \in {"produced", "partial"} /\ index[q].dir \notin revoked
        BY <2>1, <2>2 DEF Sound, LiveApart
      <3> QED
        BY <1>3, <1>5, <1>6, <3>1, <3>2
    <2>3. \E e, g, r : e = index /\ g = lineage /\ r = superseded /\ Sound(e, g, r)'
      BY <2>1, <2>2, SoundKept
    <2> QED
      BY <1>5, <2>3 DEF StoredSound
  <1>15. PruneSparesOwn'
    <2>1. active # None => active.outputs \subseteq Dir
      BY <1>6 DEF Generation
    <2> QED
      BY <1>3, <1>5, <1>6, <2>1 DEF PruneSparesOwn, IInv
  <1>16. outcome # "failed" =>
           \A q \in j.todo : \A p \in Producers[q[1]] : Live(j.entries, <<p, q[2]>>) \/ <<p, q[2]>> \in j.todo
    <2>1. ASSUME outcome # "failed", NEW q \in j.todo, NEW p \in Producers[q[1]]
          PROVE  Live(j.entries, <<p, q[2]>>) \/ <<p, q[2]>> \in j.todo
      <3>1. q \in job[c].todo /\ q \in Key
        BY <1>2, <1>8 DEF Job
      <3>2. <<p, q[2]>> \in Key
        BY <3>1, ProducersPrecede
      <3>3. Live(job[c].entries, <<p, q[2]>>) \/ <<p, q[2]>> \in job[c].todo
        BY <1>1, <3>1 DEF IInv, PlanCovered
      <3>4. Live(j.entries, k) /\ \A r \in Key : Live(job[c].entries, r) => Live(j.entries, r)
        BY <1>20, <1>21, <2>1, CommitLive
      <3> QED
        BY <1>8, <3>2, <3>3, <3>4
    <2> QED
      BY <2>1
  <1>17. \E phase \in Phase \ {"delete", "lock"} :
           /\ phase \in Locked /\ pc' = [pc EXCEPT ![c] = phase] /\ phase # "worker"
           /\ phase = "walk" => outcome # "failed"
    <2>1. CASE outcome = "produced"
      <3>1. "walk" \in Phase \ {"delete", "lock"} /\ "walk" \in Locked /\ pc' = [pc EXCEPT ![c] = "walk"]
        BY <1>4, <2>1 DEF Phase, Locked
      <3> QED
        BY <2>1, <3>1
    <2>2. CASE outcome # "produced"
      <3>1. "status" \in Phase \ {"delete", "lock"} /\ "status" \in Locked /\ pc' = [pc EXCEPT ![c] = "status"]
        BY <1>4, <2>2 DEF Phase, Locked
      <3> QED
        BY <3>1
    <2> QED
      BY <2>1, <2>2
  <1>18. /\ index' \in [Key -> Entry \cup {None}] /\ lineage' \subseteq Key \X Key
         /\ superseded' \subseteq Dir /\ revoked' \subseteq Dir /\ j.run \in Run
    BY <1>1, <1>5, <1>6, <1>8
  <1> QED
    BY <1>1, <1>4, <1>5, <1>6, <1>8, <1>9, <1>12, <1>13, <1>14, <1>15, <1>16, <1>17, <1>18, HolderKeeps

\* The index of a walk replaces the stored one.
LEMMA SaveIndexKeeps ==
  ASSUME disturbed' = FALSE, IInv, NEW c \in Command, SaveIndex(c)
  PROVE  /\ IInv'
         /\ Known \subseteq Known'
  <1>1. pc[c] = "index" /\ pc[c] \in Locked
    BY DEF SaveIndex, Locked
  <1>2. /\ job[c] \in Job
        /\ Sound(job[c].entries, job[c].edges, job[c].replaced)
        /\ Known \subseteq KnownIn(job[c].entries, job[c].replaced)
        /\ OnDisk(KnownIn(job[c].entries, job[c].replaced))
    BY <1>1, HolderHas
  <1>3. /\ index' = job[c].entries /\ lineage' = job[c].edges /\ superseded' = job[c].replaced
        /\ lock' = None /\ job' = [job EXCEPT ![c] = NoJob] /\ pc' = [pc EXCEPT ![c] = "idle"]
        /\ UNCHANGED <<disk, active, status, revoked>>
    BY DEF SaveIndex, Return, Goto, Set, history
  <1>4. Known' = KnownIn(job[c].entries, job[c].replaced)
    BY <1>3 DEF Known, KnownIn
  <1>5. StoredSound'
    <2>1. \E e, g, r : /\ e = job[c].entries /\ g = job[c].edges /\ r = job[c].replaced
                       /\ Sound(e, g, r)'
      BY <1>2, <1>3, SoundUnchanged
    <2> QED
      BY <1>3, <2>1 DEF StoredSound
  <1>6. OnDisk(Known)'
    BY <1>2, <1>3, <1>4 DEF OnDisk
  <1>7. PruneSparesOwn'
    BY <1>3 DEF IInv, PruneSparesOwn
  <1>8. /\ index' \in [Key -> Entry \cup {None}] /\ lineage' \subseteq Key \X Key
        /\ superseded' \subseteq Dir /\ revoked' \subseteq Dir /\ disk' \in [Dir -> Content]
    BY <1>2, <1>3 DEF Job, IInv, FormsOK, TypeOK
  <1>9. \E phase \in Phase \ {"delete", "lock"} :
          phase = "idle" /\ phase \notin Locked /\ pc' = [pc EXCEPT ![c] = phase]
    BY <1>3 DEF Phase, Locked
  <1> QED
    BY <1>1, <1>2, <1>3, <1>4, <1>5, <1>6, <1>7, <1>8, <1>9, NoJobIsJob, HolderKeeps

\* What is marked takes along whatever the lineage says was made from it.
LEMMA MarkedClosed ==
  ASSUME NEW j \in Job
  PROVE  /\ Marked(j) \subseteq Key
         /\ \A a, b \in Key : a \in Marked(j) /\ <<a, b>> \in j.edges => b \in Marked(j)
  <1> DEFINE roots == {k \in j.targets : Live(j.entries, k)}
  <1>1. Marked(j) = StaleClosure(Key, roots, j.edges)
    BY DEF Marked
  <1>2. ASSUME NEW a \in Key, NEW b \in Key, a \in StaleClosure(Key, roots, j.edges), <<a, b>> \in j.edges
        PROVE  b \in StaleClosure(Key, roots, j.edges)
    <2>1. <<a, b>>[1] = a /\ <<a, b>>[2] = b
      OBVIOUS
    <2> HIDE DEF roots
    <2> QED
      BY <1>2, <2>1 DEF StaleClosure
  <1> QED
    BY <1>1, <1>2 DEF StaleClosure

\* apply_invalidation and the save make stale whatever was made of what it names.
LEMMA SaveInvalidationKeeps ==
  ASSUME disturbed' = FALSE, IInv, NEW c \in Command, SaveInvalidation(c)
  PROVE  /\ IInv'
         /\ Known \subseteq Known'
  <1>1. pc[c] = "invalidate" /\ pc[c] \in Locked
    BY DEF SaveInvalidation, Locked
  <1>2. PICK j : j = job[c]
    OBVIOUS
  <1>3. /\ j \in Job /\ Sound(j.entries, j.edges, j.replaced)
        /\ Known \subseteq KnownIn(j.entries, j.replaced) /\ OnDisk(KnownIn(j.entries, j.replaced))
    BY <1>1, <1>2, HolderHas
  <1>4. PICK hit :
          /\ hit = {k \in Marked(j) : j.entries[k] # None}
          /\ index' = [k \in Key |-> IF k \in hit THEN [j.entries[k] EXCEPT !.stale = TRUE] ELSE j.entries[k]]
          /\ lineage' = j.edges /\ superseded' = j.replaced
          /\ revoked' = revoked \cup {j.entries[k].dir : k \in hit}
    BY ZenonT(40), <1>2 DEF SaveInvalidation
  <1>5. /\ lock' = None /\ job' = [job EXCEPT ![c] = NoJob] /\ pc' = [pc EXCEPT ![c] = "idle"]
        /\ UNCHANGED <<disk, active, status>>
    BY DEF SaveInvalidation, Return, Goto, Set
  <1>6. hit \subseteq Key /\ \A k \in hit : j.entries[k] \in Entry
    BY <1>3, <1>4, MarkedClosed DEF Job
  <1>7. /\ \A k \in Key \ hit : index'[k] = j.entries[k]
        /\ \A k \in hit : /\ index'[k] \in Entry /\ index'[k] # None
                          /\ index'[k].stale /\ index'[k].dir = j.entries[k].dir
    <2>1. ASSUME NEW k \in hit
          PROVE  /\ index'[k] \in Entry /\ index'[k] # None
                 /\ index'[k].stale /\ index'[k].dir = j.entries[k].dir
      <3>1. index'[k] = [j.entries[k] EXCEPT !.stale = TRUE] /\ j.entries[k] \in Entry
        BY <1>4, <1>6
      <3> QED
        BY <3>1, PipelineAssumption DEF Entry
    <2> QED
      BY <1>4, <2>1
  <1>8. \A k \in Key : /\ index'[k] # None <=> j.entries[k] # None
                       /\ index'[k].dir = j.entries[k].dir
                       /\ Live(index, k)' => k \notin hit /\ Live(j.entries, k)
                       /\ Live(j.entries, k) /\ k \notin hit => Live(index, k)'
    BY <1>4, <1>7 DEF Live
  <1>9. Known' = KnownIn(j.entries, j.replaced)
    BY <1>4, <1>8 DEF Known, KnownIn
  <1>10. StoredSound'
    <2>1. \A k \in Key : Live(j.entries, k) => (k \in hit <=> k \in Marked(j))
      BY <1>4 DEF Live
    <2>2. Traced(index, lineage)'
      <3>1. ASSUME NEW k \in Key, NEW p \in Producers[k[1]], Live(index, k)'
            PROVE  Live(index, <<p, k[2]>>)' /\ <<<<p, k[2]>>, k>> \in lineage'
        <4>1. <<p, k[2]>> \in Key
          BY ProducersPrecede
        <4>2. Live(j.entries, k) /\ k \notin Marked(j)
          BY <1>8, <2>1, <3>1
        <4>3. Live(j.entries, <<p, k[2]>>) /\ <<<<p, k[2]>>, k>> \in j.edges
          BY <1>3, <4>2 DEF Sound, Traced
        <4>4. <<p, k[2]>> \notin Marked(j)
          BY <1>3, <4>1, <4>2, <4>3, MarkedClosed
        <4> QED
          BY <1>4, <1>8, <2>1, <4>1, <4>3, <4>4
      <3> QED
        BY <3>1 DEF Traced
    <2>3. OwnKeys(index)'
      BY <1>3, <1>8 DEF Sound, OwnKeys
    <2>4. LiveApart(index, superseded)'
      <3>1. ASSUME NEW k \in Key, Live(index, k)'
            PROVE  /\ index'[k].dir \notin superseded' \cup revoked'
                   /\ disk'[index'[k].dir] \in {"produced", "partial"}
        <4>1. k \notin hit /\ Live(j.entries, k) /\ index'[k].dir = j.entries[k].dir
          BY <1>8, <3>1
        <4>2. /\ j.entries[k].dir \notin j.replaced \cup revoked
              /\ disk[j.entries[k].dir] \in {"produced", "partial"}
          BY <1>3, <4>1 DEF Sound, LiveApart
        <4>3. \A o \in hit : j.entries[o].dir # j.entries[k].dir
          BY <1>3, <1>4, <1>6, <4>1 DEF Sound, OwnKeys, Live
        <4> QED
          BY <1>4, <1>5, <4>1, <4>2, <4>3
      <3> QED
        BY <3>1 DEF LiveApart
    <2> QED
      BY <2>2, <2>3, <2>4 DEF StoredSound, Sound
  <1>11. OnDisk(Known)'
    BY <1>3, <1>5, <1>9 DEF OnDisk
  <1>12. PruneSparesOwn'
    BY <1>5 DEF IInv, PruneSparesOwn
  <1>13. /\ index' \in [Key -> Entry \cup {None}] /\ lineage' \subseteq Key \X Key
         /\ superseded' \subseteq Dir /\ disk' \in [Dir -> Content]
    <2>1. \A k \in Key : index'[k] \in Entry \cup {None}
      BY <1>3, <1>7 DEF Job
    <2> QED
      BY <1>3, <1>4, <1>5, <2>1 DEF Job, IInv, FormsOK, TypeOK
  <1>14. revoked' \subseteq Dir
    BY <1>4, <1>6 DEF Entry, IInv, FormsOK, TypeOK
  <1>15. \E phase \in Phase \ {"delete", "lock"} :
           phase = "idle" /\ phase \notin Locked /\ pc' = [pc EXCEPT ![c] = phase]
    BY <1>5 DEF Phase, Locked
  <1> QED
    BY <1>1, <1>3, <1>5, <1>9, <1>10, <1>11, <1>12, <1>13, <1>14, <1>15, NoJobIsJob, HolderKeeps

-----------------------------------------------------------------------------
(* Activation. *)

\* A nonempty set of numbers has a least one,
LEMMA LeastIs ==
  ASSUME NEW T \in SUBSET Nat, T # {}
  PROVE  \E x \in T : \A y \in T : x <= y
  <1> DEFINE R == OpToRel(<, Nat)
  <1>1. IsWellFoundedOn(R, Nat)
    BY NatLessThanWellFounded
  <1>2. \A x, y \in Nat : y < x => <<y, x>> \in R
    BY DEF OpToRel
  <1> HIDE DEF R
  <1>3. PICK x \in T : \A y \in T : <<y, x>> \notin R
    BY <1>1, WFMin
  <1>4. ASSUME NEW y \in T PROVE x <= y
    <2>1. x \in Nat /\ y \in Nat /\ ~(y < x)
      BY <1>2, <1>3
    <2> QED
      BY <2>1
  <1> QED
    BY <1>4

\* so that a nonempty set of positions has a last one.
LEMMA LastIs ==
  ASSUME NEW n \in Nat, NEW S \in SUBSET (1..n), S # {}
  PROVE  (CHOOSE i \in S : \A o \in S : o <= i) \in S
  <1> DEFINE T == {n - i : i \in S}
  <1>1. T \in SUBSET Nat /\ T # {}
    <2>1. \A i \in S : n - i \in Nat
      OBVIOUS
    <2> QED
      BY <2>1
  <1>2. PICK t \in T : \A y \in T : t <= y
    BY <1>1, LeastIs
  <1>3. PICK i \in S : t = n - i
    BY <1>2
  <1>4. ASSUME NEW o \in S PROVE o <= i
    <2>1. n - i <= n - o /\ o \in 1..n /\ i \in 1..n
      BY <1>2, <1>3
    <2> QED
      BY <2>1
  <1> QED
    BY <1>4

\* The last row of a stage is the row of one of its keys.
LEMMA LastIsRow ==
  ASSUME NEW r \in Run, NEW s \in Stage, LastRow(r, s) # None
  PROVE  \E sh \in Shard : LastRow(r, s) = status[r].rows[<<s, sh>>]
  <1> DEFINE known == {i \in 1..Len(ShardOrder) : status[r].rows[<<s, ShardOrder[i]>>] # None}
             last == CHOOSE i \in known : \A o \in known : o <= i
  <1>1. known # {} /\ LastRow(r, s) = status[r].rows[<<s, ShardOrder[last]>>]
    BY DEF LastRow
  <1>2. known \in SUBSET (1..Len(ShardOrder)) /\ Len(ShardOrder) \in Nat
    BY PipelineAssumption
  <1>3. last \in known
    <2> HIDE DEF known
    <2> QED
      BY <1>1, <1>2, LastIs
  <1>4. ShardOrder[last] \in Shard
    BY SMTT(30), <1>2, <1>3, PipelineAssumption
  <1> QED
    BY <1>1, <1>4

\* finalize makes active what it verified: attempts that are live and on disk.
LEMMA Activated ==
  ASSUME FormsOK, NEW c \in Command, Finalize(c)
  PROVE  /\ active' \in Generation /\ active' # None
         /\ \A d \in active'.outputs : disk[d] = "produced"
  <1>1. PICK r \in Run :
          /\ status[r] # None /\ Verified(r)
          /\ \A s \in Stage : LastRow(r, s) # None /\ LastRow(r, s).outcome = "produced"
          /\ active' = [run |-> r, outputs |-> {LastRow(r, s).dir : s \in Stage}]
    BY DEF Finalize
  <1>3. ASSUME NEW s \in Stage
        PROVE  LastRow(r, s).dir \in Dir /\ disk[LastRow(r, s).dir] = "produced"
    <2>1. PICK sh \in Shard : LastRow(r, s) = status[r].rows[<<s, sh>>]
      BY <1>1, LastIsRow
    <2>2. <<s, sh>> \in Key
      BY DEF Key
    <2>3. Servable(index, <<s, sh>>) /\ index[<<s, sh>>].dir = LastRow(r, s).dir
      BY <1>1, <2>1, <2>2 DEF Verified
    <2>4. index \in [Key -> Entry \cup {None}]
      BY DEF FormsOK, TypeOK
    <2> QED
      BY <2>2, <2>3, <2>4, LiveIsEntry DEF Servable
  <1>4. active' \in Generation /\ active' # None
        /\ \A d \in active'.outputs : disk[d] = "produced"
    <2>1. \A d \in {LastRow(r, s).dir : s \in Stage} : d \in Dir /\ disk[d] = "produced"
      BY <1>3
    <2>2. PICK outputs : outputs = {LastRow(r, s).dir : s \in Stage}
      OBVIOUS
    <2>3. outputs \in SUBSET Dir /\ active' = [run |-> r, outputs |-> outputs]
      BY <1>1, <2>1, <2>2
    <2>4. active' \in Generation
      BY <2>3 DEF Generation
    <2> QED
      BY <2>1, <2>2, <2>3, <2>4, PipelineAssumption
  <1> QED
    BY <1>4

\* An activation that no prune overlaps keeps the invariant.
LEMMA FinalizeKeeps ==
  ASSUME disturbed' = FALSE, IInv, NEW c \in Command, Finalize(c)
  PROVE  IInv'
  <1>2. /\ UNCHANGED <<lock, index, lineage, superseded, disk, status, pc, job, revoked>>
        /\ \A o \in Command : pc[o] # "delete"
    BY DEF Finalize, MayBegin, DisturbedIf, Pruning, saved, IInv
  <1>4. /\ active' \in Generation /\ active' # None
        /\ \A d \in active'.outputs : disk[d] = "produced"
    BY Activated DEF IInv
  <1>5. FormsOK'
    BY <1>2, <1>4 DEF IInv, FormsOK, TypeOK
  <1>6. StoredSound' /\ HeldSound'
    BY <1>2 DEF IInv, StoredSound, HeldSound, Sound, Traced, OwnKeys, LiveApart, Live, Known, KnownIn, OnDisk
  <1>7. PlanCovered' /\ WorkerApart'
    BY <1>2 DEF IInv, PlanCovered, WorkerApart, Live, KnownIn, IsNext
  <1>8. PruneApart' /\ KnownOnDisk' /\ PruneSparesOwn'
    BY <1>2, <1>4 DEF IInv, PruneApart, KnownOnDisk, PruneSparesOwn, OnDisk, Known
  <1> QED
    BY <1>5, <1>6, <1>7, <1>8 DEF IInv

-----------------------------------------------------------------------------
(* Steps of a prune, beside which nobody works under the lock. *)

\* A step of a prune, while every other process is at rest or waits for the lock.
LEMMA AloneKeeps ==
  ASSUME disturbed' = FALSE, IInv, NEW c \in Command,
         \A o \in Command : o # c => pc[o] \in {"idle", "lock"},
         pc[c] \in {"idle", "delete"}, NEW phase \in {"idle", "delete"}, NEW j \in Job,
         pc' = [pc EXCEPT ![c] = phase], job' = [job EXCEPT ![c] = j],
         index' \in [Key -> Entry \cup {None}], lineage' \subseteq Key \X Key,
         superseded' \subseteq Dir, disk' \in [Dir -> Content],
         UNCHANGED <<lock, active, status, revoked>>,
         StoredSound', PruneSparesOwn',
         phase = "idle" => OnDisk(Known)',
         phase = "delete" =>
           /\ j.entries = index' /\ j.replaced = superseded'
           /\ j.left \subseteq j.targets /\ j.targets \subseteq Dir
           /\ \A d \in j.targets \ j.left : disk'[d] = "none"
           /\ \A k \in Key : Live(index, k)' => index'[k].dir \notin j.targets
           /\ \A d \in j.targets : active # None => d.run # active.run
           /\ \A d \in Known' \ j.targets : disk'[d] # "none"
  PROVE  IInv'
  <1>1. /\ pc' \in [Command -> Phase] /\ job' \in [Command -> Job]
        /\ pc'[c] = phase /\ job'[c] = j
        /\ \A o \in Command : o # c => /\ pc'[o] \in {"idle", "lock"}
                                      /\ pc'[o] = pc[o] /\ job'[o] = job[o]
    BY Moves DEF IInv, Phase
  <1>2. \A o \in Command : pc'[o] \notin Locked /\ pc[o] \notin Locked
    BY <1>1 DEF Locked
  <1>3. FormsOK'
    BY <1>1, <1>2 DEF IInv, FormsOK, TypeOK
  <1>4. HeldSound' /\ PlanCovered' /\ WorkerApart'
    <2>1. \A o \in Command : pc'[o] = "lock" => pc[o] = "lock" /\ job'[o] = job[o]
      BY <1>1
    <2> QED
      BY <1>2, <2>1 DEF IInv, HeldSound, PlanCovered, WorkerApart, Locked
  <1>5. PruneApart' /\ KnownOnDisk'
    <2>1. \A o \in Command : pc'[o] = "delete" => o = c /\ phase = "delete"
      BY <1>1
    <2> QED
      BY <1>1, <2>1 DEF PruneApart, KnownOnDisk, OnDisk
  <1>6. StoredSound' /\ PruneSparesOwn'
    OBVIOUS
  <1> QED
    BY <1>3, <1>4, <1>5, <1>6 DEF IInv

\* The plan of a prune is compared with a new plan, so its targets are not live.
LEMMA BeginPruneKeeps ==
  ASSUME disturbed' = FALSE, IInv, NEW c \in Command, BeginPrune(c)
  PROVE  IInv'
  <1>1. /\ \A o \in Command : pc[o] \in {"idle", "lock"} /\ pc[c] = "idle"
        /\ pc' = [pc EXCEPT ![c] = "delete"]
        /\ UNCHANGED <<lock, index, lineage, superseded, disk, status, active, revoked>>
    <2>1. lock = None /\ \A o \in Command : pc[o] # "delete"
      BY DEF BeginPrune, DisturbedIf, Pruning
    <2>2. \A o \in Command : pc[o] \in Phase \ Locked
      BY <2>1 DEF IInv, FormsOK, TypeOK
    <2> QED
      BY <2>1, <2>2 DEF BeginPrune, MayBegin, Goto, saved, Phase, Locked
  <1>2. /\ index \in [Key -> Entry \cup {None}] /\ superseded \in SUBSET Dir
        /\ lineage \subseteq Key \X Key /\ disk \in [Dir -> Content]
    BY DEF IInv, FormsOK, TypeOK
  <1>3. Eligible \subseteq Dir
    BY <1>2 DEF Eligible, Entry
  <1>4. PICK j :
          /\ j = [NoJob EXCEPT !.entries = index, !.replaced = superseded,
                               !.targets = Eligible, !.left = Eligible]
          /\ job' = [job EXCEPT ![c] = j]
    BY DEF BeginPrune, Set
  <1>5. /\ j \in Job /\ j.entries = index /\ j.replaced = superseded
        /\ j.targets = Eligible /\ j.left = Eligible
    BY <1>2, <1>3, <1>4, NoJobIsJob DEF Job
  <1>6. Sound(index, lineage, superseded) /\ OnDisk(Known)
    BY <1>1 DEF IInv, StoredSound, KnownOnDisk
  <1>7. ASSUME NEW k \in Key, Live(index, k)
        PROVE  index[k].dir \notin Eligible
    <2>1. index[k].dir \notin superseded
      BY <1>6, <1>7 DEF Sound, LiveApart
    <2>2. ASSUME NEW o \in Key, index[o] # None, index[o].stale
          PROVE  index[o].dir # index[k].dir
      BY <1>6, <1>7, <2>2 DEF Sound, OwnKeys, Live
    <2> QED
      BY <2>1, <2>2 DEF Eligible
  <1>8. \A d \in Eligible : active # None => d.run # active.run
    BY DEF Eligible, Protected
  <1>9. StoredSound' /\ PruneSparesOwn'
    BY <1>1, <1>6 DEF IInv, StoredSound, PruneSparesOwn, Sound, Traced, OwnKeys, LiveApart, Live
  <1>10. \A k \in Key : Live(index, k)' => index'[k].dir \notin Eligible
    BY <1>1, <1>7 DEF Live
  <1>11. \A d \in Known' \ Eligible : disk'[d] # "none"
    BY <1>1, <1>6 DEF Known, OnDisk
  <1>12. /\ index' \in [Key -> Entry \cup {None}] /\ superseded' \subseteq Dir
         /\ lineage' \subseteq Key \X Key /\ disk' \in [Dir -> Content]
         /\ j.entries = index' /\ j.replaced = superseded'
    BY <1>1, <1>2, <1>5
  <1>13. \E phase \in {"idle", "delete"} : phase = "delete" /\ pc' = [pc EXCEPT ![c] = phase]
    BY <1>1
  <1> QED
    BY <1>1, <1>3, <1>4, <1>5, <1>8, <1>9, <1>10, <1>11, <1>12, <1>13, AloneKeeps

\* What a prune has and knows.
LEMMA PrunerHas ==
  ASSUME IInv, NEW c \in Command, pc[c] = "delete"
  PROVE  /\ \A o \in Command : o # c => pc[o] \in {"idle", "lock"}
         /\ job[c] \in Job /\ job[c].entries = index /\ job[c].replaced = superseded
         /\ job[c].left \subseteq job[c].targets /\ job[c].targets \subseteq Dir
         /\ \A d \in job[c].targets \ job[c].left : disk[d] = "none"
         /\ \A k \in Key : Live(index, k) => index[k].dir \notin job[c].targets
         /\ \A d \in job[c].targets : active # None => d.run # active.run
         /\ \A d \in Known \ job[c].targets : disk[d] # "none"
  BY DEF IInv, FormsOK, PruneApart, OnDisk

\* Deleting a target takes nothing else away.
LEMMA DeleteKeeps ==
  ASSUME disturbed' = FALSE, IInv, NEW c \in Command, Delete(c)
  PROVE  IInv'
  <1>1. pc[c] = "delete"
    BY DEF Delete
  <1>2. PICK j0 : j0 = job[c]
    OBVIOUS
  <1>3. /\ \A o \in Command : o # c => pc[o] \in {"idle", "lock"}
        /\ j0 \in Job /\ j0.entries = index /\ j0.replaced = superseded
        /\ j0.left \subseteq j0.targets /\ j0.targets \subseteq Dir
        /\ \A d \in j0.targets \ j0.left : disk[d] = "none"
        /\ \A k \in Key : Live(index, k) => index[k].dir \notin j0.targets
        /\ \A d \in j0.targets : active # None => d.run # active.run
        /\ \A d \in Known \ j0.targets : disk[d] # "none"
    BY <1>1, <1>2, PrunerHas
  <1>3a. PICK d \in j0.left :
          /\ disk' = [disk EXCEPT ![d] = "none"]
          /\ job' = [job EXCEPT ![c] = [j0 EXCEPT !.left = j0.left \ {d}]]
    BY <1>2 DEF Delete, Set
  <1>4. PICK j :
          /\ disk' = [disk EXCEPT ![d] = "none"]
          /\ j = [j0 EXCEPT !.left = j0.left \ {d}] /\ job' = [job EXCEPT ![c] = j]
    BY <1>3a
  <1>5. UNCHANGED <<lock, index, lineage, superseded, status, active, revoked, pc>>
    BY DEF Delete, saved, history
  <1>6. /\ index \in [Key -> Entry \cup {None}] /\ superseded \in SUBSET Dir
        /\ lineage \subseteq Key \X Key /\ disk \in [Dir -> Content] /\ pc \in [Command -> Phase]
        /\ active \in Generation \cup {None}
    BY DEF IInv, FormsOK, TypeOK
  <1>7. /\ j \in Job /\ j.entries = j0.entries /\ j.replaced = j0.replaced
        /\ j.targets = j0.targets /\ j.left = j0.left \ {d}
    BY <1>3, <1>4 DEF Job
  <1>8. /\ d \in Dir /\ disk' \in [Dir -> Content] /\ disk'[d] = "none"
        /\ \A o \in Dir : o # d => disk'[o] = disk[o]
    BY <1>3, <1>4, <1>6 DEF Content
  <1>9. StoredSound'
    <2>1. Sound(index, lineage, superseded)
      BY DEF IInv, StoredSound
    <2>2. ASSUME NEW q \in Key, Live(index, q)
          PROVE  disk'[index[q].dir] \in {"produced", "partial"} /\ index[q].dir \notin revoked'
      <3>1. index[q].dir \in Dir
        BY <1>6, <2>2, LiveIsEntry
      <3>2. disk[index[q].dir] \in {"produced", "partial"} /\ index[q].dir \notin revoked
        BY <2>1, <2>2 DEF Sound, LiveApart
      <3> QED
        BY <1>3, <1>5, <1>8, <2>2, <3>1, <3>2
    <2>3. \E e, g, r : e = index /\ g = lineage /\ r = superseded /\ Sound(e, g, r)'
      BY <2>1, <2>2, SoundKept
    <2> QED
      BY <1>5, <2>3 DEF StoredSound
  <1>10. PruneSparesOwn'
    <2>1. active # None => active.outputs \subseteq Dir
      BY <1>6 DEF Generation
    <2> QED
      BY <1>3, <1>5, <1>8, <2>1 DEF PruneSparesOwn, IInv
  <1>11. /\ \A o \in j.targets \ j.left : disk'[o] = "none"
         /\ \A k \in Key : Live(index, k)' => index'[k].dir \notin j.targets
    BY <1>3, <1>5, <1>7, <1>8 DEF Live
  <1>12. \A o \in Known' \ j.targets : disk'[o] # "none"
    <2>1. Known' = Known
      BY <1>5 DEF Known
    <2>2. Known \subseteq Dir
      BY <1>6 DEF Known, Entry
    <2> QED
      BY <1>3, <1>7, <1>8, <2>1, <2>2
  <1>13. \E phase \in {"idle", "delete"} : phase = "delete" /\ pc' = [pc EXCEPT ![c] = phase]
    BY <1>1, <1>5, <1>6
  <1>14. /\ index' \in [Key -> Entry \cup {None}] /\ superseded' \subseteq Dir
         /\ lineage' \subseteq Key \X Key
         /\ j.entries = index' /\ j.replaced = superseded'
         /\ j.left \subseteq j.targets /\ j.targets \subseteq Dir
         /\ \A o \in j.targets : active # None => o.run # active.run
    BY <1>3, <1>5, <1>6, <1>7
  <1>15. /\ \A o \in Command : o # c => pc[o] \in {"idle", "lock"}
         /\ pc[c] \in {"idle", "delete"} /\ j \in Job /\ disk' \in [Dir -> Content]
         /\ job' = [job EXCEPT ![c] = j] /\ UNCHANGED <<lock, active, status, revoked>>
    BY <1>1, <1>3, <1>4, <1>5, <1>7, <1>8
  <1> QED
    BY <1>9, <1>10, <1>11, <1>12, <1>13, <1>14, <1>15, AloneKeeps

\* _save_after_delete forgets only what is gone from the disk.
LEMMA SaveAfterDeleteKeeps ==
  ASSUME disturbed' = FALSE, IInv, NEW c \in Command, SaveAfterDelete(c)
  PROVE  /\ IInv'
         /\ \A d \in Known : d \in Known' \/ disk'[d] = "none"
  <1>1. pc[c] = "delete"
    BY DEF SaveAfterDelete
  <1>2. PICK j : j = job[c]
    OBVIOUS
  <1>3. /\ \A o \in Command : o # c => pc[o] \in {"idle", "lock"}
        /\ j.entries = index /\ j.replaced = superseded
        /\ j.targets \subseteq Dir
        /\ \A d \in j.targets \ j.left : disk[d] = "none"
        /\ \A k \in Key : Live(index, k) => index[k].dir \notin j.targets
        /\ \A d \in Known \ j.targets : disk[d] # "none"
    BY <1>1, <1>2, PrunerHas
  <1>4. PICK kept, gone :
          /\ kept = [k \in Key |-> IF index[k] # None /\ index[k].dir \in j.targets
                                   THEN None ELSE index[k]]
          /\ \A k \in Key : kept[k] # None => k \notin gone
          /\ index' = kept /\ superseded' = superseded \ j.targets /\ j.left = {}
          /\ lineage' = {e \in lineage : e[1] \notin gone \/ e[2] \notin gone}
    <2> DEFINE new == [k \in Key |-> IF j.entries[k] # None /\ j.entries[k].dir \in j.targets
                                     THEN None ELSE j.entries[k]]
               Keys(entries, replaced) == {k \in Key : entries[k] # None} \cup {d.key : d \in replaced}
               lost == Keys(j.entries, j.replaced) \ Keys(new, j.replaced \ j.targets)
    <2>1. /\ index' = new /\ superseded' = j.replaced \ j.targets /\ j.left = {}
          /\ lineage' = {e \in lineage : e[1] \notin lost \/ e[2] \notin lost}
      BY <1>2 DEF SaveAfterDelete
    <2>2. \A k \in Key : new[k] # None => k \notin lost
      OBVIOUS
    <2>3. new = [k \in Key |-> IF index[k] # None /\ index[k].dir \in j.targets
                               THEN None ELSE index[k]]
      BY <1>3
    <2> HIDE DEF new, lost
    <2> QED
      BY <1>3, <2>1, <2>2, <2>3
  <1>5. /\ job' = [job EXCEPT ![c] = NoJob] /\ pc' = [pc EXCEPT ![c] = "idle"]
        /\ UNCHANGED <<lock, disk, status, active, revoked>>
    BY DEF SaveAfterDelete, Return, Goto, Set, history
  <1>6. /\ index \in [Key -> Entry \cup {None}] /\ superseded \in SUBSET Dir
        /\ lineage \subseteq Key \X Key /\ disk \in [Dir -> Content]
    BY DEF IInv, FormsOK, TypeOK
  <1>7. \A k \in Key : /\ index'[k] # None => index'[k] = index[k] /\ index[k].dir \notin j.targets
                       /\ index[k] # None /\ index[k].dir \notin j.targets => index'[k] = index[k]
    BY <1>4
  <1>8. \A k \in Key : Live(index, k)' <=> Live(index, k)
    BY <1>3, <1>7 DEF Live
  <1>9. Sound(index, lineage, superseded)
    BY DEF IInv, StoredSound
  <1>10. StoredSound'
    <2>1. ASSUME NEW k \in Key, NEW p \in Producers[k[1]], Live(index, k)'
          PROVE  Live(index, <<p, k[2]>>)' /\ <<<<p, k[2]>>, k>> \in lineage'
      <3>1. <<p, k[2]>> \in Key
        BY ProducersPrecede
      <3>2. Live(index, <<p, k[2]>>) /\ <<<<p, k[2]>>, k>> \in lineage
        BY <1>8, <1>9, <2>1 DEF Sound, Traced
      <3>3. k \notin gone
        BY <1>4, <2>1 DEF Live
      <3>4. <<<<p, k[2]>>, k>>[2] = k
        OBVIOUS
      <3> QED
        BY <1>4, <1>8, <3>1, <3>2, <3>3, <3>4
    <2>2. OwnKeys(index)'
      BY <1>7, <1>9 DEF Sound, OwnKeys
    <2>3. LiveApart(index, superseded)'
      BY <1>4, <1>5, <1>7, <1>8, <1>9 DEF Sound, LiveApart, Live
    <2> QED
      BY <2>1, <2>2, <2>3 DEF StoredSound, Sound, Traced
  <1>11. Known' = Known \ j.targets
    <2>1. \A k \in Key : index[k] # None /\ index[k].dir \notin j.targets => index'[k] = index[k]
      BY <1>7
    <2>2. \A k \in Key : index'[k] # None => index'[k] = index[k] /\ index[k].dir \notin j.targets
      BY <1>7
    <2> QED
      BY <1>4, <2>1, <2>2 DEF Known
  <1>12. OnDisk(Known)' /\ \A d \in Known : d \in Known' \/ disk'[d] = "none"
    BY <1>3, <1>4, <1>5, <1>11 DEF OnDisk
  <1>13. PruneSparesOwn'
    BY <1>5 DEF IInv, PruneSparesOwn
  <1>14. /\ index' \in [Key -> Entry \cup {None}] /\ superseded' \subseteq Dir
         /\ lineage' \subseteq Key \X Key /\ disk' \in [Dir -> Content]
    BY <1>4, <1>5, <1>6
  <1>15. \E phase \in {"idle", "delete"} : phase = "idle" /\ pc' = [pc EXCEPT ![c] = phase]
    BY <1>5
  <1> QED
    BY <1>1, <1>3, <1>5, <1>10, <1>12, <1>13, <1>14, <1>15, NoJobIsJob, AloneKeeps

-----------------------------------------------------------------------------
(* The kinds of files and variables, whoever prunes beside whom. *)

Forms ==
  /\ FormsOK
  /\ \A c \in Command : pc[c] = "worker" => job[c].dir \in Dir

\* Files and variables keep their kinds while one process moves.
LEMMA FormsStep ==
  ASSUME Forms, NEW c \in Command, NEW phase \in Phase, NEW j \in Job,
         pc' = [pc EXCEPT ![c] = phase], job' = [job EXCEPT ![c] = j],
         \/ lock' = lock /\ (phase \in Locked <=> pc[c] \in Locked)
         \/ lock = None /\ lock' = c /\ phase \in Locked
         \/ lock = c /\ lock' = None /\ phase \notin Locked,
         phase \in {"lock", "walk", "worker"} => j.run \in Run,
         phase = "worker" => j.dir \in Dir,
         index' \in [Key -> Entry \cup {None}], lineage' \subseteq Key \X Key,
         superseded' \subseteq Dir, disk' \in [Dir -> Content],
         status' \in [Run -> RunStatus \cup {None}], active' \in Generation \cup {None},
         revoked' \subseteq Dir, disturbed' \in BOOLEAN
  PROVE  Forms'
  <1>1. FormsOK
    BY DEF Forms
  <1>2. /\ pc' \in [Command -> Phase] /\ job' \in [Command -> Job]
        /\ pc'[c] = phase /\ job'[c] = j
        /\ \A o \in Command : o # c => pc'[o] = pc[o] /\ job'[o] = job[o]
    BY <1>1, Moves
  <1>3. /\ lock' \in Command \cup {None}
        /\ \A o \in Command : pc'[o] \in Locked <=> lock' = o
        /\ lock' = None => \A o \in Command : pc'[o] \notin Locked
    BY <1>1, LockKept
  <1>4. TypeOK'
    BY <1>2, <1>3 DEF TypeOK
  <1>5. \A o \in Command : pc'[o] \in {"lock", "walk", "worker"} => job'[o].run \in Run
    BY <1>1, <1>2 DEF FormsOK
  <1>6. \A o \in Command : pc'[o] = "worker" => job'[o].dir \in Dir
    BY <1>2 DEF Forms
  <1> QED
    BY <1>2, <1>3, <1>4, <1>5, <1>6 DEF Forms, FormsOK

\* What the kinds say of the variables.
LEMMA FormsHave ==
  ASSUME Forms
  PROVE  /\ FormsOK
         /\ index \in [Key -> Entry \cup {None}] /\ lineage \subseteq Key \X Key
         /\ superseded \subseteq Dir /\ disk \in [Dir -> Content]
         /\ status \in [Run -> RunStatus \cup {None}] /\ active \in Generation \cup {None}
         /\ revoked \subseteq Dir /\ disturbed \in BOOLEAN
         /\ pc \in [Command -> Phase] /\ job \in [Command -> Job]
         /\ \A c \in Command : pc[c] \in Locked <=> lock = c
         /\ \A c \in Command : pc[c] \in {"lock", "walk", "worker"} => job[c].run \in Run
  BY DEF Forms, FormsOK, TypeOK

\* Commands that begin, and one that gets the lock.
LEMMA BeginForms ==
  ASSUME Forms, NEW c \in Command, BeginRun(c) \/ Enter(c) \/ BeginInvalidate(c)
  PROVE  Forms'
  <1>1. UNCHANGED <<index, lineage, superseded, disk, status, active, revoked>> /\ disturbed' \in BOOLEAN
    BY FormsHave DEF BeginRun, Enter, BeginInvalidate, DisturbedIf, saved, history
  <1>2. CASE BeginRun(c)
    <2>1. PICK j \in Job : job' = [job EXCEPT ![c] = j] /\ j.run \in Run
      BY <1>2, FormsHave, Planned
    <2>2. \E phase \in Phase : /\ phase = "lock" /\ phase \notin Locked
                               /\ pc' = [pc EXCEPT ![c] = phase]
      BY <1>2 DEF BeginRun, Goto, Phase, Locked
    <2>3. lock' = lock /\ pc[c] \notin Locked
      BY <1>2 DEF BeginRun, MayBegin, Locked
    <2> QED
      BY <1>1, <2>1, <2>2, <2>3, FormsHave, FormsStep
  <1>3. CASE Enter(c)
    <2>1. PICK j \in Job : job' = [job EXCEPT ![c] = j] /\ j.run \in Run
      <3>1. job[c] \in Job /\ job[c].run \in Run /\ Set(c, Load(job[c]))
        BY <1>3, FormsHave DEF Enter, Reload
      <3> QED
        BY <3>1, FormsHave, Loaded DEF Set
    <2>2. \E phase \in Phase : /\ phase = "walk" /\ phase \in Locked
                               /\ pc' = [pc EXCEPT ![c] = phase]
      BY <1>3 DEF Enter, Goto, Phase, Locked
    <2>3. lock = None /\ lock' = c
      BY <1>3 DEF Enter
    <2> QED
      BY <1>1, <2>1, <2>2, <2>3, FormsHave, FormsStep
  <1>4. CASE BeginInvalidate(c)
    <2>1. PICK j \in Job : job' = [job EXCEPT ![c] = j]
      <3>1. PICK keys \in {{s} \X Shard : s \in Stage} \cup {Stage \X {sh} : sh \in Shard} :
              Set(c, Load([NoJob EXCEPT !.targets = keys]))
        BY <1>4 DEF BeginInvalidate
      <3>2. keys \in SUBSET Key
        BY DEF Key
      <3>3. ASSUME NEW i, i = [NoJob EXCEPT !.targets = keys] PROVE i \in Job
        BY <3>2, <3>3, NoJobIsJob DEF Job, NoJob
      <3> QED
        BY <3>1, <3>3, FormsHave, Loaded DEF Set
    <2>2. \E phase \in Phase : /\ phase = "invalidate" /\ phase \in Locked
                               /\ pc' = [pc EXCEPT ![c] = phase]
      BY <1>4 DEF BeginInvalidate, Goto, Phase, Locked
    <2>3. lock = None /\ lock' = c
      BY <1>4 DEF BeginInvalidate
    <2> QED
      BY <1>1, <2>1, <2>2, <2>3, FormsHave, FormsStep
  <1> QED
    BY <1>2, <1>3, <1>4

\* Commands that end: refused, dead, or after they saved.
LEMMA EndForms ==
  ASSUME Forms, NEW c \in Command,
         Refuse(c) \/ Crash(c) \/ SaveIndex(c) \/ SaveInvalidation(c) \/ SaveAfterDelete(c)
  PROVE  Forms'
  <1> DEFINE typed == /\ index' \in [Key -> Entry \cup {None}] /\ lineage' \subseteq Key \X Key
                      /\ superseded' \subseteq Dir /\ disk' \in [Dir -> Content] /\ revoked' \subseteq Dir
  <1>1. UNCHANGED <<status, active>> /\ disturbed' \in BOOLEAN
    <2>1. UNCHANGED <<status, active>>
      BY DEF Refuse, Crash, SaveIndex, SaveInvalidation, SaveAfterDelete
    <2>2. CASE Crash(c)
      <3>1. PICK condition \in BOOLEAN : condition = (pc[c] = "delete")
        BY Zenon
      <3>2. disturbed' = (disturbed \/ condition)
        BY <2>2, <3>1 DEF Crash, DisturbedIf
      <3>3. condition \in BOOLEAN
        BY <3>1
      <3> QED
        BY <2>1, <3>2, <3>3, FormsHave
    <2>3. CASE Refuse(c) \/ SaveIndex(c) \/ SaveInvalidation(c) \/ SaveAfterDelete(c)
      BY <2>1, <2>3, FormsHave DEF Refuse, SaveIndex, SaveInvalidation, SaveAfterDelete, history
    <2> QED
      BY <2>1, <2>2, <2>3
  <1>2. Return(c) /\ job[c] \in Job
    BY FormsHave DEF Refuse, Crash, SaveIndex, SaveInvalidation, SaveAfterDelete
  <1>3. \/ lock' = lock /\ pc[c] \notin Locked
        \/ lock = c /\ lock' = None
    BY FormsHave DEF Refuse, Crash, SaveIndex, SaveInvalidation, SaveAfterDelete, Locked
  <1>4. ASSUME Refuse(c) PROVE typed
    <2>1. typed
      BY <1>4, FormsHave DEF Refuse, saved, history
    <2> QED
      BY <2>1
  <1>5. ASSUME Crash(c) PROVE typed
    <2>1. disk' \in [Dir -> Content]
      <3>1. disk' = disk \/ \E d \in job[c].left : disk' = [disk EXCEPT ![d] = "reserved"]
        BY <1>5 DEF Crash
      <3> QED
        BY <3>1, FormsHave DEF Content
    <2>2. UNCHANGED <<index, lineage, superseded, revoked>>
      BY <1>5 DEF Crash, saved, history
    <2> QED
      BY <2>1, <2>2, FormsHave
  <1>6. ASSUME SaveIndex(c) PROVE typed
    <2>1. /\ index' = job[c].entries /\ lineage' = job[c].edges /\ superseded' = job[c].replaced
          /\ UNCHANGED <<disk, revoked>>
      BY <1>6 DEF SaveIndex, history
    <2> QED
      BY <1>2, <2>1, FormsHave DEF Job
  <1>7. ASSUME SaveInvalidation(c) PROVE typed
    <2>1. PICK j, hit :
            /\ j = job[c] /\ hit = {k \in Marked(j) : j.entries[k] # None}
            /\ index' = [k \in Key |-> IF k \in hit THEN [j.entries[k] EXCEPT !.stale = TRUE] ELSE j.entries[k]]
            /\ lineage' = j.edges /\ superseded' = j.replaced
            /\ revoked' = revoked \cup {j.entries[k].dir : k \in hit}
            /\ disk' = disk
      BY ZenonT(40), <1>7 DEF SaveInvalidation
    <2>2. j \in Job /\ hit \subseteq Key /\ \A k \in hit : j.entries[k] \in Entry
      BY <1>2, <2>1, MarkedClosed DEF Job
    <2>3. ASSUME NEW k \in Key PROVE index'[k] \in Entry \cup {None}
      <3>1. CASE k \in hit
        <4>1. index'[k] = [j.entries[k] EXCEPT !.stale = TRUE] /\ j.entries[k] \in Entry
          BY <2>1, <2>2, <3>1
        <4> QED
          BY <4>1 DEF Entry
      <3>2. CASE k \notin hit
        BY <2>1, <2>2, <3>2 DEF Job
      <3> QED
        BY <3>1, <3>2
    <2>4. revoked' \subseteq Dir
      BY <2>1, <2>2, FormsHave DEF Entry
    <2>5. lineage' \subseteq Key \X Key /\ superseded' \subseteq Dir
      BY <2>1, <2>2 DEF Job
    <2>6. index' \in [Key -> Entry \cup {None}]
      BY <2>1, <2>3
    <2> QED
      BY <2>1, <2>4, <2>5, <2>6, FormsHave
  <1>8. ASSUME SaveAfterDelete(c) PROVE typed
    <2>1. /\ index' = [k \in Key |-> IF job[c].entries[k] # None /\ job[c].entries[k].dir \in job[c].targets
                                     THEN None ELSE job[c].entries[k]]
          /\ superseded' = job[c].replaced \ job[c].targets
          /\ lineage' \subseteq lineage /\ UNCHANGED <<disk, revoked>>
      BY <1>8 DEF SaveAfterDelete, history
    <2>2. index' \in [Key -> Entry \cup {None}] /\ superseded' \subseteq Dir
      BY <1>2, <2>1 DEF Job
    <2> QED
      BY <2>1, <2>2, FormsHave
  <1>9. typed
    BY <1>4, <1>5, <1>6, <1>7, <1>8
  <1>10. \E phase \in Phase : /\ phase = "idle" /\ phase \notin Locked
                              /\ pc' = [pc EXCEPT ![c] = phase] /\ job' = [job EXCEPT ![c] = NoJob]
    BY <1>2 DEF Return, Goto, Set, Phase, Locked
  <1> QED
    BY <1>1, <1>3, <1>9, <1>10, FormsHave, NoJobIsJob, FormsStep

\* Steps of a walk.
LEMMA WalkForms ==
  ASSUME Forms, NEW c \in Command,
         Halt(c) \/ Work(c) \/ SaveStatus(c) \/ \E k \in Key : Hit(c, k) \/ Reserve(c, k)
  PROVE  Forms'
  <1>0. pc[c] \in {"walk", "worker", "status"} /\ pc[c] \in Locked /\ job[c] \in Job
    BY FormsHave DEF Halt, Work, SaveStatus, Hit, Reserve, Locked
  <1>1. UNCHANGED <<lock, index, lineage, superseded, active, disturbed>>
    BY DEF Halt, Work, SaveStatus, Hit, Reserve, saved, history
  <1>2. CASE Halt(c)
    <2>1. ASSUME NEW i, i = [job[c] EXCEPT !.halted = TRUE] PROVE i \in Job
      BY <1>0, <2>1 DEF Job
    <2>2. \E j \in Job : job' = [job EXCEPT ![c] = j]
      BY <1>2, <2>1 DEF Halt, Set
    <2>3. \E phase \in Phase : /\ phase = "status" /\ phase \in Locked
                               /\ pc' = [pc EXCEPT ![c] = phase]
      BY <1>2 DEF Halt, Goto, Phase, Locked
    <2>4. UNCHANGED <<disk, status, revoked>>
      BY <1>2 DEF Halt, history
    <2> QED
      BY <1>0, <1>1, <2>2, <2>3, <2>4, FormsHave, FormsStep
  <1>3. CASE SaveStatus(c)
    <2>1. status' \in [Run -> RunStatus \cup {None}]
      BY <1>3, FormsHave, StatusMerged
    <2>2. \E phase \in Phase : /\ phase = "index" /\ phase \in Locked
                               /\ pc' = [pc EXCEPT ![c] = phase]
      BY <1>3 DEF SaveStatus, Goto, Phase, Locked
    <2>3. job' = [job EXCEPT ![c] = job[c]] /\ UNCHANGED <<disk, revoked>>
      BY <1>3, FormsHave DEF SaveStatus, history
    <2> QED
      BY <1>0, <1>1, <2>1, <2>2, <2>3, FormsHave, FormsStep
  <1>4. CASE Work(c)
    <2>1. /\ pc[c] = "worker" /\ job[c].dir \in Dir /\ job[c].run \in Run /\ job[c].dir.key \in Key
      BY <1>4 DEF Work, Forms, FormsOK, Dir
    <2>w. PICK outcome \in Outcome :
            /\ job' = [job EXCEPT ![c] = Commit(job[c], job[c].dir.key, job[c].dir, outcome)]
            /\ disk' = IF outcome = "failed" THEN disk ELSE [disk EXCEPT ![job[c].dir] = outcome]
            /\ pc' = [pc EXCEPT ![c] = IF outcome = "produced" THEN "walk" ELSE "status"]
      BY <1>4 DEF Work, Set, Goto, Outcome
    <2>2. PICK j :
            /\ j = Commit(job[c], job[c].dir.key, job[c].dir, outcome) /\ job' = [job EXCEPT ![c] = j]
            /\ disk' = IF outcome = "failed" THEN disk ELSE [disk EXCEPT ![job[c].dir] = outcome]
            /\ pc' = [pc EXCEPT ![c] = IF outcome = "produced" THEN "walk" ELSE "status"]
      BY <2>w
    <2>3. j \in Job /\ j.run = job[c].run
      <3>1. PICK o, k, dir : o = job[c] /\ k = job[c].dir.key /\ dir = job[c].dir
        OBVIOUS
      <3>2. o \in Job /\ k \in Key /\ dir \in Dir /\ j = Commit(o, k, dir, outcome)
        BY <1>0, <2>1, <2>2, <3>1
      <3>3. j \in Job
        BY <3>2, Committed
      <3>4. j.run = o.run
        BY <3>2 DEF Commit, Job
      <3> QED
        BY <3>1, <3>3, <3>4
    <2>4. disk' \in [Dir -> Content]
      BY <2>1, <2>2, FormsHave DEF Outcome, Content
    <2>5. \E phase \in Phase : /\ phase \in {"walk", "status"} /\ phase \in Locked
                               /\ pc' = [pc EXCEPT ![c] = phase]
      <3>1. "walk" \in Phase /\ "status" \in Phase /\ "walk" \in Locked /\ "status" \in Locked
        BY DEF Phase, Locked
      <3> QED
        BY <2>2, <3>1
    <2>6. UNCHANGED <<status, revoked>>
      BY <1>4 DEF Work, history
    <2> QED
      BY <1>0, <1>1, <2>1, <2>2, <2>3, <2>4, <2>5, <2>6, FormsHave, FormsStep
  <1>5. ASSUME NEW k \in Key, Hit(c, k) PROVE Forms'
    <2>1. pc[c] = "walk" /\ Live(job[c].entries, k) /\ job[c].run \in Run
      BY <1>5, FormsHave DEF Hit, Servable
    <2>2. job[c].entries[k].dir \in Dir /\ "produced" \in Outcome
      BY <1>0, <2>1, LiveIsEntry DEF Job, Outcome
    <2>3. PICK j : j = Commit(job[c], k, job[c].entries[k].dir, "produced") /\ job' = [job EXCEPT ![c] = j]
      BY <1>5 DEF Hit, Set
    <2>4. j \in Job /\ j.run = job[c].run
      <3>1. PICK o, dir : o = job[c] /\ dir = job[c].entries[k].dir
        OBVIOUS
      <3>2. o \in Job /\ dir \in Dir /\ "produced" \in Outcome /\ j = Commit(o, k, dir, "produced")
        BY <1>0, <2>2, <2>3, <3>1
      <3>3. j \in Job
        BY <3>2, Committed
      <3>4. j.run = o.run
        BY <3>2 DEF Commit, Job
      <3> QED
        BY <3>1, <3>3, <3>4
    <2>5. \E phase \in Phase : /\ phase = "walk" /\ phase \in Locked
                               /\ pc' = [pc EXCEPT ![c] = phase]
      BY <1>5, <2>1, FormsHave DEF Hit, Phase, Locked
    <2>6. UNCHANGED <<disk, status, revoked>>
      BY <1>5 DEF Hit, history
    <2> QED
      BY <1>0, <1>1, <2>1, <2>3, <2>4, <2>5, <2>6, FormsHave, FormsStep
  <1>6. ASSUME NEW k \in Key, Reserve(c, k) PROVE Forms'
    <2>1. pc[c] = "walk" /\ job[c].run \in Run
      BY <1>6, FormsHave DEF Reserve
    <2>n. PICK n \in 1..MaxAttempts :
            LET a == [run |-> job[c].run, key |-> k, attempt |-> n]
            IN  /\ disk' = [disk EXCEPT ![a] = "reserved"]
                /\ Set(c, [job[c] EXCEPT !.dir = a]) /\ revoked' = revoked \ {a}
      BY <1>6 DEF Reserve
    <2>2. PICK a :
            /\ a = [run |-> job[c].run, key |-> k, attempt |-> n]
            /\ disk' = [disk EXCEPT ![a] = "reserved"]
            /\ Set(c, [job[c] EXCEPT !.dir = a]) /\ revoked' = revoked \ {a}
      BY <2>n
    <2>3. a \in Dir
      BY <2>1, <2>2 DEF Dir
    <2>4. PICK j : j = [job[c] EXCEPT !.dir = a] /\ job' = [job EXCEPT ![c] = j]
      BY <2>2 DEF Set
    <2>5. j \in Job /\ j.run = job[c].run /\ j.dir = a
      BY <1>0, <2>3, <2>4 DEF Job
    <2>6. disk' \in [Dir -> Content] /\ revoked' \subseteq Dir
      BY <2>2, FormsHave DEF Content
    <2>7. \E phase \in Phase : /\ phase = "worker" /\ phase \in Locked
                               /\ pc' = [pc EXCEPT ![c] = phase]
      BY <1>6 DEF Reserve, Goto, Phase, Locked
    <2>8. status' = status
      BY <1>6 DEF Reserve
    <2> QED
      BY <1>0, <1>1, <2>1, <2>3, <2>4, <2>5, <2>6, <2>7, <2>8, FormsHave, FormsStep
  <1> QED
    BY <1>2, <1>3, <1>4, <1>5, <1>6

\* An activation, and the steps of a prune before it saves.
LEMMA RestForms ==
  ASSUME Forms, NEW c \in Command, Finalize(c) \/ BeginPrune(c) \/ Delete(c)
  PROVE  Forms'
  <1>1. UNCHANGED <<lock, index, lineage, superseded, status, revoked>> /\ disturbed' \in BOOLEAN
    BY FormsHave DEF Finalize, BeginPrune, Delete, DisturbedIf, saved, history
  <1>2. CASE Finalize(c)
    <2>1. active' \in Generation /\ UNCHANGED <<pc, job, disk>>
      BY <1>2, FormsHave, Activated DEF Finalize
    <2> QED
      BY <1>1, <2>1 DEF Forms, FormsOK, TypeOK
  <1>3. CASE BeginPrune(c)
    <2>1. Eligible \subseteq Dir
      BY FormsHave DEF Eligible, Entry
    <2>2. ASSUME NEW i, i = [NoJob EXCEPT !.entries = index, !.replaced = superseded,
                                          !.targets = Eligible, !.left = Eligible]
          PROVE  i \in Job
      BY <2>1, <2>2, FormsHave, NoJobIsJob DEF Job
    <2>3. \E j \in Job : job' = [job EXCEPT ![c] = j]
      BY <1>3, <2>2 DEF BeginPrune, Set
    <2>4. \E phase \in Phase : /\ phase = "delete" /\ phase \notin Locked
                               /\ pc' = [pc EXCEPT ![c] = phase]
      BY <1>3 DEF BeginPrune, Goto, Phase, Locked
    <2>5. pc[c] \notin Locked /\ UNCHANGED <<disk, active>>
      BY <1>3 DEF BeginPrune, MayBegin, Locked
    <2> QED
      BY <1>1, <2>3, <2>4, <2>5, FormsHave, FormsStep
  <1>4. CASE Delete(c)
    <2>1. PICK d \in job[c].left :
            /\ disk' = [disk EXCEPT ![d] = "none"]
            /\ job' = [job EXCEPT ![c] = [job[c] EXCEPT !.left = job[c].left \ {d}]]
      BY <1>4 DEF Delete, Set
    <2>2. /\ job[c] \in Job /\ d \in Dir
          /\ \E j \in Job : job' = [job EXCEPT ![c] = j]
      <3>1. job[c] \in Job
        BY FormsHave
      <3>2. ASSUME NEW j, j = [job[c] EXCEPT !.left = job[c].left \ {d}] PROVE j \in Job
        BY <3>1, <3>2 DEF Job
      <3> QED
        BY <2>1, <3>1, <3>2 DEF Job
    <2>3. disk' \in [Dir -> Content]
      BY <2>1, <2>2, FormsHave DEF Content
    <2>4. \E phase \in Phase : /\ phase = "delete" /\ phase \notin Locked
                               /\ pc' = [pc EXCEPT ![c] = phase]
      BY <1>4, FormsHave DEF Delete, Phase, Locked
    <2>5. pc[c] \notin Locked /\ UNCHANGED active
      BY <1>4 DEF Delete, Locked
    <2> QED
      BY <1>1, <2>1, <2>2, <2>3, <2>4, <2>5, FormsHave, FormsStep
  <1> QED
    BY <1>2, <1>3, <1>4

\* Every step keeps the kinds, and a disturbed prune is never forgotten.
LEMMA NextForms ==
  ASSUME Forms, [Next]_vars
  PROVE  Forms' /\ (disturbed => disturbed')
  <1>1. ASSUME NEW c \in Command,
               \/ BeginRun(c) \/ Enter(c) \/ Refuse(c)
               \/ Halt(c) \/ Work(c) \/ SaveStatus(c) \/ SaveIndex(c)
               \/ \E k \in Key : Hit(c, k) \/ Reserve(c, k)
               \/ BeginInvalidate(c) \/ SaveInvalidation(c) \/ Finalize(c)
               \/ BeginPrune(c) \/ Delete(c) \/ SaveAfterDelete(c)
               \/ Crash(c)
        PROVE  Forms'
    BY <1>1, BeginForms, EndForms, WalkForms, RestForms
  <1>2. ASSUME NEW c \in Command, disturbed,
               \/ BeginRun(c) \/ Enter(c) \/ Refuse(c)
               \/ Halt(c) \/ Work(c) \/ SaveStatus(c) \/ SaveIndex(c)
               \/ \E k \in Key : Hit(c, k) \/ Reserve(c, k)
               \/ BeginInvalidate(c) \/ SaveInvalidation(c) \/ Finalize(c)
               \/ BeginPrune(c) \/ Delete(c) \/ SaveAfterDelete(c)
               \/ Crash(c)
        PROVE  disturbed'
    <2>1. CASE Enter(c) \/ BeginInvalidate(c) \/ Finalize(c) \/ BeginPrune(c) \/ Crash(c)
      <3>1. \E condition \in BOOLEAN : disturbed' = (disturbed \/ condition)
        BY <2>1 DEF Enter, BeginInvalidate, Finalize, BeginPrune, Crash, DisturbedIf, Pruning
      <3> QED
        BY <1>2, <3>1
    <2>2. CASE BeginRun(c) \/ Refuse(c) \/ Halt(c) \/ Work(c) \/ SaveStatus(c) \/ SaveIndex(c)
      BY <1>2, <2>2 DEF BeginRun, Refuse, Halt, Work, SaveStatus, SaveIndex, history
    <2>3. CASE \E k \in Key : Hit(c, k) \/ Reserve(c, k)
      BY <1>2, <2>3 DEF Hit, Reserve, history
    <2>4. CASE SaveInvalidation(c) \/ Delete(c) \/ SaveAfterDelete(c)
      BY <1>2, <2>4 DEF SaveInvalidation, Delete, SaveAfterDelete, history
    <2> QED
      BY <1>2, <2>1, <2>2, <2>3, <2>4
  <1>3. CASE UNCHANGED vars
    BY <1>3 DEF vars, saved, history, Forms, FormsOK, TypeOK
  <1> QED
    BY <1>1, <1>2, <1>3 DEF Next

-----------------------------------------------------------------------------
(* The invariant, and what follows from it. *)

\* The empty runs directory satisfies the invariant.
LEMMA InitInv ==
  ASSUME Init
  PROVE  IInv
  <1>1. /\ index = NoRows /\ lineage = {} /\ superseded = {} /\ revoked = {} /\ disturbed = FALSE
        /\ disk = [d \in Dir |-> "none"] /\ status = [r \in Run |-> None] /\ active = None
        /\ lock = None /\ pc = [c \in Command |-> "idle"] /\ job = [c \in Command |-> NoJob]
    BY DEF Init
  <1>2. \A k \in Key : index[k] = None
    BY <1>1 DEF NoRows
  <1>3. index \in [Key -> Entry \cup {None}]
    BY <1>1 DEF NoRows
  <1>4. FormsOK
    BY <1>1, <1>3, NoJobIsJob, PipelineAssumption DEF FormsOK, TypeOK, Content, Phase, Locked
  <1>5. StoredSound
    BY <1>2 DEF StoredSound, Sound, Traced, OwnKeys, LiveApart, Live
  <1>6. HeldSound /\ PlanCovered /\ WorkerApart /\ PruneApart
    BY <1>1 DEF HeldSound, PlanCovered, WorkerApart, PruneApart, Locked
  <1>7. KnownOnDisk
    BY <1>1, <1>2 DEF KnownOnDisk, OnDisk, Known
  <1>8. PruneSparesOwn
    BY <1>1 DEF PruneSparesOwn
  <1> QED
    BY <1>1, <1>4, <1>5, <1>6, <1>7, <1>8 DEF IInv

\* The invariant depends on the variables alone.
LEMMA StutterKeeps ==
  ASSUME disturbed' = FALSE, IInv, UNCHANGED vars
  PROVE  IInv'
  BY SMTT(30) DEF vars, saved, bounds, history, IInv, FormsOK, TypeOK, StoredSound, HeldSound, PlanCovered, WorkerApart,
     PruneApart, KnownOnDisk, PruneSparesOwn, Sound, Traced, OwnKeys, LiveApart, Live, Known,
     KnownIn, OnDisk, IsNext

\* Every step that does not disturb a prune keeps the invariant.
LEMMA NextInv ==
  ASSUME disturbed' = FALSE, IInv, [Next]_vars
  PROVE  IInv'
  <1>1. ASSUME NEW c \in Command,
               \/ BeginRun(c) \/ Enter(c) \/ Refuse(c)
               \/ Halt(c) \/ Work(c) \/ SaveStatus(c) \/ SaveIndex(c)
               \/ \E k \in Key : Hit(c, k) \/ Reserve(c, k)
               \/ BeginInvalidate(c) \/ SaveInvalidation(c) \/ Finalize(c)
               \/ BeginPrune(c) \/ Delete(c) \/ SaveAfterDelete(c)
               \/ Crash(c)
        PROVE  IInv'
    <2>1. CASE BeginRun(c) \/ Enter(c) \/ Refuse(c) \/ Crash(c)
      BY <2>1, BeginRunKeeps, EnterKeeps, GiveUpKeeps
    <2>2. CASE Halt(c) \/ Work(c) \/ SaveStatus(c) \/ SaveIndex(c)
      BY <2>2, StopKeeps, WorkKeeps, SaveIndexKeeps
    <2>3. CASE \E k \in Key : Hit(c, k) \/ Reserve(c, k)
      BY <2>3, HitKeeps, ReserveKeeps
    <2>4. CASE BeginInvalidate(c) \/ SaveInvalidation(c) \/ Finalize(c)
      BY <2>4, BeginInvalidateKeeps, SaveInvalidationKeeps, FinalizeKeeps
    <2>5. CASE BeginPrune(c) \/ Delete(c) \/ SaveAfterDelete(c)
      BY <2>5, BeginPruneKeeps, DeleteKeeps, SaveAfterDeleteKeeps
    <2> QED
      BY <1>1, <2>1, <2>2, <2>3, <2>4, <2>5
  <1> QED
    BY <1>1, StutterKeeps DEF Next

Inv == Forms /\ (disturbed \/ IInv)

\* Files and variables are of their kinds in every reachable state; and as long
\* as no prune was disturbed, the stored index and the copy of the command that
\* has the lock are sound (save_reuse_index, load_reuse_index).
THEOREM Invariance == Spec => []Inv
  <1>1. ASSUME Init PROVE Inv
    <2>1. IInv /\ \A c \in Command : pc[c] = "idle"
      BY <1>1, InitInv DEF Init
    <2> QED
      BY <2>1 DEF Inv, Forms, IInv
  <1>2. ASSUME Inv, [Next]_vars PROVE Inv'
    <2>1. Forms' /\ (disturbed => disturbed')
      BY <1>2, NextForms DEF Inv
    <2>2. disturbed' \in BOOLEAN
      BY <2>1 DEF Forms, FormsOK, TypeOK
    <2>3. CASE disturbed'
      BY <2>1, <2>3 DEF Inv
    <2>4. CASE disturbed' = FALSE
      <3>1. IInv
        BY <1>2, <2>1, <2>4 DEF Inv
      <3>2. IInv'
        BY <1>2, <2>4, <3>1, NextInv
      <3> QED
        BY <2>1, <3>2 DEF Inv
    <2> QED
      BY <2>2, <2>3, <2>4
  <1> QED
    BY <1>1, <1>2, PTL DEF Spec

\* Whatever commands are interleaved, halted or killed: the lock is held by the
\* one command that works under it; and unless a prune was disturbed, a live entry
\* of the reuse index was made from live ones (apply_invalidation, _commit_shard,
\* save_reuse_index).
THEOREM IndexIsSound == Spec => []IndexSound
  <1>1. ASSUME Inv PROVE IndexSound
    <2>1. TypeOK
      BY <1>1 DEF Inv, Forms, FormsOK
    <2>2. ASSUME IInv PROVE LiveFollowsProducer
      BY <2>2 DEF IInv, LiveFollowsProducer, StoredSound, Sound, Traced
    <2> QED
      BY <1>1, <2>1, <2>2 DEF Inv, IndexSound
  <1> QED
    BY <1>1, Invariance, PTL

\* Nothing is assumed of who prunes when.  Unless a prune died, or worked while
\* another command held the lock or pruned, no prune has taken an attempt that is
\* live or one of its own run that the active generation publishes, though
\* attempt numbers are used again (apply_prune_plan).
THEOREM PruneIsSafe == Spec => []PruneSpares
  <1>1. ASSUME Inv PROVE PruneSpares
    BY <1>1 DEF Inv, IInv, PruneSpares, PruneSparesLive, StoredSound, Sound, LiveApart
  <1> QED
    BY <1>1, Invariance, PTL

\* Up to the first disturbed prune no step serves an attempt that a finished
\* invalidation marked stale, and none loses the record of an attempt that is
\* still on disk, whatever its process had loaded before others saved or pruned
\* (execute_plan, supersede_previous, _save_after_delete).
THEOREM NothingIsForgotten == Spec => NothingForgotten
  <1>1. ASSUME IInv PROVE ServesValid
    <2>1. ASSUME NEW c \in Command, NEW k \in Key, Hit(c, k)
          PROVE  job[c].entries[k].dir \notin revoked
      <3>1. pc[c] \in Locked /\ Live(job[c].entries, k)
        BY <2>1 DEF Hit, Locked, Servable
      <3>2. Sound(job[c].entries, job[c].edges, job[c].replaced)
        BY <1>1, <3>1, HolderHas
      <3> QED
        BY <3>1, <3>2 DEF Sound, LiveApart
    <2> QED
      BY <2>1 DEF ServesValid
  <1>2. ASSUME disturbed' = FALSE, IInv, [Next]_vars
        PROVE  KnownUntilRemoved
    <2>1. CASE UNCHANGED <<index, superseded>>
      BY <2>1 DEF Known, KnownUntilRemoved
    <2>2. CASE \E c \in Command : SaveIndex(c) \/ SaveInvalidation(c) \/ SaveAfterDelete(c)
      BY <1>2, <2>2, SaveIndexKeeps, SaveInvalidationKeeps, SaveAfterDeleteKeeps DEF KnownUntilRemoved
    <2>3. \/ UNCHANGED <<index, superseded>>
          \/ \E c \in Command : SaveIndex(c) \/ SaveInvalidation(c) \/ SaveAfterDelete(c)
      <3>1. \A c \in Command : BeginRun(c) \/ Enter(c) \/ Refuse(c) \/ Crash(c) => UNCHANGED saved
        BY DEF BeginRun, Enter, Refuse, Crash
      <3>2. \A c \in Command : Halt(c) \/ Work(c) \/ SaveStatus(c) => UNCHANGED saved
        BY DEF Halt, Work, SaveStatus
      <3>3. \A c \in Command : \A k \in Key : Hit(c, k) \/ Reserve(c, k) => UNCHANGED saved
        BY DEF Hit, Reserve
      <3>4. \A c \in Command : BeginInvalidate(c) \/ Finalize(c) => UNCHANGED saved
        BY DEF BeginInvalidate, Finalize
      <3>5. \A c \in Command : BeginPrune(c) \/ Delete(c) => UNCHANGED saved
        BY DEF BeginPrune, Delete
      <3>6. UNCHANGED vars => UNCHANGED saved
        BY DEF vars
      <3>7. UNCHANGED saved => UNCHANGED <<index, superseded>>
        BY DEF saved
      <3> QED
        BY <1>2, <3>1, <3>2, <3>3, <3>4, <3>5, <3>6, <3>7 DEF Next
    <2> QED
      BY <2>1, <2>2, <2>3
  <1>3. ASSUME Inv, Inv', [Next]_vars
        PROVE  disturbed' \/ (ServesValid /\ KnownUntilRemoved)
    <2>1. disturbed' \in BOOLEAN /\ disturbed \in BOOLEAN /\ (disturbed => disturbed')
      BY <1>3, NextForms DEF Inv, Forms, FormsOK, TypeOK
    <2>2. CASE disturbed' = FALSE
      <3>1. IInv
        BY <1>3, <2>1, <2>2 DEF Inv
      <3> QED
        BY <1>1, <1>2, <1>3, <2>2, <3>1
    <2> QED
      BY <2>1, <2>2
  <1>4. Inv /\ Inv' /\ [Next]_vars => [disturbed' \/ (ServesValid /\ KnownUntilRemoved)]_vars
    BY <1>3
  <1> QED
    BY <1>4, Invariance, PTL DEF Spec, NothingForgotten

=============================================================================
