---------------------------- MODULE GpuScheduler ----------------------------
(***************************************************************************)
(* Model sessions on the one GPU of a host (inference/scheduler).  A       *)
(* session decides its placement from a snapshot, and a CUDA placement     *)
(* waits for the host lease: a thread lock inside its HostGpuLease object, *)
(* then an flock on gpu.lock, which threads and processes compete for.  It *)
(* writes its row to gpu.lease.json and the JSONL ledger, readies the      *)
(* device by the occupancy seen at decision time, serves, and gives all of *)
(* it back, also when it is cancelled, runs out of time or fails.          *)
(***************************************************************************)
EXTENDS Naturals

CONSTANTS
  Thread,        \* callers of ModelResourceScheduler.session
  Instance,      \* HostGpuLease objects, one per process
  Home,          \* Thread -> the instance its scheduler was built with
  Requirement,   \* ModelRequirements, reduced to backend, control and cpu
  Prober,        \* instances on which HostGpuLease.current is called
  None

ASSUME SchedulerAssumption ==
  /\ Home \in [Thread -> Instance]
  /\ Requirement \subseteq
       [backend : {"ollama", "vllm"}, control : BOOLEAN, cpu : BOOLEAN]
  /\ Prober \subseteq Instance
  /\ None \notin Thread /\ None \notin Instance
  /\ Thread \cap Instance = {}

VARIABLES
  pc,           \* where each thread is in session
  req,          \* its requirement
  occupied,     \* vllm_ready of the OccupancySnapshot it decided by
  status,       \* how its lease will be recorded to end
  cancelled,    \* its cancel event is set
  late,         \* its deadline has passed
  threadLock,   \* HostGpuLease._thread_lock: the thread that holds it
  lockFile,     \* HostGpuLease._lock_file: the thread that opened it
  flock,        \* who holds the flock: a thread, a probing instance, or None
  current,      \* gpu.lease.json: <<status, thread>>
  last,         \* the last lease row of ctl.resource_lease.jsonl
  vllm,         \* the vLLM service is up
  probe, seen,  \* where a call of current() is, and the row it has read
  answer        \* the holder the last current() reported

locks == <<threadLock, lockFile, flock>>
files == <<current, last>>
probes == <<probe, seen, answer>>
locals == <<req, occupied, status, cancelled, late>>
vars == <<pc, locals, locks, files, vllm, probes>>

\* The phases of session, in the order of a CUDA session.
Phase == {"idle", "cpu", "thread", "open", "flock", "write", "append", "prepare",
          "serve", "finish", "finished", "unlock", "unthread"}
Waiting == {"thread", "open", "flock"}
\* From the flock granted to _unlock.
Flocked == {"write", "append", "prepare", "serve", "finish", "finished"}

Rows == {"acquired", "released", "cancelled"} \X Thread

Init ==
  /\ pc = [t \in Thread |-> "idle"]
  /\ req \in [Thread -> Requirement]
  /\ occupied = [t \in Thread |-> FALSE]
  /\ status = [t \in Thread |-> "released"]
  /\ cancelled = [t \in Thread |-> FALSE]
  /\ late = [t \in Thread |-> FALSE]
  /\ threadLock = [i \in Instance |-> None]
  /\ lockFile = [i \in Instance |-> None]
  /\ flock = None
  /\ current = None /\ last = None
  /\ vllm = FALSE
  /\ probe = [i \in Instance |-> "rest"]
  /\ seen = [i \in Instance |-> None]
  /\ answer = [i \in Instance |-> None]

Goto(t, phase) == pc' = [pc EXCEPT ![t] = phase]

\* session returns or raises, and its local variables with it.
EndCall(t) ==
  /\ Goto(t, "idle")
  /\ occupied' = [occupied EXCEPT ![t] = FALSE]
  /\ status' = [status EXCEPT ![t] = "released"]
  /\ cancelled' = [cancelled EXCEPT ![t] = FALSE]
  /\ late' = [late EXCEPT ![t] = FALSE]
  /\ UNCHANGED req

-----------------------------------------------------------------------------
(* decide and place_requirement.                                           *)

\* _foreign_runtime_allows_cuda: the other runtime is out of the way, or the
\* caller asked for service control.
RuntimeAllows(r, ready) == r.control \/ (ready <=> r.backend = "vllm")

\* Whether memory fits is left open.  An unavailable placement is rejected
\* (a row of its own in the ledger, which no lease row depends on).
Decide(t) ==
  /\ pc[t] = "idle"
  /\ \E r \in Requirement, fits, ram \in BOOLEAN :
       LET cuda == fits /\ ram /\ RuntimeAllows(r, vllm)
       IN  /\ cuda \/ (r.cpu /\ ram)
           /\ req' = [req EXCEPT ![t] = r]
           /\ Goto(t, IF cuda THEN "thread" ELSE "cpu")
  /\ occupied' = [occupied EXCEPT ![t] = vllm]
  /\ UNCHANGED <<status, cancelled, late, locks, files, vllm, probes>>

\* A CPU session takes no lease.
ServeOnCpu(t) ==
  /\ pc[t] = "cpu" /\ EndCall(t)
  /\ UNCHANGED <<locks, files, vllm, probes>>

-----------------------------------------------------------------------------
(* HostGpuLease.acquire.  Each wait polls: cancelled, then the lock, then  *)
(* the deadline.                                                           *)

TakeThread(t) ==
  /\ pc[t] = "thread" /\ ~cancelled[t] /\ threadLock[Home[t]] = None
  /\ threadLock' = [threadLock EXCEPT ![Home[t]] = t]
  /\ Goto(t, "open")
  /\ UNCHANGED <<locals, lockFile, flock, files, vllm, probes>>

\* _wait_thread raises before the try block: nothing is held, nothing undone.
GiveUpThread(t) ==
  /\ pc[t] = "thread"
  /\ cancelled[t] \/ (late[t] /\ threadLock[Home[t]] # None)
  /\ EndCall(t)
  /\ UNCHANGED <<locks, files, vllm, probes>>

\* _wait_flock opens gpu.lock and stores the handle before it has the flock.
OpenLockFile(t) ==
  /\ pc[t] = "open"
  /\ \/ lockFile' = [lockFile EXCEPT ![Home[t]] = t] /\ Goto(t, "flock")
     \/ Goto(t, "unlock") /\ UNCHANGED lockFile
  /\ UNCHANGED <<locals, threadLock, flock, files, vllm, probes>>

\* Mutant: fcntl.LOCK_SH for LOCK_EX, which a second file may take as well.
TakeFlockShared(t) ==
  /\ pc[t] = "flock" /\ ~cancelled[t] /\ flock \notin Instance
  /\ flock' = t /\ Goto(t, "write")
  /\ late' = [late EXCEPT ![t] = FALSE]
  /\ UNCHANGED <<req, occupied, status, cancelled, threadLock, lockFile, files, vllm, probes>>

TakeFlock(t) ==
  /\ pc[t] = "flock" /\ ~cancelled[t] /\ flock = None
  /\ flock' = t /\ Goto(t, "write")
  /\ late' = [late EXCEPT ![t] = FALSE]
  /\ UNCHANGED <<req, occupied, status, cancelled, threadLock, lockFile, files, vllm, probes>>

\* Mutant: _wait_flock polls without looking at the deadline.
WaitFlockForever(t) ==
  /\ pc[t] = "flock" /\ cancelled[t]
  /\ Goto(t, "unlock")
  /\ UNCHANGED <<locals, locks, files, vllm, probes>>

GiveUpFlock(t) ==
  /\ pc[t] = "flock"
  /\ cancelled[t] \/ (late[t] /\ flock # None)
  /\ Goto(t, "unlock")
  /\ UNCHANGED <<locals, locks, files, vllm, probes>>

\* _persist(acquired): the current row, then the ledger row; either may fail.
WriteCurrent(t) ==
  /\ pc[t] = "write"
  /\ \/ current' = <<"acquired", t>> /\ Goto(t, "append")
     \/ Goto(t, "unlock") /\ UNCHANGED current
  /\ UNCHANGED <<locals, locks, last, vllm, probes>>

\* Mutant: a ledger row that cannot be written is ignored.
ServeUnrecorded(t) ==
  /\ pc[t] = "append"
  /\ last' = <<"acquired", t>> \/ UNCHANGED last
  /\ Goto(t, "prepare")
  /\ UNCHANGED <<locals, locks, current, vllm, probes>>

AppendAcquired(t) ==
  /\ pc[t] = "append"
  /\ \/ last' = <<"acquired", t>> /\ Goto(t, "prepare")
     \/ Goto(t, "unlock") /\ UNCHANGED last
  /\ UNCHANGED <<locals, locks, current, vllm, probes>>

-----------------------------------------------------------------------------
(* The session under the lease, and HostGpuLease.release.                  *)

\* How hold will record the end: "cancelled" only when the session raised.
Ended(t, raised) ==
  status' = [status EXCEPT ![t] = IF raised /\ cancelled[t] THEN "cancelled" ELSE "released"]

\* prepare_device, by the occupancy of the decision: stop vLLM for an Ollama
\* session, start it for a vLLM one, or raise; the steps after it may raise too.
Prepare(t) ==
  /\ pc[t] = "prepare"
  /\ LET want == req[t].backend = "vllm"
         enter == Goto(t, "serve") /\ UNCHANGED status
         raise == Goto(t, "finish") /\ Ended(t, TRUE)
     IN  \/ /\ occupied[t] = want \/ req[t].control
            /\ vllm' = IF occupied[t] = want THEN vllm ELSE want
            /\ enter \/ raise
         \/ raise /\ UNCHANGED vllm
  /\ UNCHANGED <<req, occupied, cancelled, late, locks, files, probes>>

\* Mutant: release is passed the status of the acquired record.
ReuseStatus(t) ==
  /\ pc[t] = "serve"
  /\ status' = [status EXCEPT ![t] = "acquired"]
  /\ Goto(t, "finish")
  /\ UNCHANGED <<req, occupied, cancelled, late, locks, files, vllm, probes>>

\* The body ends or raises, and the finally of session runs.
Serve(t) ==
  /\ pc[t] = "serve"
  /\ \E raised \in BOOLEAN : Ended(t, raised)
  /\ Goto(t, "finish")
  /\ UNCHANGED <<req, occupied, cancelled, late, locks, files, vllm, probes>>

FinishCurrent(t) ==
  /\ pc[t] = "finish"
  /\ \/ current' = <<status[t], t>> /\ Goto(t, "finished")
     \/ Goto(t, "unlock") /\ UNCHANGED current
  /\ UNCHANGED <<locals, locks, last, vllm, probes>>

AppendFinished(t) ==
  /\ pc[t] = "finished"
  /\ \/ last' = <<status[t], t>>
     \/ UNCHANGED last
  /\ Goto(t, "unlock")
  /\ UNCHANGED <<locals, locks, current, vllm, probes>>

\* _unlock: whatever handle the instance has stored is unlocked and closed.
Unlock(t) ==
  LET i == Home[t]
  IN  /\ pc[t] = "unlock"
      /\ lockFile' = [lockFile EXCEPT ![i] = None]
      /\ flock' = IF lockFile[i] # None /\ flock = lockFile[i] THEN None ELSE flock
      /\ Goto(t, "unthread")
      /\ UNCHANGED <<locals, threadLock, files, vllm, probes>>

\* Then the thread lock, whoever locked it.
ReleaseThread(t) ==
  /\ pc[t] = "unthread"
  /\ threadLock' = [threadLock EXCEPT ![Home[t]] = None]
  /\ EndCall(t)
  /\ UNCHANGED <<lockFile, flock, files, vllm, probes>>

-----------------------------------------------------------------------------
(* HostGpuLease.current, and the environment.                              *)

Begun(row) == row \in {"acquired"} \X Thread

ReadCurrent(i) ==
  /\ i \in Prober /\ probe[i] = "rest"
  /\ answer' = [answer EXCEPT ![i] = None]
  /\ \/ /\ Begun(current)
        /\ probe' = [probe EXCEPT ![i] = "read"] /\ seen' = [seen EXCEPT ![i] = current[2]]
     \/ ~Begun(current) /\ UNCHANGED <<probe, seen>>
  /\ UNCHANGED <<pc, locals, locks, files, vllm>>

\* Held if this object has a lock file, or the flock cannot be had.
TestFlock(i) ==
  /\ probe[i] = "read"
  /\ \/ /\ lockFile[i] # None \/ flock # None
        /\ answer' = [answer EXCEPT ![i] = seen[i]]
        /\ probe' = [probe EXCEPT ![i] = "rest"] /\ seen' = [seen EXCEPT ![i] = None]
        /\ UNCHANGED flock
     \/ /\ lockFile[i] = None /\ flock = None
        /\ flock' = i
        /\ probe' = [probe EXCEPT ![i] = "locked"] /\ UNCHANGED <<seen, answer>>
  /\ UNCHANGED <<pc, locals, threadLock, lockFile, files, vllm>>

EndTest(i) ==
  /\ probe[i] = "locked"
  /\ flock' = None
  /\ probe' = [probe EXCEPT ![i] = "rest"] /\ seen' = [seen EXCEPT ![i] = None]
  /\ UNCHANGED <<pc, locals, threadLock, lockFile, files, vllm, answer>>

Cancel(t) ==
  /\ pc[t] # "idle" /\ ~cancelled[t]
  /\ cancelled' = [cancelled EXCEPT ![t] = TRUE]
  /\ UNCHANGED <<pc, req, occupied, status, late, locks, files, vllm, probes>>

Deadline(t) ==
  /\ pc[t] \in Waiting /\ ~late[t]
  /\ late' = [late EXCEPT ![t] = TRUE]
  /\ UNCHANGED <<pc, req, occupied, status, cancelled, locks, files, vllm, probes>>

\* A process dies: the kernel closes its files, the object is gone, and the
\* rows it wrote and the service it started stay.
Crash(i) ==
  /\ probe[i] # "rest" \/ \E t \in Thread : Home[t] = i /\ pc[t] # "idle"
  /\ pc' = [t \in Thread |-> IF Home[t] = i THEN "idle" ELSE pc[t]]
  /\ occupied' = [t \in Thread |-> Home[t] # i /\ occupied[t]]
  /\ status' = [t \in Thread |-> IF Home[t] = i THEN "released" ELSE status[t]]
  /\ cancelled' = [t \in Thread |-> Home[t] # i /\ cancelled[t]]
  /\ late' = [t \in Thread |-> Home[t] # i /\ late[t]]
  /\ threadLock' = [threadLock EXCEPT ![i] = None]
  /\ lockFile' = [lockFile EXCEPT ![i] = None]
  /\ flock' = IF flock = i \/ (flock \in Thread /\ Home[flock] = i) THEN None ELSE flock
  /\ probe' = [probe EXCEPT ![i] = "rest"]
  /\ seen' = [seen EXCEPT ![i] = None]
  /\ UNCHANGED <<req, files, vllm, answer>>

Step(t) ==
  \/ ServeOnCpu(t)
  \/ TakeThread(t) \/ GiveUpThread(t)
  \/ OpenLockFile(t) \/ TakeFlock(t) \/ GiveUpFlock(t)
  \/ WriteCurrent(t) \/ AppendAcquired(t)
  \/ Prepare(t) \/ Serve(t)
  \/ FinishCurrent(t) \/ AppendFinished(t)
  \/ Unlock(t) \/ ReleaseThread(t)

Probe(i) == ReadCurrent(i) \/ TestFlock(i) \/ EndTest(i)

Next ==
  \/ \E t \in Thread : Decide(t) \/ Step(t) \/ Cancel(t) \/ Deadline(t)
  \/ \E i \in Instance : Probe(i) \/ Crash(i)

Spec == Init /\ [][Next]_vars

\* Scheduled threads run on, a session body ends, and deadlines arrive.
FairSpec == Spec /\ \A t \in Thread : WF_vars(Step(t)) /\ WF_vars(Deadline(t))

-----------------------------------------------------------------------------
(* Properties.                                                             *)

\* Every lock, file and local variable holds values of its kind.
TypeOK ==
  /\ pc \in [Thread -> Phase]
  /\ req \in [Thread -> Requirement]
  /\ occupied \in [Thread -> BOOLEAN]
  /\ status \in [Thread -> {"released", "cancelled"}]
  /\ cancelled \in [Thread -> BOOLEAN] /\ late \in [Thread -> BOOLEAN]
  /\ threadLock \in [Instance -> Thread \cup {None}]
  /\ lockFile \in [Instance -> Thread \cup {None}]
  /\ flock \in Thread \cup Instance \cup {None}
  /\ current \in Rows \cup {None} /\ last \in Rows \cup {None}
  /\ vllm \in BOOLEAN
  /\ probe \in [Instance -> {"rest", "read", "locked"}]
  /\ seen \in [Instance -> Thread \cup {None}]
  /\ answer \in [Instance -> Thread \cup {None}]

\* One session uses the device at a time, among the threads of a process and
\* among processes, whatever a waiter that gives up has unlocked.
OneHolder == \A s, t \in Thread : pc[s] \in Flocked /\ pc[t] \in Flocked => s = t

\* Cancellation, a deadline or an error leaves nothing locked: a lock belongs
\* to a session that is still to unlock it.
NothingLocked ==
  /\ \A i \in Instance : threadLock[i] # None => pc[threadLock[i]] # "idle"
  /\ \A i \in Instance : lockFile[i] # None => pc[lockFile[i]] # "idle"
  /\ flock \in Thread => pc[flock] # "idle"

\* The lease as its clients see it.
Holding == {t \in Thread : pc[t] \in {"prepare", "serve", "finish", "finished"}}
Holder == IF Holding = {} THEN None ELSE CHOOSE t \in Holding : TRUE

Lease == INSTANCE ExclusiveLease WITH Client <- Thread, holder <- Holder

\* The lock, the rows and the errors together keep the promise of an
\* exclusive lease with a serial ledger.
KeepsLease == Lease!Spec

\* Every session ends: it serves, or it is refused in bounded time.
SessionEnds == \A t \in Thread : pc[t] # "idle" ~> pc[t] = "idle"

\* While a session serves, vLLM is up exactly when it is the one it needs: an
\* Ollama session never shares the device with vLLM.
RuntimeMatches == \A t \in Thread : pc[t] = "serve" => (vllm <=> req[t].backend = "vllm")

\* The device is used by one session, and its locks by sessions that will give
\* them back, whatever waiters, errors and deaths come between.
DeviceExclusive ==
  /\ OneHolder
  /\ NothingLocked
=============================================================================
