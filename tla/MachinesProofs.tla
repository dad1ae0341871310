---------------------------- MODULE MachinesProofs ----------------------------
(***************************************************************************)
(* Proofs about the machines that MCMachines bounds, for all inputs and    *)
(* all bounds: what a log session, the session of a stage (Observability), *)
(* a call of the inference client (InferenceClient) and a setup (Setup)    *)
(* keep in every one of their steps.                                       *)
(***************************************************************************)
EXTENDS Observability, InferenceClient, Setup, FiniteSetTheorems, TLAPS

-----------------------------------------------------------------------------
(***************************************************************************)
(* A log session                                                           *)
(***************************************************************************)
LogSpec == call = Ready /\ LogInit /\ [][LogNext]_<<logs, call>>

\* Whether stop has put its sentinel.
Sent == stopper \in {"joins", "stopped"}

\* The sentinel is the k-th in the queue: what was put after it has a higher
\* number than what was put before.
SentinelAt(k) ==
  /\ k \in 1 .. Len(waiting) /\ waiting[k] = 0
  /\ \A i \in 1 .. k - 1 : waiting[i] # 0
  /\ \A i \in k + 1 .. Len(waiting) : waiting[i] > sealed

\* The sentinel is in the queue as long as the listener has not taken it.
LogInv ==
  /\ waiting \in Seq(Nat) /\ records \in Nat /\ sealed \in Nat /\ sealed <= records
  /\ \A i \in 1 .. Len(waiting) : waiting[i] <= records
  /\ call = Ready => listener = "off" /\ stopper = "off" /\ waiting = <<>> /\ logging = {}
  /\ ~Sent => listener # "ended" /\ \A i \in 1 .. Len(waiting) : waiting[i] # 0
  /\ Sent /\ listener = "ended" => \A i \in 1 .. Len(waiting) : waiting[i] > sealed
  /\ Sent /\ listener # "ended" => \E k \in Nat : SentinelAt(k)
  /\ stopper = "stopped" => listener = "ended"

\* The queue is what an action of the session makes of it.
LEMMA QueueSteps ==
  ASSUME waiting \in Seq(Nat)
  PROVE  /\ Len(waiting) \in Nat /\ \A i \in 1 .. Len(waiting) : waiting[i] \in Nat
         /\ \A n \in Nat :
              /\ Append(waiting, n) \in Seq(Nat) /\ Len(Append(waiting, n)) = Len(waiting) + 1
              /\ Append(waiting, n)[Len(waiting) + 1] = n
              /\ \A i \in 1 .. Len(waiting) : Append(waiting, n)[i] = waiting[i]
         /\ waiting # <<>> =>
              /\ Len(waiting) >= 1 /\ Tail(waiting) \in Seq(Nat) /\ Len(Tail(waiting)) = Len(waiting) - 1
              /\ Head(waiting) = waiting[1]
              /\ \A i \in 1 .. Len(waiting) - 1 : Tail(waiting)[i] = waiting[i + 1]
OBVIOUS

\* Every step of the session keeps what is known of its sentinel.
LEMMA LogInvariance ==
  LogInv /\ [LogNext]_<<logs, call>> => LogInv'
<1> SUFFICES ASSUME LogInv, [LogNext]_<<logs, call>> PROVE LogInv'
  OBVIOUS
<1> USE DEF LogInv, Sent
<1>q. waiting \in Seq(Nat)
  OBVIOUS
<1>1. CASE StartLog
  BY <1>1, <1>q, QueueSteps DEF StartLog, Ask, Ready
<1>2. CASE StopLog
  BY <1>2 DEF StopLog
<1>3. CASE Listen
  <2>1. /\ waiting # <<>> /\ waiting' = Tail(waiting) /\ records' = records /\ sealed' = sealed
        /\ stopper' = stopper /\ listener = "listens" /\ call' = call /\ logging' = logging
        /\ listener' = IF waiting[1] = 0 THEN "ended" ELSE listener
    BY <1>3, <1>q, QueueSteps DEF Listen
  <2>2. /\ waiting' \in Seq(Nat) /\ Len(waiting') = Len(waiting) - 1 /\ Len(waiting) \in Nat \ {0}
        /\ \A i \in 1 .. Len(waiting) - 1 : waiting'[i] = waiting[i + 1]
    BY <1>q, <2>1, QueueSteps
  <2>3. CASE ~Sent
    BY <2>1, <2>2, <2>3
  <2>4. CASE Sent
    <3>1. PICK k \in Nat : SentinelAt(k)
      BY <2>1, <2>4
    <3>2. CASE k = 1
      BY <2>1, <2>2, <2>4, <3>1, <3>2 DEF SentinelAt
    <3>3. CASE k # 1
      <4>1. k - 1 \in Nat /\ k - 1 \in 1 .. Len(waiting') /\ waiting'[k - 1] = 0 /\ waiting[1] # 0
        BY <2>2, <3>1, <3>3 DEF SentinelAt
      <4>2. ASSUME NEW i \in 1 .. (k - 1) - 1 PROVE waiting'[i] # 0
        <5>1. i + 1 \in 1 .. k - 1 /\ i \in 1 .. Len(waiting) - 1
          BY <2>2, <3>1 DEF SentinelAt
        <5> QED BY <2>2, <3>1, <5>1 DEF SentinelAt
      <4>3. \A i \in (k - 1) + 1 .. Len(waiting') : waiting'[i] > sealed'
        BY <2>1, <2>2, <3>1 DEF SentinelAt
      <4>4. SentinelAt(k - 1)'
        BY <4>1, <4>2, <4>3 DEF SentinelAt
      <4>5. \A i \in 1 .. Len(waiting') : waiting'[i] <= records'
        BY <2>1, <2>2
      <4> QED BY <2>1, <2>2, <2>4, <4>1, <4>4, <4>5
    <3> QED BY <3>2, <3>3
  <2> QED BY <2>3, <2>4
<1>4. CASE PutSentinel
  <2>1. CASE Len(waiting) < QueueSize
    <3>1. /\ waiting' = Append(waiting, 0) /\ sealed' = records /\ records' = records /\ ~Sent /\ Sent'
          /\ listener' = listener /\ call' = call /\ call # Ready /\ stopper' = "joins"
      BY <1>4, <2>1 DEF PutSentinel
    <3>2. /\ waiting' \in Seq(Nat) /\ Len(waiting') = Len(waiting) + 1 /\ waiting'[Len(waiting) + 1] = 0
          /\ \A i \in 1 .. Len(waiting) : waiting'[i] = waiting[i]
      BY <1>q, <3>1, QueueSteps
    <3>3. Len(waiting) + 1 \in 1 .. Len(waiting') /\ Len(waiting) \in Nat
      BY <1>q, <3>2
    <3>4. \A i \in 1 .. Len(waiting') : waiting'[i] <= records'
      BY <3>1, <3>2, <3>3
    <3>5. PICK k \in Nat : k = Len(waiting) + 1
      BY <3>3
    <3>6. SentinelAt(k)'
      BY <3>1, <3>2, <3>3, <3>5 DEF SentinelAt
    <3> QED BY <3>1, <3>2, <3>3, <3>4, <3>6
  <2>2. CASE ~(Len(waiting) < QueueSize)
    BY <1>4, <2>2 DEF PutSentinel
  <2> QED BY <2>1, <2>2
<1>5. CASE Evict
  <2>1. CASE waiting # <<>>
    <3>1. /\ waiting' = Tail(waiting) /\ records' = records /\ sealed' = sealed /\ listener' = listener
          /\ stopper = "evicts" /\ stopper' = "puts" /\ call' = call /\ logging' = logging
      BY <1>5, <2>1 DEF Evict
    <3>2. /\ waiting' \in Seq(Nat) /\ Len(waiting') = Len(waiting) - 1 /\ Len(waiting) \in Nat
          /\ \A i \in 1 .. Len(waiting) - 1 : waiting'[i] = waiting[i + 1]
      BY <1>q, <2>1, <3>1, QueueSteps
    <3> QED BY <3>1, <3>2
  <2>2. CASE waiting = <<>>
    BY <1>5, <2>2 DEF Evict
  <2> QED BY <2>1, <2>2
<1>6. CASE Join
  BY <1>6 DEF Join, SentinelAt
<1>7. ASSUME NEW p \in Producer, BeginRecord(p) PROVE LogInv'
  BY <1>7 DEF BeginRecord, SentinelAt
<1>8. ASSUME NEW p \in Producer, PutRecord(p) PROVE LogInv'
  <2>1. CASE Len(waiting) < QueueSize
    <3>1. /\ waiting' = Append(waiting, records + 1) /\ sealed' = sealed /\ records' = records + 1
          /\ stopper' = stopper /\ listener' = listener /\ call' = call
      BY <1>8, <2>1 DEF PutRecord
    <3>2. /\ waiting' \in Seq(Nat) /\ Len(waiting') = Len(waiting) + 1 /\ waiting'[Len(waiting) + 1] = records + 1
          /\ \A i \in 1 .. Len(waiting) : waiting'[i] = waiting[i]
          /\ Len(waiting) \in Nat
      BY <1>q, <3>1, QueueSteps
    <3>3. \A i \in 1 .. Len(waiting') : waiting'[i] <= records'
      BY <3>1, <3>2, <1>q, QueueSteps
    <3>4. call # Ready
      BY <1>8 DEF PutRecord
    <3>5. CASE ~Sent
      BY <3>1, <3>2, <3>3, <3>4, <3>5
    <3>6. CASE Sent /\ listener = "ended"
      BY <3>1, <3>2, <3>3, <3>4, <3>6
    <3>7. CASE Sent /\ listener # "ended"
      <4>1. PICK k \in Nat : SentinelAt(k)
        BY <3>7
      <4>2. SentinelAt(k)'
        BY <3>1, <3>2, <4>1 DEF SentinelAt
      <4> QED BY <3>1, <3>2, <3>3, <3>4, <3>7, <4>2
    <3> QED BY <3>5, <3>6, <3>7
  <2>2. CASE ~(Len(waiting) < QueueSize)
    BY <1>8, <2>2 DEF PutRecord, SentinelAt
  <2> QED BY <2>1, <2>2
<1>9. CASE UNCHANGED <<logs, call>>
  BY <1>9 DEF logs, SentinelAt
<1> QED BY <1>1, <1>2, <1>3, <1>4, <1>5, <1>6, <1>7, <1>8, <1>9 DEF LogNext, LogStep

\* When stop has returned, what is left in the queue was put after its sentinel,
\* for any number of producers and records and any size of the queue.
THEOREM LogDrains ==
  LogSpec => []StopDrains
<1>1. call = Ready /\ LogInit => LogInv
  BY DEF LogInit, LogInv, Sent
<1>2. LogInv => StopDrains
  BY DEF LogInv, Sent, StopDrains
<1> QED BY <1>1, <1>2, LogInvariance, PTL DEF LogSpec

-----------------------------------------------------------------------------
(***************************************************************************)
(* The session of a stage                                                  *)
(***************************************************************************)
StageSpec == call = Ready /\ StageInit /\ [][StageNext]_<<call, stage>>

Writing == {"snapshot", "append", "replace"}
WorkerPlaces == {"off", "works", "writes", "exits", "joins", "stopped", "raised"} \cup Writing
PumpPlaces == {"off", "waits", "ticks", "ended"} \cup Writing
Events == {"none", "start", "progress", "heartbeat", "complete"}
Row == [event : Events, processed : Nat]
Locks == {"free", "worker", "pump"}
Bodies == {"runs", "done", "raised"}
StageType ==
  [worker : WorkerPlaces, pump : PumpPlaces, lock : Locks, body : Bodies, started : BOOLEAN, stop : BOOLEAN,
   completed : BOOLEAN, done : Nat, emitted : Nat, beats : Nat, faults : Nat, taken : [worker : Row, pump : Row],
   rows : Seq(Row), latest : Row, manifest : Row]

Closing == {"works", "writes", "exits", "joins", "stopped", "raised"}
\* Who writes has the lock, a session goes on until it is stopped, the manifest
\* is of what the worker wrote last, and the pump writes nothing but beats.
ThreadsInv ==
  /\ stage.worker \in Writing <=> stage.lock = "worker"
  /\ stage.pump \in Writing <=> stage.lock = "pump"
  /\ stage.started <=> stage.worker \notin {"off", "stopped"}
  /\ stage.completed => stage.worker \in Closing /\ stage.taken.worker.event = "complete"
  /\ stage.worker \in {"writes", "joins", "stopped"} => stage.completed
  /\ stage.manifest # NoRow => stage.completed /\ stage.manifest = stage.taken.worker
  /\ stage.completed /\ stage.faults = 0 /\ stage.worker # "writes" => stage.manifest = stage.taken.worker
  /\ stage.pump \in Writing => stage.taken.pump.event = "heartbeat"

\* What was emitted is in the rows, the last of which is the latest snapshot
\* unless a thread is about to make it so.
Written(place, row) ==
  /\ place \in {"append", "replace"} => row.processed = stage.done /\ stage.emitted = stage.done
  /\ place = "replace" => Len(stage.rows) >= 1 /\ stage.rows[Len(stage.rows)] = row
CountsInv ==
  /\ stage.emitted <= stage.done
  /\ stage.lock = "free" => stage.done - stage.emitted < CountInterval
  /\ stage.lock = "free" /\ stage.faults = 0 =>
       /\ stage.latest.processed = stage.emitted
       /\ stage.rows # <<>> => stage.latest = stage.rows[Len(stage.rows)]
  /\ \A k \in 1 .. Len(stage.rows) : stage.rows[k].processed <= stage.emitted
  /\ \A k \in 1 .. Len(stage.rows) - 1 : stage.rows[k].processed <= stage.rows[k + 1].processed
  /\ Written(stage.worker, stage.taken.worker)
  /\ Written(stage.pump, stage.taken.pump)

\* The terminal row is the one the worker wrote when it completed the stage, and
\* only beats without news follow it; unless a write failed there is no other.
Ended ==
  \/ stage.completed
  \/ stage.worker = "replace" /\ stage.taken.worker.event = "complete"
EndsAt(k) ==
  /\ k \in 1 .. Len(stage.rows) /\ stage.rows[k] = stage.taken.worker
  /\ stage.taken.worker.event = "complete" /\ stage.taken.worker.processed = stage.done
  /\ stage.faults = 0 => \A j \in 1 .. k - 1 : stage.rows[j].event # "complete"
  /\ \A j \in k + 1 .. Len(stage.rows) : stage.rows[j] = [event |-> "heartbeat", processed |-> stage.done]
EndsInv ==
  /\ ~Ended /\ stage.faults = 0 => \A k \in 1 .. Len(stage.rows) : stage.rows[k].event # "complete"
  /\ Ended => \E k \in Nat : EndsAt(k)

StageInv ==
  /\ stage \in StageType
  /\ call = Ready => stage = NoStage
  /\ ThreadsInv /\ CountsInv /\ EndsInv

\* Before a session begins nothing is written.
LEMMA NoStageInv ==
  stage = NoStage => stage \in StageType /\ ThreadsInv /\ CountsInv /\ EndsInv
<1> SUFFICES ASSUME stage = NoStage PROVE stage \in StageType /\ ThreadsInv /\ CountsInv /\ EndsInv
  OBVIOUS
<1>1. stage \in StageType
  BY DEF NoStage, NoRow, StageType, WorkerPlaces, PumpPlaces, Writing, Locks, Bodies, Row, Events
<1>2. /\ stage.worker = "off" /\ stage.pump = "off" /\ stage.lock = "free" /\ stage.started = FALSE
      /\ stage.completed = FALSE /\ stage.done = 0 /\ stage.emitted = 0 /\ stage.rows = <<>> /\ stage.latest.processed = 0
      /\ stage.manifest = NoRow
  BY DEF NoStage, NoRow
<1>3. ThreadsInv
  BY <1>2 DEF ThreadsInv, Writing
<1>4. CountsInv
  BY <1>2, StageAssumption DEF CountsInv, Written
<1>5. EndsInv
  BY <1>2 DEF EndsInv, Ended
<1> QED BY <1>1, <1>3, <1>4, <1>5

\* What changes when a thread takes the lock, when the worker moves or counts
\* without it, and when the pump moves.
Taken(w, p, lock, taken, done, beats) ==
  stage' = [stage EXCEPT !.worker = w, !.pump = p, !.lock = lock, !.taken = taken, !.done = done, !.beats = beats]
TakesLock(t, event, done, beats) == stage' = [Take(t, event) EXCEPT !.done = done, !.beats = beats]
Moved(w, body, started, stop, manifest) ==
  stage' = [stage EXCEPT !.worker = w, !.body = body, !.started = started, !.stop = stop, !.manifest = manifest]
Counted(done) == stage' = [stage EXCEPT !.done = done]
Pumped(p, beats) == stage' = [stage EXCEPT !.pump = p, !.beats = beats]

\* The fields of a session whose lock was taken.
LEMMA TakenFields ==
  ASSUME stage \in StageType, NEW w \in WorkerPlaces, NEW p \in PumpPlaces, NEW lock \in Locks,
         NEW taken \in [worker : Row, pump : Row], NEW done \in Nat, NEW beats \in Nat,
         Taken(w, p, lock, taken, done, beats)
  PROVE  /\ stage' \in StageType
         /\ stage'.worker = w /\ stage'.pump = p /\ stage'.lock = lock /\ stage'.taken = taken /\ stage'.done = done
         /\ stage'.started = stage.started /\ stage'.completed = stage.completed /\ stage'.manifest = stage.manifest
         /\ stage'.faults = stage.faults
         /\ stage'.emitted = stage.emitted /\ stage'.rows = stage.rows /\ stage'.latest = stage.latest
<1>1. stage' \in StageType
  BY DEF StageType, Taken
<1> QED BY <1>1 DEF StageType, Taken

\* A thread takes the lock: what is kept of the counts and the rows stays.
LEMMA TakeKeeps ==
  ASSUME stage \in StageType, ThreadsInv, CountsInv, EndsInv, stage.lock = "free",
         NEW t \in {"worker", "pump"}, NEW event \in Events \ {"none"}, NEW done \in Nat, NEW beats \in Nat,
         t = "worker" => stage.worker \in {"works", "exits"} /\ ~stage.completed,
         t = "pump" => stage.worker \notin {"off", "stopped"} /\ event = "heartbeat" /\ done = stage.done,
         done >= stage.done,
         TakesLock(t, event, done, beats)
  PROVE  stage' \in StageType /\ ThreadsInv' /\ CountsInv' /\ EndsInv'
<1>1. PICK w \in WorkerPlaces, p \in PumpPlaces :
        /\ w = IF t = "worker" THEN "snapshot" ELSE stage.worker
        /\ p = IF t = "pump" THEN "snapshot" ELSE stage.pump
  BY DEF StageType, WorkerPlaces, PumpPlaces, Writing
<1> DEFINE taken == [stage.taken EXCEPT ![t] = [@ EXCEPT !.event = event]]
<1>2. stage.taken \in [worker : Row, pump : Row]
  BY DEF StageType
<1>3. taken \in [worker : Row, pump : Row] /\ (t = "pump" => taken.worker = stage.taken.worker /\ taken.pump.event = event)
  BY <1>2 DEF Row
<1>l. PICK lock \in Locks : lock = t
  BY DEF Locks
<1>4. Taken(w, p, lock, taken, done, beats)
  BY <1>1, <1>l DEF TakesLock, Take, To, StageType, Taken
<1> HIDE DEF taken
<1>5. taken \in [worker : Row, pump : Row]
  BY <1>3
<1>6. /\ stage' \in StageType
      /\ stage'.worker = w /\ stage'.pump = p /\ stage'.lock = t /\ stage'.taken = taken /\ stage'.done = done
      /\ stage'.started = stage.started /\ stage'.completed = stage.completed /\ stage'.manifest = stage.manifest
      /\ stage'.faults = stage.faults
      /\ stage'.emitted = stage.emitted /\ stage'.rows = stage.rows /\ stage'.latest = stage.latest
  BY <1>4, <1>l, <1>5, TakenFields
<1>7. ThreadsInv'
  BY <1>1, <1>3, <1>6 DEF ThreadsInv, Writing
<1>8. CountsInv'
  <2>1. w \notin {"append", "replace"} /\ p \notin {"append", "replace"}
    BY <1>1 DEF ThreadsInv, Writing
  <2>2. Written(stage.worker, stage.taken.worker)' /\ Written(stage.pump, stage.taken.pump)'
    BY <1>6, <2>1 DEF Written
  <2>3. stage.emitted \in Nat /\ stage.done \in Nat /\ stage.emitted <= stage.done
    BY DEF StageType, CountsInv
  <2>4. stage'.emitted <= stage'.done
    BY <1>6, <2>3
  <2>5. stage'.lock # "free"
    BY <1>6
  <2> QED BY <1>6, <2>2, <2>4, <2>5 DEF CountsInv
<1>9. EndsInv'
  BY <1>1, <1>3, <1>6 DEF EndsInv, Ended, EndsAt
<1> QED BY <1>6, <1>7, <1>8, <1>9

\* What the worker does without the lock leaves the rows and the counts.
LEMMA WorkerMoves ==
  ASSUME stage \in StageType, ThreadsInv, CountsInv, EndsInv, stage.worker \notin Writing,
         NEW w \in WorkerPlaces \ Writing, NEW body \in Bodies, NEW started \in BOOLEAN, NEW stop \in BOOLEAN,
         NEW manifest \in Row,
         started <=> w \notin {"off", "stopped"},
         stage.completed => w \in Closing,
         w \in {"writes", "joins", "stopped"} => stage.completed,
         manifest # NoRow => stage.completed /\ manifest = stage.taken.worker,
         stage.completed /\ stage.faults = 0 /\ w # "writes" => manifest = stage.taken.worker,
         Moved(w, body, started, stop, manifest)
  PROVE  stage' \in StageType /\ ThreadsInv' /\ CountsInv' /\ EndsInv'
<1>1. stage' \in StageType
  BY DEF StageType, Moved
<1>2. /\ stage'.worker = w /\ stage'.pump = stage.pump /\ stage'.lock = stage.lock /\ stage'.taken = stage.taken
      /\ stage'.done = stage.done /\ stage'.emitted = stage.emitted /\ stage'.rows = stage.rows
      /\ stage'.latest = stage.latest /\ stage'.manifest = manifest /\ stage'.faults = stage.faults
      /\ stage'.started = started /\ stage'.completed = stage.completed
  BY DEF StageType, Moved
<1>4. ThreadsInv'
  BY <1>2 DEF ThreadsInv
<1>5. CountsInv'
  BY <1>2 DEF CountsInv, Written, Writing
<1>6. EndsInv'
  BY <1>2 DEF EndsInv, Ended, EndsAt, Writing
<1> QED BY <1>1, <1>4, <1>5, <1>6

\* Nor does the pump, and a worker whose progress is not due yet counts on.
LEMMA PumpMoves ==
  ASSUME stage \in StageType, ThreadsInv, CountsInv, EndsInv, stage.pump \notin Writing,
         NEW p \in PumpPlaces \ Writing, NEW beats \in Nat, Pumped(p, beats)
  PROVE  stage' \in StageType /\ ThreadsInv' /\ CountsInv' /\ EndsInv'
<1>1. stage' \in StageType
  BY DEF StageType, Pumped
<1>2. /\ stage'.worker = stage.worker /\ stage'.pump = p /\ stage'.lock = stage.lock /\ stage'.taken = stage.taken
      /\ stage'.done = stage.done /\ stage'.emitted = stage.emitted /\ stage'.rows = stage.rows
      /\ stage'.latest = stage.latest /\ stage'.manifest = stage.manifest
      /\ stage'.started = stage.started /\ stage'.completed = stage.completed /\ stage'.faults = stage.faults
  BY DEF StageType, Pumped
<1>4. ThreadsInv'
  BY <1>2 DEF ThreadsInv
<1>5. CountsInv'
  BY <1>2 DEF CountsInv, Written, Writing
<1>6. EndsInv'
  BY <1>2 DEF EndsInv, Ended, EndsAt
<1> QED BY <1>1, <1>4, <1>5, <1>6

\* Progress that is not due is counted.
LEMMA CountsOn ==
  ASSUME stage \in StageType, ThreadsInv, CountsInv, EndsInv, InBody, stage.lock = "free",
         NEW done \in Nat, done >= stage.done, ~MustEmit(done), Counted(done)
  PROVE  stage' \in StageType /\ ThreadsInv' /\ CountsInv' /\ EndsInv'
<1>1. stage' \in StageType
  BY DEF StageType, Counted
<1>2. /\ stage'.worker = stage.worker /\ stage'.pump = stage.pump /\ stage'.lock = stage.lock /\ stage'.taken = stage.taken
      /\ stage'.done = done /\ stage'.emitted = stage.emitted /\ stage'.rows = stage.rows
      /\ stage'.latest = stage.latest /\ stage'.manifest = stage.manifest
      /\ stage'.started = stage.started /\ stage'.completed = stage.completed /\ stage'.faults = stage.faults
  BY DEF StageType, Counted
<1>4. ThreadsInv'
  BY <1>2 DEF ThreadsInv
<1>5. CountsInv'
  <2>1. stage.pump \notin Writing
    BY DEF ThreadsInv
  <2>2. Written(stage.worker, stage.taken.worker)' /\ Written(stage.pump, stage.taken.pump)'
    BY <1>2, <2>1 DEF Written, Writing, InBody
  <2>3. stage.emitted \in Nat /\ stage.done \in Nat /\ stage.emitted <= stage.done
    BY DEF StageType, CountsInv
  <2>4. stage'.emitted <= stage'.done /\ stage'.done - stage'.emitted < CountInterval
    BY <1>2, <2>3, StageAssumption DEF MustEmit
  <2> QED BY <1>2, <2>2, <2>4 DEF CountsInv
<1>6. EndsInv'
  BY <1>2 DEF EndsInv, Ended, InBody
<1> QED BY <1>1, <1>4, <1>5, <1>6

\* The thread that writes has the lock, and the other one does not write.
LEMMA OneWriter ==
  ASSUME ThreadsInv, NEW t \in {"worker", "pump"}, PlaceOf(t) \in Writing
  PROVE  /\ stage.lock = t
         /\ t = "worker" => stage.worker \in Writing /\ stage.pump \notin Writing /\ PlaceOf(t) = stage.worker
         /\ t = "pump" => stage.pump \in Writing /\ stage.worker \notin Writing /\ PlaceOf(t) = stage.pump
BY DEF ThreadsInv, PlaceOf

\* A snapshot is made of the tracker.
LEMMA SnapshotKeeps ==
  ASSUME stage \in StageType, ThreadsInv, CountsInv, EndsInv, NEW t \in {"worker", "pump"}, Snapshot(t)
  PROVE  stage' \in StageType /\ ThreadsInv' /\ CountsInv' /\ EndsInv'
<1>1. PICK w \in WorkerPlaces, p \in PumpPlaces :
        /\ w = IF t = "worker" THEN "append" ELSE stage.worker
        /\ p = IF t = "pump" THEN "append" ELSE stage.pump
  BY DEF StageType, WorkerPlaces, PumpPlaces, Writing
<1>w. /\ stage.lock = t
      /\ t = "worker" => stage.worker = "snapshot" /\ stage.pump \notin Writing
      /\ t = "pump" => stage.pump = "snapshot" /\ stage.worker \notin Writing
  BY OneWriter DEF Writing, Snapshot
<1> DEFINE taken == [stage.taken EXCEPT ![t] = [@ EXCEPT !.processed = stage.done]]
<1>2. stage.taken \in [worker : Row, pump : Row] /\ stage.done \in Nat /\ stage.emitted \in Nat /\ stage.emitted <= stage.done
  BY DEF StageType, CountsInv
<1>3. /\ taken \in [worker : Row, pump : Row]
      /\ t = "pump" => taken.worker = stage.taken.worker /\ taken.pump.event = stage.taken.pump.event /\ taken.pump.processed = stage.done
      /\ t = "worker" => taken.pump = stage.taken.pump /\ taken.worker.processed = stage.done
  BY <1>2 DEF Row
<1>4. stage' = [stage EXCEPT !.worker = w, !.pump = p, !.taken = taken, !.emitted = stage.done]
  BY <1>1 DEF Snapshot, To, StageType
<1> HIDE DEF taken
<1>5. stage' \in StageType
  BY <1>2, <1>3, <1>4 DEF StageType
<1>6. /\ stage'.worker = w /\ stage'.pump = p /\ stage'.lock = stage.lock /\ stage'.taken = taken /\ stage'.done = stage.done
      /\ stage'.started = stage.started /\ stage'.completed = stage.completed /\ stage'.manifest = stage.manifest
      /\ stage'.faults = stage.faults
      /\ stage'.emitted = stage.done /\ stage'.rows = stage.rows /\ stage'.latest = stage.latest
  BY <1>3, <1>4 DEF StageType
<1>7. ThreadsInv'
  <2>1. CASE t = "worker"
    <3>1. w \in Writing /\ w \notin {"off", "stopped", "writes", "joins"} /\ stage.worker \in Writing /\ ~stage.completed
      BY <1>1, <1>w, <2>1 DEF ThreadsInv, Closing, Writing
    <3>2. stage.manifest = NoRow /\ stage.started
      BY <3>1 DEF ThreadsInv, Writing
    <3> QED BY <1>1, <1>w, <1>3, <1>6, <2>1, <3>1, <3>2 DEF ThreadsInv
  <2>2. CASE t = "pump"
    <3>1. p \in Writing /\ w = stage.worker /\ stage'.taken.worker = stage.taken.worker /\ stage'.taken.pump.event = "heartbeat"
      BY <1>1, <1>w, <1>3, <1>6, <2>2 DEF ThreadsInv, Writing
    <3> QED BY <1>1, <1>w, <1>6, <2>2, <3>1 DEF ThreadsInv
  <2> QED BY <2>1, <2>2
<1>8. CountsInv'
  <2>1. Written(stage.worker, stage.taken.worker)' /\ Written(stage.pump, stage.taken.pump)'
    BY <1>1, <1>w, <1>3, <1>6 DEF Written, Writing
  <2>2. ASSUME NEW k \in 1 .. Len(stage.rows) PROVE stage.rows[k].processed <= stage.done
    <3>1. stage.rows[k].processed \in Nat
      <4>1. stage.rows \in Seq(Row)
        BY DEF StageType
      <4>2. stage.rows[k] \in Row
        BY <4>1
      <4> QED BY <4>2 DEF Row
    <3>2. stage.rows[k].processed <= stage.emitted
      BY DEF CountsInv
    <3> QED BY <1>2, <3>1, <3>2
  <2>3. stage'.emitted <= stage'.done /\ stage'.lock # "free"
    BY <1>2, <1>w, <1>6
  <2> QED BY <1>6, <2>1, <2>2, <2>3 DEF CountsInv
<1>9. EndsInv'
  <2>1. CASE t = "worker"
    <3>1. ~Ended /\ ~Ended'
      BY <1>1, <1>w, <1>6, <2>1 DEF Ended, ThreadsInv, Closing
    <3> QED BY <1>6, <3>1 DEF EndsInv
  <2>2. CASE t = "pump"
    <3>1. (Ended' <=> Ended) /\ \A k \in Nat : EndsAt(k)' <=> EndsAt(k)
      BY <1>1, <1>w, <1>3, <1>6, <2>2 DEF Ended, EndsAt
    <3> QED BY <1>6, <3>1 DEF EndsInv
  <2> QED BY <2>1, <2>2
<1> QED BY <1>5, <1>7, <1>8, <1>9

\* A row is appended.
LEMMA AppendKeeps ==
  ASSUME stage \in StageType, ThreadsInv, CountsInv, EndsInv, NEW t \in {"worker", "pump"}, AppendRow(t)
  PROVE  stage' \in StageType /\ ThreadsInv' /\ CountsInv' /\ EndsInv'
<1>1. PICK w \in WorkerPlaces, p \in PumpPlaces :
        /\ w = IF t = "worker" THEN "replace" ELSE stage.worker
        /\ p = IF t = "pump" THEN "replace" ELSE stage.pump
  BY DEF StageType, WorkerPlaces, PumpPlaces, Writing
<1>w. /\ stage.lock = t
      /\ t = "worker" => stage.worker = "append" /\ stage.pump \notin Writing
      /\ t = "pump" => stage.pump = "append" /\ stage.worker \notin Writing
  BY OneWriter DEF Writing, AppendRow
<1>2. /\ stage.taken \in [worker : Row, pump : Row] /\ stage.done \in Nat /\ stage.emitted \in Nat
      /\ stage.rows \in Seq(Row) /\ stage.emitted = stage.done
  BY <1>w DEF StageType, CountsInv, Written
<1> DEFINE row == stage.taken[t]
           rows == Append(stage.rows, row)
           n == Len(stage.rows)
<1>3. /\ row \in Row /\ row.processed = stage.done
      /\ t = "worker" => row = stage.taken.worker
      /\ t = "pump" => row = stage.taken.pump /\ row = [event |-> "heartbeat", processed |-> stage.done]
  <2>1. CASE t = "worker"
    BY <1>w, <1>2, <2>1 DEF CountsInv, Written
  <2>2. CASE t = "pump"
    <3>1. row = stage.taken.pump /\ row \in Row /\ row.processed = stage.done /\ row.event = "heartbeat"
      BY <1>w, <1>2, <2>2 DEF CountsInv, Written, ThreadsInv, Writing
    <3>2. row = [event |-> "heartbeat", processed |-> stage.done]
      BY <3>1 DEF Row
    <3> QED BY <2>2, <3>1, <3>2
  <2> QED BY <2>1, <2>2
<1>4. stage' = [stage EXCEPT !.worker = w, !.pump = p, !.rows = rows]
  BY <1>1 DEF AppendRow, To, StageType
<1>5. /\ rows \in Seq(Row) /\ n \in Nat /\ Len(rows) = n + 1 /\ rows[n + 1] = row
      /\ \A k \in 1 .. n : rows[k] = stage.rows[k]
  <2> HIDE DEF row
  <2> QED BY <1>2, <1>3
<1> HIDE DEF rows, row
<1>6. /\ stage' \in StageType
      /\ stage'.worker = w /\ stage'.pump = p /\ stage'.lock = stage.lock /\ stage'.taken = stage.taken /\ stage'.done = stage.done
      /\ stage'.started = stage.started /\ stage'.completed = stage.completed /\ stage'.manifest = stage.manifest
      /\ stage'.faults = stage.faults
      /\ stage'.emitted = stage.emitted /\ stage'.rows = rows /\ stage'.latest = stage.latest
  BY <1>4, <1>5 DEF StageType
<1>7. ThreadsInv'
  <2>1. CASE t = "worker"
    <3>1. w \in Writing /\ w \notin {"off", "stopped", "writes", "joins"} /\ stage.worker \in Writing /\ ~stage.completed
      BY <1>1, <1>w, <2>1 DEF ThreadsInv, Closing, Writing
    <3>2. stage.manifest = NoRow /\ stage.started
      BY <3>1 DEF ThreadsInv, Writing
    <3> QED BY <1>1, <1>w, <1>6, <2>1, <3>1, <3>2 DEF ThreadsInv
  <2>2. CASE t = "pump"
    <3>1. p \in Writing /\ w = stage.worker /\ stage'.taken.worker = stage.taken.worker /\ stage'.taken.pump.event = "heartbeat"
      BY <1>1, <1>w, <1>6, <2>2 DEF ThreadsInv, Writing
    <3> QED BY <1>1, <1>w, <1>6, <2>2, <3>1 DEF ThreadsInv
  <2> QED BY <2>1, <2>2
<1>n. n = Len(stage.rows)
  OBVIOUS
<1> HIDE DEF n
<1>8. CountsInv'
  <2>0. Len(rows) >= 1 /\ rows[Len(rows)] = row /\ Len(rows) \in Nat
    BY <1>5
  <2>1. Written(stage.worker, stage.taken.worker)' /\ Written(stage.pump, stage.taken.pump)'
    BY <1>1, <1>w, <1>2, <1>3, <1>6, <2>0 DEF Written, Writing
  <2>2. \A k \in 1 .. n : stage.rows[k].processed <= stage.done /\ stage.rows[k].processed \in Nat
    <3> SUFFICES ASSUME NEW k \in 1 .. n PROVE stage.rows[k].processed <= stage.done /\ stage.rows[k].processed \in Nat
      OBVIOUS
    <3>1. stage.rows[k] \in Row /\ stage.rows[k].processed <= stage.emitted
      BY <1>2, <1>n DEF CountsInv
    <3> QED BY <1>2, <3>1 DEF Row
  <2>3. ASSUME NEW k \in 1 .. n + 1 PROVE rows[k].processed <= stage.done
    <3>1. CASE k = n + 1
      BY <1>2, <1>3, <1>5, <3>1
    <3>2. CASE k \in 1 .. n
      BY <1>5, <2>2, <3>2
    <3> QED BY <1>5, <3>1, <3>2
  <2>4. ASSUME NEW k \in 1 .. (n + 1) - 1 PROVE rows[k].processed <= rows[k + 1].processed
    <3>1. CASE k = n
      <4>1. rows[k + 1].processed = stage.done /\ rows[k] = stage.rows[k] /\ k \in 1 .. n
        BY <1>3, <1>5, <3>1
      <4> QED BY <2>2, <4>1
    <3>2. CASE k \in 1 .. n - 1
      <4>1. k \in 1 .. n /\ k + 1 \in 1 .. n
        BY <1>5, <3>2
      <4>2. rows[k] = stage.rows[k] /\ rows[k + 1] = stage.rows[k + 1]
        BY <1>5, <4>1
      <4> QED BY <1>n, <3>2, <4>2 DEF CountsInv
    <3> QED BY <1>5, <3>1, <3>2
  <2>5. stage'.emitted <= stage'.done /\ stage'.lock # "free"
    BY <1>2, <1>w, <1>6
  <2> QED BY <1>2, <1>5, <1>6, <2>1, <2>3, <2>4, <2>5 DEF CountsInv
<1>9. EndsInv'
  <2>1. CASE t = "worker"
    <3>1. ~Ended /\ stage.taken.worker = row
      BY <1>w, <1>3, <2>1 DEF Ended, ThreadsInv, Closing
    <3>2. stage.faults = 0 => \A k \in 1 .. n : rows[k].event # "complete"
      BY <1>5, <1>n, <3>1 DEF EndsInv
    <3>3. CASE row.event = "complete"
      <4>1. PICK k \in Nat : k = n + 1
        BY <1>5
      <4>2. \A j \in k + 1 .. Len(rows) : FALSE
        BY <1>5, <4>1
      <4>3. stage.faults = 0 => \A j \in 1 .. k - 1 : rows[j].event # "complete"
        BY <1>5, <3>2, <4>1
      <4>4. k \in 1 .. Len(rows) /\ rows[k] = row
        BY <1>5, <4>1
      <4>5. EndsAt(k)'
        BY <1>3, <1>6, <3>1, <3>3, <4>2, <4>3, <4>4 DEF EndsAt
      <4>6. Ended'
        BY <1>1, <1>6, <2>1, <3>1, <3>3 DEF Ended
      <4> QED BY <4>5, <4>6 DEF EndsInv
    <3>4. CASE row.event # "complete"
      <4>1. ~Ended'
        BY <1>1, <1>6, <2>1, <3>1, <3>4 DEF Ended
      <4>2. stage.faults = 0 => \A k \in 1 .. Len(rows) : rows[k].event # "complete"
        BY <1>5, <3>2, <3>4
      <4> QED BY <1>6, <4>1, <4>2 DEF EndsInv
    <3> QED BY <3>3, <3>4
  <2>2. CASE t = "pump"
    <3>1. Ended' <=> Ended
      BY <1>1, <1>6, <2>2 DEF Ended
    <3>2. row = [event |-> "heartbeat", processed |-> stage.done] /\ row.event # "complete"
      BY <1>3, <2>2
    <3>3. CASE ~Ended
      <4>1. stage.faults = 0 => \A k \in 1 .. Len(rows) : rows[k].event # "complete"
        BY <1>5, <1>n, <3>2, <3>3 DEF EndsInv
      <4> QED BY <1>6, <3>1, <3>3, <4>1 DEF EndsInv
    <3>4. CASE Ended
      <4>1. PICK k \in Nat : EndsAt(k)
        BY <3>4 DEF EndsInv
      <4>2. k \in 1 .. n /\ rows[k] = stage.rows[k] /\ k \in 1 .. Len(rows)
        BY <1>5, <1>n, <4>1 DEF EndsAt
      <4>3. stage.faults = 0 => \A j \in 1 .. k - 1 : rows[j].event # "complete"
        BY <1>5, <1>n, <4>1, <4>2 DEF EndsAt
      <4>4. ASSUME NEW j \in k + 1 .. Len(rows) PROVE rows[j] = [event |-> "heartbeat", processed |-> stage.done]
        <5>1. CASE j = n + 1
          BY <1>5, <3>2, <5>1
        <5>2. CASE j \in k + 1 .. n
          BY <1>5, <1>n, <4>1, <4>2, <5>2 DEF EndsAt
        <5> QED BY <1>5, <4>2, <5>1, <5>2
      <4>5. EndsAt(k)'
        BY <1>6, <4>1, <4>2, <4>3, <4>4 DEF EndsAt
      <4> QED BY <3>1, <3>4, <4>5 DEF EndsInv
    <3> QED BY <3>3, <3>4
  <2> QED BY <2>1, <2>2
<1> QED BY <1>6, <1>7, <1>8, <1>9

\* The latest snapshot is replaced and the lock given back.
LEMMA ReplaceKeeps ==
  ASSUME stage \in StageType, ThreadsInv, CountsInv, EndsInv, NEW t \in {"worker", "pump"}, ReplaceLatest(t)
  PROVE  stage' \in StageType /\ ThreadsInv' /\ CountsInv' /\ EndsInv'
<1> DEFINE row == stage.taken[t]
<1>1. PICK w \in WorkerPlaces, p \in PumpPlaces :
        /\ w = IF t = "worker" THEN IF row.event = "complete" THEN "writes" ELSE "works" ELSE stage.worker
        /\ p = IF row.event = "start" \/ t = "pump" THEN "waits" ELSE stage.pump
  BY DEF StageType, WorkerPlaces, PumpPlaces, Writing
<1>w. /\ stage.lock = t
      /\ t = "worker" => stage.worker = "replace" /\ stage.pump \notin Writing
      /\ t = "pump" => stage.pump = "replace" /\ stage.worker \notin Writing
  BY OneWriter DEF Writing, ReplaceLatest
<1>2. /\ stage.taken \in [worker : Row, pump : Row] /\ stage.done \in Nat /\ stage.emitted \in Nat
      /\ stage.emitted = stage.done
  BY <1>w DEF StageType, CountsInv, Written
<1>3. /\ row \in Row /\ row.processed = stage.done /\ stage.rows[Len(stage.rows)] = row
      /\ t = "worker" => row = stage.taken.worker
  BY <1>w, <1>2 DEF CountsInv, Written
<1> DEFINE completed == stage.completed \/ row.event = "complete"
<1>4. stage' = [stage EXCEPT !.worker = w, !.pump = p, !.latest = row, !.lock = "free", !.completed = completed]
  BY <1>1, <1>w DEF ReplaceLatest, To, StageType
<1>c. /\ completed \in BOOLEAN
      /\ t = "worker" => ~stage.completed /\ (completed <=> row.event = "complete")
      /\ t = "pump" => completed = stage.completed /\ row.event = "heartbeat"
  BY <1>w DEF ThreadsInv, Closing, Writing, StageType
<1> HIDE DEF completed
<1> HIDE DEF row
<1>5. "free" \in Locks
  BY DEF Locks
<1>6. /\ stage' \in StageType
      /\ stage'.worker = w /\ stage'.pump = p /\ stage'.lock = "free" /\ stage'.taken = stage.taken /\ stage'.done = stage.done
      /\ stage'.started = stage.started /\ stage'.completed = completed /\ stage'.manifest = stage.manifest
      /\ stage'.faults = stage.faults
      /\ stage'.emitted = stage.emitted /\ stage'.rows = stage.rows /\ stage'.latest = row
  BY <1>3, <1>4, <1>5, <1>c DEF StageType
<1>p. w \notin Writing /\ p \notin Writing
  BY <1>1, <1>w DEF Writing
<1>7. ThreadsInv'
  <2>1. CASE t = "worker"
    <3>1. w \in {"works", "writes"} /\ (w = "writes" <=> completed) /\ ~stage.completed /\ row = stage.taken.worker
      BY <1>1, <1>3, <1>c, <2>1
    <3>2. stage.manifest = NoRow /\ (completed => row.event = "complete")
      BY <1>c, <2>1, <3>1 DEF ThreadsInv
    <3> QED BY <1>p, <1>w, <1>6, <2>1, <3>1, <3>2 DEF ThreadsInv, Closing
  <2>2. CASE t = "pump"
    <3>1. w = stage.worker /\ completed = stage.completed
      BY <1>1, <1>c, <2>2
    <3> QED BY <1>p, <1>w, <1>6, <3>1, <2>2 DEF ThreadsInv
  <2> QED BY <2>1, <2>2
<1>8. CountsInv'
  <2>1. Written(stage.worker, stage.taken.worker)' /\ Written(stage.pump, stage.taken.pump)'
    BY <1>p, <1>6 DEF Written, Writing
  <2>2. stage'.done - stage'.emitted < CountInterval /\ stage'.latest.processed = stage'.emitted
    BY <1>2, <1>3, <1>6, StageAssumption
  <2> QED BY <1>3, <1>6, <2>1, <2>2 DEF CountsInv
<1>9. EndsInv'
  <2>1. Ended' <=> Ended
    BY <1>1, <1>w, <1>3, <1>c, <1>6 DEF Ended
  <2>2. \A k \in Nat : EndsAt(k) => EndsAt(k)'
    BY <1>6 DEF EndsAt
  <2> QED BY <1>6, <2>1, <2>2 DEF EndsInv
<1> QED BY <1>6, <1>7, <1>8, <1>9

\* A write fails: nothing else of the files changes.
LEMMA FailKeeps ==
  ASSUME stage \in StageType, ThreadsInv, CountsInv, EndsInv, NEW t \in {"worker", "pump"}, SinkFails(t)
  PROVE  stage' \in StageType /\ ThreadsInv' /\ CountsInv' /\ EndsInv'
<1>1. PICK latest \in Row, w \in WorkerPlaces, p \in PumpPlaces, lock \in Locks, body \in Bodies :
        /\ stage' = [stage EXCEPT !.worker = w, !.pump = p, !.latest = latest, !.lock = lock, !.faults = stage.faults + 1,
                                  !.body = body]
        /\ t = "worker" => w \in {"exits", "raised"} /\ p = stage.pump
        /\ t = "pump" => w = stage.worker /\ p = "ended"
        /\ lock = IF stage.lock = t THEN "free" ELSE stage.lock
  <2>1. PICK latest \in IF PlaceOf(t) = "replace" THEN {stage.latest, NoRow, stage.taken[t]} ELSE {stage.latest} :
          LET exits == stage.body = "runs" /\ stage.taken.worker.event # "start"
              next == IF t = "pump" THEN "ended" ELSE IF exits THEN "exits" ELSE "raised"
          IN  stage' = [To(t, next) EXCEPT !.latest = latest, !.lock = IF @ = t THEN "free" ELSE @, !.faults = @ + 1,
                                           !.body = IF t = "worker" THEN "raised" ELSE @]
    BY DEF SinkFails
  <2>2. latest \in Row
    BY <2>1 DEF StageType, NoRow, Row, Events
  <2>3. PICK w \in WorkerPlaces, p \in PumpPlaces, lock \in Locks, body \in Bodies :
          /\ w = IF t = "pump" THEN stage.worker
                 ELSE IF stage.body = "runs" /\ stage.taken.worker.event # "start" THEN "exits" ELSE "raised"
          /\ p = IF t = "pump" THEN "ended" ELSE stage.pump
          /\ lock = IF stage.lock = t THEN "free" ELSE stage.lock
          /\ body = IF t = "worker" THEN "raised" ELSE stage.body
    BY DEF StageType, WorkerPlaces, PumpPlaces, Locks, Bodies
  <2>4. stage' = [stage EXCEPT !.worker = w, !.pump = p, !.latest = latest, !.lock = lock, !.faults = stage.faults + 1,
                               !.body = body]
    BY <2>1, <2>3 DEF To, StageType
  <2> QED BY <2>2, <2>3, <2>4
<1>2. /\ stage' \in StageType
      /\ stage'.worker = w /\ stage'.pump = p /\ stage'.lock = lock /\ stage'.taken = stage.taken /\ stage'.done = stage.done
      /\ stage'.started = stage.started /\ stage'.completed = stage.completed /\ stage'.manifest = stage.manifest
      /\ stage'.emitted = stage.emitted /\ stage'.rows = stage.rows
      /\ stage'.faults \in Nat /\ stage'.faults # 0
  <2>1. PICK faults \in Nat : faults = stage.faults + 1 /\ faults # 0
    BY DEF StageType
  <2>2. stage' = [stage EXCEPT !.worker = w, !.pump = p, !.latest = latest, !.lock = lock, !.faults = faults, !.body = body]
    BY <1>1, <2>1
  <2> QED BY <2>1, <2>2 DEF StageType
<1>3. /\ t = "worker" => stage.worker \in {"append", "replace", "writes"}
      /\ t = "pump" => stage.pump \in {"append", "replace"}
  BY DEF SinkFails, PlaceOf, StageType, PumpPlaces, Writing
<1>4. /\ w \in Writing <=> lock = "worker"
      /\ p \in Writing <=> lock = "pump"
  BY <1>1, <1>3 DEF ThreadsInv, Writing
<1>5. ThreadsInv'
  <2>1. /\ w \notin {"off", "stopped"} <=> stage.worker \notin {"off", "stopped"}
        /\ stage.completed => w \in Closing
        /\ w \in {"writes", "joins", "stopped"} => stage.completed
    BY <1>1, <1>3 DEF ThreadsInv, Closing
  <2>2. p \in Writing => stage.taken.pump.event = "heartbeat"
    BY <1>1 DEF ThreadsInv, Writing
  <2> QED BY <1>2, <1>4, <2>1, <2>2 DEF ThreadsInv
<1>6. CountsInv'
  <2>1. lock = "free" => stage.done - stage.emitted < CountInterval
    <3>1. CASE stage.lock = t
      <4>1. stage.emitted = stage.done /\ stage.done \in Nat
        BY <1>3, <3>1 DEF CountsInv, Written, ThreadsInv, Writing, StageType
      <4> QED BY <4>1, StageAssumption
    <3>2. CASE stage.lock # t
      BY <1>1, <3>2 DEF CountsInv
    <3> QED BY <3>1, <3>2
  <2>2. Written(stage.worker, stage.taken.worker)' /\ Written(stage.pump, stage.taken.pump)'
    BY <1>1, <1>2 DEF CountsInv, Written
  <2> QED BY <1>2, <2>1, <2>2 DEF CountsInv
<1>7. EndsInv'
  <2>1. Ended' => Ended
    BY <1>1, <1>2 DEF Ended
  <2>2. \A k \in Nat : EndsAt(k) => EndsAt(k)'
    BY <1>2 DEF EndsAt
  <2> QED BY <1>2, <2>1, <2>2 DEF EndsInv
<1> QED BY <1>2, <1>5, <1>6, <1>7

\* Every step of a session keeps its invariant.
LEMMA StageInvariance ==
  StageInv /\ [StageNext]_<<call, stage>> => StageInv'
<1>a. SUFFICES ASSUME StageInv, [StageNext]_<<call, stage>> PROVE StageInv'
  OBVIOUS
<1> DEFINE Kept == stage \in StageType /\ ThreadsInv /\ CountsInv /\ EndsInv
<1>b. stage \in StageType /\ ThreadsInv /\ CountsInv /\ EndsInv
  BY <1>a DEF StageInv
<1>t. /\ stage.done \in Nat /\ stage.beats \in Nat /\ stage.started \in BOOLEAN /\ stage.completed \in BOOLEAN
      /\ stage.stop \in BOOLEAN /\ stage.manifest \in Row /\ stage.taken.worker \in Row
  BY <1>b DEF StageType
<1>c. Observing /\ Kept' => StageInv'
  BY DEF Observing, StageInv, Ready
<1>1. CASE AskStage
  <2>1. stage = NoStage /\ call' # Ready
    BY <1>a, <1>1 DEF AskStage, StageInv, Ready
  <2>2. PICK w \in WorkerPlaces : w = "snapshot"
    BY DEF WorkerPlaces, Writing
  <2> DEFINE taken == [stage.taken EXCEPT !.worker = [@ EXCEPT !.event = "start"]]
  <2>3. stage.taken \in [worker : Row, pump : Row] /\ "start" \in Events
    BY <1>b DEF StageType, Events
  <2>4. taken \in [worker : Row, pump : Row]
    BY <2>3 DEF Row
  <2>5. stage' = [stage EXCEPT !.worker = w, !.lock = "worker", !.started = TRUE, !.taken = taken]
    BY <1>1, <1>b, <2>2 DEF AskStage, StageType
  <2> HIDE DEF taken
  <2>6. "worker" \in Locks
    BY DEF Locks
  <2>7. /\ stage' \in StageType
        /\ stage'.worker = w /\ stage'.pump = stage.pump /\ stage'.lock = "worker" /\ stage'.started = TRUE
        /\ stage'.completed = stage.completed /\ stage'.rows = stage.rows /\ stage'.emitted = stage.emitted
        /\ stage'.done = stage.done /\ stage'.manifest = stage.manifest
    BY <1>b, <2>4, <2>5, <2>6 DEF StageType
  <2>8. stage.manifest = NoRow /\ stage.pump = "off" /\ stage.completed = FALSE /\ stage.rows = <<>> /\ stage.emitted = 0 /\ stage.done = 0
    BY <2>1 DEF NoStage
  <2>9. ThreadsInv'
    BY <2>2, <2>7, <2>8 DEF ThreadsInv, Writing
  <2>10. CountsInv'
    BY <2>2, <2>7, <2>8 DEF CountsInv, Written
  <2>11. EndsInv'
    BY <2>2, <2>7, <2>8 DEF EndsInv, Ended
  <2> QED BY <2>1, <2>7, <2>9, <2>10, <2>11 DEF StageInv
<1>2. CASE Progress
  <2>1. Observing /\ InBody /\ stage.worker = "works" /\ ~stage.completed /\ stage.lock = "free"
    BY <1>2 DEF Progress, Lockable, InBody
  <2>2. PICK done \in stage.done .. MaxProcessed :
          \/ stage' = [Take("worker", "progress") EXCEPT !.done = done, !.beats = IF done > stage.done THEN @ ELSE @ + 1]
          \/ ~MustEmit(done) /\ stage' = [stage EXCEPT !.done = done]
    BY <1>2 DEF Progress
  <2>3. done \in Nat /\ done >= stage.done
    BY <1>t, <2>2
  <2>4. CASE stage' = [Take("worker", "progress") EXCEPT !.done = done, !.beats = IF done > stage.done THEN @ ELSE @ + 1]
    <3>0. PICK beats \in Nat : beats = IF done > stage.done THEN stage.beats ELSE stage.beats + 1
      BY <1>t
    <3>1. TakesLock("worker", "progress", done, beats)
      BY <1>b, <2>4, <3>0 DEF TakesLock, Take, To, StageType
    <3>2. "progress" \in Events \ {"none"}
      BY DEF Events
    <3>3. Kept'
      BY <1>b, <1>t, <2>1, <2>3, <3>1, <3>2, TakeKeeps
    <3> QED BY <1>c, <2>1, <3>3
  <2>5. CASE ~MustEmit(done) /\ stage' = [stage EXCEPT !.done = done]
    <3>1. Kept'
      BY <1>b, <2>1, <2>3, <2>5, CountsOn DEF Counted
    <3> QED BY <1>c, <2>1, <3>1
  <2> QED BY <2>2, <2>4, <2>5
<1>3. CASE Beat
  <2>1. Observing /\ stage.worker = "works" /\ ~stage.completed /\ stage.lock = "free"
    BY <1>3 DEF Beat, Lockable, InBody
  <2>2. TakesLock("worker", "heartbeat", stage.done, stage.beats + 1)
    BY <1>3, <1>b DEF Beat, TakesLock, Take, To, StageType
  <2>3. "heartbeat" \in Events \ {"none"} /\ stage.beats + 1 \in Nat /\ stage.done >= stage.done
    BY <1>t DEF Events
  <2>4. Kept'
    BY <1>b, <1>t, <2>1, <2>2, <2>3, TakeKeeps
  <2> QED BY <1>c, <2>1, <2>4
<1>4. CASE CompleteStage
  <2>1. Observing /\ stage.worker \in {"works", "exits"} /\ ~stage.completed /\ stage.lock = "free"
    BY <1>4 DEF CompleteStage, Lockable
  <2>2. TakesLock("worker", "complete", stage.done, stage.beats)
    BY <1>4, <1>b DEF CompleteStage, TakesLock, Take, To, StageType
  <2>3. "complete" \in Events \ {"none"} /\ stage.done >= stage.done
    BY <1>t DEF Events
  <2>4. Kept'
    BY <1>b, <1>t, <2>1, <2>2, <2>3, TakeKeeps
  <2> QED BY <1>c, <2>1, <2>4
<1>5. CASE Tick
  <2>1. Observing /\ stage.pump \notin Writing /\ Pumped("ticks", stage.beats + 1)
    BY <1>5, <1>b DEF Tick, Writing, Pumped, StageType
  <2>2. "ticks" \in PumpPlaces \ Writing /\ stage.beats + 1 \in Nat
    BY <1>t DEF PumpPlaces, Writing
  <2>3. Kept'
    BY <1>b, <2>1, <2>2, PumpMoves
  <2> QED BY <1>c, <2>1, <2>3
<1>6. CASE StartTick
  <2>1. Observing /\ stage.pump = "ticks" /\ stage.lock = "free" /\ stage.pump \notin Writing
    BY <1>6 DEF StartTick, Lockable, Writing
  <2>2. CASE stage.started
    <3>1. TakesLock("pump", "heartbeat", stage.done, stage.beats)
      BY <1>6, <1>b, <2>2 DEF StartTick, TakesLock, Take, To, StageType
    <3>2. "heartbeat" \in Events \ {"none"} /\ stage.done >= stage.done /\ stage.worker \notin {"off", "stopped"}
      BY <1>b, <1>t, <2>2 DEF Events, ThreadsInv
    <3>3. Kept'
      BY <1>b, <1>t, <2>1, <3>1, <3>2, TakeKeeps
    <3> QED BY <1>c, <2>1, <3>3
  <2>3. CASE ~stage.started
    <3>1. Pumped("waits", stage.beats)
      BY <1>6, <1>b, <2>3 DEF StartTick, Pumped, StageType
    <3>2. "waits" \in PumpPlaces \ Writing
      BY DEF PumpPlaces, Writing
    <3>3. Kept'
      BY <1>b, <1>t, <2>1, <3>1, <3>2, PumpMoves
    <3> QED BY <1>c, <2>1, <3>3
  <2> QED BY <2>2, <2>3
<1>7. CASE EndPump
  <2>1. Observing /\ stage.pump \notin Writing /\ Pumped("ended", stage.beats)
    BY <1>7, <1>b DEF EndPump, Writing, Pumped, StageType
  <2>2. "ended" \in PumpPlaces \ Writing
    BY DEF PumpPlaces, Writing
  <2>3. Kept'
    BY <1>b, <1>t, <2>1, <2>2, PumpMoves
  <2> QED BY <1>c, <2>1, <2>3
<1>8. ASSUME NEW t \in {"worker", "pump"}, Snapshot(t) PROVE StageInv'
  <2>1. Kept' /\ Observing
    BY <1>8, <1>b, SnapshotKeeps DEF Snapshot
  <2> QED BY <1>c, <2>1
<1>9. ASSUME NEW t \in {"worker", "pump"}, AppendRow(t) PROVE StageInv'
  <2>1. Kept' /\ Observing
    BY <1>9, <1>b, AppendKeeps DEF AppendRow
  <2> QED BY <1>c, <2>1
<1>10. ASSUME NEW t \in {"worker", "pump"}, ReplaceLatest(t) PROVE StageInv'
  <2>1. Kept' /\ Observing
    BY <1>10, <1>b, ReplaceKeeps DEF ReplaceLatest
  <2> QED BY <1>c, <2>1
<1>m. stage.body \in Bodies /\ NoRow \in Row
  BY <1>b DEF StageType, NoRow, Row, Events
<1>11. CASE WriteManifest
  <2>1. PICK w \in {"works", "exits"} : Moved(w, stage.body, stage.started, stage.stop, stage.taken.worker)
    BY <1>11, <1>b DEF WriteManifest, Back, Moved, StageType
  <2>2. /\ Observing /\ stage.worker = "writes" /\ stage.worker \notin Writing /\ stage.started /\ stage.completed
        /\ w \in WorkerPlaces \ Writing /\ w \in Closing
    BY <1>11, <1>b DEF WriteManifest, WorkerPlaces, Writing, Closing, ThreadsInv
  <2>3. Kept'
    BY <1>b, <1>t, <1>m, <2>1, <2>2, WorkerMoves
  <2> QED BY <1>c, <2>2, <2>3
<1>12. CASE StopPump
  <2>1. Observing /\ stage.worker = "exits" /\ Moved("joins", stage.body, stage.started, TRUE, stage.manifest)
    BY <1>12, <1>b DEF StopPump, Moved, StageType
  <2>2. "joins" \in WorkerPlaces \ Writing /\ stage.worker \notin Writing /\ stage.started /\ stage.completed
        /\ "joins" \in Closing
    BY <1>12, <1>b, <2>1 DEF StopPump, WorkerPlaces, Writing, Closing, ThreadsInv
  <2>3. Kept'
    BY <1>b, <1>t, <1>m, <2>1, <2>2, WorkerMoves DEF ThreadsInv
  <2> QED BY <1>c, <2>1, <2>3
<1>13. CASE EndStage
  <2>1. Observing /\ stage.worker = "joins" /\ Moved("stopped", stage.body, FALSE, stage.stop, stage.manifest)
    BY <1>13, <1>b DEF EndStage, Moved, StageType
  <2>2. "stopped" \in WorkerPlaces \ Writing /\ stage.worker \notin Writing /\ stage.completed /\ "stopped" \in Closing
    BY <1>b, <2>1 DEF WorkerPlaces, Writing, Closing, ThreadsInv
  <2>3. Kept'
    BY <1>b, <1>t, <1>m, <2>1, <2>2, WorkerMoves DEF ThreadsInv
  <2> QED BY <1>c, <2>1, <2>3
<1>15. CASE LeaveBody
  <2>1. PICK body \in Bodies : Moved("exits", body, stage.started, stage.stop, stage.manifest)
    BY <1>15, <1>b DEF LeaveBody, Bodies, Moved, StageType
  <2>2. /\ Observing /\ stage.worker = "works" /\ "exits" \in WorkerPlaces \ Writing /\ stage.worker \notin Writing
        /\ stage.started /\ "exits" \in Closing
    BY <1>15, <1>b DEF LeaveBody, WorkerPlaces, Writing, Closing, ThreadsInv
  <2>3. Kept'
    BY <1>b, <1>t, <1>m, <2>1, <2>2, WorkerMoves DEF ThreadsInv
  <2> QED BY <1>c, <2>2, <2>3
<1>16. ASSUME NEW t \in {"worker", "pump"}, SinkFails(t) PROVE StageInv'
  <2>1. Kept' /\ Observing
    BY <1>16, <1>b, FailKeeps DEF SinkFails
  <2> QED BY <1>c, <2>1
<1>14. CASE UNCHANGED <<call, stage>>
  BY <1>14, <1>a DEF StageInv, ThreadsInv, CountsInv, EndsInv, Written, Ended, EndsAt
<1> QED BY <1>a, <1>1, <1>2, <1>3, <1>4, <1>5, <1>6, <1>7, <1>8, <1>9, <1>10, <1>11, <1>12, <1>13, <1>14,
       <1>15, <1>16 DEF StageNext, StageStep

\* While nobody writes, the latest snapshot is the last row and lags less than
\* the throttle allows, unless a write failed, and so is the terminal row one;
\* of a session that is over the last terminal row is of all that was done, the
\* manifest is of it or could not be written, and only beats with the same counts
\* follow; after its stop a session is quiet.
THEOREM SessionIsTold ==
  StageSpec => []LatestIsTold /\ []OneEnding /\ QuietAfterStop
<1>1. call = Ready /\ StageInit => StageInv
  BY NoStageInv DEF StageInit, StageInv
<1>2. StageInv => LatestIsTold
  <2> SUFFICES ASSUME StageInv PROVE LatestIsTold
    OBVIOUS
  <2>1. stage.rows \in Seq(Row) /\ CountsInv /\ stage.done \in Nat /\ stage.emitted \in Nat
    BY DEF StageInv, StageType
  <2> QED BY <2>1 DEF LatestIsTold, CountsInv, Last
<1>3. StageInv => OneEnding
  <2>a. SUFFICES ASSUME StageInv PROVE OneEnding
    OBVIOUS
  <2>b. EndsInv /\ ThreadsInv /\ DOMAIN stage.rows = 1 .. Len(stage.rows) /\ Len(stage.rows) \in Nat /\ stage.faults \in Nat
    BY <2>a DEF StageInv, StageType
  <2>1. CASE ~Ended
    BY <2>b, <2>1 DEF EndsInv, OneEnding, Ended, ThreadsInv
  <2>2. CASE Ended
    <3>1. PICK k \in Nat : EndsAt(k)
      BY <2>b, <2>2 DEF EndsInv
    <3>2. k \in 1 .. Len(stage.rows) /\ stage.rows[k] = stage.taken.worker /\ stage.rows[k].event = "complete"
          /\ stage.rows[k].processed = stage.done
      BY <3>1 DEF EndsAt
    <3>3. ASSUME stage.faults = 0, NEW j \in 1 .. Len(stage.rows), j # k PROVE stage.rows[j].event # "complete"
      <4>1. CASE j \in 1 .. k - 1
        BY <3>1, <3>3, <4>1 DEF EndsAt
      <4>2. CASE j \in k + 1 .. Len(stage.rows)
        BY <3>1, <4>2 DEF EndsAt
      <4> QED BY <2>b, <3>2, <3>3, <4>1, <4>2
    <3>4. k \in {j \in DOMAIN stage.rows : stage.rows[j].event = "complete"}
      BY <2>b, <3>2
    <3>a. ASSUME stage.faults = 0, NEW j \in DOMAIN stage.rows, stage.rows[j].event = "complete" PROVE j = k
      BY <2>b, <3>3, <3>a
    <3>5. stage.manifest # NoRow => stage.manifest = stage.rows[k]
      BY <2>b, <3>2 DEF ThreadsInv
    <3>6. stage.worker \in {"joins", "stopped"} => stage.manifest = stage.rows[k] \/ (stage.manifest = NoRow /\ stage.faults > 0)
      BY <2>b, <3>2, <3>5 DEF ThreadsInv
    <3>7. \A j \in k + 1 .. Len(stage.rows) : stage.rows[j] = [event |-> "heartbeat", processed |-> stage.done]
      BY <3>1 DEF EndsAt
    <3> QED BY <3>2, <3>4, <3>a, <3>5, <3>6, <3>7 DEF OneEnding
  <2> QED BY <2>1, <2>2
<1>4. StageInv /\ [StageNext]_<<call, stage>>
        => [stage.worker = "stopped" /\ stage.pump \notin {"snapshot", "append", "replace"}
              => stage'.rows = stage.rows /\ stage'.pump \notin {"snapshot", "append", "replace"}]_stage
  <2>a. SUFFICES ASSUME StageInv, [StageNext]_<<call, stage>>, stage' # stage,
                        stage.worker = "stopped", stage.pump \notin Writing
                 PROVE  stage'.rows = stage.rows /\ stage'.pump \notin Writing
    BY DEF Writing
  <2>b. stage \in StageType /\ ~stage.started
    BY <2>a DEF StageInv, ThreadsInv
  <2>c. CASE AskStage
    <3>1. stage.worker = "off"
      BY <2>a, <2>c DEF AskStage, StageInv, NoStage
    <3> QED BY <2>a, <3>1
  <2>d. CASE Progress \/ Beat \/ CompleteStage \/ LeaveBody \/ WriteManifest \/ StopPump \/ EndStage
    BY <2>a, <2>d DEF Progress, Beat, InBody, CompleteStage, LeaveBody, WriteManifest, StopPump, EndStage
  <2>e. CASE \E t \in {"worker", "pump"} : Snapshot(t) \/ AppendRow(t) \/ ReplaceLatest(t) \/ SinkFails(t)
    <3>1. \A t \in {"worker", "pump"} : PlaceOf(t) \notin Writing \cup {"writes"}
      BY <2>a, <2>b DEF PlaceOf, Writing, StageType, PumpPlaces
    <3> QED BY <2>e, <3>1 DEF Snapshot, AppendRow, ReplaceLatest, SinkFails, Writing
  <2>f. CASE Tick
    <3>1. stage' = [stage EXCEPT !.pump = "ticks", !.beats = @ + 1]
      BY <2>f DEF Tick
    <3> QED BY <2>b, <3>1 DEF StageType, Writing
  <2>g. CASE StartTick
    <3>1. stage' = [stage EXCEPT !.pump = "waits"]
      BY <2>b, <2>g DEF StartTick
    <3> QED BY <2>b, <3>1 DEF StageType, Writing
  <2>h. CASE EndPump
    <3>1. stage' = [stage EXCEPT !.pump = "ended"]
      BY <2>h DEF EndPump
    <3> QED BY <2>b, <3>1 DEF StageType, Writing
  <2> QED BY <2>a, <2>c, <2>d, <2>e, <2>f, <2>g, <2>h DEF StageNext, StageStep
<1> QED BY <1>1, <1>2, <1>3, <1>4, StageInvariance, PTL DEF StageSpec, QuietAfterStop

-----------------------------------------------------------------------------
(***************************************************************************)
(* A call of the inference client                                          *)
(***************************************************************************)
ClientSpec == call = Ready /\ ClientInit /\ [][ClientNext]_<<call, client>>

Places == {"idle", "healthy", "list", "show", "embed", "open", "stream", "back"}
Kinds == {"none", "generate", "embed", "health"}
Statuses == {"none", "ok", "refused", "cancelled", "timeout", "malformed", "backend_error", "architecture_unsupported"}
LineKinds == {"text", "filter", "junk", "too large", "done", "timeout", "backend_error", "architecture_unsupported"}
Line == [line : LineKinds, of : Nat]
ClientType ==
  [pc : Places, kind : Kinds, backend : {"none", "ollama", "vllm"}, structured : BOOLEAN, tries : Nat, round : Nat,
   stream : Nat, queue : Seq(Line), ended : BOOLEAN, read : Nat, text : Seq(Line), waits : {0, 1},
   cancel : BOOLEAN, answer : Statuses]

\* The lines of a stream that are read are in the text or in the queue, in
\* front of its end, and all of them are of the stream that was opened last.
StreamInv ==
  /\ \A i \in 1 .. Len(client.queue) :
       /\ client.queue[i].of = client.stream
       /\ client.queue[i].line \in StreamEnds => client.ended /\ i = Len(client.queue)
  /\ client.ended => Len(client.queue) >= 1 /\ client.queue[Len(client.queue)].line \in StreamEnds
  /\ \A i \in 1 .. Len(client.text) : client.text[i].of = client.stream
  /\ client.ended => Len(client.text) + Len(client.queue) = client.read + 1
  /\ ~client.ended => Len(client.text) + Len(client.queue) = client.read

ClientInv ==
  /\ client \in ClientType
  /\ Calling => client.waits = 0
  /\ client.pc = "embed" => client.kind = "embed"
  /\ client.pc = "stream" => StreamInv
  /\ OneStreamAnswers


\* A call begins with nothing read and nothing waited for.
LEMMA NoCall ==
  NoClient \in ClientType /\ NoClient.pc = "idle" /\ NoClient.waits = 0
BY DEF NoClient, ClientType, Places, Kinds, Statuses

\* What a failure makes of a call.
LEMMA FailedLeaves ==
  ASSUME ClientInv, Calling, NEW status \in Statuses, status # "ok", NEW rest \in Seq(Line), Failed(status, rest),
         client.pc \in {"stream", "healthy", "list", "show", "embed"}
  PROVE  ClientInv'
<1>1. client \in ClientType /\ client.waits = 0 /\ client.tries \in Nat /\ (client.pc = "embed" => client.kind = "embed")
  BY DEF ClientInv, ClientType
<1>2. CASE status \in Final \/ client.tries + 1 >= MaxTries
  <2>1. PICK waits \in {0, 1}, pc \in Places : waits = (IF status = "timeout" THEN 1 ELSE 0) /\ pc = "back"
    BY DEF Places
  <2>2. client' = [client EXCEPT !.queue = rest, !.waits = waits, !.pc = pc, !.answer = status]
    BY <1>1, <1>2, <2>1 DEF Failed, ClientType
  <2>3. client' \in ClientType /\ client'.pc = pc /\ client'.answer = status
    BY <1>1, <2>2 DEF ClientType
  <2> QED BY <2>1, <2>3 DEF ClientInv, Calling, OneStreamAnswers
<1>3. CASE ~(status \in Final \/ client.tries + 1 >= MaxTries)
  <2>1. status # "timeout"
    BY <1>3 DEF Final
  <2>2. PICK tries \in Nat, pc \in Places : tries = client.tries + 1 /\ pc = IF client.pc = "stream" THEN "open" ELSE client.pc
    BY <1>1 DEF Places
  <2>3. client' = [client EXCEPT !.queue = rest, !.waits = 0, !.pc = pc, !.tries = tries]
    BY <1>1, <1>3, <2>1, <2>2 DEF Failed, ClientType
  <2>4. client' \in ClientType /\ client'.pc = pc /\ client'.waits = 0 /\ client'.kind = client.kind
    BY <1>1, <2>3 DEF ClientType
  <2> QED BY <1>1, <2>2, <2>4 DEF ClientInv, Calling, OneStreamAnswers
<1> QED BY <1>2, <1>3

\* An answer that is no text of a generation ends a call.
LEMMA AnsweredLeaves ==
  ASSUME ClientInv, NEW status \in Statuses, status # "ok" \/ client.kind # "generate", Answered(status)
  PROVE  ClientInv'
<1>1. PICK pc \in Places : pc = "back"
  BY DEF Places
<1>2. client \in ClientType /\ client' = [client EXCEPT !.pc = pc, !.answer = status]
  BY <1>1 DEF Answered, ClientInv
<1>3. client' \in ClientType /\ client'.kind = client.kind /\ client'.pc = "back" /\ client'.answer = status
  BY <1>1, <1>2 DEF ClientType
<1> QED BY <1>3 DEF ClientInv, Calling, OneStreamAnswers

\* The next request is no stream yet.
LEMMA GoesOn ==
  ASSUME ClientInv, Calling, NEW pc \in {"list", "show", "embed", "open"}, pc = "embed" => client.kind = "embed", Go(pc)
  PROVE  ClientInv'
<1>1. client \in ClientType /\ client.waits = 0 /\ pc \in Places
  BY DEF ClientInv, Places
<1>2. client' \in ClientType /\ client'.kind = client.kind /\ client'.pc = pc /\ client'.waits = client.waits
  BY <1>1 DEF Go, ClientType
<1> QED BY <1>1, <1>2 DEF ClientInv, Calling, OneStreamAnswers

\* An attempt of a request keeps the invariant.
LEMMA ExchangeKeeps ==
  ASSUME ClientInv, Exchange
  PROVE  ClientInv'
<1>1. client.pc \in {"healthy", "list", "show", "embed"} /\ Calling
  BY DEF Exchange, Calling
<1>q. client.queue \in Seq(Line) /\ (client.pc = "embed" => client.kind = "embed")
  BY DEF ClientInv, ClientType
<1> USE DEF Statuses
<1>2. CASE client.cancel
  <2>1. Failed("cancelled", client.queue)
    BY <1>2 DEF Exchange
  <2> QED BY <1>1, <1>q, <2>1, FailedLeaves
<1>3. CASE ~client.cancel
  <2>1. PICK reply \in Replies :
          /\ reply = "ok" => Followed
          /\ reply = "missing" => Answered("backend_error") \/ Answered("architecture_unsupported")
          /\ reply \in {"busy", "unreachable"} => Failed("backend_error", client.queue)
          /\ reply \in {"timeout", "malformed"} => Failed(reply, client.queue)
    BY <1>3 DEF Exchange
  <2>2. Identified => ClientInv'
    <3>1. Go("open") => ClientInv'
      BY <1>1, GoesOn
    <3>2. client.kind = "embed" /\ Go("embed") => ClientInv'
      BY <1>1, GoesOn
    <3>3. Answered("architecture_unsupported") => ClientInv'
      BY AnsweredLeaves
    <3> QED BY <3>1, <3>2, <3>3 DEF Identified
  <2>3. CASE reply = "ok"
    <3>1. Go("list") \/ Go("show") => ClientInv'
      BY <1>1, GoesOn
    <3>2. Answered("ok") /\ client.kind # "generate" => ClientInv'
      BY AnsweredLeaves
    <3>3. \/ Go("list") \/ Go("show") \/ Identified
          \/ Answered("ok") /\ client.kind # "generate"
      BY <1>1, <1>q, <2>1, <2>3 DEF Followed
    <3> QED BY <2>2, <3>1, <3>2, <3>3
  <2>4. CASE reply = "missing"
    BY <2>1, <2>4, AnsweredLeaves
  <2>5. CASE reply \in {"busy", "unreachable"}
    <3>1. Failed("backend_error", client.queue)
      BY <2>1, <2>5
    <3> QED BY <1>1, <1>q, <3>1, FailedLeaves
  <2>6. CASE reply \in {"timeout", "malformed"}
    <3>1. Failed(reply, client.queue)
      BY <2>1, <2>6
    <3> QED BY <1>1, <1>q, <2>6, <3>1, FailedLeaves
  <2> QED BY <2>3, <2>4, <2>5, <2>6 DEF Replies
<1> QED BY <1>2, <1>3

\* The thread puts what it reads behind the rest.
LEMMA WorkerKeeps ==
  ClientInv /\ Worker => ClientInv'
<1>a. SUFFICES ASSUME ClientInv, Worker PROVE ClientInv'
  OBVIOUS
<1>1. PICK line \in LineKinds :
        client' = [client EXCEPT !.queue = Append(@, [line |-> line, of |-> client.stream]),
                                 !.ended = line \in StreamEnds,
                                 !.read = @ + (IF line \in StreamEnds THEN 0 ELSE 1)]
  BY <1>a DEF Worker, LineKinds, StreamEnds
<1>2. client.pc = "stream" /\ ~client.ended /\ client \in ClientType /\ StreamInv /\ client.waits = 0
  BY <1>a DEF Worker, ClientInv, Calling
<1>3. client.read \in Nat /\ client.queue \in Seq(Line) /\ client.stream \in Nat /\ client.text \in Seq(Line)
  BY <1>2 DEF ClientType
<1> DEFINE entry == [line |-> line, of |-> client.stream]
           q == Append(client.queue, entry)
<1>4. entry \in Line /\ entry.line = line /\ entry.of = client.stream
  BY <1>3 DEF Line
<1> HIDE DEF entry
<1>5.   /\ q \in Seq(Line) /\ Len(q) = Len(client.queue) + 1 /\ Len(client.queue) \in Nat
        /\ q[Len(client.queue) + 1] = entry
        /\ \A i \in 1 .. Len(client.queue) : q[i] = client.queue[i]
  BY <1>3, <1>4
<1>e. client' = [client EXCEPT !.queue = q, !.ended = line \in StreamEnds,
                               !.read = client.read + (IF line \in StreamEnds THEN 0 ELSE 1)]
  BY <1>1, <1>2 DEF entry, ClientType
<1> HIDE DEF q
<1>6. /\ client' \in ClientType /\ client'.queue = q /\ (client'.ended <=> line \in StreamEnds)
      /\ client'.read = client.read + (IF line \in StreamEnds THEN 0 ELSE 1)
      /\ client'.pc = "stream" /\ client'.text = client.text /\ client'.stream = client.stream
      /\ client'.waits = client.waits /\ client'.kind = client.kind
  <2>1. PICK read \in Nat : read = client.read + (IF line \in StreamEnds THEN 0 ELSE 1)
    BY <1>3
  <2>2. PICK ended \in BOOLEAN : ended <=> line \in StreamEnds
    OBVIOUS
  <2>3. client' = [client EXCEPT !.queue = q, !.ended = ended, !.read = read]
    BY <1>e, <2>1, <2>2
  <2> QED BY <1>2, <1>5, <2>1, <2>2, <2>3 DEF ClientType
<1>7. StreamInv'
  <2>1. ASSUME NEW i \in 1 .. Len(q)
        PROVE  q[i].of = client.stream /\ (q[i].line \in StreamEnds => line \in StreamEnds /\ i = Len(q))
    <3>1. CASE i = Len(client.queue) + 1
      BY <1>4, <1>5, <3>1
    <3>2. CASE i \in 1 .. Len(client.queue)
      <4>1. q[i] = client.queue[i]
        BY <1>5, <3>2
      <4> QED BY <1>2, <3>2, <4>1 DEF StreamInv
    <3> QED BY <1>5, <3>1, <3>2
  <2>2. /\ line \in StreamEnds => Len(client.text) + Len(q) = client'.read + 1
        /\ line \notin StreamEnds => Len(client.text) + Len(q) = client'.read
    <3>1. Len(client.text) + Len(client.queue) = client.read
      BY <1>2 DEF StreamInv
    <3>2. Len(client.text) \in Nat /\ Len(client.queue) \in Nat /\ client.read \in Nat
      BY <1>3
    <3>3. Len(q) \in Nat /\ Len(q) = Len(client.queue) + 1
      BY <1>5
    <3>4. PICK a, b, c, d \in Nat : a = Len(q) /\ b = client.read /\ c = Len(client.text) /\ d = Len(client.queue)
      BY <3>2, <3>3
    <3>5. a = d + 1 /\ c + d = b
      BY <3>1, <3>3, <3>4
    <3>6. client'.read = b + (IF line \in StreamEnds THEN 0 ELSE 1)
      BY <1>6, <3>4
    <3>7. c + a = b + 1
      BY <3>5
    <3> QED BY <3>4, <3>6, <3>7
  <2>3. /\ Len(q) >= 1 /\ (line \in StreamEnds => q[Len(q)].line \in StreamEnds)
        /\ \A i \in 1 .. Len(client.text) : client.text[i].of = client.stream
    BY <1>2, <1>4, <1>5 DEF StreamInv
  <2> QED BY <1>6, <2>1, <2>2, <2>3 DEF StreamInv
<1> QED BY <1>2, <1>6, <1>7 DEF ClientInv, Calling, OneStreamAnswers

\* The reader takes the first line, and an answer is what it has taken.
LEMMA TakeLineKeeps ==
  ClientInv /\ TakeLine => ClientInv'
<1>a. SUFFICES ASSUME ClientInv, TakeLine PROVE ClientInv'
  OBVIOUS
<1>1. client.pc = "stream" /\ Calling /\ client \in ClientType /\ StreamInv /\ client.queue \in Seq(Line)
  BY <1>a DEF TakeLine, ClientInv, Calling, ClientType
<1>2. CASE client.cancel
  <2>1. Failed("cancelled", client.queue) /\ "cancelled" \in Statuses
    BY <1>a, <1>2 DEF TakeLine, Statuses
  <2> QED BY <1>1, <2>1, FailedLeaves, <1>a
<1>3. CASE ~client.cancel
  <2>1. client.queue # <<>>
    BY <1>a, <1>3 DEF TakeLine
  <2> DEFINE head == Head(client.queue)
             rest == Tail(client.queue)
  <2>h. head \in Line /\ head = client.queue[1]
    BY <1>1, <2>1
  <2>r.   /\ rest \in Seq(Line)
          /\ Len(rest) = Len(client.queue) - 1 /\ Len(client.queue) \in Nat \ {0}
          /\ \A i \in 1 .. Len(client.queue) - 1 : rest[i] = client.queue[i + 1]
    BY <1>1, <2>1
  <2>2. /\ head = Head(client.queue) /\ rest = Tail(client.queue) /\ head = client.queue[1]
        /\ Len(rest) = Len(client.queue) - 1 /\ Len(client.queue) \in Nat \ {0}
        /\ \A i \in 1 .. Len(client.queue) - 1 : rest[i] = client.queue[i + 1]
    BY <2>h, <2>r
  <2>3. /\ head.line = "done" => Completed
        /\ head.line = "junk" => Failed("malformed", rest)
        /\ head.line = "too large" => Failed("backend_error", rest)
        /\ head.line \in StreamEnds \ {"done"} => Failed(head.line, rest)
        /\ head.line \notin {"junk", "too large"} \cup StreamEnds =>
             client' = [client EXCEPT !.queue = rest, !.text = Append(@, head)]
    BY <1>a, <1>3, <2>2 DEF TakeLine, StreamEnds
  <2> HIDE DEF head, rest
  <2>4. CASE head.line = "done"
    <3>0. client.read \in Nat /\ Len(client.text) \in Nat
      BY <1>1 DEF ClientType
    <3>a. client.queue[1].line \in StreamEnds /\ 1 \in 1 .. Len(client.queue)
      BY <2>2, <2>4 DEF StreamEnds
    <3>b. client.ended /\ Len(client.queue) = 1
      BY <1>1, <3>a DEF StreamInv
    <3>c. Len(client.text) + Len(client.queue) = client.read + 1
      BY <1>1, <3>b DEF StreamInv
    <3>1. Len(client.text) = client.read
      BY <3>0, <3>b, <3>c
    <3>2. Completed
      BY <2>3, <2>4
    <3>3. CASE Answered("ok")
      <4>1. client' \in ClientType /\ client'.pc = "back" /\ client'.text = client.text /\ client'.read = client.read
            /\ client'.ended = client.ended /\ client'.stream = client.stream
        <5>1. PICK pc \in Places, answer \in Statuses : pc = "back" /\ answer = "ok"
          BY DEF Places, Statuses
        <5>2. client' = [client EXCEPT !.pc = pc, !.answer = answer]
          BY <3>3, <5>1 DEF Answered
        <5> QED BY <1>1, <5>1, <5>2 DEF ClientType
      <4> QED BY <1>1, <3>1, <3>b, <4>1 DEF ClientInv, Calling, OneStreamAnswers, StreamInv
    <3>4. CASE Answered("refused") \/ Answered("malformed")
      BY <3>4, AnsweredLeaves, <1>a DEF Statuses
    <3>5. CASE client' = [client EXCEPT !.pc = "open", !.tries = 0, !.round = @ + 1]
      <4>1. client' \in ClientType /\ client'.pc = "open" /\ client'.waits = client.waits
        <5>1. PICK pc \in Places, round \in Nat : pc = "open" /\ round = client.round + 1
          BY <1>1 DEF ClientType, Places
        <5>2. client' = [client EXCEPT !.pc = pc, !.tries = 0, !.round = round]
          BY <1>1, <3>5, <5>1 DEF ClientType
        <5>3. client' \in ClientType
          BY <1>1, <5>2 DEF ClientType
        <5> QED BY <1>1, <5>1, <5>2 DEF ClientType
      <4> QED BY <1>a, <1>1, <4>1 DEF ClientInv, Calling, OneStreamAnswers
    <3> QED BY <3>2, <3>3, <3>4, <3>5 DEF Completed
  <2>5. CASE head.line \in {"junk", "too large"} \cup (StreamEnds \ {"done"})
    <3>1. PICK status \in Statuses : status # "ok" /\ Failed(status, rest)
      <4>1. CASE head.line = "junk"
        BY <2>3, <4>1 DEF Statuses
      <4>2. CASE head.line = "too large"
        BY <2>3, <4>2 DEF Statuses
      <4>3. CASE head.line \in StreamEnds \ {"done"}
        BY <2>3, <4>3 DEF Statuses, StreamEnds
      <4> QED BY <2>5, <4>1, <4>2, <4>3
    <3> QED BY <1>1, <2>r, <3>1, FailedLeaves, <1>a
  <2>6. CASE head.line \notin {"junk", "too large"} \cup StreamEnds
    <3>1. client' = [client EXCEPT !.queue = rest, !.text = Append(@, head)]
      BY <2>3, <2>6 DEF StreamEnds
    <3> DEFINE t == Append(client.text, head)
    <3>2.   /\ t \in Seq(Line) /\ Len(t) = Len(client.text) + 1 /\ Len(client.text) \in Nat
            /\ t[Len(client.text) + 1] = head /\ \A i \in 1 .. Len(client.text) : t[i] = client.text[i]
      <4>1. client.text \in Seq(Line)
        BY <1>1 DEF ClientType
      <4> QED BY <2>h, <4>1
    <3>t. client' = [client EXCEPT !.queue = rest, !.text = t]
      BY <1>1, <3>1 DEF ClientType
    <3> HIDE DEF t
    <3>3. /\ client' \in ClientType /\ client'.pc = "stream" /\ client'.queue = rest /\ client'.text = t
          /\ client'.read = client.read /\ client'.ended = client.ended /\ client'.stream = client.stream
          /\ client'.waits = client.waits
      BY <1>1, <2>r, <3>2, <3>t DEF ClientType
    <3>4. StreamInv'
      <4>1. ASSUME client.ended PROVE Len(rest) >= 1 /\ rest[Len(rest)].line \in StreamEnds
        <5>1. client.queue[Len(client.queue)].line \in StreamEnds
          BY <1>1, <4>1 DEF StreamInv
        <5>2. Len(client.queue) # 1
          BY <2>h, <2>6, <5>1
        <5>3. Len(rest) \in Nat /\ Len(client.queue) \in Nat /\ Len(client.queue) # 0 /\ Len(rest) = Len(client.queue) - 1
          BY <2>r
        <5>4. Len(rest) >= 1 /\ Len(rest) \in 1 .. Len(client.queue) - 1 /\ Len(rest) + 1 = Len(client.queue)
          <6>1. PICK a, b \in Nat : a = Len(rest) /\ b = Len(client.queue)
            BY <5>3
          <6>2. a = b - 1 /\ b # 0 /\ b # 1
            BY <5>2, <5>3, <6>1
          <6>3. a >= 1 /\ a \in 1 .. b - 1 /\ a + 1 = b
            BY <6>2
          <6> QED BY <6>1, <6>3
        <5>5. rest[Len(rest)] = client.queue[Len(rest) + 1]
          BY <2>r, <5>4
        <5> QED BY <5>1, <5>4, <5>5
      <4>2. ASSUME NEW i \in 1 .. Len(rest)
            PROVE  rest[i].of = client.stream /\ (rest[i].line \in StreamEnds => client.ended /\ i = Len(rest))
        <5>1. i + 1 \in 1 .. Len(client.queue) /\ rest[i] = client.queue[i + 1]
          BY <2>2
        <5> QED BY <1>1, <2>2, <5>1 DEF StreamInv
      <4>3. \A i \in 1 .. Len(t) : t[i].of = client.stream
        <5> SUFFICES ASSUME NEW i \in 1 .. Len(t) PROVE t[i].of = client.stream
          OBVIOUS
        <5>1. CASE i = Len(client.text) + 1
          <6>1. head.of = client.stream
            <7>1. 1 \in 1 .. Len(client.queue)
              BY <2>2
            <7> QED BY <1>1, <2>h, <7>1 DEF StreamInv
          <6> QED BY <3>2, <5>1, <6>1
        <5>2. CASE i \in 1 .. Len(client.text)
          <6>1. t[i] = client.text[i]
            BY <3>2, <5>2
          <6> QED BY <1>1, <5>2, <6>1 DEF StreamInv
        <5> QED BY <3>2, <5>1, <5>2
      <4>4. Len(t) + Len(rest) = Len(client.text) + Len(client.queue)
        <5>1. Len(t) \in Nat /\ Len(client.text) \in Nat /\ Len(t) = Len(client.text) + 1
          BY <3>2
        <5>2. Len(rest) \in Nat /\ Len(client.queue) \in Nat /\ Len(rest) = Len(client.queue) - 1
          BY <2>2
        <5>3. PICK a, b, c, d \in Nat : a = Len(t) /\ b = Len(rest) /\ c = Len(client.text) /\ d = Len(client.queue)
          BY <5>1, <5>2
        <5>4. a = c + 1 /\ b = d - 1
          BY <5>1, <5>2, <5>3
        <5>5. a + b = c + d
          BY <5>4
        <5> QED BY <5>3, <5>5
      <4> QED BY <1>1, <3>3, <4>1, <4>2, <4>3, <4>4 DEF StreamInv
    <3> QED BY <1>a, <1>1, <3>3, <3>4 DEF ClientInv, Calling, OneStreamAnswers
  <2> QED BY <2>4, <2>5, <2>6 DEF StreamEnds
<1> QED BY <1>2, <1>3

\* Every step of a call keeps its invariant.
LEMMA ClientInvariance ==
  ClientInv /\ [ClientNext]_<<call, client>> => ClientInv'
<1> SUFFICES ASSUME ClientInv, [ClientNext]_<<call, client>> PROVE ClientInv'
  OBVIOUS
<1>1. ASSUME NEW kind \in {"generate", "embed", "health"}, NEW backend \in {"ollama", "vllm"}, NEW structured \in BOOLEAN,
             StartCall(kind, backend, structured)
      PROVE  ClientInv'
  <2>1. /\ client' \in ClientType /\ client'.pc \in {"healthy", "list"} /\ client'.waits = 0
    <3>1. PICK pc \in Places : pc = (IF backend = "vllm" THEN "healthy" ELSE "list") /\ pc \in {"healthy", "list"}
      BY DEF Places
    <3>2. kind \in Kinds
      BY DEF Kinds
    <3>3. client' = [NoClient EXCEPT !.pc = pc, !.kind = kind, !.backend = backend, !.structured = structured]
      BY <1>1, <3>1 DEF StartCall
    <3>4. backend \in {"none", "ollama", "vllm"}
      BY <1>1
    <3>5. client' \in ClientType
      BY <3>2, <3>3, <3>4, NoCall DEF ClientType
    <3>6. client'.pc = pc /\ client'.waits = 0
      BY <3>2, <3>3, <3>4, NoCall DEF ClientType
    <3> QED BY <3>1, <3>5, <3>6
  <2> QED BY <2>1 DEF ClientInv, Calling, OneStreamAnswers
<1>2. CASE CancelCall
  <2>1. /\ client' \in ClientType /\ client'.pc = client.pc /\ client'.kind = client.kind /\ client'.waits = client.waits
        /\ client'.queue = client.queue /\ client'.text = client.text /\ client'.read = client.read
        /\ client'.ended = client.ended /\ client'.stream = client.stream /\ client'.answer = client.answer
    BY <1>2 DEF CancelCall, ClientInv, ClientType
  <2> QED BY <2>1 DEF ClientInv, Calling, OneStreamAnswers, StreamInv
<1>3. CASE Exchange
  BY <1>3, ExchangeKeeps
<1>4. CASE OpenStream
  <2>1. CASE client.cancel
    <3>1. Answered("cancelled") /\ "cancelled" \in Statuses
      BY <1>4, <2>1 DEF OpenStream, Statuses
    <3> QED BY <3>1, AnsweredLeaves
  <2>2. CASE ~client.cancel
    <3>0. Calling /\ client \in ClientType /\ client.waits = 0
      BY <1>4 DEF OpenStream, Calling, ClientInv
    <3>1. client'.pc = "stream" /\ client' \in ClientType /\ client'.waits = client.waits
          /\ client'.queue = <<>> /\ client'.text = <<>> /\ client'.read = 0 /\ client'.ended = FALSE
      <4>1. PICK pc \in Places, stream \in Nat : pc = "stream" /\ stream = client.stream + 1
        BY <3>0 DEF Places, ClientType
      <4>2. <<>> \in Seq(Line)
        OBVIOUS
      <4>3. client' = [client EXCEPT !.pc = pc, !.stream = stream, !.queue = <<>>, !.ended = FALSE, !.read = 0, !.text = <<>>]
        BY <1>4, <2>2, <3>0, <4>1 DEF OpenStream, ClientType
      <4> QED BY <3>0, <4>1, <4>2, <4>3 DEF ClientType
    <3> QED BY <3>0, <3>1 DEF ClientInv, Calling, OneStreamAnswers, StreamInv
  <2> QED BY <2>1, <2>2
<1>5. CASE Worker
  BY <1>5, WorkerKeeps
<1>6. CASE TakeLine
  BY <1>6, TakeLineKeeps
<1>7. CASE Late
  <2>1. Calling /\ client.queue \in Seq(Line)
    BY <1>7 DEF Late, Calling, ClientInv, ClientType
  <2>2. Failed("timeout", client.queue) /\ client.pc = "stream" /\ "timeout" \in Statuses
    BY <1>7 DEF Late, Statuses
  <2> QED BY <2>1, <2>2, FailedLeaves
<1>8. CASE ReturnCall
  <2>1. client' \in ClientType /\ client'.pc = "idle" /\ client'.waits = 0
    BY <1>8, NoCall DEF ReturnCall
  <2> QED BY <2>1 DEF ClientInv, Calling, OneStreamAnswers
<1>9. CASE UNCHANGED <<call, client>>
  BY <1>9 DEF ClientInv, Calling, OneStreamAnswers, StreamInv
<1> QED BY <1>1, <1>2, <1>3, <1>4, <1>5, <1>6, <1>7, <1>8, <1>9 DEF ClientNext

\* A completed generation is the text of its last stream, and a call waits for
\* one timeout at most, for any numbers of attempts, repairs and lines.
THEOREM ClientAnswers ==
  ClientSpec => [](OneStreamAnswers /\ WaitsOnce)
<1>1. call = Ready /\ ClientInit => ClientInv
  <2> SUFFICES ASSUME ClientInit PROVE ClientInv
    OBVIOUS
  <2>1. client \in ClientType /\ client.pc = "idle"
    BY NoCall DEF ClientInit
  <2> QED BY <2>1 DEF ClientInv, Calling, OneStreamAnswers
<1>2. ClientInv => OneStreamAnswers /\ WaitsOnce
  BY DEF ClientInv, ClientType, WaitsOnce
<1> QED BY <1>1, <1>2, ClientInvariance, PTL DEF ClientSpec

-----------------------------------------------------------------------------
(***************************************************************************)
(* Setup                                                                   *)
(***************************************************************************)
SetupSpec == call = Ready /\ SetupInit /\ [][SetupNext]_<<setups, call>>

AnyHost == [venv : Int, built : BOOLEAN, pulled : BOOLEAN, missing : Nat, up : BOOLEAN,
            schema : {"empty", "head", "foreign"}]
Answers == {"ready", "reused", "skipped", "cancelled", "blocked", "degraded"}
SetupNames == {<<>>, PhaseOrder} \cup {<<n>> : n \in AtomicPhases}
SetupType ==
  [names : SetupNames, online : BOOLEAN, backend : {"ollama", "vllm"}, verified : Nat \X BOOLEAN, results : Seq(Answers),
   polls : Nat, status : {"none", "ready", "cancelled", "blocked", "degraded"}, attempts : Nat]

\* Unless a sync broke off or died since, the environment in place is of the
\* lockfile that was verified, of the attempt when it is not stored yet.
VerifiedInv == lapsed \/ host.venv = IF Busy THEN setup.verified[1] ELSE kept[1]

\* The phases answer in order, and an attempt is ready when all of them were ok.
AnswersInv ==
  /\ Len(setup.results) <= Len(setup.names)
  /\ Busy => Len(setup.results) < Len(setup.names)
  /\ setup.status = "ready" =>
       /\ Len(setup.results) = Len(setup.names)
       /\ \A i \in 1 .. Len(setup.results) : Ok(setup.results[i])

\* What is in place on a host h once the first n phases of all were ok; of
\* an environment that may be broken nothing is said.
Whole(n, h, lock, broken) ==
  /\ n >= 2 => broken \/ h.venv = lock
  /\ n >= 5 => h.built
  /\ n >= 6 => h.pulled
  /\ n >= 8 => h.up
  /\ n >= 9 => h.missing = 0
  /\ n >= 11 => h.schema = "head"
WholeInv ==
  setup.names = PhaseOrder /\ (\A i \in 1 .. Len(setup.results) : Ok(setup.results[i]))
    => Whole(Len(setup.results), host, lockfile, lapsed)

SetupInv ==
  /\ host \in AnyHost /\ lockfile \in Nat \ {0} /\ kept \in Nat \X BOOLEAN
  /\ lapsed \in BOOLEAN /\ setup \in SetupType
  /\ VerifiedInv /\ AnswersInv /\ WholeInv /\ ReuseIsVerified

\* Where the phases that have something to put in place stand.
LEMMA PhasePlaces ==
  /\ \A n \in {"config", "package", "paths", "contracts", "models", "readiness"} : \A i \in 1 .. 12 :
       PhaseOrder[i] = n => i \in {1, 3, 4, 7, 10, 12}
  /\ \A i \in 1 .. 12 : /\ PhaseOrder[i] = "env" => i = 2
                        /\ PhaseOrder[i] = "postgres-image" => i = 5
                        /\ PhaseOrder[i] = "images" => i = 6
                        /\ PhaseOrder[i] = "services" => i = 8
                        /\ PhaseOrder[i] = "wait" => i = 9
                        /\ PhaseOrder[i] = "schema" => i = 11
  /\ Len(PhaseOrder) = 12
<1>1. /\ Len(PhaseOrder) = 12
      /\ PhaseOrder[1] = "config" /\ PhaseOrder[2] = "env" /\ PhaseOrder[3] = "package" /\ PhaseOrder[4] = "paths"
      /\ PhaseOrder[5] = "postgres-image" /\ PhaseOrder[6] = "images" /\ PhaseOrder[7] = "models"
      /\ PhaseOrder[8] = "services" /\ PhaseOrder[9] = "wait" /\ PhaseOrder[10] = "contracts"
      /\ PhaseOrder[11] = "schema" /\ PhaseOrder[12] = "readiness"
  BY DEF PhaseOrder
<1>2. \A i \in 1 .. 12 : i \in {1, 2, 3, 4, 5, 6, 7, 8, 9, 10, 11, 12}
  OBVIOUS
<1> QED BY <1>1, <1>2

\* A list of phases names each of them once.
LEMMA OneEnv ==
  ASSUME NEW names \in SetupNames, NEW i \in 1 .. Len(names), NEW j \in 1 .. Len(names),
         names[i] = "env", names[j] = "env"
  PROVE  i = j
<1>1. CASE names = PhaseOrder
  BY <1>1, PhasePlaces
<1>2. CASE names # PhaseOrder
  <2>1. Len(names) <= 1 /\ Len(names) \in Nat
    <3>1. names = <<>> \/ \E n \in AtomicPhases : names = <<n>>
      BY <1>2 DEF SetupNames
    <3>2. CASE names = <<>>
      BY <3>2
    <3>3. ASSUME NEW n \in AtomicPhases, names = <<n>> PROVE Len(names) <= 1 /\ Len(names) \in Nat
      BY <3>3
    <3> QED BY <3>1, <3>2, <3>3
  <2> QED BY <2>1
<1> QED BY <1>1, <1>2

\* A list of results is called ready when all of them are ok.
LEMMA AggregateReady ==
  ASSUME NEW results \in Seq(Answers)
  PROVE  /\ Aggregate(results) \in {"ready", "cancelled", "blocked", "degraded"}
         /\ Aggregate(results) = "ready" => \A i \in 1 .. Len(results) : Ok(results[i])
<1>1. Aggregate(results) \in {"ready", "cancelled", "blocked", "degraded"}
  BY DEF Aggregate
<1>2. ASSUME Aggregate(results) = "ready", NEW i \in 1 .. Len(results) PROVE Ok(results[i])
  <2>1. results[i] \in ToSet(results) /\ results[i] \in Answers
    BY DEF ToSet
  <2>2. "cancelled" \notin ToSet(results) /\ "blocked" \notin ToSet(results) /\ "degraded" \notin ToSet(results)
    BY <1>2 DEF Aggregate
  <2> QED BY <2>1, <2>2 DEF Ok, Answers
<1> QED BY <1>1, <1>2

\* An answer keeps the invariant when the host it leaves is as good as what it says.
LEMMA AnswerKeeps ==
  ASSUME SetupInv, Busy, NEW status \in Answers, NEW verified \in Nat \X BOOLEAN, host' \in AnyHost, lapsed' \in BOOLEAN,
         Answer(status, verified),
         lapsed' \/ host'.venv = verified[1],
         Current = "env" /\ status = "reused" => lapsed' \/ host'.venv = lockfile,
         Current # "env" => host'.venv = host.venv /\ lapsed' = lapsed,
         NEW n \in Nat, n = Len(setup.results),
         setup.names = PhaseOrder /\ Whole(n, host, lockfile, lapsed) /\ Ok(status) => Whole(n + 1, host', lockfile, lapsed')
  PROVE  SetupInv'
<1> DEFINE results == Append(setup.results, status)
           ends == ~Ok(status) \/ Len(results) = Len(setup.names)
<1>1. /\ setup' = [setup EXCEPT !.results = results, !.verified = verified, !.polls = 0,
                                !.status = IF ends THEN Aggregate(results) ELSE "none"]
      /\ kept' = IF ends THEN verified ELSE kept
      /\ lockfile' = lockfile
  BY DEF Answer
<1>2. setup \in SetupType /\ setup.results \in Seq(Answers) /\ setup.names \in SetupNames /\ setup.status = "none"
      /\ setup.names # <<>> /\ Len(setup.results) < Len(setup.names) /\ Len(setup.results) \in Nat
      /\ kept \in Nat \X BOOLEAN /\ lockfile \in Nat \ {0} /\ Len(setup.names) \in Nat
  <2>1. Len(setup.names) \in Nat
    <3>1. setup.names = <<>> \/ setup.names = PhaseOrder \/ \E name \in AtomicPhases : setup.names = <<name>>
      BY DEF SetupInv, SetupType, SetupNames
    <3> QED BY <3>1, PhasePlaces
  <2> QED BY <2>1 DEF SetupInv, SetupType, Busy, AnswersInv
<1>3. results \in Seq(Answers) /\ Len(results) = Len(setup.results) + 1 /\ results[Len(results)] = status
      /\ \A i \in 1 .. Len(setup.results) : results[i] = setup.results[i]
  BY <1>2
<1> HIDE DEF results
<1>4. Aggregate(results) \in {"ready", "cancelled", "blocked", "degraded"}
      /\ (Aggregate(results) = "ready" => \A i \in 1 .. Len(results) : Ok(results[i]))
  BY <1>3, AggregateReady
<1>5. setup' \in SetupType
  BY <1>1, <1>2, <1>3, <1>4 DEF SetupType
<1>6. setup'.names = setup.names /\ setup'.results = results /\ setup'.verified = verified
      /\ setup'.status = IF ends THEN Aggregate(results) ELSE "none"
  BY <1>1, <1>2 DEF SetupType
<1>7. VerifiedInv'
  <2>1. lapsed' \/ host'.venv = verified[1]
    OBVIOUS
  <2>2. Busy' \/ kept' = verified
    BY <1>1, <1>2, <1>6 DEF Busy
  <2> QED BY <1>6, <2>1, <2>2 DEF VerifiedInv
<1>8. AnswersInv'
  <2>1. Ok(status)' <=> Ok(status)
    BY DEF Ok
  <2>2. ends => (Aggregate(results) = "ready" => Ok(results[Len(results)]) /\ Len(results) = Len(setup.names))
    BY <1>2, <1>3, <1>4
  <2> QED BY <1>2, <1>3, <1>4, <1>6, <2>2 DEF AnswersInv, Busy, Ok
<1>9. WholeInv'
  <2>1. SUFFICES ASSUME setup.names = PhaseOrder, \A i \in 1 .. Len(results) : Ok(results[i])
                 PROVE  Whole(Len(results), host', lockfile, lapsed')
    BY <1>1, <1>6 DEF WholeInv, Ok, Whole
  <2>2. Ok(status) /\ \A i \in 1 .. Len(setup.results) : Ok(setup.results[i])
    BY <1>2, <1>3, <2>1
  <2>3. Whole(Len(setup.results), host, lockfile, lapsed)
    BY <2>1, <2>2 DEF SetupInv, WholeInv
  <2> QED BY <1>3, <2>1, <2>2, <2>3
<1>10. ReuseIsVerified'
  <2>1. SUFFICES ASSUME NEW i \in 1 .. Len(results), setup.names[i] = "env", results[i] = "reused"
                 PROVE  lapsed' \/ host'.venv = lockfile
    BY <1>1, <1>6 DEF ReuseIsVerified, Reused
  <2>2. CASE i = Len(results)
    BY <1>2, <1>3, <2>1, <2>2 DEF Current
  <2>3. CASE i \in 1 .. Len(setup.results)
    <3>1. lapsed \/ host.venv = lockfile
      <4>1. setup.results[i] = "reused"
        BY <1>3, <2>1, <2>3
      <4>2. ReuseIsVerified
        BY DEF SetupInv
      <4> QED BY <2>1, <2>3, <4>1, <4>2 DEF ReuseIsVerified, Reused
    <3>2. Current # "env"
      <4>1. Len(setup.results) + 1 \in 1 .. Len(setup.names) /\ i \in 1 .. Len(setup.names)
            /\ i # Len(setup.results) + 1
        BY <1>2, <2>3
      <4> QED BY <1>2, <2>1, <4>1, OneEnv DEF Current
    <3> QED BY <3>1, <3>2
  <2> QED BY <1>2, <1>3, <2>1, <2>2, <2>3
<1> QED BY <1>1, <1>2, <1>5, <1>7, <1>8, <1>9, <1>10 DEF SetupInv

\* Where an attempt is that is busy.
LEMMA BusyPlace ==
  ASSUME SetupInv, Busy
  PROVE  /\ setup \in SetupType /\ host \in AnyHost /\ setup.verified \in Nat \X BOOLEAN /\ lockfile \in Nat \ {0}
         /\ lapsed \in BOOLEAN /\ (lapsed \/ host.venv = setup.verified[1])
         /\ \E n \in Nat : n = Len(setup.results) /\ (setup.names = PhaseOrder => n + 1 \in 1 .. 12)
<1>1. setup.names = PhaseOrder => Len(setup.names) = 12
  BY PhasePlaces
<1>2. /\ setup \in SetupType /\ setup.results \in Seq(Answers) /\ host \in AnyHost /\ setup.verified \in Nat \X BOOLEAN
      /\ lockfile \in Nat \ {0} /\ lapsed \in BOOLEAN
  BY DEF SetupInv, SetupType
<1>3. PICK n \in Nat : n = Len(setup.results)
  BY <1>2
<1>4. Len(setup.results) < Len(setup.names)
  BY DEF SetupInv, AnswersInv
<1>5. ASSUME setup.names = PhaseOrder PROVE n + 1 \in 1 .. 12
  <2>1. PICK m \in Nat : m = 12
    OBVIOUS
  <2>2. m = Len(setup.names)
    BY <1>1, <1>5, <2>1
  <2>3. n < m
    BY <1>3, <1>4, <2>2
  <2> QED BY <2>1, <2>3
<1> QED BY <1>2, <1>3, <1>5 DEF SetupInv, VerifiedInv

\* Of an answer that is not ok, and of one by a phase that puts nothing in place
\* and leaves the host as it is, nothing more is to be said.
LEMMA PlainAnswer ==
  ASSUME SetupInv, Busy, NEW status \in Answers \ {"reused"}, host' \in AnyHost, host'.venv = host.venv,
         lapsed' = lapsed, Answer(status, setup.verified),
         NEW n \in Nat, n = Len(setup.results),
         setup.names = PhaseOrder /\ Whole(n, host, lockfile, lapsed) /\ Ok(status) => Whole(n + 1, host', lockfile, lapsed')
  PROVE  SetupInv'
<1>1. status \in Answers /\ status # "reused"
  OBVIOUS
<1> HIDE DEF Busy
<1> QED BY <1>1, BusyPlace, AnswerKeeps

\* The sync of the environment: skipped, done, or broken off.
LEMMA EnvKeeps == ASSUME SetupInv, Env PROVE SetupInv'
<1>1. Busy /\ Current = "env"
  BY DEF Env
<1>2. /\ setup \in SetupType /\ host \in AnyHost /\ setup.verified \in Nat \X BOOLEAN /\ lockfile \in Nat \ {0}
      /\ lapsed \in BOOLEAN /\ (lapsed \/ host.venv = setup.verified[1])
  BY <1>1, BusyPlace
<1>n. PICK n \in Nat : n = Len(setup.results) /\ (setup.names = PhaseOrder => n + 1 \in 1 .. 12)
  BY <1>1, BusyPlace
<1>3. setup.names = PhaseOrder => n + 1 = 2
  BY <1>1, <1>n, PhasePlaces DEF Current
<1>4. Fingerprint \in Nat \X BOOLEAN /\ Fingerprint[1] = lockfile
  BY <1>2 DEF Fingerprint, SetupType
<1>5. "reused" \in Answers /\ "ready" \in Answers /\ "blocked" \in Answers /\ ~Ok("blocked")
  BY DEF Answers, Ok
<1>6. ASSUME Reusable, Answer("reused", Fingerprint), host' = host, lapsed' = lapsed PROVE SetupInv'
  <2>1. host' \in AnyHost /\ lapsed' \in BOOLEAN /\ (lapsed' \/ host'.venv = lockfile)
        /\ (lapsed' \/ host'.venv = Fingerprint[1])
    BY <1>2, <1>4, <1>6 DEF Reusable
  <2>2. setup.names = PhaseOrder => Whole(n + 1, host', lockfile, lapsed')
    BY <1>2, <1>3, <2>1 DEF Whole
  <2> QED BY <1>1, <1>n, <1>4, <1>5, <1>6, <2>1, <2>2, AnswerKeeps
<1>7. ASSUME Answer("ready", Fingerprint), host' = [host EXCEPT !.venv = lockfile], lapsed' = FALSE PROVE SetupInv'
  <2>1. host' \in AnyHost /\ host'.venv = lockfile /\ lapsed' \in BOOLEAN
    <3>1. host' \in AnyHost /\ host'.venv = lockfile
      BY <1>2, <1>7 DEF AnyHost
    <3>2. lapsed' \in BOOLEAN
      BY <1>7
    <3> QED BY <3>1, <3>2
  <2>2. setup.names = PhaseOrder => Whole(n + 1, host', lockfile, lapsed')
    BY <1>2, <1>3, <2>1 DEF Whole
  <2> QED BY <1>1, <1>n, <1>4, <1>5, <1>7, <2>1, <2>2, AnswerKeeps
<1>8. ASSUME NEW venv \in {host.venv, -1, 0, lockfile}, Answer("blocked", setup.verified),
             host' = [host EXCEPT !.venv = venv], lapsed' = IF venv = host.venv THEN lapsed ELSE TRUE
      PROVE  SetupInv'
  <2>1. host' \in AnyHost /\ host'.venv = venv
    <3>1. PICK v \in Int : v = venv
      BY <1>2 DEF AnyHost
    <3>2. host' = [host EXCEPT !.venv = v]
      BY <1>8, <3>1
    <3> QED BY <1>2, <3>1, <3>2 DEF AnyHost
  <2>2. lapsed' \in BOOLEAN /\ (lapsed' \/ host'.venv = setup.verified[1])
    BY <1>2, <1>8, <2>1
  <2> QED BY <1>1, <1>2, <1>n, <1>5, <1>8, <2>1, <2>2, AnswerKeeps
<1> QED BY <1>6, <1>7, <1>8 DEF Env

\* The other phases but the wait: each puts in place what it says it does.
LEMMA PhaseKeeps ==
  ASSUME SetupInv, NoConfig \/ Check \/ PostgresImage \/ Images \/ Models \/ Services \/ Schema \/ Readiness \/ CancelSetup
  PROVE  SetupInv'
<1>1. Busy /\ lapsed' = lapsed
  BY DEF NoConfig, Check, PostgresImage, Acquire, Images, Models, Services, Schema, Readiness, CancelSetup
<1>2. host \in AnyHost /\ lockfile \in Nat \ {0} /\ lapsed \in BOOLEAN
  BY <1>1, BusyPlace
<1>n. PICK n \in Nat : n = Len(setup.results) /\ (setup.names = PhaseOrder => n + 1 \in 1 .. 12)
  BY <1>1, BusyPlace
<1>3. "ready" \in Answers \ {"reused"} /\ "blocked" \in Answers \ {"reused"} /\ "cancelled" \in Answers \ {"reused"}
      /\ "degraded" \in Answers \ {"reused"} /\ ~Ok("blocked") /\ ~Ok("cancelled")
  BY DEF Answers, Ok
<1>4. ASSUME host' = host, Answer("blocked", setup.verified) PROVE SetupInv'
  BY <1>1, <1>2, <1>n, <1>3, <1>4, PlainAnswer
<1>5. ASSUME host' = host, NEW status \in Answers \ {"reused"}, Answer(status, setup.verified),
             Current \in {"config", "package", "paths", "contracts", "models", "readiness"}
      PROVE  SetupInv'
  <2>1. setup.names = PhaseOrder => n + 1 \in {1, 3, 4, 7, 10, 12}
    BY <1>2, <1>n, <1>5, PhasePlaces DEF Current
  <2>2. setup.names = PhaseOrder /\ Whole(n, host, lockfile, lapsed)
          => Whole(n + 1, host', lockfile, lapsed')
    BY <1>1, <1>2, <1>5, <2>1 DEF Whole
  <2> QED BY <1>1, <1>2, <1>n, <1>5, <2>2, PlainAnswer
<1>6. CASE NoConfig
  BY <1>4, <1>6 DEF NoConfig
<1>7. CASE CancelSetup
  BY <1>1, <1>2, <1>n, <1>3, <1>7, PlainAnswer DEF CancelSetup
<1>8. CASE Check
  <2>1. host' = host /\ Current \in {"config", "package", "paths", "contracts"}
        /\ (Answer("ready", setup.verified) \/ Answer("blocked", setup.verified))
    BY <1>8 DEF Check
  <2> QED BY <1>3, <1>5, <2>1
<1>9. CASE Readiness
  <2>1. host' = host /\ Current = "readiness"
        /\ (Answer("ready", setup.verified) \/ Answer("blocked", setup.verified) \/ Answer("degraded", setup.verified))
    BY <1>9 DEF Readiness
  <2> QED BY <1>3, <1>5, <2>1
<1>10. CASE PostgresImage
  <2>1. setup.names = PhaseOrder => n + 1 = 5
    BY <1>2, <1>n, <1>10, PhasePlaces DEF Current, PostgresImage
  <2>2. ASSUME Answer("ready", setup.verified), host' = [host EXCEPT !.built = TRUE] PROVE SetupInv'
    <3>1. host' \in AnyHost /\ host'.venv = host.venv /\ host'.built
      BY <1>2, <2>2 DEF AnyHost
    <3>2. setup.names = PhaseOrder /\ Whole(n, host, lockfile, lapsed)
            => Whole(n + 1, host', lockfile, lapsed')
      BY <1>1, <1>2, <2>1, <3>1 DEF Whole
    <3> QED BY <1>1, <1>3, <1>n, <2>2, <3>1, <3>2, PlainAnswer
  <2>3. host.built => host = [host EXCEPT !.built = TRUE]
    BY <1>2 DEF AnyHost
  <2> QED BY <1>4, <1>10, <2>2, <2>3 DEF PostgresImage, Acquire
<1>11. CASE Images
  <2>1. setup.names = PhaseOrder => n + 1 = 6
    BY <1>2, <1>n, <1>11, PhasePlaces DEF Current, Images
  <2>2. ASSUME Answer("ready", setup.verified), host' = [host EXCEPT !.pulled = TRUE] PROVE SetupInv'
    <3>1. host' \in AnyHost /\ host'.venv = host.venv /\ host'.pulled /\ host'.built = host.built
      BY <1>2, <2>2 DEF AnyHost
    <3>2. setup.names = PhaseOrder /\ Whole(n, host, lockfile, lapsed)
            => Whole(n + 1, host', lockfile, lapsed')
      BY <1>1, <1>2, <2>1, <3>1 DEF Whole
    <3> QED BY <1>1, <1>3, <1>n, <2>2, <3>1, <3>2, PlainAnswer
  <2>3. host.pulled => host = [host EXCEPT !.pulled = TRUE]
    BY <1>2 DEF AnyHost
  <2> QED BY <1>4, <1>11, <2>2, <2>3 DEF Images, Acquire
<1>12. CASE Models
  <2>1. Current = "models"
    BY <1>12 DEF Models
  <2>2. ASSUME host.missing > 0, Answer("ready", setup.verified), host' = [host EXCEPT !.missing = @ - 1] PROVE SetupInv'
    <3>1. host' \in AnyHost /\ host'.venv = host.venv /\ host'.built = host.built /\ host'.pulled = host.pulled
      BY <1>2, <2>2 DEF AnyHost
    <3>2. setup.names = PhaseOrder => n + 1 \in {1, 3, 4, 7, 10, 12}
      BY <1>2, <1>n, <2>1, PhasePlaces DEF Current
    <3>3. setup.names = PhaseOrder => n + 1 = 7
      <4>1. /\ PhaseOrder[1] = "config" /\ PhaseOrder[3] = "package" /\ PhaseOrder[4] = "paths"
            /\ PhaseOrder[10] = "contracts" /\ PhaseOrder[12] = "readiness"
        BY DEF PhaseOrder
      <4> QED BY <1>2, <1>n, <2>1, <3>2, <4>1 DEF Current
    <3>4. setup.names = PhaseOrder /\ Whole(n, host, lockfile, lapsed)
            => Whole(n + 1, host', lockfile, lapsed')
      BY <1>1, <1>2, <3>1, <3>3 DEF Whole
    <3> QED BY <1>1, <1>3, <1>n, <2>2, <3>1, <3>4, PlainAnswer
  <2> QED BY <1>3, <1>4, <1>5, <1>12, <2>1, <2>2 DEF Models
<1>13. CASE Services
  <2>1. setup.names = PhaseOrder => n + 1 = 8
    BY <1>2, <1>n, <1>13, PhasePlaces DEF Current, Services
  <2>2. ASSUME NEW missing \in {0, host.missing}, Answer("ready", setup.verified),
               host' = [host EXCEPT !.up = TRUE, !.missing = missing]
        PROVE  SetupInv'
    <3>1. host' \in AnyHost /\ host'.venv = host.venv /\ host'.built = host.built /\ host'.pulled = host.pulled /\ host'.up
      <4>1. PICK m \in Nat : m = missing
        BY <1>2 DEF AnyHost
      <4>2. host' = [host EXCEPT !.up = TRUE, !.missing = m]
        BY <2>2, <4>1
      <4> QED BY <1>2, <4>2 DEF AnyHost
    <3>2. setup.names = PhaseOrder /\ Whole(n, host, lockfile, lapsed)
            => Whole(n + 1, host', lockfile, lapsed')
      BY <1>1, <1>2, <2>1, <3>1 DEF Whole
    <3> QED BY <1>1, <1>3, <1>n, <2>2, <3>1, <3>2, PlainAnswer
  <2> QED BY <1>4, <1>13, <2>2 DEF Services
<1>14. CASE Schema
  <2>1. setup.names = PhaseOrder => n + 1 = 11
    BY <1>2, <1>n, <1>14, PhasePlaces DEF Current, Schema
  <2>2. ASSUME Answer("ready", setup.verified), host' = [host EXCEPT !.schema = "head"] PROVE SetupInv'
    <3>1. /\ host' \in AnyHost /\ host'.venv = host.venv /\ host'.built = host.built /\ host'.pulled = host.pulled
          /\ host'.up = host.up /\ host'.missing = host.missing /\ host'.schema = "head"
      BY <1>2, <2>2 DEF AnyHost
    <3>2. setup.names = PhaseOrder /\ Whole(n, host, lockfile, lapsed)
            => Whole(n + 1, host', lockfile, lapsed')
      BY <1>1, <1>2, <2>1, <3>1 DEF Whole
    <3> QED BY <1>1, <1>3, <1>n, <2>2, <3>1, <3>2, PlainAnswer
  <2>3. host.schema = "head" => host = [host EXCEPT !.schema = "head"]
    BY <1>2 DEF AnyHost
  <2> QED BY <1>4, <1>14, <2>2, <2>3 DEF Schema
<1> QED BY <1>6, <1>7, <1>8, <1>9, <1>10, <1>11, <1>12, <1>13, <1>14

\* The wait answers ready when all is up and no model is missing.
LEMMA PollKeeps == ASSUME SetupInv, Poll PROVE SetupInv'
<1>1. Busy /\ Current = "wait" /\ host' = host /\ lapsed' = lapsed
  BY DEF Poll, Waits
<1>2. host \in AnyHost /\ lockfile \in Nat \ {0} /\ setup \in SetupType
  BY <1>1, BusyPlace
<1>n. PICK n \in Nat : n = Len(setup.results) /\ (setup.names = PhaseOrder => n + 1 \in 1 .. 12)
  BY <1>1, BusyPlace
<1>3. PICK status \in {"none", "ready", "blocked", "cancelled"} :
        Waits(status) /\ (status = "ready" => host.up /\ host.missing = 0)
  <2>1. host.missing \in Nat
    BY <1>2 DEF AnyHost
  <2> QED BY <2>1 DEF Poll, Health
<1>4. setup.names = PhaseOrder => n + 1 = 9
  BY <1>1, <1>2, <1>n, PhasePlaces DEF Current
<1>5. CASE status = "none"
  <2>1. setup' = [setup EXCEPT !.polls = @ + 1] /\ kept' = kept /\ lockfile' = lockfile
    BY <1>3, <1>5 DEF Waits
  <2>2. /\ setup' \in SetupType /\ setup'.names = setup.names /\ setup'.results = setup.results
        /\ setup'.verified = setup.verified /\ setup'.status = setup.status
    BY <1>2, <2>1 DEF SetupType
  <2> QED BY <1>1, <2>1, <2>2 DEF SetupInv, VerifiedInv, AnswersInv, WholeInv, ReuseIsVerified, Reused, Busy, Whole, Ok
<1>6. CASE status # "none"
  <2>1. Answer(status, setup.verified) /\ status \in Answers \ {"reused"}
    BY <1>3, <1>6 DEF Waits, Answers
  <2>2. Ok(status) => status = "ready"
    BY <1>3 DEF Ok
  <2>3. setup.names = PhaseOrder /\ Whole(n, host, lockfile, lapsed) /\ Ok(status)
          => Whole(n + 1, host', lockfile, lapsed')
    BY <1>1, <1>2, <1>3, <1>4, <2>2 DEF Whole
  <2> QED BY <1>1, <1>2, <1>n, <2>1, <2>3, PlainAnswer
<1> QED BY <1>5, <1>6

\* An attempt begins with no results and with what is stored.
LEMMA StartKeeps == ASSUME SetupInv, StartSetup PROVE SetupInv'
<1>1. PICK online \in BOOLEAN, backend \in {"ollama", "vllm"}, names \in {PhaseOrder} \cup {<<n>> : n \in AtomicPhases} :
        setup' = Begin(names, online, backend)
  BY DEF StartSetup
<1>2. host' = host /\ lockfile' = lockfile /\ kept' = kept /\ lapsed' = lapsed /\ ~Busy
  BY DEF StartSetup
<1>3. kept \in Nat \X BOOLEAN /\ setup.attempts \in Nat
  BY DEF SetupInv, SetupType
<1>4. setup' = [names |-> names, online |-> online, backend |-> backend, verified |-> kept, results |-> <<>>,
                polls |-> 0, status |-> "none", attempts |-> setup.attempts + 1]
  BY <1>1 DEF Begin, NoSetup
<1>5. setup' \in SetupType
  BY <1>1, <1>3, <1>4 DEF SetupType, SetupNames
<1>6. Len(names) \in Nat /\ Len(names) > 0
  <2>1. names = PhaseOrder \/ \E n \in AtomicPhases : names = <<n>>
    BY <1>1
  <2>2. ASSUME NEW n \in AtomicPhases, names = <<n>> PROVE Len(names) \in Nat /\ Len(names) > 0
    BY <2>2
  <2>3. CASE names = PhaseOrder
    <3>1. PICK m \in Nat : m = 12
      OBVIOUS
    <3>2. Len(names) = m
      BY <2>3, <3>1, PhasePlaces
    <3> QED BY <3>1, <3>2
  <2> QED BY <2>1, <2>2, <2>3
<1>7. setup'.names = names /\ setup'.results = <<>> /\ setup'.verified = kept /\ setup'.status = "none"
  BY <1>4
<1>8. VerifiedInv'
  BY <1>2, <1>7 DEF SetupInv, VerifiedInv, Busy
<1>9. AnswersInv'
  BY <1>6, <1>7 DEF AnswersInv, Busy
<1>10. WholeInv' /\ ReuseIsVerified'
  BY <1>7 DEF WholeInv, Whole, ReuseIsVerified, Reused
<1> QED BY <1>2, <1>5, <1>8, <1>9, <1>10 DEF SetupInv

\* Of an attempt that is gone nothing is asked but that what is stored is in place.
LEMMA GoneKeeps ==
  ASSUME SetupInv, setup' = Gone, kept' = kept, host' \in AnyHost, lockfile' \in Nat \ {0},
         lapsed' \in BOOLEAN, lapsed' \/ host'.venv = kept[1]
  PROVE  SetupInv'
<1>1. kept \in Nat \X BOOLEAN /\ setup.attempts \in Nat
  BY DEF SetupInv, SetupType
<1>2. setup' = [names |-> <<>>, online |-> FALSE, backend |-> "ollama", verified |-> kept, results |-> <<>>,
                polls |-> 0, status |-> "none", attempts |-> setup.attempts]
  BY DEF Gone, NoSetup
<1>3. setup' \in SetupType
  BY <1>1, <1>2 DEF SetupType, SetupNames
<1>4. setup'.names = <<>> /\ setup'.results = <<>> /\ setup'.status = "none"
  BY <1>2
<1>5. PhaseOrder # <<>>
  BY DEF PhaseOrder
<1> QED BY <1>1, <1>3, <1>4, <1>5
        DEF SetupInv, VerifiedInv, AnswersInv, WholeInv, Whole, ReuseIsVerified, Reused, Busy

\* Every step of every attempt, and what happens between them.
LEMMA SetupInvariance == SetupSpec => []SetupInv
<1>1. call = Ready /\ SetupInit => SetupInv
  <2> SUFFICES ASSUME SetupInit PROVE SetupInv
    OBVIOUS
  <2>0. lapsed \in BOOLEAN /\ kept \in Nat \X BOOLEAN /\ kept[1] = 0
    <3>1. kept = <<0, FALSE>> /\ lapsed = FALSE
      BY DEF SetupInit
    <3> QED BY <3>1
  <2>1. host \in AnyHost /\ host.venv = 0 /\ lockfile = 1
    BY SetupAssumption DEF SetupInit, AnyHost
  <2>t. setup \in SetupType
    <3> DEFINE pair == <<0, FALSE>>
    <3>1. pair \in Nat \X BOOLEAN
      OBVIOUS
    <3>2. setup = [names |-> <<>>, online |-> FALSE, backend |-> "ollama", verified |-> pair, results |-> <<>>,
                   polls |-> 0, status |-> "none", attempts |-> 0]
      BY DEF SetupInit, NoSetup
    <3> HIDE DEF pair
    <3> QED BY <3>1, <3>2 DEF SetupType, SetupNames
  <2>2. setup.names = <<>> /\ setup.results = <<>> /\ setup.status = "none"
    BY DEF SetupInit, NoSetup
  <2>3. PhaseOrder # <<>>
    BY DEF PhaseOrder
  <2> QED BY <2>0, <2>1, <2>t, <2>2, <2>3 DEF SetupInv, VerifiedInv, AnswersInv, WholeInv, Whole, ReuseIsVerified, Reused, Busy
<1>2. SetupInv /\ [SetupNext]_<<setups, call>> => SetupInv'
  <2>1. SUFFICES ASSUME SetupInv, [SetupNext]_<<setups, call>> PROVE SetupInv'
    OBVIOUS
  <2>2. CASE StartSetup
    BY <2>1, <2>2, StartKeeps
  <2>3. CASE Env
    BY <2>1, <2>3, EnvKeeps
  <2>4. CASE NoConfig \/ Check \/ PostgresImage \/ Images \/ Models \/ Services \/ Schema \/ Readiness \/ CancelSetup
    BY <2>1, <2>4, PhaseKeeps
  <2>5. CASE Poll
    BY <2>1, <2>5, PollKeeps
  <2>6. CASE KillSetup
    <3>1. /\ setup' = Gone /\ lockfile' = lockfile /\ kept' = kept /\ Busy
          /\ host \in AnyHost /\ lockfile \in Nat \ {0} /\ lapsed \in BOOLEAN
      BY <2>1, <2>6 DEF KillSetup, SetupInv
    <3>2. CASE host' = host /\ lapsed' = IF setup.verified = kept THEN lapsed ELSE TRUE
      <4>1. lapsed' \/ host'.venv = kept[1]
        BY <2>1, <3>1, <3>2 DEF SetupInv, VerifiedInv
      <4> QED BY <2>1, <3>1, <3>2, <4>1, GoneKeeps
    <3>3. ASSUME NEW venv \in {-1, 0, lockfile}, host' = [host EXCEPT !.venv = venv], lapsed' = TRUE PROVE SetupInv'
      <4>1. PICK v \in Int : v = venv
        BY <3>1
      <4>2. host' = [host EXCEPT !.venv = v]
        BY <3>3, <4>1
      <4>3. host' \in AnyHost
        BY <3>1, <4>2 DEF AnyHost
      <4> QED BY <2>1, <3>1, <3>3, <4>3, GoneKeeps
    <3> QED BY <2>6, <3>2, <3>3 DEF KillSetup
  <2>7. CASE ChangeHost
    <3>1. setup' = Gone /\ kept' = kept /\ host \in AnyHost
      BY <2>1, <2>7 DEF ChangeHost, SetupInv
    <3>4. host' \in AnyHost /\ host'.venv = host.venv /\ lockfile' \in Nat \ {0}
      <4>1. \/ host' = host /\ lockfile' \in 1 .. MaxLock
            \/ host' = [host EXCEPT !.missing = 1] /\ lockfile' = lockfile
            \/ host' = [host EXCEPT !.up = FALSE] /\ lockfile' = lockfile
            \/ host' = [host EXCEPT !.schema = "foreign"] /\ lockfile' = lockfile
        BY <2>7 DEF ChangeHost
      <4>2. lockfile' \in Nat \ {0}
        BY <2>1, <4>1, SetupAssumption DEF SetupInv
      <4>3. CASE host' = host
        BY <3>1, <4>2, <4>3
      <4>4. CASE host' = [host EXCEPT !.missing = 1]
        BY <3>1, <4>2, <4>4 DEF AnyHost
      <4>5. CASE host' = [host EXCEPT !.up = FALSE]
        BY <3>1, <4>2, <4>5 DEF AnyHost
      <4>6. CASE host' = [host EXCEPT !.schema = "foreign"]
        BY <3>1, <4>2, <4>6 DEF AnyHost
      <4> QED BY <4>1, <4>3, <4>4, <4>5, <4>6
    <3>5. lapsed' = lapsed /\ ~Busy
      BY <2>7 DEF ChangeHost
    <3>6. lapsed' \in BOOLEAN /\ (lapsed' \/ host'.venv = kept[1])
      BY <2>1, <3>4, <3>5 DEF SetupInv, VerifiedInv
    <3> QED BY <2>1, <3>1, <3>4, <3>6, GoneKeeps
  <2>8. CASE UNCHANGED <<setups, call>>
    BY <2>1, <2>8 DEF setups, SetupInv, VerifiedInv, AnswersInv, WholeInv, Whole, ReuseIsVerified, Reused, Busy, Ok
  <2> QED BY <2>1, <2>2, <2>3, <2>4, <2>5, <2>6, <2>7, <2>8 DEF SetupNext, RunPhase
<1> QED BY <1>1, <1>2, PTL DEF SetupSpec

\* As long as no sync has broken off or died since the fingerprint was stored, a
\* phase that skips the sync of the environment finds the one of the lockfile in
\* place, in whatever mode and after whatever changes of the lockfile; and of a
\* setup of all phases that is called ready everything else is there as well,
\* whatever failed, was cancelled or died before (runtime/setup).
THEOREM SetupIsSound == SetupSpec => []SetupSound
<1>1. SetupInv => ReuseIsVerified
  BY DEF SetupInv
<1>2. SetupInv => ReadyIsWhole
  <2>1. SUFFICES ASSUME SetupInv, setup.status = "ready", setup.names = PhaseOrder
                 PROVE  /\ host.built /\ host.pulled /\ host.missing = 0 /\ host.up /\ host.schema = "head"
                        /\ lapsed \/ host.venv = lockfile
    BY DEF ReadyIsWhole
  <2>2. PICK n \in Nat : n = 12
    OBVIOUS
  <2>3. Len(setup.results) = n /\ Whole(Len(setup.results), host, lockfile, lapsed) /\ host \in AnyHost
    BY <2>1, <2>2, PhasePlaces DEF SetupInv, AnswersInv, WholeInv
  <2> QED BY <2>2, <2>3 DEF Whole, AnyHost
<1>3. SetupInv => SetupSound
  BY <1>1, <1>2 DEF SetupSound
<1> QED BY <1>3, SetupInvariance, PTL
=============================================================================
