--------------------------- MODULE Observability ---------------------------
(***************************************************************************)
(* The two threads-and-files machines of observability.                    *)
(*                                                                         *)
(* A QueuedLogSession (observability/logging): threads put records into a  *)
(* bounded queue or drop them, one listener thread takes them to the sinks,*)
(* and stop makes room for a sentinel, waits for the listener to take it,  *)
(* and only then gives the logger its old handlers back.                   *)
(*                                                                         *)
(* The session that observes one stage (observability): the stage's worker *)
(* counts what it has done, a pump thread beats in between, and both write *)
(* snapshots to a log of rows and to the latest one, under one lock.  The  *)
(* session ends with a terminal snapshot and a manifest of it.  Time is    *)
(* left out: a throttle may let a snapshot through at any moment, and must *)
(* after CountInterval items.                                              *)
(***************************************************************************)
EXTENDS Calls, Integers, SequencesExt

CONSTANTS
  Producer,        \* threads that log
  QueueSize,       \* maxsize
  MaxRecords       \* bound: how many records are logged in all

VARIABLES
  waiting,         \* the queue; the sentinel is 0
  records,         \* how many records have been put
  dropped,         \* how many were dropped
  logging,         \* producers that are about to put a record
  listener,        \* "off", "listens" or "ended"
  stopper,         \* where stop is
  sealed           \* how many records had been put when the sentinel was

logs == <<waiting, records, dropped, logging, listener, stopper, sealed>>

LogInit ==
  /\ waiting = <<>> /\ records = 0 /\ dropped = 0 /\ logging = {}
  /\ listener = "off" /\ stopper = "off" /\ sealed = 0

StartLog ==
  /\ Ask([op |-> "log"])
  /\ listener' = "listens" /\ stopper' = "running"
  /\ UNCHANGED <<waiting, records, dropped, logging, sealed>>

\* The handlers of the logger are read before they are called: a record on its
\* way goes to the queue, even after stop.
BeginRecord(p) ==
  /\ stopper \notin {"off", "stopped"} /\ p \notin logging
  /\ records + dropped + 1 <= MaxRecords
  /\ logging' = logging \cup {p}
  /\ UNCHANGED <<waiting, records, dropped, listener, stopper, sealed, call>>

PutRecord(p) ==
  /\ p \in logging /\ logging' = logging \ {p}
  /\ IF Len(waiting) < QueueSize
     THEN /\ records' = records + 1 /\ waiting' = Append(waiting, records + 1)
          /\ UNCHANGED dropped
     ELSE dropped' = dropped + 1 /\ UNCHANGED <<waiting, records>>
  /\ UNCHANGED <<listener, stopper, sealed, call>>

\* The listener takes the next record to the sinks, or ends at the sentinel.
Listen ==
  /\ listener = "listens" /\ waiting # <<>>
  /\ waiting' = Tail(waiting)
  /\ listener' = IF Head(waiting) = 0 THEN "ended" ELSE listener
  /\ UNCHANGED <<records, dropped, logging, stopper, sealed, call>>

StopLog ==
  /\ stopper = "running" /\ stopper' = "puts"
  /\ UNCHANGED <<waiting, records, dropped, logging, listener, sealed, call>>

PutSentinel ==
  /\ stopper = "puts"
  /\ IF Len(waiting) < QueueSize
     THEN waiting' = Append(waiting, 0) /\ sealed' = records /\ stopper' = "joins"
     ELSE stopper' = "evicts" /\ UNCHANGED <<waiting, sealed>>
  /\ UNCHANGED <<records, dropped, logging, listener, call>>

\* Mutant: a single attempt.
EvictAndJoin ==
  /\ stopper = "evicts"
  /\ IF waiting # <<>> THEN waiting' = Tail(waiting) /\ stopper' = "joins"
     ELSE stopper' = "unsent" /\ UNCHANGED waiting
  /\ UNCHANGED <<records, dropped, logging, listener, sealed, call>>

\* A full queue gives its oldest record for the sentinel.  When the listener has
\* emptied it meanwhile, enqueue_sentinel returns, and stop joins all the same.
Evict ==
  /\ stopper = "evicts"
  /\ IF waiting # <<>> THEN waiting' = Tail(waiting) /\ stopper' = "puts"
     ELSE stopper' = "unsent" /\ UNCHANGED waiting
  /\ UNCHANGED <<records, dropped, logging, listener, sealed, call>>

Join ==
  /\ stopper \in {"joins", "unsent"} /\ listener = "ended"
  /\ stopper' = "stopped"
  /\ UNCHANGED <<waiting, records, dropped, logging, listener, sealed, call>>

LogStep == Listen \/ PutSentinel \/ Evict \/ Join
LogNext ==
  \/ StartLog \/ StopLog \/ LogStep
  \/ \E p \in Producer : BeginRecord(p) \/ PutRecord(p)

\* The listener and the stopping thread are scheduled.
LogFairness ==
  WF_<<logs, call>>(Listen) /\ WF_<<logs, call>>(PutSentinel \/ Evict \/ Join)

-----------------------------------------------------------------------------
(* Properties.                                                             *)

\* When stop returns, no record that was put before its sentinel is left in the
\* queue: all that were not given up for the sentinel are with the sinks.
StopDrains == stopper = "stopped" => \A i \in 1 .. Len(waiting) : waiting[i] > sealed

\* "Drain or drop to insert the stop sentinel so shutdown cannot hang"
\* (enqueue_sentinel): a stop that has begun returns.  It does not when the
\* listener empties the full queue between the two calls of enqueue_sentinel,
\* which then returns without a sentinel.
StopEnds == stopper = "puts" ~> stopper = "stopped"

\* In every other case it does: a sentinel that was put gets to the listener,
\* and a queue that other threads fill again does not keep it out for ever.
StopReturns == stopper = "puts" ~> stopper \in {"stopped", "unsent"}

\* A log session whose sentinel was put ends, and with all it was given but what
\* stop itself gave up.  The other sessions are those of StopEnds.
LogEnds ==
  /\ []StopDrains
  /\ StopReturns

-----------------------------------------------------------------------------
(* The session of a stage.                                                 *)

CONSTANTS CountInterval,    \* count_interval of the throttle
          MaxProcessed,     \* bound: items of the stage
          MaxBeats,         \* bound: ticks of the pump, heartbeats and progress without news
          MaxSinkFaults     \* bound: writes that fail

\* The tracker takes max(1, count_interval).
ASSUME StageAssumption == CountInterval \in Nat \ {0}

VARIABLE stage

NoRow == [event |-> "none", processed |-> 0]
\* rows and latest are the files, manifest the snapshot in the manifest;
\* done and emitted are the counts of the tracker; each thread has a place and
\* the snapshot it has taken; body is what becomes of the with statement's body.
NoStage == [worker |-> "off", pump |-> "off", lock |-> "free", body |-> "runs", started |-> FALSE, stop |-> FALSE,
            completed |-> FALSE, done |-> 0, emitted |-> 0, beats |-> 0, faults |-> 0,
            taken |-> [worker |-> NoRow, pump |-> NoRow],
            rows |-> << >>, latest |-> NoRow, manifest |-> NoRow]
StageInit == stage = NoStage

Observing == call.op = "stage" /\ UNCHANGED call
To(thread, place) == IF thread = "worker" THEN [stage EXCEPT !.worker = place] ELSE [stage EXCEPT !.pump = place]
PlaceOf(thread) == IF thread = "worker" THEN stage.worker ELSE stage.pump

\* __enter__ and the first half of start; its snapshot is forced.
AskStage ==
  /\ call = Ready /\ call' = [op |-> "stage"]
  /\ stage' = [stage EXCEPT !.worker = "snapshot", !.lock = "worker", !.started = TRUE,
                            !.taken.worker.event = "start"]

Lockable(thread) == stage.lock = "free"
Take(thread, event) == [To(thread, "snapshot") EXCEPT !.lock = IF @ = "free" THEN thread ELSE @, !.taken[thread].event = event]

\* The body of the with statement calls the session until it has completed it.
InBody == stage.worker = "works" /\ ~stage.completed
\* progress: what was done is counted; unless it is forced, the throttle may say
\* that no snapshot is due.
MustEmit(done) == done - stage.emitted >= CountInterval
Progress ==
  /\ Observing /\ InBody /\ Lockable("worker")
  /\ \E done \in stage.done .. MaxProcessed :
       \/ /\ done > stage.done \/ stage.beats < MaxBeats
          /\ stage' = [Take("worker", "progress") EXCEPT !.done = done,
                                                        !.beats = IF done > stage.done THEN @ ELSE @ + 1]
       \/ ~MustEmit(done) /\ stage' = [stage EXCEPT !.done = done]
\* heartbeat: one that is not due changes nothing.
Beat == Observing /\ InBody /\ Lockable("worker") /\ stage.beats < MaxBeats
        /\ stage' = [Take("worker", "heartbeat") EXCEPT !.beats = @ + 1]
\* The body comes to its end or raises.
LeaveBody ==
  /\ Observing /\ stage.worker = "works"
  /\ \E body \in {"done", "raised"} : stage' = [stage EXCEPT !.worker = "exits", !.body = body]
\* complete, by the body or by __exit__ when the body has not.
CompleteStage ==
  /\ Observing /\ stage.worker \in {"works", "exits"} /\ ~stage.completed
  /\ Lockable("worker") /\ stage' = Take("worker", "complete")

\* The pump: its wait is over, the stop event unset; then the tick, which says
\* nothing once the session has stopped.
Tick ==
  /\ Observing /\ stage.pump = "waits" /\ ~stage.stop /\ stage.beats < MaxBeats
  /\ stage' = [stage EXCEPT !.pump = "ticks", !.beats = @ + 1]
\* Mutant: the tick does not ask whether the session has stopped.
StartTickAlways ==
  /\ Observing /\ stage.pump = "ticks" /\ Lockable("pump") /\ stage' = Take("pump", "heartbeat")
StartTick ==
  /\ Observing /\ stage.pump = "ticks" /\ Lockable("pump")
  /\ stage' = IF stage.started THEN Take("pump", "heartbeat") ELSE [stage EXCEPT !.pump = "waits"]
EndPump ==
  /\ Observing /\ stage.pump = "waits" /\ stage.stop /\ stage' = [stage EXCEPT !.pump = "ended"]

\* _emit_locked: the snapshot is made of the tracker; the log has a new row; the
\* latest snapshot is replaced, and the lock is given back.
Snapshot(t) ==
  /\ Observing /\ PlaceOf(t) = "snapshot"
  /\ stage' = [To(t, "append") EXCEPT !.taken[t].processed = stage.done, !.emitted = stage.done]
AppendRow(t) ==
  /\ Observing /\ PlaceOf(t) = "append"
  /\ stage' = [To(t, "replace") EXCEPT !.rows = Append(@, stage.taken[t])]
ReplaceLatest(t) ==
  /\ Observing /\ PlaceOf(t) = "replace"
  /\ LET event == stage.taken[t].event
         next == IF t = "pump" THEN "waits" ELSE IF event = "complete" THEN "writes" ELSE "works"
     IN  stage' = [To(t, next) EXCEPT !.latest = stage.taken[t], !.lock = IF @ = t THEN "free" ELSE @,
                     !.completed = @ \/ event = "complete",
                     !.pump = IF event = "start" THEN "waits" ELSE IF t = "pump" THEN next ELSE @]

\* The rest of complete, outside the lock.
Back == IF stage.body = "runs" THEN "works" ELSE "exits"
WriteManifest ==
  /\ Observing /\ stage.worker = "writes"
  /\ stage' = [stage EXCEPT !.worker = Back, !.manifest = stage.taken.worker]

\* A write fails, before it has written anything, after, or with the file emptied.  A pump's thread
\* dies of it.  The worker's body raises; but in start, or in the complete of
\* __exit__, nobody is left who would stop the session.
SinkFails(t) ==
  /\ Observing /\ PlaceOf(t) \in {"append", "replace", "writes"} /\ stage.faults < MaxSinkFaults
  /\ \E latest \in IF PlaceOf(t) = "replace" THEN {stage.latest, NoRow, stage.taken[t]} ELSE {stage.latest} :
       LET exits == stage.body = "runs" /\ stage.taken.worker.event # "start"
           next == IF t = "pump" THEN "ended" ELSE IF exits THEN "exits" ELSE "raised"
       IN  stage' = [To(t, next) EXCEPT !.latest = latest, !.lock = IF @ = t THEN "free" ELSE @, !.faults = @ + 1,
                                        !.body = IF t = "worker" THEN "raised" ELSE @]

\* stop: the pump is asked to end, and waited for, for a while only; then for
\* the listener of the log.
StopPump ==
  /\ Observing /\ stage.worker = "exits" /\ stage.completed
  /\ stage' = [stage EXCEPT !.worker = "joins", !.stop = TRUE]
EndStage ==
  /\ Observing /\ stage.worker = "joins"
  /\ stage' = [stage EXCEPT !.worker = "stopped", !.started = FALSE]

StageStep ==
  \/ \E t \in {"worker", "pump"} : Snapshot(t) \/ AppendRow(t) \/ ReplaceLatest(t) \/ SinkFails(t)
  \/ StartTick \/ EndPump \/ LeaveBody \/ WriteManifest \/ StopPump \/ EndStage
StageNext == AskStage \/ Progress \/ Beat \/ CompleteStage \/ Tick \/ StageStep

\* The worker goes on once its stage was completed; of the pump nothing is asked.
StageFairness ==
  WF_<<call, stage>>(stage.completed /\ (LeaveBody \/ WriteManifest \/ StopPump \/ EndStage))

-----------------------------------------------------------------------------
(* While nobody is writing, and unless a write failed, the latest snapshot *)
(* is the last row of the log and lags less than the throttle allows behind*)
(* the worker; counts never go back from one row to the next.              *)
LatestIsTold ==
  /\ call.op = "stage" /\ stage.rows # << >> /\ stage.lock = "free" /\ stage.faults = 0 =>
       stage.latest = Last(stage.rows) /\ stage.done - stage.latest.processed < CountInterval
  /\ \A k \in 1 .. Len(stage.rows) - 1 : stage.rows[k].processed <= stage.rows[k + 1].processed

(* A stage has one terminal row, unless a write failed.  When it is over,  *)
(* there is one of all that was done, and only beats with the same counts  *)
(* come after it; the manifest is of that row, or its own write failed.    *)
OneEnding ==
  LET ends == {k \in DOMAIN stage.rows : stage.rows[k].event = "complete"}
  IN  /\ stage.faults = 0 => \A j, k \in ends : j = k
      /\ stage.manifest # NoRow => \E k \in ends : stage.manifest = stage.rows[k]
      /\ stage.worker \in {"joins", "stopped"} =>
           \E k \in ends :
             /\ stage.rows[k].processed = stage.done
             /\ stage.manifest = stage.rows[k] \/ (stage.manifest = NoRow /\ stage.faults > 0)
             /\ \A j \in k + 1 .. Len(stage.rows) :
                  stage.rows[j] = [event |-> "heartbeat", processed |-> stage.done]

(* Of a session that has stopped the log grows by one row at most: that of *)
(* a beat which had begun, and which stop did not wait for long enough.    *)
QuietAfterStop ==
  [][stage.worker = "stopped" /\ stage.pump \notin {"snapshot", "append", "replace"}
       => stage'.rows = stage.rows /\ stage'.pump \notin {"snapshot", "append", "replace"}]_stage

(* Once its stage was completed, a session comes to a stop, whatever the   *)
(* pump is doing, unless the manifest of its __exit__ cannot be written.   *)
SessionStops == stage.completed ~> stage.worker \in {"stopped", "raised"}

\* A session of a stage tells in its rows what was done, ends once, and is
\* quiet after its stop.
SessionTold ==
  /\ []LatestIsTold
  /\ []OneEnding
  /\ QuietAfterStop
  /\ SessionStops
=============================================================================
