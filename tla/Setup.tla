------------------------------- MODULE Setup -------------------------------
(***************************************************************************)
(* make setup and its atomic phases (runtime/setup): the phases run in     *)
(* order under the setup lock until one is not ok; each looks at the host, *)
(* repairs what it may, and answers a status.  What a phase verified is    *)
(* kept in verified.json, for which only the environment phase skips work. *)
(* Attempts follow one another: one may fail, be cancelled or die in any   *)
(* phase, and between attempts the lockfile changes, back too, and models  *)
(* vanish.                                                                 *)
(***************************************************************************)
EXTENDS Calls, Integers, SequencesExt

CONSTANTS
  MaxLock,         \* bound: versions of uv.lock
  MaxModels,       \* bound: configured models that may be missing
  MaxPolls,        \* polls of the wait phase before its deadline
  MaxAttempts      \* bound: attempts

\* missing_models is a list of models: their number is not negative; so is that of
\* the versions of a lockfile.
ASSUME SetupAssumption == MaxModels \in Nat /\ MaxLock \in Nat

PhaseOrder == <<"config", "env", "package", "paths", "postgres-image", "images", "models",
                "services", "wait", "contracts", "schema", "readiness">>
AtomicPhases == {"config", "env", "images", "models", "wait", "schema"}

\* What the host is like: the version .venv was synced to (0: none, -1: a sync
\* broke off), the images built here and pulled, the missing models, the services,
\* the catalog.
Hosts == [venv : -1 .. MaxLock, built : BOOLEAN, pulled : BOOLEAN, missing : 0 .. MaxModels,
          up : BOOLEAN, schema : {"empty", "head", "foreign"}]

VARIABLES
  host,            \* a member of Hosts
  lockfile,        \* the version of uv.lock, and of the extras in settings.py
  kept,            \* verified.json: the fingerprint of env, version 0 at first
  setup,           \* the attempt: its phases, backend, copy of kept, results, polls
  lapsed           \* history: since kept was verified, a sync changed .venv and
                   \* broke off or died before its fingerprint was stored

setups == <<host, lockfile, kept, setup, lapsed>>

NoSetup == [names |-> <<>>, online |-> FALSE, backend |-> "ollama", verified |-> <<0, FALSE>>, results |-> <<>>, polls |-> 0,
            status |-> "none", attempts |-> 0]

SetupInit ==
  /\ host = [venv |-> 0, built |-> FALSE, pulled |-> FALSE, missing |-> MaxModels, up |-> FALSE, schema |-> "empty"]
  /\ lockfile = 1 /\ kept = <<0, FALSE>> /\ setup = NoSetup /\ lapsed = FALSE

Ok(status) == status \in {"ready", "reused", "skipped"}
Busy == setup.names # <<>> /\ setup.status = "none"
Current == setup.names[Len(setup.results) + 1]

Begin(names, online, backend) ==
  [NoSetup EXCEPT !.names = names, !.online = online, !.backend = backend, !.verified = kept,
                  !.attempts = setup.attempts + 1]

\* run_setup: all phases or one, with what was verified before.
StartSetup ==
  /\ ~Busy /\ (call = Ready \/ call.op = "setup")
  /\ call' = [op |-> "setup"] /\ setup.attempts < MaxAttempts
  /\ \E online \in BOOLEAN, backend \in {"ollama", "vllm"}, names \in {PhaseOrder} \cup {<<n>> : n \in AtomicPhases} :
       setup' = Begin(names, online, backend)
  /\ UNCHANGED <<host, lockfile, kept, lapsed>>

\* aggregate_status.
Aggregate(results) ==
  IF "cancelled" \in ToSet(results) THEN "cancelled"
  ELSE IF "blocked" \in ToSet(results) THEN "blocked"
  ELSE IF "degraded" \in ToSet(results) THEN "degraded" ELSE "ready"

\* A phase has answered: an answer that is not ok ends the attempt, and the end
\* of an attempt stores what it has verified.
Answer(status, verified) ==
  LET results == Append(setup.results, status)
      ends == ~Ok(status) \/ Len(results) = Len(setup.names)
  IN  /\ setup' = [setup EXCEPT !.results = results, !.verified = verified, !.polls = 0,
                                !.status = IF ends THEN Aggregate(results) ELSE "none"]
      /\ kept' = IF ends THEN verified ELSE kept
      /\ UNCHANGED <<lockfile, call>>

\* Mutant: the digest is of the mode alone.
ModeOnly == <<1, setup.online>>

\* fingerprint_for: of the lockfile and the extras, and of the mode.
Fingerprint == <<lockfile, setup.online>>
Reusable == host.venv # 0 /\ setup.verified = Fingerprint

\* The environment is synced unless it exists and was verified under this
\* fingerprint; a sync that breaks off takes nothing back of what was verified.
Env ==
  /\ Busy /\ Current = "env"
  /\ \/ Reusable /\ Answer("reused", Fingerprint) /\ UNCHANGED <<host, lapsed>>
     \/ /\ ~Reusable /\ Answer("ready", Fingerprint)
        /\ host' = [host EXCEPT !.venv = lockfile] /\ lapsed' = FALSE
     \/ /\ ~Reusable /\ Answer("blocked", setup.verified)
        /\ \E venv \in {host.venv, -1, 0, lockfile} :
             /\ host' = [host EXCEPT !.venv = venv]
             /\ lapsed' = IF venv = host.venv THEN lapsed ELSE TRUE

\* Phases that look and change nothing: their commands pass or not.
Check ==
  /\ Busy /\ Current \in {"config", "package", "paths", "contracts"}
  /\ \E passes \in BOOLEAN :
       Answer(IF passes /\ (Current = "package" => host.venv # 0) THEN "ready" ELSE "blocked",
              setup.verified)
  /\ UNCHANGED <<host, lapsed>>

\* An image that is missing is built or pulled when downloads are on.
Acquire(present, made) ==
  \/ present /\ Answer("ready", setup.verified) /\ UNCHANGED <<host, lapsed>>
  \/ ~present /\ Answer("blocked", setup.verified) /\ UNCHANGED <<host, lapsed>>
  \/ ~present /\ setup.online /\ Answer("ready", setup.verified) /\ host' = made /\ UNCHANGED lapsed
PostgresImage == Busy /\ Current = "postgres-image" /\ Acquire(host.built, [host EXCEPT !.built = TRUE])
Images == Busy /\ Current = "images" /\ Acquire(host.pulled, [host EXCEPT !.pulled = TRUE])

\* Of Ollama's missing models the first one is pulled, and the phase is ready.
\* vLLM lists none: its models are fetched when it starts, and no phase without
\* downloads is ready.  Blocked it may be for what the extraction needs too.
Models ==
  /\ Busy /\ Current = "models"
  /\ \/ Answer("blocked", setup.verified) /\ UNCHANGED <<host, lapsed>>
     \/ /\ setup.backend = "ollama" /\ host.missing = 0
        /\ Answer("ready", setup.verified) /\ UNCHANGED <<host, lapsed>>
     \/ /\ setup.backend = "ollama" /\ host.missing > 0 /\ setup.online
        /\ Answer("ready", setup.verified) /\ host' = [host EXCEPT !.missing = @ - 1] /\ UNCHANGED lapsed
     \/ setup.backend = "vllm" /\ setup.online /\ Answer("ready", setup.verified) /\ UNCHANGED <<host, lapsed>>

Services ==
  /\ Busy /\ Current = "services"
  /\ \/ Answer("blocked", setup.verified) /\ UNCHANGED <<host, lapsed>>
     \/ /\ Answer("ready", setup.verified)
        /\ \E missing \in IF setup.backend = "vllm" THEN {0, host.missing} ELSE {host.missing} :
             host' = [host EXCEPT !.up = TRUE, !.missing = missing]
        /\ UNCHANGED lapsed

\* _health_result: no answer while the endpoint is not up, else by its models.
Health ==
  IF ~host.up THEN {"none"}
  ELSE {"none", IF host.missing > 0 THEN "blocked" ELSE "ready"}

Waits(status) ==
  /\ Busy /\ Current = "wait" /\ UNCHANGED <<host, lapsed>>
  /\ IF status # "none" THEN Answer(status, setup.verified)
     ELSE /\ setup' = [setup EXCEPT !.polls = @ + 1]
          /\ UNCHANGED <<kept, lockfile, call>>

\* Until the deadline: cancelled, healthy, or once more.
Poll ==
  \/ setup.polls < MaxPolls /\ \E status \in Health \cup {"cancelled"} : Waits(status)
  \/ setup.polls = MaxPolls /\ Waits("blocked")

\* A catalog that is not ours stays as it is; ours is brought to the head.
Schema ==
  /\ Busy /\ Current = "schema"
  /\ \/ host.schema = "head" /\ Answer("ready", setup.verified) /\ UNCHANGED <<host, lapsed>>
     \/ Answer("blocked", setup.verified) /\ UNCHANGED <<host, lapsed>>
     \/ /\ host.schema = "empty" /\ Answer("ready", setup.verified)
        /\ host' = [host EXCEPT !.schema = "head"] /\ UNCHANGED lapsed

Readiness ==
  /\ Busy /\ Current = "readiness" /\ UNCHANGED <<host, lapsed>>
  /\ \E status \in {"ready", "degraded", "blocked"} : Answer(status, setup.verified)

\* An atomic phase loads the configuration first.
NoConfig ==
  /\ Busy /\ Len(setup.names) = 1 /\ Current \notin {"config", "env"} /\ setup.polls = 0
  /\ Answer("blocked", setup.verified)
  /\ UNCHANGED <<host, lapsed>>

\* The coordinator asks before every phase whether it is cancelled.
CancelSetup ==
  /\ Busy /\ setup.polls = 0 /\ UNCHANGED <<host, lapsed>>
  /\ Answer("cancelled", setup.verified)

\* What is left of an attempt whose process is gone.
Gone == [NoSetup EXCEPT !.verified = kept, !.attempts = setup.attempts]

\* The process dies, or a phase raises: nothing is stored; a sync under way is
\* left as it is.
KillSetup ==
  /\ Busy /\ setup' = Gone
  /\ \/ UNCHANGED host /\ lapsed' = IF setup.verified = kept THEN lapsed ELSE TRUE
     \/ /\ Current = "env" /\ ~Reusable /\ lapsed' = TRUE
        /\ \E venv \in {-1, 0, lockfile} : host' = [host EXCEPT !.venv = venv]
  /\ UNCHANGED <<lockfile, kept, call>>

\* Between two attempts; a checkout takes the lockfile to any version, back too.
ChangeHost ==
  /\ call # Ready /\ call.op = "setup" /\ ~Busy /\ UNCHANGED <<kept, lapsed, call>>
  /\ setup' = Gone
  /\ \/ lockfile' \in 1 .. MaxLock \ {lockfile} /\ UNCHANGED host
     \/ host.missing = 0 /\ host' = [host EXCEPT !.missing = 1] /\ UNCHANGED lockfile
     \/ host.up /\ host' = [host EXCEPT !.up = FALSE] /\ UNCHANGED lockfile
     \/ host.schema = "empty" /\ host' = [host EXCEPT !.schema = "foreign"] /\ UNCHANGED lockfile

RunPhase == NoConfig \/ Env \/ Check \/ PostgresImage \/ Images \/ Models \/ Services \/ Poll \/ Schema \/ Readiness
SetupNext == StartSetup \/ RunPhase \/ CancelSetup \/ KillSetup \/ ChangeHost
SetupFairness == WF_<<setups, call>>(RunPhase)

-----------------------------------------------------------------------------
(* Properties.                                                             *)

Reused == \E i \in 1 .. Len(setup.results) : setup.names[i] = "env" /\ setup.results[i] = "reused"

\* "locked environment already synced" (env_phase.py): the phase skips a sync
\* only when the environment in place is the one of the lockfile.  It is not so:
\* of a sync in the other mode, or of a lockfile that was taken back, that broke
\* off nothing is written down, and the fingerprint of before it still holds.
ReuseIsSound == Reused => host.venv = lockfile

\* The same as long as no sync has broken off or died since the fingerprint was
\* stored, however the mode, the lockfile and the outcome of the other phases changed.
ReuseIsVerified == Reused /\ ~lapsed => host.venv = lockfile

\* A setup of all phases that reports ready leaves a host on which everything
\* is in place, though the models phase pulls one model and is content; but its
\* environment may be one that ReuseIsSound speaks of.
ReadyIsWhole ==
  setup.status = "ready" /\ setup.names = PhaseOrder =>
    /\ host.built /\ host.pulled /\ host.missing = 0 /\ host.up /\ host.schema = "head"
    /\ ~lapsed => host.venv = lockfile

\* What a setup takes over from an earlier one is still there, unless a sync
\* broke off meanwhile, and it calls ready what is.
SetupSound ==
  /\ ReuseIsVerified
  /\ ReadyIsWhole

\* Every attempt ends: the wait for services has a deadline.
SetupEnds == Busy ~> ~Busy
=============================================================================
