--------------------------- MODULE SandboxManager ---------------------------
(***************************************************************************)
(* The sandbox manager of the executor manager, for one sandbox: a record  *)
(* and its executions in a Redis hash, an entry in the sorted set of       *)
(* active sandboxes, and the containers that were started for it.          *)
(*                                                                         *)
(* One asyncio process: a step is what the code does between two awaits.   *)
(* Each request works on a copy of the record that it loaded or created,   *)
(* and a save writes the whole copy and enters the sandbox into the set.   *)
(* The hash lives longer than the entry needs to be called expired.        *)
(***************************************************************************)
EXTENDS Integers, FiniteSets

CONSTANTS
  Requests,     \* requests that may be creating the sandbox at the same time
  Boxes,        \* container names, one per subtask that asks for the sandbox
  Executions,   \* executions, one per subtask
  Unnamed,      \* the name a record has before its container is started
  MaxTrouble,   \* bound: failing calls, misjudged or dying containers, restarts
  MaxCrossed    \* bound: creations begun while something else is in progress

ASSUME NamesAssumption ==
  /\ Unnamed \notin Boxes
  /\ IsFiniteSet(Boxes) /\ IsFiniteSet(Requests)
ASSUME SandboxBoundsAssumption == {MaxTrouble, MaxCrossed} \subseteq Nat

VARIABLES
  rec,       \* the field __sandbox__ of the hash
  entry,     \* the score of the sandbox in the active set
  ex,        \* the executions in the hash
  box,       \* the containers
  beat,      \* the heartbeat key, one for the sandbox whatever the container
  request,   \* create_sandbox: the requests in progress
  runner,    \* _run_execution: the executions being started
  job,       \* what the executor does with each execution
  checker,   \* _check_heartbeats
  faults,    \* calls of docker or of an executor that failed, so far
  misjudged, \* living containers that were taken for dead, so far
  deaths,    \* containers that died, so far
  restarts,  \* restarts of the manager, so far
  crossed    \* history: creations begun while something else was in progress

redis == << rec, entry, ex, beat >>
counters == << faults, misjudged, deaths, restarts >>
vars == << redis, box, request, runner, job, checker, counters, crossed >>

Statuses == {"absent", "pending", "running", "failed", "terminating"}
Records == [st : Statuses, box : Boxes \cup {Unnamed}]

NoRecord == [st |-> "absent", box |-> Unnamed]
Provisioning == [st |-> "pending", box |-> Unnamed]
IdleRequest == [pc |-> "idle", box |-> Unnamed]
IdleRunner == [pc |-> "idle", copy |-> NoRecord]
NoJob == [st |-> "none", box |-> Unnamed]

Init ==
  /\ rec = NoRecord /\ entry = "none" /\ beat = FALSE
  /\ ex = [e \in Executions |-> "none"]
  /\ box = [b \in Boxes |-> "none"]
  /\ request = [r \in Requests |-> IdleRequest]
  /\ runner = [e \in Executions |-> IdleRunner]
  /\ job = [e \in Executions |-> NoJob]
  /\ checker = "idle"
  /\ faults = 0 /\ misjudged = 0 /\ deaths = 0 /\ restarts = 0
  /\ crossed = 0

Troubled == faults + misjudged + deaths + restarts < MaxTrouble

-----------------------------------------------------------------------------
(* The repository. *)

\* save_sandbox.
Save(r) == rec' = r /\ entry' = "fresh"

\* delete_sandbox: the entry and the whole hash, executions included.
DeleteRecord == /\ rec' = NoRecord /\ entry' = "none"
                /\ ex' = [e \in Executions |-> "none"]

\* The answer of an HTTP health check of the container a record names.
Judged(r, healthy) ==
  IF healthy
    THEN r.box \in Boxes /\ box[r.box] = "up" /\ UNCHANGED misjudged
    ELSE \/ ~(r.box \in Boxes /\ box[r.box] = "up") /\ UNCHANGED misjudged
         \/ Troubled /\ misjudged' = misjudged + 1

\* Mutant: the container is deleted by the name the record had at first.
DeleteDefaultName(b) == UNCHANGED << box, faults >>

\* delete_executor: docker stop and docker rm.  A container that does not exist
\* is "unauthorized", so the deletion by task id never follows; every caller
\* goes on after a failure.
DeleteBox(b) ==
  \/ box' = [x \in Boxes |-> IF x = b THEN "none" ELSE box[x]] /\ UNCHANGED faults
  \/ /\ b \in Boxes /\ box[b] # "none"
     /\ Troubled /\ faults' = faults + 1
     /\ UNCHANGED box

-----------------------------------------------------------------------------
(* create_sandbox. *)

\* The existing sandbox is alive: its timeout is extended, that is, it is
\* saved (expires_at is not stored).  keep_alive does the same.
KeepAlive ==
  /\ rec.st = "running"
  /\ Save(rec)
  /\ UNCHANGED << ex, beat, box, request, runner, job, checker, counters, crossed >>

Busy == \/ \E r \in Requests : request[r].pc # "idle"
        \/ \E e \in Executions : runner[e].pc # "idle"
        \/ checker # "idle"

\* A new record is saved before the container is started.  One that is PENDING
\* or FAILED is overwritten; one that is RUNNING and fails the health check is
\* cleaned up, with its container and its executions.
CreateSandbox(r, b) ==
  /\ request[r].pc = "idle"
  /\ request' = [request EXCEPT ![r] = [pc |-> "start", box |-> b]]
  /\ Save(Provisioning)
  /\ \/ rec.st # "running" /\ UNCHANGED << ex, box, faults, misjudged >>
     \/ /\ rec.st = "running" /\ Judged(rec, FALSE)
        /\ DeleteBox(rec.box)
        /\ ex' = [e \in Executions |-> "none"]
  /\ IF Busy THEN crossed < MaxCrossed /\ crossed' = crossed + 1
             ELSE UNCHANGED crossed
  /\ UNCHANGED << beat, runner, job, checker, deaths, restarts >>

\* submit_executor: docker run, which fails if the name is taken.
StartBox(r) ==
  LET b == request[r].box IN
  /\ request[r].pc = "start"
  /\ box[b] = "none"
  /\ box' = [box EXCEPT ![b] = "up"]
  /\ job' = [e \in Executions |-> IF job[e].box = b THEN [job[e] EXCEPT !.box = Unnamed]
                                  ELSE job[e]]
  /\ request' = [request EXCEPT ![r].pc = "wait"]
  /\ UNCHANGED << redis, runner, checker, counters, crossed >>

StartFails(r) ==
  LET b == request[r].box IN
  /\ request[r].pc = "start"
  /\ \/ box[b] # "none" /\ UNCHANGED faults
     \/ Troubled /\ faults' = faults + 1
  /\ Save([st |-> "failed", box |-> Unnamed])
  /\ request' = [request EXCEPT ![r] = IdleRequest]
  /\ UNCHANGED << ex, beat, box, runner, job, checker, misjudged, deaths,
                  restarts, crossed >>

\* _wait_for_container_ready returns the address.
BoxReady(r) ==
  LET b == request[r].box IN
  /\ request[r].pc = "wait"
  /\ box[b] = "up"
  /\ Save([st |-> "running", box |-> b])
  /\ request' = [request EXCEPT ![r] = IdleRequest]
  /\ UNCHANGED << ex, beat, box, runner, job, checker, counters, crossed >>

\* It gives up on a container that is dead, deleted, or too slow.
BoxNotReady(r) ==
  LET b == request[r].box IN
  /\ request[r].pc = "wait"
  /\ \/ box[b] # "up" /\ UNCHANGED misjudged
     \/ Troubled /\ misjudged' = misjudged + 1
  /\ Save([st |-> "failed", box |-> b])
  /\ request' = [request EXCEPT ![r] = IdleRequest]
  /\ UNCHANGED << ex, beat, box, runner, job, checker, faults, deaths, restarts,
                  crossed >>

-----------------------------------------------------------------------------
(* terminate_sandbox, for the user and for the collection of expired ones. *)

TerminateSandbox ==
  /\ rec.st \notin {"absent", "terminating"}
  /\ DeleteBox(rec.box)
  /\ DeleteRecord
  /\ UNCHANGED << beat, request, runner, job, checker, misjudged, deaths,
                  restarts, crossed >>

\* Mutant: an entry without a record is skipped.
CollectRecorded == entry = "old" /\ TerminateSandbox

\* _collect_expired_sandboxes: a pass handles the sandbox without an await.
CollectExpired ==
  /\ entry = "old"
  /\ \/ TerminateSandbox
     \/ /\ rec.st = "absent" /\ entry' = "none"
        /\ UNCHANGED << rec, ex, beat, box, request, runner, job, checker,
                        counters, crossed >>

-----------------------------------------------------------------------------
(* Executions. *)

\* create_execution: the health check, then the record (a save) and the new
\* execution; the rest runs in a task of its own.
CreateExecution(e) ==
  /\ ex[e] = "none" /\ job[e] = NoJob /\ runner[e].pc = "idle"
  /\ rec.st = "running" /\ Judged(rec, TRUE)
  /\ Save(rec)
  /\ ex' = [ex EXCEPT ![e] = "pending"]
  /\ runner' = [runner EXCEPT ![e] = [pc |-> "run", copy |-> rec]]
  /\ UNCHANGED << beat, box, request, job, checker, faults, deaths, restarts,
                  crossed >>

\* on_running: save_execution writes its field, whether the hash is there or not.
RunExecution(e) ==
  /\ runner[e].pc = "run"
  /\ ex' = [ex EXCEPT ![e] = "running"]
  /\ runner' = [runner EXCEPT ![e].pc = "post"]
  /\ UNCHANGED << rec, entry, beat, box, request, job, checker, counters, crossed >>

\* The executor accepts the request.
ExecutorAccepts(e) ==
  /\ runner[e].pc = "post"
  /\ box[runner[e].copy.box] = "up"
  /\ job' = [job EXCEPT ![e] = [st |-> "running", box |-> runner[e].copy.box]]
  /\ runner' = [runner EXCEPT ![e].pc = "accepted"]
  /\ UNCHANGED << redis, box, request, checker, counters, crossed >>

\* on_complete: the copy of the record goes back into Redis.
ExecutionAccepted(e) ==
  /\ runner[e].pc = "accepted"
  /\ Save(runner[e].copy)
  /\ runner' = [runner EXCEPT ![e] = IdleRunner]
  /\ UNCHANGED << ex, beat, box, request, job, checker, counters, crossed >>

\* Mutant: a refusal is a timeout.
ExecutionTimesOut(e) ==
  /\ runner[e].pc = "post" /\ box[runner[e].copy.box] # "up"
  /\ ex' = [ex EXCEPT ![e] = "timeout"]
  /\ runner' = [runner EXCEPT ![e] = IdleRunner]
  /\ UNCHANGED << rec, entry, beat, box, request, job, checker, counters, crossed >>

\* No connection, or an answer that got lost.
ExecutionRefused(e) ==
  /\ \/ runner[e].pc = "post" /\ box[runner[e].copy.box] # "up" /\ UNCHANGED faults
     \/ /\ runner[e].pc \in {"post", "accepted"}
        /\ Troubled /\ faults' = faults + 1
  /\ ex' = [ex EXCEPT ![e] = "failed"]
  /\ runner' = [runner EXCEPT ![e] = IdleRunner]
  /\ UNCHANGED << rec, entry, beat, box, request, job, checker, misjudged,
                  deaths, restarts, crossed >>

\* The executor reports the end of an execution to the callback endpoint, which
\* tells the backend; nothing is written to the hash.
ExecutorFinishes(e) ==
  /\ job[e].st = "running"
  /\ \E b \in Boxes : b = job[e].box /\ box[b] = "up"
  /\ job' = [job EXCEPT ![e].st = "done"]
  /\ UNCHANGED << redis, box, request, runner, checker, counters, crossed >>

-----------------------------------------------------------------------------
(* _check_heartbeats. *)

\* The record is loaded, and found RUNNING.
CheckHeartbeats ==
  /\ checker = "idle"
  /\ entry # "none" /\ rec.st = "running"
  /\ checker' = "look"
  /\ UNCHANGED << redis, box, request, runner, job, counters, crossed >>

HeartbeatFound ==
  /\ checker = "look"
  /\ beat
  /\ checker' = "idle"
  /\ UNCHANGED << redis, box, request, runner, job, counters, crossed >>

AnyUp == \E b \in Boxes : box[b] = "up"

\* Mutant: the executions of a dead sandbox are left alone.
HeartbeatMissingOnly ==
  /\ checker = "look"
  /\ ~beat
  /\ IF AnyUp THEN Troubled /\ misjudged' = misjudged + 1
              ELSE UNCHANGED misjudged
  /\ checker' = "bury"
  /\ UNCHANGED << redis, box, request, runner, job, faults, deaths, restarts,
                  crossed >>

\* _handle_executor_dead, up to the deletion of the heartbeat.  The grace period
\* counts from the creation of the record, so a container that took long to
\* start can be taken for dead before its first heartbeat.
HeartbeatMissing ==
  /\ checker = "look"
  /\ ~beat
  /\ IF AnyUp THEN Troubled /\ misjudged' = misjudged + 1
              ELSE UNCHANGED misjudged
  /\ ex' = [e \in Executions |-> IF ex[e] = "running" THEN "failed" ELSE ex[e]]
  /\ checker' = "bury"
  /\ UNCHANGED << rec, entry, beat, box, request, runner, job, faults, deaths,
                  restarts, crossed >>

\* Mutant: the sandbox leaves the active set and stays RUNNING.
ForgetSandbox ==
  /\ checker = "bury"
  /\ beat' = FALSE
  /\ entry' = "none"
  /\ DeleteBox(rec.box)
  /\ checker' = "idle"
  /\ UNCHANGED << rec, ex, request, runner, job, misjudged, deaths, restarts,
                  crossed >>

\* The rest of it, with the record as it is now.  The save puts the sandbox into
\* the active set and remove_from_active_set takes it out again.
BurySandbox ==
  /\ checker = "bury"
  /\ beat' = FALSE
  /\ \/ rec.st = "absent" /\ UNCHANGED << rec, entry, box, faults >>
     \/ /\ rec.st # "absent"
        /\ rec' = [rec EXCEPT !.st = "failed"]
        /\ entry' = "none"
        /\ DeleteBox(rec.box)
  /\ checker' = "idle"
  /\ UNCHANGED << ex, request, runner, job, misjudged, deaths, restarts, crossed >>

-----------------------------------------------------------------------------
(* Containers, time and crashes. *)

Beat == /\ AnyUp /\ ~beat /\ beat' = TRUE
        /\ UNCHANGED << rec, entry, ex, box, request, runner, job, checker,
                        counters, crossed >>

\* Mutant: the key is written without a TTL.
BeatStays == FALSE /\ UNCHANGED vars

\* The key of the last heartbeat expires.
BeatExpires ==
  /\ beat /\ ~AnyUp
  /\ beat' = FALSE
  /\ UNCHANGED << rec, entry, ex, box, request, runner, job, checker, counters,
                  crossed >>

BoxDies(b) ==
  /\ box[b] = "up"
  /\ Troubled /\ deaths' = deaths + 1
  /\ box' = [box EXCEPT ![b] = "dead"]
  /\ UNCHANGED << redis, request, runner, job, checker, faults, misjudged,
                  restarts, crossed >>

\* The last activity is longer ago than redis_ttl.
EntryAges ==
  /\ entry = "fresh" /\ entry' = "old"
  /\ UNCHANGED << rec, ex, beat, box, request, runner, job, checker, counters,
                  crossed >>

\* session_hash_ttl is so much longer than redis_ttl that a collection comes
\* first; it leaves only a sandbox that is TERMINATING.
HashExpires ==
  /\ entry # "fresh"
  /\ entry = "none" \/ rec.st \in {"absent", "terminating"}
  /\ rec # NoRecord \/ \E e \in Executions : ex[e] # "none"
  /\ rec' = NoRecord
  /\ ex' = [e \in Executions |-> "none"]
  /\ UNCHANGED << entry, beat, box, request, runner, job, checker, counters,
                  crossed >>

\* Everything in memory is gone; terminate_sandbox may be cut off after it saved
\* TERMINATING, before or after it deleted the container.
Restart ==
  /\ Troubled /\ restarts' = restarts + 1
  /\ request' = [r \in Requests |-> IdleRequest]
  /\ runner' = [e \in Executions |-> IdleRunner]
  /\ checker' = "idle"
  /\ \/ UNCHANGED << rec, entry, box, faults >>
     \/ /\ rec.st \notin {"absent", "terminating"}
        /\ Save([rec EXCEPT !.st = "terminating"])
        /\ UNCHANGED << box, faults >> \/ DeleteBox(rec.box)
  /\ UNCHANGED << ex, beat, job, misjudged, deaths, crossed >>

-----------------------------------------------------------------------------
RequestStep(r) == StartBox(r) \/ StartFails(r) \/ BoxReady(r) \/ BoxNotReady(r)
RunnerStep(e) == \/ RunExecution(e) \/ ExecutorAccepts(e)
                 \/ ExecutionAccepted(e) \/ ExecutionRefused(e)
CheckerStep == \/ CheckHeartbeats \/ HeartbeatFound \/ HeartbeatMissing
               \/ BurySandbox

Next ==
  \/ KeepAlive \/ TerminateSandbox \/ CollectExpired \/ CheckerStep
  \/ \E r \in Requests : RequestStep(r) \/ \E b \in Boxes : CreateSandbox(r, b)
  \/ \E e \in Executions :
       CreateExecution(e) \/ RunnerStep(e) \/ ExecutorFinishes(e)
  \/ Beat \/ BeatExpires \/ EntryAges \/ HashExpires \/ Restart
  \/ \E b \in Boxes : BoxDies(b)

Spec == Init /\ [][Next]_vars

\* The scheduler runs the checks and the collection again and again, requests
\* and tasks go on, and keys expire.
Fairness ==
  /\ \A r \in Requests : WF_vars(RequestStep(r))
  /\ \A e \in Executions : WF_vars(RunnerStep(e))
  /\ WF_vars(CheckerStep) /\ WF_vars(CollectExpired)
  /\ WF_vars(BeatExpires) /\ WF_vars(HashExpires /\ entry = "old")

FairSpec == Spec /\ Fairness

-----------------------------------------------------------------------------
(* Properties. *)

TypeOK ==
  /\ rec \in Records /\ entry \in {"none", "fresh", "old"} /\ beat \in BOOLEAN
  /\ ex \in [Executions -> {"none", "pending", "running", "failed"}]
  /\ box \in [Boxes -> {"none", "up", "dead"}]
  /\ request \in [Requests -> [pc : {"idle", "start", "wait"}, box : Boxes \cup {Unnamed}]]
  /\ runner \in [Executions -> [pc : {"idle", "run", "post", "accepted"}, copy : Records]]
  /\ job \in [Executions -> [st : {"none", "running", "done"}, box : Boxes \cup {Unnamed}]]
  /\ checker \in {"idle", "look", "bury"}
  /\ {faults, misjudged, deaths, restarts} \subseteq 0..MaxTrouble
  /\ crossed \in 0..MaxCrossed

\* Nobody will ever delete this container: no record in the active set names
\* it, and no request is about to save one that does.
Leaked(b) == /\ box[b] = "up"
             /\ ~(rec.box = b /\ entry # "none")
             /\ \A r \in Requests : request[r] # [pc |-> "wait", box |-> b]

\* Every container that is left running for good can be traced to a failing
\* call, a living container taken for dead, a restart, or a creation that
\* overlapped something else: save_sandbox overwrites whatever name it finds.
LeakBounded ==
  Cardinality({b \in Boxes : Leaked(b)})
    <= faults + misjudged + restarts + crossed

\* A record that says RUNNING, however late the copy it was saved from, is in
\* the set that the heartbeat check and the collection go through.
RunningIsWatched == rec.st = "running" => entry # "none"

\* A sandbox does not stay RUNNING without a container, also when a late save
\* brought its record back (_check_heartbeats).
DeadSandboxNoticed ==
  (rec.st = "running" /\ ~AnyUp) ~> (rec.st # "running" \/ AnyUp)

\* No entry of the active set stays expired, also not that of a sandbox whose
\* termination was cut off (_collect_expired_sandboxes).
OldEntriesGo == entry = "old" ~> entry # "old"

Started(e) == ex[e] \in {"pending", "running"}

\* A client that polls an execution learns that its container is gone.  This
\* fails if an execution begins after the check has failed the others, which
\* takes a living container misjudged, or replaced meanwhile; and a restart
\* forgets executions that are PENDING.
ExecutionSettles ==
  \A e \in Executions :
    (Started(e) /\ ~AnyUp)
      ~> (~Started(e) \/ AnyUp \/ misjudged + crossed + restarts > 0)
=============================================================================
