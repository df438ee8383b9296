------------------------------- MODULE Execution -------------------------------
(***************************************************************************)
(* One task from draft to its outcome (internal/tasks) with the runs, the  *)
(* attempts and the verification jobs that execute it (internal/execution) *)
(* and the controller lifetimes that drive them.  Every handler is one     *)
(* write transaction that spans both owners and one action: a refusal by   *)
(* either owner rolls both back and is a step that is not taken.           *)
(*                                                                         *)
(* Versions only fence stale callers, and an accepted call is one that     *)
(* holds the current version; what remains of the task's version is        *)
(* whether a run was enqueued under it (pinned).  Workers' identities,     *)
(* capabilities, pause gates, budgets, artifacts, dependencies and policy  *)
(* decisions only refuse.  Time is kept as what is left of each lease and  *)
(* of the task's root deadline.                                            *)
(***************************************************************************)
EXTENDS Integers, Sequences, FiniteSets, SequencesExt

CONSTANTS
  Modes,       \* acceptance modes a task can be created with
  Window,      \* leaseDuration, in clock steps
  Deadline,    \* clock steps until the task's root deadline
  StepLimit,   \* the task's limits.model_steps
  MaxRuns,     \* bound: runs enqueued for the task
  MaxAttempts, \* bound: attempts claimed for the task
  MaxGen       \* bound: controller generations

ASSUME ExecutionAssumption ==
  /\ Modes \subseteq {"independent", "manual"}
  /\ Window \in Nat \ {0}
  /\ Deadline \in Nat \ {0}
  /\ StepLimit \in Nat \ {0}
  /\ {MaxRuns, MaxAttempts, MaxGen} \subseteq Nat \ {0}

VARIABLES
  mode,  \* the accepted contract's acceptance mode
  left,  \* clock steps left until the root deadline
  task,  \* the task row
  run,   \* runs in the order they were enqueued
  att,   \* attempts in the order they were claimed
  obl,   \* attempts with an unknown_effect obligation; the lease_conflict
         \* and cost_unresolved ones are only shown to operators
  ctl,   \* the controller: down, starting (generation advanced) or up
  gen,   \* the persisted controller generation
  ver,   \* attempts whose verification the running controller is driving
  refused \* history: the last tick was refused, which the controller notes

xvars == <<mode, left, task, run, att, obl, ctl, gen, ver, refused>>

TaskStates == {"draft", "ready", "running", "waiting", "verifying",
               "succeeded", "failed", "cancelled"}

Terminal == {"succeeded", "failed", "cancelled"}

RunStates == {"ready", "running", "waiting", "verifying"} \cup Terminal

LiveStates == {"claimed", "running"}

AttemptStates == LiveStates \cup {"reported", "failed", "fenced", "stopped"}

Verdicts == {"passed", "failed", "tampered", "inconclusive"}

Attempts == DOMAIN att

Live == {a \in Attempts : att[a].st \in LiveStates}

LiveOf(r) == {a \in Live : att[a].run = r}

\* The rows rs with the attempts S ended in state st: nothing reads an ended
\* attempt's lease or context again.
Ended(rs, S, st) ==
  [a \in DOMAIN rs |-> IF a \in S THEN [rs[a] EXCEPT !.st = st, !.ttl = 0, !.ctx = FALSE]
                       ELSE rs[a]]

------------------------------------------------------------------------------
(* The task's own state machine.                                             *)

legalTransitions ==
  [draft     |-> {"ready", "cancelled"},
   ready     |-> {"running", "waiting", "cancelled"},
   running   |-> {"verifying", "failed", "waiting", "cancelled"},
   verifying |-> {"succeeded", "failed", "waiting", "cancelled"},
   waiting   |-> {"cancelled"},
   succeeded |-> {}, failed |-> {}, cancelled |-> {}]

\* Whether _tasks.transition admits the target.  A manual contract never
\* succeeds through a transition; an independent one needs the evidence its
\* current attempt holds.
CanMove(t, s) ==
  /\ s \in legalTransitions[t.st] \/ (t.st = "waiting" /\ s = t.prior)
  /\ s \in {"ready", "running", "verifying"} => ~t.intent
  /\ s = "cancelled" => t.intent
  /\ s = "succeeded" => mode = "independent" /\ t.proof # 0

\* The row a transition leaves: its version moved on, so no run is enqueued
\* under the new one yet.
Moved(t, s) ==
  [t EXCEPT !.st = s,
            !.prior = IF s = "waiting" THEN t.st ELSE "none",
            !.est = IF s = "succeeded" THEN "verification" ELSE t.est,
            !.pinned = FALSE]

\* enqueueRun and handleEnqueue: one run per task version; a repeated
\* enqueue under the same version returns the run it finds.
Enqueue(t) ==
  IF t.pinned
  THEN task' = t /\ UNCHANGED run
  ELSE /\ Len(run) < MaxRuns
       /\ task' = [t EXCEPT !.pinned = TRUE]
       /\ run' = Append(run, [st |-> "ready", steps |-> 0])

Serving == ctl # "down"

\* task.start: a draft becomes ready and its run is enqueued in the same
\* transaction; a ready task is only enqueued again.
startTask ==
  /\ Serving
  /\ ~task.intent
  /\ \/ task.st = "draft" /\ Enqueue(Moved(task, "ready"))
     \/ task.st = "ready" /\ Enqueue(task)
  /\ UNCHANGED <<mode, left, att, obl, ctl, gen, ver, refused>>

\* Mutant: the revised contract of a queued task is not enqueued again.
reviseContractUnqueued ==
  /\ Serving
  /\ task.st \notin Terminal
  /\ ~task.intent
  /\ task' = [task EXCEPT !.pinned = FALSE]
  /\ UNCHANGED <<mode, left, run, att, obl, ctl, gen, ver, refused>>

\* task.assign in any state that is not terminal, task.update while the task
\* is pending: the contract of the bumped version is enqueued again when the
\* task is already queued.
reviseContract ==
  /\ Serving
  /\ task.st \notin Terminal
  /\ ~task.intent
  /\ LET t == [task EXCEPT !.pinned = FALSE] IN
     IF task.st = "ready" THEN Enqueue(t) ELSE task' = t /\ UNCHANGED run
  /\ UNCHANGED <<mode, left, att, obl, ctl, gen, ver, refused>>

\* task.cancel records the intent; it stops nothing by itself.
requestCancellation ==
  /\ Serving
  /\ task.st \notin Terminal
  /\ ~task.intent
  /\ task' = [task EXCEPT !.intent = TRUE, !.pinned = FALSE]
  /\ UNCHANGED <<mode, left, run, att, obl, ctl, gen, ver, refused>>

\* task.retry opens the next task attempt, which holds no evidence yet.
retryTask ==
  /\ Serving
  /\ task.st \in {"failed", "cancelled"}
  /\ Enqueue([task EXCEPT !.st = "ready", !.prior = "none", !.intent = FALSE,
                          !.est = "none", !.proof = 0, !.pinned = FALSE])
  /\ UNCHANGED <<mode, left, att, obl, ctl, gen, ver, refused>>

\* task.accept decides a manual contract in any started state, whatever its
\* run is doing.
manualAcceptance ==
  /\ Serving
  /\ mode = "manual"
  /\ task.st \notin Terminal \cup {"draft"}
  /\ \/ task' = [task EXCEPT !.st = "succeeded", !.est = "manual", !.pinned = FALSE]
     \/ task' = [task EXCEPT !.st = "failed", !.pinned = FALSE]
  /\ UNCHANGED <<mode, left, run, att, obl, ctl, gen, ver, refused>>

------------------------------------------------------------------------------
(* Claims, leases and what a worker may do under one.                        *)

Blocked(r) == \E a \in obl : att[a].run = r

\* Mutant: the bound is off by one.
StepsRemainOffByOne(r) == run[r].steps <= StepLimit

StepsRemain(r) == run[r].steps < StepLimit

\* run.claim and the controller's automatic claim of a hosted run.  A live
\* attempt answers its own worker with the claim it already has, which
\* changes nothing, and everyone else with a conflict.
admitAttempt(r) ==
  /\ Serving
  /\ Len(att) < MaxAttempts
  /\ LiveOf(r) = {}
  /\ run[r].st \in {"ready", "waiting"}
  /\ task.st \in {"ready", "waiting"}
  /\ ~task.intent
  /\ run[r].st = "waiting" => ~Blocked(r)
  /\ left > 0
  /\ StepsRemain(r)
  /\ CanMove(task, "running")
  /\ att' = Append(att, [run |-> r, gen |-> gen, st |-> "claimed",
                         ttl |-> IF left < Window THEN left ELSE Window,
                         ctx |-> FALSE, op |-> FALSE, job |-> "none", claimed |-> FALSE])
  /\ run' = [run EXCEPT ![r].st = "running"]
  /\ task' = Moved(task, "running")
  /\ UNCHANGED <<mode, left, obl, ctl, gen, ver, refused>>

\* The fence every worker call passes: a live attempt whose lease window is
\* still open.
checkWorkerCall(a) == Serving /\ a \in Live /\ att[a].ttl > 0

\* Mutant: the renewal writes the row back without looking at its state.
handleAttemptHeartbeatRevives(a) ==
  /\ Serving
  /\ att' = [att EXCEPT ![a].ttl = Window, ![a].st = "running"]
  /\ UNCHANGED <<mode, left, task, run, obl, ctl, gen, ver, refused>>

handleAttemptHeartbeat(a) ==
  /\ checkWorkerCall(a)
  /\ att' = [att EXCEPT ![a].ttl = Window]
  /\ UNCHANGED <<mode, left, task, run, obl, ctl, gen, ver, refused>>

\* The checkpoint pins the request context the tick admits the attempt with.
handleAttemptCheckpoint(a) ==
  /\ checkWorkerCall(a)
  /\ att' = [att EXCEPT ![a].ctx = TRUE]
  /\ UNCHANGED <<mode, left, task, run, obl, ctl, gen, ver, refused>>

\* attempt.report and _execution.report: the attempt is done, its
\* verification job is sealed, and task and run enter verification.
reportAttempt(a) ==
  /\ checkWorkerCall(a)
  /\ CanMove(task, "verifying")
  /\ att' = Ended([att EXCEPT ![a].job = "pending"], {a}, "reported")
  /\ task' = Moved(task, "verifying")
  /\ run' = [run EXCEPT ![att[a].run].st = "verifying"]
  /\ UNCHANGED <<mode, left, obl, ctl, gen, ver, refused>>

\* Cancelling stops the attempts S and leaves an unknown-effect obligation
\* for each model effect of theirs that nobody observed.  It cancels the run
\* and the task with it, which tasks refuses without a recorded intent and
\* for a task that is already decided otherwise.
CancelWith(S, r) ==
  /\ Serving
  /\ att' = Ended(att, S, "stopped")
  /\ obl' = obl \cup {a \in S : att[a].op}
  /\ run' = [run EXCEPT ![r].st = "cancelled"]
  /\ \/ task.st = "cancelled" /\ UNCHANGED task
     \/ CanMove(task, "cancelled") /\ task' = Moved(task, "cancelled")
  /\ UNCHANGED <<mode, left, ctl, gen, ver, refused>>

handleRunCancel(r) ==
  /\ run[r].st \notin Terminal
  /\ CancelWith(LiveOf(r), r)

\* attempt.cancel also reaches an attempt that reported or failed.
handleAttemptCancel(a) ==
  /\ att[a].st \notin {"fenced", "stopped"}
  /\ CancelWith({a}, att[a].run)

------------------------------------------------------------------------------
(* The controller: ticks, observations, restarts.                            *)

\* The attempts S fenced: what their effects do is never heard of again.
Fenced(rs, S) ==
  [a \in DOMAIN rs |-> [Ended(rs, S, "fenced")[a] EXCEPT !.op = @ /\ a \notin S]]

\* Runs a fence of the attempts S returns to waiting.
Released(S) == {r \in DOMAIN run : /\ \E a \in S : att[a].run = r
                                   /\ run[r].st \notin Terminal \cup {"waiting", "verifying"}}

Waiting(rs, R) == [r \in DOMAIN rs |-> IF r \in R THEN [rs[r] EXCEPT !.st = "waiting"] ELSE rs[r]]

\* fenceAttempt's last part: a task that was running under a released run
\* goes back to waiting with it.
TaskAfterFence(S) ==
  IF Released(S) # {} /\ task.st = "running" THEN Moved(task, "waiting") ELSE task

\* Mutant: only attempts the tick admitted expire.
LapsedRunning == {a \in Live : att[a].ttl = 0 /\ att[a].st = "running"}

Lapsed == {a \in Live : att[a].ttl = 0}

\* Mutant: the intent is not looked at once an attempt was claimed.
AdmissibleDespiteIntent(a) ==
  /\ att[a].st = "claimed"
  /\ att[a].ctx
  /\ run[att[a].run].st = "running"

Admissible(a) ==
  /\ att[a].st = "claimed"
  /\ att[a].ctx
  /\ run[att[a].run].st = "running"
  /\ ~task.intent

\* _execution.tick that commits: expire every lapsed lease, then admit the
\* claimed attempts that carry a pinned context and prepare their model
\* effect.  The worker's concurrency limit may hold some of them back.
handleTick ==
  /\ ctl = "up"
  /\ run' = Waiting(run, Released(Lapsed))
  /\ task' = TaskAfterFence(Lapsed)
  /\ \E admitted \in SUBSET {a \in Live \ Lapsed : Admissible(a)} :
       att' = [a \in Attempts |->
                  IF a \in admitted THEN [att[a] EXCEPT !.st = "running", !.op = TRUE]
                  ELSE Fenced(att, Lapsed)[a]]
  /\ refused' = FALSE
  /\ UNCHANGED <<mode, left, obl, ctl, gen, ver>>

\* A tick whose admission of an attempt is refused, of this task or of any
\* other: the fences of its first half are rolled back with it, and the
\* controller only notes the fault.
refusedTick ==
  /\ ctl = "up"
  /\ refused' = TRUE
  /\ UNCHANGED <<mode, left, task, run, att, obl, ctl, gen, ver>>

\* _execution.observation for an attempt's model effect: the step counts
\* against the run, and the loop goes on, stops at the bound or at a
\* recorded intent, or fences the attempt when the effect did not succeed.
\* Going on prepares the next effect, which the effects owner may refuse: the
\* observation is then rolled back and not taken.
handleObservation(a, d) ==
  LET r == att[a].run
      counted == [run EXCEPT ![r].steps = @ + 1]
      closed == [att EXCEPT ![a].op = FALSE]
      stop == d # "succeeded" \/ counted[r].steps >= StepLimit
  IN
  /\ ctl = "up"
  /\ a \in Live
  /\ att[a].op
  /\ obl' = IF d = "unknown" THEN obl \cup {a} ELSE obl
  /\ IF stop
     THEN /\ att' = Fenced(att, {a})
          /\ run' = Waiting(counted, Released({a}))
          /\ task' = TaskAfterFence({a})
     ELSE /\ att' = IF task.intent THEN closed ELSE att
          /\ run' = counted
          /\ UNCHANGED task
  /\ UNCHANGED <<mode, left, ctl, gen, ver, refused>>

\* A new process advances the persisted generation and serves calls before
\* its controller fences what older generations left behind.
AdvanceGeneration ==
  /\ ctl = "down"
  /\ gen' = gen + 1
  /\ ctl' = "starting"
  /\ UNCHANGED <<mode, left, task, run, att, obl, ver, refused>>

\* Mutant: an attempt that was only claimed is not fenced.
StaleRunning == {a \in Live : att[a].gen < gen /\ att[a].st = "running"}

Stale == {a \in Live : att[a].gen < gen}

handleFence ==
  /\ ctl = "starting"
  /\ ctl' = "up"
  /\ att' = Fenced(att, Stale)
  /\ run' = Waiting(run, Released(Stale))
  /\ UNCHANGED <<mode, left, task, obl, gen, ver, refused>>

Crash ==
  /\ Serving
  /\ gen < MaxGen
  /\ ctl' = "down"
  /\ ver' = {}
  /\ refused' = FALSE
  /\ UNCHANGED <<mode, left, task, run, att, obl, gen>>

------------------------------------------------------------------------------
(* Verification.                                                             *)

\* The controller claims a sealed request nobody claimed and runs the
\* verifier outside any transaction.
handleVerificationClaim(a) ==
  /\ ctl = "up"
  /\ att[a].job = "pending"
  /\ ~att[a].claimed
  /\ att' = [att EXCEPT ![a].claimed = TRUE]
  /\ ver' = ver \cup {a}
  /\ UNCHANGED <<mode, left, task, run, obl, ctl, gen, refused>>

\* A verifier that fails, or whose result the owner refuses, is given up.
abandonVerification(a) ==
  /\ a \in ver
  /\ ver' = ver \ {a}
  /\ UNCHANGED <<mode, left, task, run, att, obl, ctl, gen, refused>>

\* _tasks.evidence.record: the verdict's lineage, kept under the task's
\* current attempt.
Evidenced(t, a) == [t EXCEPT !.proof = a]

\* Mutant: whatever did not fail passed.
EffectiveVerdictLenient(v, childrenDone) ==
  IF v = "passed" /\ ~childrenDone THEN "failed"
  ELSE IF v = "inconclusive" THEN "passed" ELSE v

EffectiveVerdict(v, childrenDone) ==
  IF v = "passed" /\ ~childrenDone THEN "failed" ELSE v

\* _execution.verification.record.  A passed verdict with a required child
\* that has not succeeded keeps the job's finding and fails the task; an
\* inconclusive one leaves task and run verifying.
handleVerificationRecord(a, v, childrenDone) ==
  LET r == att[a].run
      eff == EffectiveVerdict(v, childrenDone)
      t == IF eff \in {"passed", "failed"} THEN Evidenced(task, a) ELSE task
      target == CASE eff = "passed" -> IF mode = "manual" THEN "waiting" ELSE "succeeded"
                  [] eff \in {"failed", "tampered"} -> "failed"
                  [] OTHER -> t.st
  IN
  /\ ctl = "up"
  /\ a \in ver
  /\ att[a].st = "reported"
  /\ att[a].job = "pending"
  /\ ver' = ver \ {a}
  /\ att' = [att EXCEPT ![a].job = v, ![a].claimed = FALSE,
                         ![a].st = IF eff = "passed" THEN @ ELSE "failed"]
  /\ IF eff = "inconclusive" THEN UNCHANGED <<task, run>>
     ELSE /\ eff \in {"passed", "failed"} => task.st \notin Terminal \cup {"draft", "ready"}
          /\ CanMove(t, target)
          /\ task' = Moved(t, target)
          /\ run' = [run EXCEPT ![r].st = target]
  /\ UNCHANGED <<mode, left, obl, ctl, gen, refused>>

------------------------------------------------------------------------------
(* Time passes for the leases that run and for the root deadline.            *)
ClockStep ==
  /\ left > 0 \/ \E a \in Live : att[a].ttl > 0
  /\ left' = IF left = 0 THEN 0 ELSE left - 1
  /\ att' = [a \in Attempts |->
               IF a \in Live /\ att[a].ttl > 0 THEN [att[a] EXCEPT !.ttl = @ - 1] ELSE att[a]]
  /\ UNCHANGED <<mode, task, run, obl, ctl, gen, ver, refused>>

XInit ==
  /\ mode \in Modes
  /\ left = Deadline
  /\ task = [st |-> "draft", prior |-> "none", intent |-> FALSE,
             est |-> "none", proof |-> 0, pinned |-> FALSE]
  /\ run = <<>>
  /\ att = <<>>
  /\ obl = {}
  /\ ctl = "up"
  /\ gen = 1
  /\ ver = {}
  /\ refused = FALSE

TaskStep ==
  startTask \/ reviseContract \/ requestCancellation \/ retryTask \/ manualAcceptance

XNext ==
  \/ TaskStep
  \/ \E r \in DOMAIN run : admitAttempt(r) \/ handleRunCancel(r)
  \/ \E a \in Attempts :
       \/ handleAttemptHeartbeat(a)
       \/ handleAttemptCheckpoint(a)
       \/ reportAttempt(a)
       \/ handleAttemptCancel(a)
       \/ \E d \in {"succeeded", "failed", "unknown"} : handleObservation(a, d)
       \/ handleVerificationClaim(a)
       \/ abandonVerification(a)
       \/ \E v \in Verdicts, c \in BOOLEAN : handleVerificationRecord(a, v, c)
  \/ handleTick \/ refusedTick
  \/ Crash \/ AdvanceGeneration \/ handleFence
  \/ ClockStep

\* The scheduler keeps ticking while it runs, and serve restarts a controller
\* that stopped.  Nothing keeps a refused tick from being refused again and
\* again, so after one no commit is promised.
XSpec ==
  /\ XInit /\ [][XNext]_xvars
  /\ WF_xvars(~refused /\ handleTick)
  /\ WF_xvars(AdvanceGeneration)
  /\ WF_xvars(handleFence)

------------------------------------------------------------------------------
(* Properties.                                                               *)

(* The state's types. *)
XTypeOK ==
  /\ mode \in Modes
  /\ left \in 0..Deadline
  /\ task \in [st: TaskStates, prior: TaskStates \cup {"none"}, intent: BOOLEAN,
               est: {"none", "verification", "manual"},
               proof: 0..MaxAttempts, pinned: BOOLEAN]
  /\ Len(run) <= MaxRuns
  /\ \A r \in DOMAIN run :
       run[r] \in [st: RunStates, steps: 0..StepLimit]
  /\ Len(att) <= MaxAttempts
  /\ \A a \in Attempts :
       att[a] \in [run: DOMAIN run, gen: 1..MaxGen, st: AttemptStates, ttl: 0..Window,
                  ctx: BOOLEAN, op: BOOLEAN, job: Verdicts \cup {"none", "pending"},
                  claimed: BOOLEAN]
  /\ obl \subseteq Attempts
  /\ ctl \in {"down", "starting", "up"}
  /\ gen \in 1..MaxGen
  /\ ver \subseteq Attempts
  /\ refused \in BOOLEAN

\* Only a recorded verdict proves a task: one that succeeded by verification
\* names an attempt that reported before its lease lapsed and whose own job
\* passed, and a manual contract never succeeds that way
\* (handleVerificationRecord, evaluateSuccess).
SuccessIsProven ==
  task.st = "succeeded" =>
    IF task.est = "verification"
    THEN /\ mode = "independent"
         /\ task.proof \in Attempts
         /\ att[task.proof].job = "passed"
         /\ att[task.proof].st = "reported"
         /\ run[att[task.proof].run].st = "succeeded"
    ELSE mode = "manual"

\* The model-step bound belongs to the run, not to an attempt: however often
\* attempts lapse and are replaced, the steps counted plus the one in flight
\* for a live attempt stay within it (admitAttempt, handleObservation).
StepsShared ==
  \A r \in DOMAIN run :
    run[r].steps + Cardinality({a \in LiveOf(r) : att[a].op}) <= StepLimit

\* A task that is ready and not asked to cancel has a run of its current
\* contract that a worker can claim: no start, retry, assignment or input
\* update leaves a ready task nobody will execute (startTask, enqueueRun).
ReadyIsQueued ==
  task.st = "ready" /\ ~task.intent =>
    task.pinned /\ run # <<>> /\ Last(run).st = "ready"

\* Once a controller is up, no attempt of an older generation is live, even
\* if it was claimed, renewed or checkpointed between the generation's
\* advance and the fence (handleFence).
StaleAreFenced == ctl = "up" => \A a \in Live : att[a].gen = gen

\* A recorded cancellation intent stops new work at once and for good: until
\* a retry clears it no attempt is claimed, no model effect is prepared, and
\* the task enters neither running nor verifying (applyTransition,
\* handleTick, handleObservation).
IntentStopsWork ==
  [][task.intent /\ task'.intent =>
       /\ Len(att') = Len(att)
       /\ \A a \in Attempts : att'[a].op => att[a].op
       /\ task'.st \in {"running", "verifying"} => task'.st = task.st]_xvars

\* Per run, attempts are leases: one holder at a time, and one that lost the
\* run is never a holder again, through expiry, restarts, cancellation,
\* reports and late observations.
LeaseHolder ==
  [r \in 1..MaxRuns |-> IF LiveOf(r) = {} THEN 0 ELSE CHOOSE a \in LiveOf(r) : TRUE]

Ownership == INSTANCE Lease WITH
  Runs <- 1..MaxRuns, Holders <- 1..MaxAttempts,
  holder <- LeaseHolder, spent <- Attempts \ Live

RunsAreLeased == Ownership!LeaseSpec

\* A lease that lapsed is fenced, even across controller restarts, unless a
\* tick is refused first: the run stays owned by a worker that stopped
\* renewing it only while refusals roll the ticks back (handleTick,
\* Controller.executionTick).
LapsedIsFenced ==
  \A a \in 1..MaxAttempts :
    (a \in Live /\ att[a].ttl = 0) ~> (a \notin Live \/ refused)

\* What the comment of fenceAttempt says of the task: "running" means a live
\* attempt.  The restart fence does not keep it.
RunningMeansLive == task.st = "running" => Live # {}

================================================================================
