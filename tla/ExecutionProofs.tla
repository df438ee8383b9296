---------------------------- MODULE ExecutionProofs ----------------------------
(***************************************************************************)
(* Proofs about a task, its runs and its attempts, for any number of runs, *)
(* attempts, model steps, clock steps and controller lifetimes: a run has  *)
(* one live attempt and its step bound is shared, no attempt of an older   *)
(* generation is live under a running controller, success is proven, a     *)
(* ready task is queued, a cancellation intent stops work, and attempts    *)
(* implement the abstract lease.                                           *)
(***************************************************************************)
EXTENDS Execution, FiniteSetTheorems, TLAPS

TaskRow == [st : TaskStates, prior : TaskStates \cup {"none"}, intent : BOOLEAN,
            est : {"none", "verification", "manual"},
            proof : 0..MaxAttempts, pinned : BOOLEAN]

RunRow == [st : RunStates, steps : 0..StepLimit]

AttRow == [run : 1..MaxRuns, gen : 1..MaxGen, st : AttemptStates, ttl : 0..Window,
           ctx : BOOLEAN, op : BOOLEAN, job : Verdicts \cup {"none", "pending"},
           claimed : BOOLEAN]

\* The types, with runs and attempts as sequences of rows.
RowsOK ==
  /\ mode \in Modes
  /\ left \in 0..Deadline
  /\ task \in TaskRow
  /\ run \in Seq(RunRow) /\ Len(run) <= MaxRuns
  /\ att \in Seq(AttRow) /\ Len(att) <= MaxAttempts
  /\ obl \subseteq Attempts
  /\ ctl \in {"down", "starting", "up"}
  /\ gen \in 1..MaxGen
  /\ ver \subseteq Attempts

\* An attempt belongs to a run that was claimed, under a generation that was
\* reached; a live one has a step left.
AttemptInv(a) ==
  /\ att[a].run <= Len(run)
  /\ att[a].gen <= gen
  /\ run[att[a].run].st # "ready"
  /\ a \in Live => run[att[a].run].steps < StepLimit

\* A run has at most one live attempt.
OneLive == \A a, b \in Live : att[a].run = att[b].run => a = b

XInv ==
  /\ RowsOK
  /\ ctl = "down" => gen < MaxGen
  /\ \A a \in Attempts : AttemptInv(a)
  /\ OneLive
  /\ StaleAreFenced
  /\ SuccessIsProven
  /\ ReadyIsQueued

--------------------------------------------------------------------------------
(* Rows                                                                       *)

\* A function on 1..n is a sequence.
LEMMA FunctionIsSeq ==
  ASSUME NEW S, NEW n \in Nat, NEW f \in [1..n -> S]
  PROVE  f \in Seq(S) /\ Len(f) = n /\ DOMAIN f = 1..n
OBVIOUS

(* A sequence is a function on 1..Len. *)
LEMMA SeqFacts ==
  ASSUME NEW S, NEW s \in Seq(S)
  PROVE  /\ s \in [1..Len(s) -> S] /\ DOMAIN s = 1..Len(s) /\ Len(s) \in Nat
         /\ \A i \in 1..Len(s) : s[i] \in S
OBVIOUS

(* One field of an attempt's row is set. *)
LEMMA AttRowFields ==
  ASSUME NEW r \in AttRow
  PROVE  /\ \A x \in AttemptStates : [r EXCEPT !.st = x] \in AttRow
         /\ \A x \in 0..Window : [r EXCEPT !.ttl = x] \in AttRow
         /\ \A x \in BOOLEAN : /\ [r EXCEPT !.ctx = x] \in AttRow
                               /\ [r EXCEPT !.op = x] \in AttRow
                               /\ [r EXCEPT !.claimed = x] \in AttRow
         /\ \A x \in Verdicts \cup {"none", "pending"} : [r EXCEPT !.job = x] \in AttRow
BY DEF AttRow

(* One field of the task's row is set. *)
LEMMA TaskRowFields ==
  ASSUME NEW t \in TaskRow
  PROVE  /\ \A x \in TaskStates : [t EXCEPT !.st = x] \in TaskRow
         /\ \A x \in TaskStates \cup {"none"} : [t EXCEPT !.prior = x] \in TaskRow
         /\ \A x \in BOOLEAN : /\ [t EXCEPT !.intent = x] \in TaskRow
                               /\ [t EXCEPT !.pinned = x] \in TaskRow
         /\ \A x \in {"none", "verification", "manual"} : [t EXCEPT !.est = x] \in TaskRow
         /\ \A x \in 0..MaxAttempts : [t EXCEPT !.proof = x] \in TaskRow
BY DEF TaskRow

\* Moved: the row a task transition leaves.
LEMMA MovedRow ==
  ASSUME NEW t \in TaskRow, NEW s \in TaskStates
  PROVE  /\ Moved(t, s) \in TaskRow
         /\ Moved(t, s).st = s
         /\ Moved(t, s).intent = t.intent
         /\ Moved(t, s).proof = t.proof
         /\ Moved(t, s).est = IF s = "succeeded" THEN "verification" ELSE t.est
<1> DEFINE p == IF s = "waiting" THEN t.st ELSE "none"
           e == IF s = "succeeded" THEN "verification" ELSE t.est
<1>1. p \in TaskStates \cup {"none"} /\ e \in {"none", "verification", "manual"}
  BY DEF TaskRow
<1>2. Moved(t, s) = [t EXCEPT !.st = s, !.prior = p, !.est = e, !.pinned = FALSE]
  BY DEF Moved
<1> HIDE DEF p, e
<1>3. [t EXCEPT !.st = s, !.prior = p, !.est = e, !.pinned = FALSE] \in TaskRow
  BY <1>1, TaskRowFields
<1>4. /\ Moved(t, s).st = s
      /\ Moved(t, s).intent = t.intent
      /\ Moved(t, s).proof = t.proof
      /\ Moved(t, s).est = e
  BY <1>2 DEF TaskRow
<1> QED
  BY <1>2, <1>3, <1>4 DEF e

\* Ended: the attempts S are over, the others are as they were.
LEMMA EndedRows ==
  ASSUME NEW rs \in Seq(AttRow), NEW S, NEW st \in AttemptStates
  PROVE  /\ Ended(rs, S, st) \in Seq(AttRow)
         /\ Len(Ended(rs, S, st)) = Len(rs)
         /\ DOMAIN Ended(rs, S, st) = 1..Len(rs)
         /\ \A a \in 1..Len(rs) :
              /\ a \notin S => Ended(rs, S, st)[a] = rs[a]
              /\ a \in S => Ended(rs, S, st)[a].st = st
              /\ Ended(rs, S, st)[a].run = rs[a].run
              /\ Ended(rs, S, st)[a].gen = rs[a].gen
              /\ Ended(rs, S, st)[a].op = rs[a].op
              /\ Ended(rs, S, st)[a].job = rs[a].job
<1> DEFINE e(a) == [rs[a] EXCEPT !.st = st, !.ttl = 0, !.ctx = FALSE]
<1>1. \A a \in 1..Len(rs) : rs[a] \in AttRow
  BY SeqFacts
<1>2. \A a \in 1..Len(rs) : e(a) \in AttRow
  <2>1. 0 \in 0..Window
    BY ExecutionAssumption
  <2> QED
    BY <1>1, <2>1, AttRowFields
<1>3. \A a \in 1..Len(rs) :
        e(a).st = st /\ e(a).run = rs[a].run /\ e(a).gen = rs[a].gen /\ e(a).op = rs[a].op
          /\ e(a).job = rs[a].job
  BY <1>1 DEF AttRow
<1>4. Ended(rs, S, st) = [a \in 1..Len(rs) |-> IF a \in S THEN e(a) ELSE rs[a]]
  BY SeqFacts DEF Ended
<1> HIDE DEF e
<1>5. Ended(rs, S, st) \in [1..Len(rs) -> AttRow]
  BY <1>1, <1>2, <1>4
<1>6. Len(rs) \in Nat
  BY SeqFacts
<1> QED
  BY <1>3, <1>4, <1>5, <1>6, FunctionIsSeq

\* Fenced: the same, and their effects are not waited for.
LEMMA FencedRows ==
  ASSUME NEW rs \in Seq(AttRow), NEW S
  PROVE  /\ Fenced(rs, S) \in Seq(AttRow)
         /\ Len(Fenced(rs, S)) = Len(rs)
         /\ DOMAIN Fenced(rs, S) = 1..Len(rs)
         /\ \A a \in 1..Len(rs) :
              /\ a \notin S => Fenced(rs, S)[a] = rs[a]
              /\ a \in S => Fenced(rs, S)[a].st = "fenced"
              /\ Fenced(rs, S)[a].run = rs[a].run
              /\ Fenced(rs, S)[a].gen = rs[a].gen
              /\ Fenced(rs, S)[a].op => rs[a].op
              /\ Fenced(rs, S)[a].job = rs[a].job
<1> DEFINE e == Ended(rs, S, "fenced")
           b(a) == e[a].op /\ a \notin S
           f(a) == [e[a] EXCEPT !.op = b(a)]
<1>1. "fenced" \in AttemptStates
  BY DEF AttemptStates
<1>2. /\ \A a \in 1..Len(rs) :
           /\ e[a] \in AttRow
           /\ a \notin S => e[a] = rs[a]
           /\ a \in S => e[a].st = "fenced"
           /\ e[a].run = rs[a].run
           /\ e[a].gen = rs[a].gen
           /\ e[a].op = rs[a].op
           /\ e[a].job = rs[a].job
      /\ Len(rs) \in Nat /\ DOMAIN rs = 1..Len(rs)
  BY <1>1, EndedRows, SeqFacts
<1>3. Fenced(rs, S) = [a \in 1..Len(rs) |-> f(a)]
  BY <1>2 DEF Fenced
<1> HIDE DEF e
<1>a. \A a \in 1..Len(rs) : b(a) \in BOOLEAN /\ (b(a) => e[a].op)
  OBVIOUS
<1>b. \A a \in 1..Len(rs) : a \notin S => b(a) = e[a].op
  <2> SUFFICES ASSUME NEW a \in 1..Len(rs), a \notin S
               PROVE  b(a) = e[a].op
    OBVIOUS
  <2>1. e[a].op \in BOOLEAN
    BY <1>2 DEF AttRow
  <2> QED
    BY <2>1, Zenon
<1> HIDE DEF b
<1>d. \A a \in 1..Len(rs) : f(a) \in AttRow
  BY <1>2, <1>a, AttRowFields
<1>4. \A a \in 1..Len(rs) :
        /\ f(a).st = e[a].st /\ f(a).run = e[a].run /\ f(a).gen = e[a].gen
        /\ f(a).op = b(a)
        /\ f(a).job = e[a].job
  BY <1>2 DEF AttRow
<1>c. \A a \in 1..Len(rs) : a \notin S => f(a) = e[a]
  BY <1>2, <1>b DEF AttRow
<1> HIDE DEF f
<1>e. \A a \in 1..Len(rs) : f(a).op => rs[a].op
  BY <1>2, <1>4, <1>a
<1>5. Fenced(rs, S) \in [1..Len(rs) -> AttRow]
  BY <1>3, <1>d
<1> QED
  BY <1>2, <1>3, <1>4, <1>c, <1>e, <1>5, FunctionIsSeq

\* Waiting: the runs R wait, the others are as they were.
LEMMA WaitingRows ==
  ASSUME NEW rs \in Seq(RunRow), NEW R
  PROVE  /\ Waiting(rs, R) \in Seq(RunRow)
         /\ Len(Waiting(rs, R)) = Len(rs)
         /\ DOMAIN Waiting(rs, R) = 1..Len(rs)
         /\ \A r \in 1..Len(rs) :
              /\ Waiting(rs, R)[r].steps = rs[r].steps
              /\ Waiting(rs, R)[r].st = IF r \in R THEN "waiting" ELSE rs[r].st
<1> DEFINE w(r) == [rs[r] EXCEPT !.st = "waiting"]
<1>1. \A r \in 1..Len(rs) : rs[r] \in RunRow
  BY SeqFacts
<1>2. \A r \in 1..Len(rs) :
        w(r) \in RunRow /\ w(r).st = "waiting" /\ w(r).steps = rs[r].steps
  BY <1>1 DEF RunRow, RunStates
<1>3. Waiting(rs, R) = [r \in 1..Len(rs) |-> IF r \in R THEN w(r) ELSE rs[r]]
  BY SeqFacts DEF Waiting
<1> HIDE DEF w
<1>4. Waiting(rs, R) \in [1..Len(rs) -> RunRow]
  BY <1>1, <1>2, <1>3
<1>5. Len(rs) \in Nat
  BY SeqFacts
<1> QED
  BY <1>2, <1>3, <1>4, <1>5, FunctionIsSeq

--------------------------------------------------------------------------------
(* What a step may do, and what that keeps                                     *)

(* The types of single rows. *)
LEMMA Rows ==
  ASSUME RowsOK
  PROVE  /\ Attempts = 1..Len(att) /\ Len(att) \in Nat /\ DOMAIN run = 1..Len(run)
         /\ Len(run) \in Nat
         /\ \A a \in 1..Len(att) : att[a] \in AttRow
         /\ \A r \in 1..Len(run) : run[r] \in RunRow
         /\ task \in TaskRow
BY SeqFacts DEF RowsOK, Attempts

(* The types of single rows after a step. *)
LEMMA RowsNext ==
  ASSUME RowsOK'
  PROVE  /\ Attempts' = 1..Len(att') /\ Len(att') \in Nat /\ DOMAIN run' = 1..Len(run')
         /\ Len(run') \in Nat
         /\ \A a \in 1..Len(att') : att'[a] \in AttRow
         /\ \A r \in 1..Len(run') : run'[r] \in RunRow
         /\ task' \in TaskRow
BY SeqFacts DEF RowsOK, Attempts

\* No attempt is claimed, and none comes back to life.
KeepsAttempts ==
  /\ Len(att') = Len(att)
  /\ \A a \in 1..Len(att) :
       /\ att'[a].run = att[a].run
       /\ att'[a].gen = att[a].gen
       /\ att'[a].st \in LiveStates => att[a].st \in LiveStates

\* No run is ready again, and a counted step leaves another one to the run's
\* live attempt.
KeepsRuns ==
  /\ Len(run') >= Len(run)
  /\ \A r \in 1..Len(run) :
       /\ run'[r].st = "ready" => run[r].st = "ready"
       /\ \/ run'[r].steps = run[r].steps
          \/ run'[r].steps < StepLimit
          \/ \A a \in 1..Len(att) : att[a].run = r => att'[a].st \notin LiveStates

\* What a step that keeps both leaves of the invariant.
LEMMA LeasesKept ==
  ASSUME XInv, RowsOK', KeepsAttempts, KeepsRuns, UNCHANGED <<ctl, gen>>
  PROVE  /\ (ctl = "down" => gen < MaxGen)'
         /\ \A a \in Attempts' : AttemptInv(a)'
         /\ OneLive'
         /\ StaleAreFenced'
<1>1. /\ Attempts = 1..Len(att) /\ Attempts' = 1..Len(att) /\ Len(att) \in Nat
      /\ Len(run) \in Nat /\ Len(run') \in Nat
      /\ \A a \in 1..Len(att) : att[a].run \in 1..Len(run)
  <2>1. RowsOK /\ \A a \in Attempts : AttemptInv(a)
    BY DEF XInv
  <2>2. \A a \in 1..Len(att) : att[a].run \in 1..MaxRuns
    BY <2>1, Rows DEF AttRow
  <2> QED
    BY <2>1, <2>2, Rows, RowsNext, ExecutionAssumption DEF AttemptInv, KeepsAttempts
<1>2. \A a \in 1..Len(att) : a \in Live' => a \in Live
  BY <1>1 DEF KeepsAttempts, Live
<1>3. \A a \in 1..Len(att) : AttemptInv(a)'
  <2> SUFFICES ASSUME NEW a \in 1..Len(att)
               PROVE  AttemptInv(a)'
    OBVIOUS
  <2>1. AttemptInv(a) /\ att[a].run \in 1..Len(run) /\ att'[a].run = att[a].run
    BY <1>1 DEF XInv, KeepsAttempts
  <2>2. a \in Live' => run'[att[a].run].steps < StepLimit
    BY <1>1, <1>2, <2>1 DEF AttemptInv, KeepsRuns, Live
  <2>3. att'[a].run <= Len(run') /\ att'[a].gen <= gen' /\ run'[att'[a].run].st # "ready"
    BY <1>1, <2>1 DEF AttemptInv, KeepsAttempts, KeepsRuns
  <2> QED
    BY <2>1, <2>2, <2>3 DEF AttemptInv
<1>4. OneLive'
  BY <1>1, <1>2 DEF XInv, OneLive, KeepsAttempts, Live
<1>5. StaleAreFenced'
  BY <1>1, <1>2 DEF XInv, StaleAreFenced, KeepsAttempts, Live
<1> QED
  BY <1>1, <1>3, <1>4, <1>5 DEF XInv

\* A success stays proven: the proving attempt and its run are left alone.
LEMMA SuccessKept ==
  ASSUME XInv, RowsOK', mode' = mode, KeepsAttempts, Len(run') >= Len(run),
         task'.st = "succeeded" =>
           task.st = "succeeded" /\ task'.est = task.est /\ task'.proof = task.proof,
         task'.st = "succeeded" => \A a \in 1..Len(att) :
           att[a].st = "reported" /\ att[a].job = "passed" =>
             att'[a].st = "reported" /\ att'[a].job = "passed",
         task'.st = "succeeded" => \A r \in 1..Len(run) :
           run[r].st = "succeeded" => run'[r].st = "succeeded"
  PROVE  SuccessIsProven'
<1>1. /\ Attempts = 1..Len(att) /\ Attempts' = 1..Len(att)
      /\ \A a \in 1..Len(att) : att[a].run \in 1..Len(run)
  <2>1. RowsOK /\ \A a \in Attempts : AttemptInv(a)
    BY DEF XInv
  <2>2. \A a \in 1..Len(att) : att[a].run \in 1..MaxRuns
    BY <2>1, Rows DEF AttRow
  <2> QED
    BY <2>1, <2>2, Rows, RowsNext, ExecutionAssumption, SMTT(30) DEF AttemptInv, KeepsAttempts
<1> QED
  BY <1>1, SMTT(30) DEF XInv, SuccessIsProven, KeepsAttempts

\* A ready task stays queued: only attempts move runs, and the run it waits for
\* has none.
LEMMA ReadyKept ==
  ASSUME XInv, RowsOK',
         task'.st = "ready" /\ ~task'.intent =>
           /\ task' = task
           /\ Len(run') = Len(run)
           /\ \A r \in 1..Len(run) :
                (\A a \in 1..Len(att) : att[a].run # r) => run'[r].st = run[r].st
  PROVE  ReadyIsQueued'
<1> SUFFICES ASSUME task'.st = "ready", ~task'.intent
             PROVE  task'.pinned /\ run' # <<>> /\ Last(run').st = "ready"
  BY DEF ReadyIsQueued
<1>1. task' = task /\ task.pinned /\ run # <<>> /\ Last(run).st = "ready"
  BY DEF XInv, ReadyIsQueued
<1>2. /\ run \in Seq(RunRow) /\ run' \in Seq(RunRow)
      /\ Attempts = 1..Len(att)
      /\ \A a \in Attempts : run[att[a].run].st # "ready"
  BY Rows DEF XInv, RowsOK, AttemptInv
<1>3. Len(run) \in 1..Len(run) /\ run[Len(run)].st = "ready" /\ Len(run') = Len(run)
  BY <1>1, <1>2 DEF Last
<1>4. run'[Len(run')].st = "ready" /\ run' # <<>>
  BY <1>2, <1>3
<1> QED
  BY <1>1, <1>4 DEF Last

--------------------------------------------------------------------------------
(* Steps of the task                                                           *)

\* enqueueRun: afterwards the task's version has its run, a fresh one unless
\* it had one already.
LEMMA EnqueueRows ==
  ASSUME XInv, NEW t \in TaskRow, Enqueue(t)
  PROVE  /\ task' \in TaskRow
         /\ task'.st = t.st /\ task'.intent = t.intent /\ task'.pinned
         /\ run' \in Seq(RunRow) /\ Len(run') <= MaxRuns
         /\ KeepsRuns
         /\ IF t.pinned THEN task' = t /\ run' = run
            ELSE run' # <<>> /\ Last(run').st = "ready"
<1>0. run \in Seq(RunRow) /\ Len(run) <= MaxRuns
  BY DEF XInv, RowsOK
<1>1. CASE t.pinned
  <2>1. task' = t /\ run' = run
    BY <1>1 DEF Enqueue
  <2> QED
    BY <1>0, <1>1, <2>1 DEF KeepsRuns
<1>2. CASE ~t.pinned
  <2> DEFINE row == [st |-> "ready", steps |-> 0]
  <2>1. /\ Len(run) < MaxRuns
        /\ task' = [t EXCEPT !.pinned = TRUE]
        /\ run' = Append(run, row)
    BY <1>2 DEF Enqueue
  <2>2. row \in RunRow /\ row.st = "ready"
    BY ExecutionAssumption DEF RunRow, RunStates
  <2> HIDE DEF row
  <2>3. task' \in TaskRow
    BY <2>1, TaskRowFields
  <2>4. task'.st = t.st /\ task'.intent = t.intent /\ task'.pinned = TRUE
    BY <2>1 DEF TaskRow
  <2>5. run' \in Seq(RunRow) /\ Len(run') = Len(run) + 1 /\ run'[Len(run')] = row
    BY <1>0, <2>1, <2>2
  <2>6. KeepsRuns
    BY <1>0, <2>1, <2>2 DEF KeepsRuns
  <2>7. Len(run') <= MaxRuns /\ run' # <<>>
    BY <1>0, <2>1, <2>5, ExecutionAssumption
  <2> QED
    BY <1>2, <2>2, <2>3, <2>4, <2>5, <2>6, <2>7 DEF Last
<1> QED
  BY <1>1, <1>2

\* A step of the task: it leaves the attempts and the controller alone, never
\* makes the task succeed but by an operator's acceptance, and keeps it queued.
LEMMA TaskStepKeeps ==
  ASSUME XInv, UNCHANGED <<mode, left, att, obl, ctl, gen, ver>>,
         task' \in TaskRow, run' \in Seq(RunRow), Len(run') <= MaxRuns, KeepsRuns,
         task'.st = "succeeded" => mode = "manual" /\ task'.est = "manual",
         ReadyIsQueued'
  PROVE  XInv' /\ KeepsAttempts
<1>1. RowsOK'
  BY DEF XInv, RowsOK, Attempts
<1>2. KeepsAttempts
  BY Rows DEF XInv, KeepsAttempts
<1>3. SuccessIsProven'
  BY DEF SuccessIsProven
<1> QED
  BY <1>1, <1>2, <1>3, LeasesKept DEF XInv

\* startTask.
LEMMA StartTaskKeeps ==
  ASSUME XInv, startTask
  PROVE  XInv' /\ KeepsAttempts
<1>0. task \in TaskRow /\ ~task.intent /\ UNCHANGED <<mode, left, att, obl, ctl, gen, ver>>
  BY Rows DEF XInv, startTask
<1>1. CASE task.st = "draft" /\ Enqueue(Moved(task, "ready"))
  <2>1. /\ Moved(task, "ready") \in TaskRow /\ Moved(task, "ready").st = "ready"
        /\ Moved(task, "ready").pinned = FALSE
    <3>1. "ready" \in TaskStates
      BY DEF TaskStates
    <3>2. Moved(task, "ready").pinned = FALSE
      BY <1>0 DEF Moved, TaskRow
    <3> QED
      BY <1>0, <3>1, <3>2, MovedRow
  <2>2. /\ task' \in TaskRow /\ task'.st = "ready" /\ task'.pinned
        /\ run' \in Seq(RunRow) /\ Len(run') <= MaxRuns /\ KeepsRuns
        /\ run' # <<>> /\ Last(run').st = "ready"
    BY <1>1, <2>1, EnqueueRows
  <2>3. ReadyIsQueued'
    BY <2>2 DEF ReadyIsQueued
  <2> QED
    BY <1>0, <2>2, <2>3, TaskStepKeeps
<1>2. CASE task.st = "ready" /\ Enqueue(task)
  <2>1. task.pinned /\ run # <<>> /\ Last(run).st = "ready"
    BY <1>0, <1>2 DEF XInv, ReadyIsQueued
  <2>2. /\ task' \in TaskRow /\ task'.st = "ready" /\ task'.pinned
        /\ run' \in Seq(RunRow) /\ Len(run') <= MaxRuns /\ KeepsRuns /\ run' = run
    BY <1>0, <1>2, <2>1, EnqueueRows
  <2>3. ReadyIsQueued'
    BY <2>1, <2>2 DEF ReadyIsQueued
  <2> QED
    BY <1>0, <2>2, <2>3, TaskStepKeeps
<1> QED
  BY <1>1, <1>2 DEF startTask

\* reviseContract.
LEMMA ReviseContractKeeps ==
  ASSUME XInv, reviseContract
  PROVE  XInv' /\ KeepsAttempts
<1> DEFINE t == [task EXCEPT !.pinned = FALSE]
<1>0. /\ task \in TaskRow /\ task.st \notin Terminal
      /\ UNCHANGED <<mode, left, att, obl, ctl, gen, ver>>
  BY Rows DEF XInv, reviseContract
<1>1. t \in TaskRow
  BY <1>0, TaskRowFields
<1>2. t.st = task.st /\ t.pinned = FALSE
  BY <1>0 DEF TaskRow
<1>3. CASE task.st = "ready"
  <2>1. Enqueue(t)
    BY <1>3 DEF reviseContract
  <2> HIDE DEF t
  <2>2. /\ task' \in TaskRow /\ task'.st = "ready" /\ task'.pinned
        /\ run' \in Seq(RunRow) /\ Len(run') <= MaxRuns /\ KeepsRuns
        /\ run' # <<>> /\ Last(run').st = "ready"
    BY <1>1, <1>2, <1>3, <2>1, EnqueueRows
  <2>3. ReadyIsQueued'
    BY <2>2 DEF ReadyIsQueued
  <2> QED
    BY <1>0, <2>2, <2>3, TaskStepKeeps
<1>4. CASE task.st # "ready"
  <2>1. task' = t /\ run' = run
    BY <1>4 DEF reviseContract
  <2> HIDE DEF t
  <2>2. KeepsRuns /\ run' \in Seq(RunRow) /\ Len(run') <= MaxRuns
    BY <2>1 DEF KeepsRuns, XInv, RowsOK
  <2>3. ReadyIsQueued'
    BY <1>2, <1>4, <2>1 DEF ReadyIsQueued
  <2> QED
    BY <1>0, <1>1, <1>2, <2>1, <2>2, <2>3, TaskStepKeeps DEF Terminal
<1> QED
  BY <1>3, <1>4

\* requestCancellation.
LEMMA RequestCancellationKeeps ==
  ASSUME XInv, requestCancellation
  PROVE  XInv' /\ KeepsAttempts
<1>0. /\ task \in TaskRow /\ task.st \notin Terminal /\ run' = run
      /\ task' = [task EXCEPT !.intent = TRUE, !.pinned = FALSE]
      /\ UNCHANGED <<mode, left, att, obl, ctl, gen, ver>>
  BY Rows DEF XInv, requestCancellation
<1>1. task' \in TaskRow
  BY <1>0, TaskRowFields
<1>2. task'.st = task.st /\ task'.intent = TRUE
  BY <1>0 DEF TaskRow
<1>3. KeepsRuns /\ run' \in Seq(RunRow) /\ Len(run') <= MaxRuns
  BY <1>0 DEF KeepsRuns, XInv, RowsOK
<1>4. ReadyIsQueued'
  BY <1>2 DEF ReadyIsQueued
<1> QED
  BY <1>0, <1>1, <1>2, <1>3, <1>4, TaskStepKeeps DEF Terminal

\* retryTask.
LEMMA RetryTaskKeeps ==
  ASSUME XInv, retryTask
  PROVE  XInv' /\ KeepsAttempts
<1> DEFINE t == [task EXCEPT !.st = "ready", !.prior = "none", !.intent = FALSE,
                             !.est = "none", !.proof = 0, !.pinned = FALSE]
<1>0. /\ task \in TaskRow /\ Enqueue(t)
      /\ UNCHANGED <<mode, left, att, obl, ctl, gen, ver>>
  BY Rows DEF XInv, retryTask
<1>1. t \in TaskRow
  <2>1. "ready" \in TaskStates /\ 0 \in 0..MaxAttempts
    BY ExecutionAssumption DEF TaskStates
  <2> QED
    BY <1>0, <2>1, TaskRowFields
<1>2. t.st = "ready" /\ t.pinned = FALSE
  BY <1>0 DEF TaskRow
<1> HIDE DEF t
<1>3. /\ task' \in TaskRow /\ task'.st = "ready" /\ task'.pinned
      /\ run' \in Seq(RunRow) /\ Len(run') <= MaxRuns /\ KeepsRuns
      /\ run' # <<>> /\ Last(run').st = "ready"
  BY <1>0, <1>1, <1>2, EnqueueRows
<1>4. ReadyIsQueued'
  BY <1>3 DEF ReadyIsQueued
<1> QED
  BY <1>0, <1>3, <1>4, TaskStepKeeps

\* manualAcceptance.
LEMMA ManualAcceptanceKeeps ==
  ASSUME XInv, manualAcceptance
  PROVE  XInv' /\ KeepsAttempts
<1>0. /\ task \in TaskRow /\ run' = run /\ mode = "manual"
      /\ \/ task' = [task EXCEPT !.st = "succeeded", !.est = "manual", !.pinned = FALSE]
         \/ task' = [task EXCEPT !.st = "failed", !.pinned = FALSE]
      /\ UNCHANGED <<mode, left, att, obl, ctl, gen, ver>>
  BY Rows DEF XInv, manualAcceptance
<1>1. task' \in TaskRow
  BY <1>0, TaskRowFields, ZenonT(40) DEF TaskStates
<1>2. task'.st \in {"succeeded", "failed"} /\ (task'.st = "succeeded" => task'.est = "manual")
  BY <1>0 DEF TaskRow
<1>3. KeepsRuns /\ run' \in Seq(RunRow) /\ Len(run') <= MaxRuns
  BY <1>0 DEF KeepsRuns, XInv, RowsOK
<1>4. ReadyIsQueued'
  BY <1>2 DEF ReadyIsQueued
<1> QED
  BY <1>0, <1>1, <1>2, <1>3, <1>4, TaskStepKeeps

--------------------------------------------------------------------------------
(* Claims, and steps of a worker                                               *)

\* One attempt's row replaced by another.
LEMMA OneAttempt ==
  ASSUME RowsOK, NEW a \in Attempts, NEW row \in AttRow,
         att' = [att EXCEPT ![a] = row]
  PROVE  /\ att' \in Seq(AttRow) /\ Len(att') = Len(att) /\ Attempts' = Attempts
         /\ \A b \in 1..Len(att) : att'[b] = IF b = a THEN row ELSE att[b]
<1>1. /\ att \in [1..Len(att) -> AttRow] /\ Len(att) \in Nat
      /\ a \in 1..Len(att) /\ Attempts = 1..Len(att)
  BY Rows, SeqFacts DEF RowsOK
<1>2. att' \in [1..Len(att) -> AttRow]
  BY <1>1
<1>3. att' \in Seq(AttRow) /\ Len(att') = Len(att) /\ DOMAIN att' = 1..Len(att)
  BY <1>1, <1>2, FunctionIsSeq
<1> QED
  BY <1>1, <1>3 DEF Attempts

\* One run moved to another state.
LEMMA OneRun ==
  ASSUME RowsOK, NEW r \in DOMAIN run, NEW st \in RunStates,
         run' = [run EXCEPT ![r].st = st]
  PROVE  /\ run' \in Seq(RunRow) /\ Len(run') = Len(run)
         /\ \A q \in 1..Len(run) : run'[q].steps = run[q].steps
         /\ \A q \in 1..Len(run) : run'[q].st = IF q = r THEN st ELSE run[q].st
<1> DEFINE row == [run[r] EXCEPT !.st = st]
<1>1. /\ run \in [1..Len(run) -> RunRow] /\ Len(run) \in Nat
      /\ r \in 1..Len(run) /\ run[r] \in RunRow
  BY Rows, SeqFacts DEF RowsOK
<1>2. row \in RunRow /\ row.st = st /\ row.steps = run[r].steps
  BY <1>1 DEF RunRow
<1>3. run' = [run EXCEPT ![r] = row]
  OBVIOUS
<1> HIDE DEF row
<1>4. run' \in [1..Len(run) -> RunRow]
  BY <1>1, <1>2, <1>3
<1> QED
  BY <1>1, <1>2, <1>3, <1>4, FunctionIsSeq

\* A step that writes attempt rows without moving an attempt or its job.
LEMMA LeaseStepKeeps ==
  ASSUME XInv, UNCHANGED <<mode, task, run, obl, ctl, gen>>, left' \in 0..Deadline,
         att' \in Seq(AttRow), Len(att') = Len(att), ver' \subseteq 1..Len(att),
         \A a \in 1..Len(att) :
           /\ att'[a].run = att[a].run /\ att'[a].gen = att[a].gen
           /\ att'[a].st = att[a].st /\ att'[a].job = att[a].job
  PROVE  XInv' /\ KeepsAttempts
<1>1. RowsOK /\ Attempts = 1..Len(att) /\ DOMAIN att' = 1..Len(att)
  BY Rows, SeqFacts DEF XInv
<1>2. RowsOK'
  BY <1>1 DEF RowsOK, Attempts
<1>3. KeepsAttempts /\ KeepsRuns
  BY <1>1 DEF KeepsAttempts, KeepsRuns, RowsOK
<1>4. SuccessIsProven'
  BY <1>1, <1>2, <1>3, SuccessKept DEF RowsOK, KeepsRuns
<1>5. ReadyIsQueued'
  BY DEF XInv, ReadyIsQueued
<1> QED
  BY <1>2, <1>3, <1>4, <1>5, LeasesKept DEF XInv

\* handleAttemptHeartbeat.
LEMMA HeartbeatKeeps ==
  ASSUME XInv, NEW a \in Attempts, handleAttemptHeartbeat(a)
  PROVE  XInv' /\ KeepsAttempts
<1> DEFINE row == [att[a] EXCEPT !.ttl = Window]
<1>1. RowsOK /\ att[a] \in AttRow /\ Attempts = 1..Len(att)
  BY Rows DEF XInv
<1>2. row \in AttRow
  BY <1>1, AttRowFields, ExecutionAssumption, SMTT(30)
<1>3. /\ row.run = att[a].run /\ row.gen = att[a].gen
      /\ row.st = att[a].st /\ row.job = att[a].job
  BY <1>1 DEF AttRow
<1>4. att' = [att EXCEPT ![a] = row]
  BY DEF handleAttemptHeartbeat
<1> HIDE DEF row
<1>5. /\ att' \in Seq(AttRow) /\ Len(att') = Len(att)
      /\ \A b \in 1..Len(att) : att'[b] = IF b = a THEN row ELSE att[b]
  BY <1>1, <1>2, <1>4, OneAttempt, ZenonT(40)
<1>6. UNCHANGED <<mode, task, run, obl, ctl, gen>> /\ left' \in 0..Deadline
  BY <1>1 DEF handleAttemptHeartbeat, RowsOK
<1>7. ver' \subseteq 1..Len(att)
  BY <1>1 DEF handleAttemptHeartbeat, RowsOK
<1> QED
  BY <1>3, <1>5, <1>6, <1>7, LeaseStepKeeps

\* handleAttemptCheckpoint.
LEMMA CheckpointKeeps ==
  ASSUME XInv, NEW a \in Attempts, handleAttemptCheckpoint(a)
  PROVE  XInv' /\ KeepsAttempts
<1> DEFINE row == [att[a] EXCEPT !.ctx = TRUE]
<1>1. RowsOK /\ att[a] \in AttRow /\ Attempts = 1..Len(att)
  BY Rows DEF XInv
<1>2. row \in AttRow
  BY <1>1, AttRowFields
<1>3. /\ row.run = att[a].run /\ row.gen = att[a].gen
      /\ row.st = att[a].st /\ row.job = att[a].job
  BY <1>1 DEF AttRow
<1>4. att' = [att EXCEPT ![a] = row]
  BY DEF handleAttemptCheckpoint
<1> HIDE DEF row
<1>5. /\ att' \in Seq(AttRow) /\ Len(att') = Len(att)
      /\ \A b \in 1..Len(att) : att'[b] = IF b = a THEN row ELSE att[b]
  BY <1>1, <1>2, <1>4, OneAttempt, ZenonT(40)
<1>6. UNCHANGED <<mode, task, run, obl, ctl, gen>> /\ left' \in 0..Deadline
  BY <1>1 DEF handleAttemptCheckpoint, RowsOK
<1>7. ver' \subseteq 1..Len(att)
  BY <1>1 DEF handleAttemptCheckpoint, RowsOK
<1> QED
  BY <1>3, <1>5, <1>6, <1>7, LeaseStepKeeps

\* handleVerificationClaim.
LEMMA VerificationClaimKeeps ==
  ASSUME XInv, NEW a \in Attempts, handleVerificationClaim(a)
  PROVE  XInv' /\ KeepsAttempts
<1> DEFINE row == [att[a] EXCEPT !.claimed = TRUE]
<1>1. RowsOK /\ att[a] \in AttRow /\ Attempts = 1..Len(att)
  BY Rows DEF XInv
<1>2. row \in AttRow
  BY <1>1, AttRowFields
<1>3. /\ row.run = att[a].run /\ row.gen = att[a].gen
      /\ row.st = att[a].st /\ row.job = att[a].job
  BY <1>1 DEF AttRow
<1>4. att' = [att EXCEPT ![a] = row] /\ ver' = ver \cup {a}
  BY DEF handleVerificationClaim
<1> HIDE DEF row
<1>5. /\ att' \in Seq(AttRow) /\ Len(att') = Len(att)
      /\ \A b \in 1..Len(att) : att'[b] = IF b = a THEN row ELSE att[b]
  BY <1>1, <1>2, <1>4, OneAttempt, ZenonT(40)
<1>6. UNCHANGED <<mode, task, run, obl, ctl, gen>> /\ left' \in 0..Deadline
  BY <1>1 DEF handleVerificationClaim, RowsOK
<1>7. ver' \subseteq 1..Len(att)
  BY <1>1, <1>4 DEF handleVerificationClaim, RowsOK
<1> QED
  BY <1>3, <1>5, <1>6, <1>7, LeaseStepKeeps

\* abandonVerification.
LEMMA AbandonKeeps ==
  ASSUME XInv, NEW a \in Attempts, abandonVerification(a)
  PROVE  XInv' /\ KeepsAttempts
<1>1. RowsOK /\ Attempts = 1..Len(att)
  BY Rows DEF XInv
<1> QED
  BY <1>1, LeaseStepKeeps DEF abandonVerification, RowsOK

\* ClockStep.
LEMMA ClockStepKeeps ==
  ASSUME XInv, ClockStep
  PROVE  XInv' /\ KeepsAttempts
<1> DEFINE row(a) == IF a \in Live /\ att[a].ttl > 0 THEN [att[a] EXCEPT !.ttl = @ - 1]
                     ELSE att[a]
<1>1. /\ RowsOK /\ Attempts = 1..Len(att) /\ Len(att) \in Nat
      /\ \A a \in 1..Len(att) : att[a] \in AttRow
  BY Rows DEF XInv
<1>2. \A a \in 1..Len(att) : row(a) \in AttRow
  <2> SUFFICES ASSUME NEW a \in 1..Len(att), att[a].ttl > 0
               PROVE  [att[a] EXCEPT !.ttl = @ - 1] \in AttRow
    BY <1>1
  <2>1. att[a].ttl - 1 \in 0..Window
    BY <1>1, ExecutionAssumption DEF AttRow
  <2> QED
    BY <1>1, <2>1, AttRowFields
<1>3. \A a \in 1..Len(att) :
        /\ row(a).run = att[a].run /\ row(a).gen = att[a].gen
        /\ row(a).st = att[a].st /\ row(a).job = att[a].job
  BY <1>1 DEF AttRow
<1>4. att' = [a \in 1..Len(att) |-> row(a)]
  BY <1>1 DEF ClockStep
<1> HIDE DEF row
<1>5. att' \in Seq(AttRow) /\ Len(att') = Len(att)
  BY <1>1, <1>2, <1>4, FunctionIsSeq
<1>6. left' \in 0..Deadline
  BY <1>1, ExecutionAssumption DEF ClockStep, RowsOK
<1> QED
  BY <1>1, <1>3, <1>4, <1>5, <1>6, LeaseStepKeeps DEF ClockStep, RowsOK

\* admitAttempt: the claimed run had no live attempt and a step left.
LEMMA AdmitKeeps ==
  ASSUME XInv, NEW r \in DOMAIN run, admitAttempt(r)
  PROVE  XInv'
<1> DEFINE ttl == IF left < Window THEN left ELSE Window
           row == [run |-> r, gen |-> gen, st |-> "claimed", ttl |-> ttl,
                   ctx |-> FALSE, op |-> FALSE, job |-> "none", claimed |-> FALSE]
<1>1. /\ RowsOK /\ Attempts = 1..Len(att) /\ Len(att) \in Nat /\ Len(run) \in Nat
      /\ r \in 1..Len(run) /\ run[r] \in RunRow /\ task \in TaskRow
      /\ \A a \in 1..Len(att) : att[a] \in AttRow
  BY Rows DEF XInv
<1>2. /\ Len(att) < MaxAttempts /\ LiveOf(r) = {} /\ run[r].steps < StepLimit
      /\ att' = Append(att, row)
      /\ run' = [run EXCEPT ![r].st = "running"]
      /\ task' = Moved(task, "running")
      /\ UNCHANGED <<mode, left, obl, ctl, gen, ver>>
  BY DEF admitAttempt, StepsRemain
<1>n. PICK n \in Nat : n = Len(att) + 1
  BY <1>1
<1>3. row \in AttRow
  <2>1. ttl \in 0..Window
    BY <1>1, ExecutionAssumption DEF RowsOK
  <2>2. r \in 1..MaxRuns /\ gen \in 1..MaxGen
    BY <1>1, ExecutionAssumption DEF RowsOK
  <2>3. "claimed" \in AttemptStates
    BY DEF AttemptStates, LiveStates
  <2> HIDE DEF ttl
  <2> QED
    BY <2>1, <2>2, <2>3 DEF AttRow
<1>4. row.run = r /\ row.gen = gen
  OBVIOUS
<1> HIDE DEF row, ttl
<1>5. /\ att' \in Seq(AttRow) /\ Len(att') = n /\ att'[n] = row
      /\ \A a \in 1..Len(att) : att'[a] = att[a]
      /\ Attempts' = 1..n
  <2>1. /\ att' \in Seq(AttRow) /\ Len(att') = n /\ att'[n] = row
        /\ \A a \in 1..Len(att) : att'[a] = att[a]
    BY <1>1, <1>2, <1>n, <1>3 DEF RowsOK
  <2> QED
    BY <2>1, SeqFacts DEF Attempts
<1>6. /\ run' \in Seq(RunRow) /\ Len(run') = Len(run) /\ run'[r].st = "running"
      /\ \A q \in 1..Len(run) : /\ run'[q].steps = run[q].steps
                                 /\ run'[q].st = "ready" => run[q].st = "ready"
  <2>1. "running" \in RunStates
    BY DEF RunStates
  <2>2. /\ run' \in Seq(RunRow) /\ Len(run') = Len(run)
        /\ \A q \in 1..Len(run) : run'[q].steps = run[q].steps
        /\ \A q \in 1..Len(run) : run'[q].st = IF q = r THEN "running" ELSE run[q].st
    BY <1>1, <1>2, <2>1, OneRun
  <2> QED
    BY <1>1, <2>2
<1>7. task' \in TaskRow /\ task'.st = "running"
  BY <1>1, <1>2, MovedRow DEF TaskStates
<1>8. RowsOK'
  BY <1>1, <1>2, <1>n, <1>5, <1>6, <1>7, ExecutionAssumption DEF RowsOK
<1>9. \A a \in 1..Len(att) : a \in Live' => a \in Live
  BY <1>1, <1>5 DEF Live
<1>10. \A a \in 1..Len(att) : AttemptInv(a)'
  <2> SUFFICES ASSUME NEW a \in 1..Len(att)
               PROVE  AttemptInv(a)'
    OBVIOUS
  <2>0. att[a].run \in 1..MaxRuns
    BY <1>1 DEF AttRow
  <2>1. AttemptInv(a) /\ att[a].run \in 1..Len(run) /\ att'[a] = att[a]
    BY <1>1, <1>5, <2>0, ExecutionAssumption DEF XInv, AttemptInv
  <2> QED
    BY <1>2, <1>6, <1>9, <2>1 DEF AttemptInv
<1>11. AttemptInv(n)'
  BY <1>1, <1>2, <1>n, <1>4, <1>5, <1>6, ExecutionAssumption DEF AttemptInv, RowsOK
<1>12. \A a \in 1..Len(att) : a \in Live' => att[a].run # r
  BY <1>2, <1>9 DEF LiveOf
<1>13. OneLive'
  <2> SUFFICES ASSUME NEW a \in Live', NEW b \in Live', att'[a].run = att'[b].run
               PROVE  a = b
    BY DEF OneLive
  <2>1. a \in 1..n /\ b \in 1..n
    BY <1>5 DEF Live
  <2>2. CASE a \in 1..Len(att) /\ b \in 1..Len(att)
    BY <1>5, <1>9, <2>2 DEF XInv, OneLive
  <2>3. CASE a = n \/ b = n
    BY <1>1, <1>n, <1>4, <1>5, <1>12, <2>1, <2>3
  <2> QED
    BY <1>1, <1>n, <2>1, <2>2, <2>3
<1>14. StaleAreFenced'
  <2> SUFFICES ASSUME ctl = "up", NEW a \in Live'
               PROVE  att'[a].gen = gen
    BY <1>2 DEF StaleAreFenced
  <2>1. a \in 1..n
    BY <1>5 DEF Live
  <2> QED
    BY <1>1, <1>n, <1>4, <1>5, <1>9, <2>1 DEF XInv, StaleAreFenced
<1>15. SuccessIsProven' /\ ReadyIsQueued'
  BY <1>7 DEF SuccessIsProven, ReadyIsQueued
<1>16. \A a \in Attempts' : AttemptInv(a)'
  BY <1>1, <1>n, <1>5, <1>10, <1>11
<1> QED
  BY <1>2, <1>8, <1>13, <1>14, <1>15, <1>16 DEF XInv

\* reportAttempt.
LEMMA ReportKeeps ==
  ASSUME XInv, NEW a \in Attempts, reportAttempt(a)
  PROVE  XInv' /\ KeepsAttempts
<1> DEFINE sealed == [att EXCEPT ![a].job = "pending"]
           row == [att[a] EXCEPT !.job = "pending"]
<1>1. /\ RowsOK /\ Attempts = 1..Len(att) /\ Len(att) \in Nat /\ Len(run) \in Nat
      /\ a \in 1..Len(att) /\ task \in TaskRow /\ DOMAIN run = 1..Len(run)
      /\ att \in [1..Len(att) -> AttRow]
      /\ \A b \in 1..Len(att) : att[b] \in AttRow
  BY Rows, SeqFacts DEF XInv, RowsOK
<1>2. att[a].run \in DOMAIN run
  <2>1. att[a].run \in 1..MaxRuns
    BY <1>1 DEF AttRow
  <2> QED
    BY <1>1, <2>1, ExecutionAssumption DEF XInv, AttemptInv
<1>3. row \in AttRow
  BY <1>1, AttRowFields
<1>4. row.run = att[a].run /\ row.gen = att[a].gen
  BY <1>1 DEF AttRow
<1>5. sealed = [att EXCEPT ![a] = row]
  OBVIOUS
<1>6. /\ att' = Ended(sealed, {a}, "reported")
      /\ task' = Moved(task, "verifying")
      /\ run' = [run EXCEPT ![att[a].run].st = "verifying"]
      /\ UNCHANGED <<mode, left, obl, ctl, gen, ver>>
  BY DEF reportAttempt
<1> HIDE DEF sealed, row
<1>7. /\ sealed \in Seq(AttRow) /\ Len(sealed) = Len(att)
      /\ \A b \in 1..Len(att) : sealed[b] = IF b = a THEN row ELSE att[b]
  <2>1. sealed \in [1..Len(att) -> AttRow]
    BY <1>1, <1>3, <1>5
  <2> QED
    BY <1>1, <1>5, <2>1, FunctionIsSeq
<1>8. /\ att' \in Seq(AttRow) /\ Len(att') = Len(att) /\ DOMAIN att' = 1..Len(att)
      /\ \A b \in 1..Len(att) :
           /\ b # a => att'[b] = sealed[b]
           /\ b = a => att'[b].st = "reported"
           /\ att'[b].run = sealed[b].run
           /\ att'[b].gen = sealed[b].gen
  <2>1. "reported" \in AttemptStates
    BY DEF AttemptStates
  <2> QED
    BY <1>6, <1>7, <2>1, EndedRows
<1>9. KeepsAttempts
  <2>1. "reported" \notin LiveStates
    BY DEF LiveStates
  <2> QED
    BY <1>4, <1>7, <1>8, <2>1 DEF KeepsAttempts
<1>10. /\ run' \in Seq(RunRow) /\ Len(run') = Len(run)
       /\ \A q \in 1..Len(run) : run'[q].steps = run[q].steps
       /\ \A q \in 1..Len(run) :
            run'[q].st = IF q = att[a].run THEN "verifying" ELSE run[q].st
  <2>1. "verifying" \in RunStates
    BY DEF RunStates
  <2> QED
    BY <1>1, <1>2, <1>6, <2>1, OneRun
<1>11. KeepsRuns
  BY <1>1, <1>10 DEF KeepsRuns
<1>12. task' \in TaskRow /\ task'.st = "verifying"
  BY <1>1, <1>6, MovedRow DEF TaskStates
<1>13. RowsOK'
  BY <1>1, <1>6, <1>8, <1>10, <1>12 DEF RowsOK, Attempts
<1>14. SuccessIsProven' /\ ReadyIsQueued'
  BY <1>12 DEF SuccessIsProven, ReadyIsQueued
<1> QED
  BY <1>6, <1>9, <1>11, <1>13, <1>14, LeasesKept DEF XInv

\* CancelWith: the task it leaves is cancelled.
LEMMA CancelKeeps ==
  ASSUME XInv, NEW S \in SUBSET Attempts, NEW r \in DOMAIN run, CancelWith(S, r)
  PROVE  XInv' /\ KeepsAttempts
<1>1. /\ RowsOK /\ Attempts = 1..Len(att) /\ Len(att) \in Nat /\ Len(run) \in Nat
      /\ task \in TaskRow
  BY Rows DEF XInv
<1>2. /\ att' = Ended(att, S, "stopped")
      /\ run' = [run EXCEPT ![r].st = "cancelled"]
      /\ obl' = obl \cup {a \in S : att[a].op}
      /\ UNCHANGED <<mode, left, ctl, gen, ver>>
  BY DEF CancelWith
<1>3. /\ att' \in Seq(AttRow) /\ Len(att') = Len(att) /\ DOMAIN att' = 1..Len(att)
      /\ \A a \in 1..Len(att) :
           /\ a \notin S => att'[a] = att[a]
           /\ a \in S => att'[a].st = "stopped"
           /\ att'[a].run = att[a].run
           /\ att'[a].gen = att[a].gen
  <2>1. "stopped" \in AttemptStates /\ att \in Seq(AttRow)
    BY <1>1 DEF AttemptStates, RowsOK
  <2> QED
    BY <1>2, <2>1, EndedRows
<1>4. KeepsAttempts
  <2>1. "stopped" \notin LiveStates
    BY DEF LiveStates
  <2> QED
    BY <1>3, <2>1 DEF KeepsAttempts
<1>5. /\ run' \in Seq(RunRow) /\ Len(run') = Len(run)
      /\ \A q \in 1..Len(run) : run'[q].steps = run[q].steps
      /\ \A q \in 1..Len(run) : run'[q].st = IF q = r THEN "cancelled" ELSE run[q].st
  <2>1. "cancelled" \in RunStates
    BY DEF RunStates, Terminal
  <2> QED
    BY <1>1, <1>2, <2>1, OneRun
<1>6. KeepsRuns
  BY <1>1, <1>5 DEF KeepsRuns
<1>7. task' \in TaskRow /\ task'.st = "cancelled"
  <2>1. "cancelled" \in TaskStates
    BY DEF TaskStates
  <2> QED
    BY <1>1, <2>1, MovedRow DEF CancelWith
<1>8. obl' \subseteq 1..Len(att)
  BY <1>1, <1>2 DEF RowsOK
<1>9. RowsOK'
  BY <1>1, <1>2, <1>3, <1>5, <1>7, <1>8 DEF RowsOK, Attempts
<1>10. SuccessIsProven' /\ ReadyIsQueued'
  BY <1>7 DEF SuccessIsProven, ReadyIsQueued
<1> QED
  BY <1>2, <1>4, <1>6, <1>9, <1>10, LeasesKept DEF XInv

\* An attempt belongs to a run.
LEMMA RunOfAttempt ==
  ASSUME XInv, NEW a \in Attempts
  PROVE  att[a].run \in DOMAIN run
<1>1. /\ DOMAIN run = 1..Len(run) /\ Len(run) \in Nat /\ AttemptInv(a)
      /\ att[a] \in AttRow
  BY Rows DEF XInv
<1>2. att[a].run \in 1..MaxRuns
  BY <1>1 DEF AttRow
<1> QED
  BY <1>1, <1>2, ExecutionAssumption DEF AttemptInv

\* handleRunCancel and handleAttemptCancel.
LEMMA RunCancelKeeps ==
  ASSUME XInv, NEW r \in DOMAIN run, handleRunCancel(r)
  PROVE  XInv' /\ KeepsAttempts
<1>1. LiveOf(r) \in SUBSET Attempts /\ CancelWith(LiveOf(r), r)
  BY DEF handleRunCancel, LiveOf, Live
<1> QED
  BY <1>1, CancelKeeps

(* handleAttemptCancel. *)
LEMMA AttemptCancelKeeps ==
  ASSUME XInv, NEW a \in Attempts, handleAttemptCancel(a)
  PROVE  XInv' /\ KeepsAttempts
<1>1. {a} \in SUBSET Attempts /\ CancelWith({a}, att[a].run)
  BY DEF handleAttemptCancel
<1> QED
  BY <1>1, RunOfAttempt, CancelKeeps

--------------------------------------------------------------------------------
(* Steps of the controller                                                     *)

\* fenceAttempt: the task goes back to waiting, or stays as it is.
LEMMA TaskAfterFenceRow ==
  ASSUME task \in TaskRow, NEW S
  PROVE  /\ TaskAfterFence(S) \in TaskRow
         /\ TaskAfterFence(S) = task \/ TaskAfterFence(S).st = "waiting"
<1>1. "waiting" \in TaskStates
  BY DEF TaskStates
<1> QED
  BY <1>1, MovedRow DEF TaskAfterFence

\* A run that a fence releases has an attempt, and it is not over.
LEMMA ReleasedRuns ==
  ASSUME NEW S \in SUBSET Attempts, NEW r \in Released(S)
  PROVE  /\ r \in DOMAIN run /\ run[r].st \notin Terminal
         /\ \E a \in S : att[a].run = r
BY DEF Released

\* Steps that fence live attempts S, admit some and return their runs to
\* waiting: what is left of the invariant when the rows are.
LEMMA FenceStepKeeps ==
  ASSUME XInv, RowsOK', mode' = mode, ctl' = ctl, gen' = gen,
         NEW S \in SUBSET Live, KeepsAttempts, KeepsRuns, Len(run') = Len(run),
         \A a \in 1..Len(att) : a \notin Live =>
           att'[a].st = att[a].st /\ att'[a].job = att[a].job,
         \A r \in 1..Len(run) : r \notin Released(S) => run'[r].st = run[r].st,
         task' = TaskAfterFence(S)
  PROVE  XInv' /\ KeepsAttempts
<1>1. /\ RowsOK /\ Attempts = 1..Len(att) /\ Len(run) \in Nat /\ task \in TaskRow
      /\ S \subseteq Attempts
  BY Rows DEF XInv, Live
<1>2. task' = task \/ task'.st = "waiting"
  BY <1>1, TaskAfterFenceRow
<1>3. SuccessIsProven'
  <2>1. \A a \in 1..Len(att) : att[a].st = "reported" => a \notin Live
    BY DEF Live, LiveStates
  <2>2. \A r \in 1..Len(run) : run[r].st = "succeeded" => r \notin Released(S)
    BY <1>1, ReleasedRuns DEF Terminal
  <2> QED
    BY <1>1, <1>2, <2>1, <2>2, SuccessKept
<1>4. ReadyIsQueued'
  <2>1. \A r \in 1..Len(run) :
          (\A a \in 1..Len(att) : att[a].run # r) => r \notin Released(S)
    BY <1>1, ReleasedRuns
  <2> QED
    BY <1>1, <1>2, <2>1, ReadyKept
<1> QED
  BY <1>3, <1>4, LeasesKept DEF XInv

\* handleTick: lapsed leases are fenced and claimed attempts admitted.
LEMMA TickKeeps ==
  ASSUME XInv, handleTick
  PROVE  XInv' /\ KeepsAttempts
<1>1. /\ RowsOK /\ Attempts = 1..Len(att) /\ Len(att) \in Nat /\ Len(run) \in Nat
      /\ task \in TaskRow /\ run \in Seq(RunRow) /\ att \in Seq(AttRow)
      /\ \A a \in 1..Len(att) : att[a] \in AttRow
  BY Rows DEF XInv, RowsOK
<1>2. PICK admitted \in SUBSET {a \in Live \ Lapsed : Admissible(a)} :
        att' = [a \in Attempts |->
                  IF a \in admitted THEN [att[a] EXCEPT !.st = "running", !.op = TRUE]
                  ELSE Fenced(att, Lapsed)[a]]
  BY DEF handleTick
<1>3. /\ run' = Waiting(run, Released(Lapsed)) /\ task' = TaskAfterFence(Lapsed)
      /\ UNCHANGED <<mode, left, obl, ctl, gen, ver>>
  BY DEF handleTick
<1> DEFINE go(a) == [att[a] EXCEPT !.st = "running", !.op = TRUE]
           f == Fenced(att, Lapsed)
<1>4. \A a \in 1..Len(att) : go(a) \in AttRow
  <2>1. "running" \in AttemptStates
    BY DEF AttemptStates, LiveStates
  <2> QED
    BY <1>1, <2>1, AttRowFields
<1>5. \A a \in 1..Len(att) :
        go(a).run = att[a].run /\ go(a).gen = att[a].gen /\ go(a).job = att[a].job
  BY <1>1 DEF AttRow
<1>6. \A a \in 1..Len(att) :
        /\ f[a] \in AttRow
        /\ a \notin Lapsed => f[a] = att[a]
        /\ a \in Lapsed => f[a].st = "fenced"
        /\ f[a].run = att[a].run /\ f[a].gen = att[a].gen /\ f[a].job = att[a].job
  <2>1. f \in Seq(AttRow) /\ Len(f) = Len(att)
    BY <1>1, FencedRows
  <2>2. \A a \in 1..Len(att) : f[a] \in AttRow
    BY <2>1, SeqFacts
  <2> QED
    BY <1>1, <2>2, FencedRows
<1>7. att' = [a \in 1..Len(att) |-> IF a \in admitted THEN go(a) ELSE f[a]]
  BY <1>1, <1>2
<1> HIDE DEF go, f
<1>8. att' \in Seq(AttRow) /\ Len(att') = Len(att) /\ DOMAIN att' = 1..Len(att)
  <2>1. att' \in [1..Len(att) -> AttRow]
    BY <1>4, <1>6, <1>7
  <2> QED
    BY <1>1, <2>1, FunctionIsSeq
<1>9. admitted \subseteq Live /\ Lapsed \in SUBSET Live
  BY DEF Lapsed
<1>10. \A a \in 1..Len(att) : a \notin Live => att'[a] = att[a]
  BY <1>6, <1>7, <1>9
<1>11. KeepsAttempts
  <2>1. \A a \in 1..Len(att) : a \in Live => att[a].st \in LiveStates
    BY DEF Live
  <2>2. \A a \in 1..Len(att) : att'[a].run = att[a].run /\ att'[a].gen = att[a].gen
    BY <1>5, <1>6, <1>7
  <2>3. \A a \in 1..Len(att) : att'[a].st \in LiveStates => att[a].st \in LiveStates
    BY <1>10, <2>1
  <2> QED
    BY <1>8, <2>2, <2>3 DEF KeepsAttempts
<1>12. /\ run' \in Seq(RunRow) /\ Len(run') = Len(run)
       /\ \A r \in 1..Len(run) :
            /\ run'[r].steps = run[r].steps
            /\ run'[r].st = IF r \in Released(Lapsed) THEN "waiting" ELSE run[r].st
  BY <1>1, <1>3, WaitingRows
<1>13. KeepsRuns
  BY <1>1, <1>12 DEF KeepsRuns
<1>14. task' \in TaskRow
  BY <1>1, <1>3, TaskAfterFenceRow
<1>15. RowsOK'
  BY <1>1, <1>3, <1>8, <1>12, <1>14 DEF RowsOK, Attempts
<1> QED
  BY <1>3, <1>9, <1>10, <1>11, <1>12, <1>13, <1>15, FenceStepKeeps

\* handleObservation: the step counts, and the attempt is fenced when no other
\* is left.
LEMMA ObservationKeeps ==
  ASSUME XInv, NEW a \in Attempts, NEW d \in {"succeeded", "failed", "unknown"},
         handleObservation(a, d)
  PROVE  XInv' /\ KeepsAttempts
<1> DEFINE r == att[a].run
           counted == [run EXCEPT ![r].steps = @ + 1]
           closed == [att EXCEPT ![a].op = FALSE]
           row == [run[r] EXCEPT !.steps = @ + 1]
           stop == d # "succeeded" \/ counted[r].steps >= StepLimit
<1>1. /\ RowsOK /\ Attempts = 1..Len(att) /\ Len(att) \in Nat /\ Len(run) \in Nat
      /\ task \in TaskRow /\ run \in Seq(RunRow) /\ att \in Seq(AttRow)
      /\ run \in [1..Len(run) -> RunRow] /\ DOMAIN run = 1..Len(run)
      /\ a \in 1..Len(att) /\ att[a] \in AttRow
  BY Rows, SeqFacts DEF XInv, RowsOK
<1>2. /\ a \in Live /\ UNCHANGED <<mode, left, ctl, gen, ver>>
      /\ obl' = IF d = "unknown" THEN obl \cup {a} ELSE obl
  BY DEF handleObservation
<1>3. r \in 1..Len(run) /\ run[r].steps < StepLimit
  BY <1>1, <1>2, RunOfAttempt DEF XInv, AttemptInv
<1>4. row \in RunRow /\ row.st = run[r].st /\ row.steps = run[r].steps + 1
  <2>1. run[r] \in RunRow
    BY <1>1, <1>3
  <2> QED
    BY <1>3, <2>1, ExecutionAssumption, SMTT(30) DEF RunRow
<1>5. /\ counted \in Seq(RunRow) /\ Len(counted) = Len(run)
      /\ \A q \in 1..Len(run) : counted[q] = IF q = r THEN row ELSE run[q]
  <2>1. counted = [run EXCEPT ![r] = row]
    OBVIOUS
  <2> HIDE DEF row, counted
  <2>2. counted \in [1..Len(run) -> RunRow]
    BY <1>1, <1>3, <1>4, <2>1
  <2> QED
    BY <1>1, <1>3, <2>1, <2>2, FunctionIsSeq
<1>6. obl' \subseteq 1..Len(att)
  BY <1>1, <1>2 DEF RowsOK
<1>7. \A b \in 1..Len(att) : att[b].run = r /\ att[b].st \in LiveStates => b = a
  BY <1>1, <1>2 DEF XInv, OneLive, Live
<1>8. CASE stop
  <2>1. /\ att' = Fenced(att, {a}) /\ run' = Waiting(counted, Released({a}))
        /\ task' = TaskAfterFence({a})
    BY <1>8 DEF handleObservation
  <2> HIDE DEF counted, stop, row
  <2>2. /\ att' \in Seq(AttRow) /\ Len(att') = Len(att) /\ DOMAIN att' = 1..Len(att)
        /\ \A b \in 1..Len(att) :
             /\ b # a => att'[b] = att[b]
             /\ b = a => att'[b].st = "fenced"
             /\ att'[b].run = att[b].run /\ att'[b].gen = att[b].gen
    BY <1>1, <2>1, FencedRows
  <2>3. /\ run' \in Seq(RunRow) /\ Len(run') = Len(run)
        /\ \A q \in 1..Len(run) :
             /\ run'[q].steps = counted[q].steps
             /\ run'[q].st = IF q \in Released({a}) THEN "waiting" ELSE counted[q].st
    BY <1>5, <2>1, WaitingRows
  <2>4. "fenced" \notin LiveStates
    BY DEF LiveStates
  <2>5. KeepsAttempts
    BY <2>2, <2>4 DEF KeepsAttempts
  <2>6. \A q \in 1..Len(run) : q # r => run'[q].steps = run[q].steps
    BY <1>5, <2>3
  <2>7. \A q \in 1..Len(run) : q \notin Released({a}) => run'[q].st = run[q].st
    BY <1>4, <1>5, <2>3
  <2>8. \A b \in 1..Len(att) : att[b].run = r => att'[b].st \notin LiveStates
    BY <1>7, <2>2, <2>4
  <2>9. KeepsRuns
    <3>1. \A q \in 1..Len(run) : run'[q].st = "ready" => run[q].st = "ready"
      BY <1>4, <1>5, <2>3
    <3>2. \A q \in 1..Len(run) :
            \/ run'[q].steps = run[q].steps
            \/ \A b \in 1..Len(att) : att[b].run = q => att'[b].st \notin LiveStates
      BY <2>6, <2>8
    <3>3. Len(run') >= Len(run)
      BY <1>1, <2>3
    <3> QED
      BY <3>1, <3>2, <3>3 DEF KeepsRuns
  <2>10. task' \in TaskRow
    BY <1>1, <2>1, TaskAfterFenceRow
  <2>11. RowsOK'
    BY <1>1, <1>2, <1>6, <2>2, <2>3, <2>10 DEF RowsOK, Attempts
  <2>12. {a} \in SUBSET Live
    BY <1>2
  <2>13. \A b \in 1..Len(att) : b \notin Live => att'[b] = att[b]
    BY <1>2, <2>2
  <2> QED
    BY <1>2, <2>1, <2>3, <2>5, <2>7, <2>9, <2>11, <2>12, <2>13, FenceStepKeeps
<1>9. CASE ~stop
  <2>1. /\ att' = (IF task.intent THEN closed ELSE att) /\ run' = counted /\ task' = task
        /\ row.steps < StepLimit
    <3>1. counted[r].steps = row.steps
      BY <1>3, <1>5
    <3>2. ~(counted[r].steps >= StepLimit)
      BY <1>9
    <3>3. row.steps < StepLimit
      BY <1>3, <1>4, <3>1, <3>2, <1>1, ExecutionAssumption DEF RunRow
    <3> QED
      BY <1>9, <3>3 DEF handleObservation
  <2>2. /\ att' \in Seq(AttRow) /\ Len(att') = Len(att) /\ DOMAIN att' = 1..Len(att)
        /\ \A b \in 1..Len(att) :
             /\ att'[b].run = att[b].run /\ att'[b].gen = att[b].gen
             /\ att'[b].st = att[b].st /\ att'[b].job = att[b].job
    <3> DEFINE c == [att[a] EXCEPT !.op = FALSE]
    <3>1. c \in AttRow
      BY <1>1, AttRowFields
    <3>2. c.run = att[a].run /\ c.gen = att[a].gen /\ c.st = att[a].st /\ c.job = att[a].job
      BY <1>1 DEF AttRow
    <3>3. closed = [att EXCEPT ![a] = c]
      OBVIOUS
    <3> HIDE DEF c
    <3>4. CASE att' = closed
      <4>0. att' = [att EXCEPT ![a] = c]
        BY <3>3, <3>4
      <4>1. /\ att' \in Seq(AttRow) /\ Len(att') = Len(att)
            /\ \A b \in 1..Len(att) : att'[b] = IF b = a THEN c ELSE att[b]
        BY <1>1, <3>1, <4>0, OneAttempt
      <4> QED
        BY <3>2, <4>1, SeqFacts
    <3>5. CASE att' = att
      BY <1>1, <3>5, SeqFacts
    <3> QED
      BY <2>1, <3>4, <3>5
  <2> HIDE DEF counted, stop, row, closed
  <2>3. /\ run' \in Seq(RunRow) /\ Len(run') = Len(run)
        /\ \A q \in 1..Len(run) :
             /\ run'[q].st = run[q].st
             /\ run'[q].steps = run[q].steps \/ run'[q].steps < StepLimit
    BY <1>4, <1>5, <2>1
  <2>4. KeepsAttempts /\ KeepsRuns
    BY <1>1, <2>2, <2>3 DEF KeepsAttempts, KeepsRuns
  <2>5. RowsOK'
    BY <1>1, <1>2, <1>6, <2>1, <2>2, <2>3 DEF RowsOK, Attempts
  <2>6. SuccessIsProven'
    BY <1>1, <1>2, <2>1, <2>2, <2>3, <2>4, <2>5, SuccessKept
  <2>7. ReadyIsQueued'
    BY <2>1, <2>3, <2>5, ReadyKept
  <2> QED
    BY <1>2, <2>4, <2>5, <2>6, <2>7, LeasesKept DEF XInv
<1> QED
  BY <1>8, <1>9

\* AdvanceGeneration and Crash.
LEMMA AdvanceKeeps ==
  ASSUME XInv, AdvanceGeneration
  PROVE  XInv' /\ KeepsAttempts
<1>1. /\ RowsOK /\ ctl = "down" /\ gen < MaxGen /\ gen \in 1..MaxGen
      /\ gen' = gen + 1 /\ ctl' = "starting" /\ UNCHANGED <<mode, left, task, run, att, obl, ver>>
  BY DEF XInv, AdvanceGeneration, RowsOK
<1>2. RowsOK'
  BY <1>1, ExecutionAssumption DEF RowsOK, Attempts
<1>3. \A a \in Attempts' : AttemptInv(a)'
  <2> SUFFICES ASSUME NEW a \in Attempts
               PROVE  AttemptInv(a)'
    BY <1>1 DEF Attempts
  <2>1. AttemptInv(a) /\ att[a].gen \in 1..MaxGen
    BY <1>1, Rows DEF XInv, AttRow
  <2> QED
    BY <1>1, <2>1, ExecutionAssumption DEF AttemptInv, Live, Attempts
<1>4. OneLive' /\ SuccessIsProven' /\ ReadyIsQueued'
  BY <1>1 DEF XInv, OneLive, SuccessIsProven, ReadyIsQueued, Live, Attempts
<1>5. KeepsAttempts
  BY <1>1 DEF KeepsAttempts
<1> QED
  BY <1>1, <1>2, <1>3, <1>4, <1>5 DEF XInv, StaleAreFenced

(* Crash. *)
LEMMA CrashKeeps ==
  ASSUME XInv, Crash
  PROVE  XInv' /\ KeepsAttempts
<1>1. /\ RowsOK /\ gen < MaxGen /\ ver' = {} /\ ctl' = "down"
      /\ UNCHANGED <<mode, left, task, run, att, obl, gen>>
  BY DEF XInv, Crash
<1>2. RowsOK'
  BY <1>1 DEF RowsOK, Attempts
<1>3. \A a \in Attempts' : AttemptInv(a)'
  BY <1>1 DEF XInv, AttemptInv, Live, Attempts
<1>4. OneLive' /\ SuccessIsProven' /\ ReadyIsQueued'
  BY <1>1 DEF XInv, OneLive, SuccessIsProven, ReadyIsQueued, Live, Attempts
<1>5. KeepsAttempts
  BY <1>1 DEF KeepsAttempts
<1> QED
  BY <1>1, <1>2, <1>3, <1>4, <1>5 DEF XInv, StaleAreFenced

\* handleFence: nothing of an older generation is live when the controller is
\* up.
LEMMA FenceKeeps ==
  ASSUME XInv, handleFence
  PROVE  XInv' /\ KeepsAttempts
<1>1. /\ RowsOK /\ Attempts = 1..Len(att) /\ Len(att) \in Nat /\ Len(run) \in Nat
      /\ task \in TaskRow /\ run \in Seq(RunRow) /\ att \in Seq(AttRow)
      /\ Stale \in SUBSET Attempts
  BY Rows DEF XInv, RowsOK, Stale, Live
<1>2. /\ ctl' = "up" /\ att' = Fenced(att, Stale) /\ run' = Waiting(run, Released(Stale))
      /\ UNCHANGED <<mode, left, task, obl, gen, ver>>
  BY DEF handleFence
<1>3. /\ att' \in Seq(AttRow) /\ Len(att') = Len(att) /\ DOMAIN att' = 1..Len(att)
      /\ \A a \in 1..Len(att) :
           /\ a \notin Stale => att'[a] = att[a]
           /\ a \in Stale => att'[a].st = "fenced"
           /\ att'[a].run = att[a].run /\ att'[a].gen = att[a].gen
           /\ att'[a].job = att[a].job
  BY <1>1, <1>2, FencedRows
<1>4. /\ run' \in Seq(RunRow) /\ Len(run') = Len(run)
      /\ \A r \in 1..Len(run) :
           /\ run'[r].steps = run[r].steps
           /\ run'[r].st = IF r \in Released(Stale) THEN "waiting" ELSE run[r].st
  BY <1>1, <1>2, WaitingRows
<1>5. RowsOK'
  BY <1>1, <1>2, <1>3, <1>4 DEF RowsOK, Attempts
<1>6. \A a \in 1..Len(att) : a \in Live' => a \in Live /\ a \notin Stale
  <2>1. "fenced" \notin LiveStates
    BY DEF LiveStates
  <2> QED
    BY <1>1, <1>3, <2>1 DEF Live
<1>7. KeepsAttempts /\ KeepsRuns
  <2>1. \A a \in 1..Len(att) : att'[a].st \in LiveStates => att[a].st \in LiveStates
    BY <1>3 DEF LiveStates
  <2> QED
    BY <1>1, <1>3, <1>4, <2>1 DEF KeepsAttempts, KeepsRuns
<1>8. \A a \in 1..Len(att) : AttemptInv(a)'
  <2> SUFFICES ASSUME NEW a \in 1..Len(att)
               PROVE  AttemptInv(a)'
    OBVIOUS
  <2>1. AttemptInv(a) /\ att[a].run \in 1..Len(run) /\ att'[a].run = att[a].run
    BY <1>1, <1>3, RunOfAttempt, Rows DEF XInv
  <2>2. a \in Live' => run'[att[a].run].steps < StepLimit
    BY <1>4, <1>6, <2>1 DEF AttemptInv
  <2>3. run'[att[a].run].st # "ready"
    BY <1>4, <2>1 DEF AttemptInv
  <2> QED
    BY <1>2, <1>3, <1>4, <2>1, <2>2, <2>3 DEF AttemptInv
<1>9. OneLive'
  <2> SUFFICES ASSUME NEW a \in Live', NEW b \in Live', att'[a].run = att'[b].run
               PROVE  a = b
    BY DEF OneLive
  <2>1. a \in 1..Len(att) /\ b \in 1..Len(att)
    BY <1>3 DEF Live, Attempts
  <2>2. a \in Live /\ b \in Live /\ att[a].run = att[b].run
    BY <1>3, <1>6, <2>1
  <2> QED
    BY <2>2 DEF XInv, OneLive
<1>10. StaleAreFenced'
  <2> SUFFICES ASSUME NEW a \in Live'
               PROVE  att'[a].gen = gen
    BY <1>2 DEF StaleAreFenced
  <2>1. a \in 1..Len(att)
    BY <1>3 DEF Live, Attempts
  <2>2. a \in Live /\ a \notin Stale /\ att[a].gen <= gen /\ att[a].gen \in 1..MaxGen
    BY <1>1, <1>6, <2>1, Rows DEF XInv, AttemptInv, AttRow
  <2> QED
    BY <1>1, <1>3, <2>1, <2>2, ExecutionAssumption DEF Stale, RowsOK
<1>11. SuccessIsProven'
  <2>1. \A a \in 1..Len(att) : att[a].st = "reported" => a \notin Stale
    BY DEF Stale, Live, LiveStates
  <2>2. \A r \in 1..Len(run) : run[r].st = "succeeded" => r \notin Released(Stale)
    BY <1>1, ReleasedRuns DEF Terminal
  <2>3. \A a \in 1..Len(att) :
          att[a].st = "reported" /\ att[a].job = "passed" =>
            att'[a].st = "reported" /\ att'[a].job = "passed"
    BY <1>3, <2>1
  <2>4. \A r \in 1..Len(run) : run[r].st = "succeeded" => run'[r].st = "succeeded"
    BY <1>4, <2>2
  <2>5. Len(run') >= Len(run)
    BY <1>1, <1>4
  <2> QED
    BY <1>2, <1>5, <1>7, <2>3, <2>4, <2>5, SuccessKept
<1>12. ReadyIsQueued'
  <2>1. \A r \in 1..Len(run) :
          (\A a \in 1..Len(att) : att[a].run # r) => r \notin Released(Stale)
    BY <1>1, ReleasedRuns
  <2> QED
    BY <1>2, <1>4, <1>5, <2>1, ReadyKept
<1>13. \A a \in Attempts' : AttemptInv(a)'
  BY <1>3, <1>8 DEF Attempts
<1> QED
  BY <1>2, <1>5, <1>7, <1>9, <1>10, <1>11, <1>12, <1>13 DEF XInv

\* handleVerificationRecord: a task that succeeds by it names the attempt whose
\* job passed.
LEMMA VerificationRecordKeeps ==
  ASSUME XInv, NEW a \in Attempts, NEW v \in Verdicts, NEW c \in BOOLEAN,
         handleVerificationRecord(a, v, c)
  PROVE  XInv' /\ KeepsAttempts
<1> DEFINE r == att[a].run
           eff == EffectiveVerdict(v, c)
           t == IF eff \in {"passed", "failed"} THEN Evidenced(task, a) ELSE task
           target == CASE eff = "passed" -> IF mode = "manual" THEN "waiting" ELSE "succeeded"
                       [] eff \in {"failed", "tampered"} -> "failed"
                       [] OTHER -> t.st
           st == IF eff = "passed" THEN att[a].st ELSE "failed"
           row == [att[a] EXCEPT !.job = v, !.claimed = FALSE, !.st = st]
<1>1. /\ RowsOK /\ Attempts = 1..Len(att) /\ Len(att) \in Nat /\ Len(run) \in Nat
      /\ task \in TaskRow /\ r \in DOMAIN run /\ DOMAIN run = 1..Len(run)
      /\ a \in 1..Len(att) /\ att[a] \in AttRow
  BY Rows, RunOfAttempt DEF XInv
<1>2. /\ att[a].st = "reported" /\ att[a].job = "pending" /\ ver' = ver \ {a}
      /\ att' = [att EXCEPT ![a] = row]
      /\ UNCHANGED <<mode, left, obl, ctl, gen>>
  BY DEF handleVerificationRecord
<1>3. eff \in Verdicts /\ (eff = "passed" => v = "passed")
  BY DEF EffectiveVerdict, Verdicts
<1>4. st \in AttemptStates /\ st \in {"reported", "failed"}
  BY <1>1, <1>2 DEF AttemptStates, AttRow
<1> HIDE DEF st
<1>5. row \in AttRow
  <2>1. v \in Verdicts \cup {"none", "pending"}
    OBVIOUS
  <2> QED
    BY <1>1, <1>4, <2>1, AttRowFields
<1>6. row.run = att[a].run /\ row.gen = att[a].gen /\ row.st = st /\ row.job = v
  BY <1>1 DEF AttRow
<1> HIDE DEF row
<1>7. /\ att' \in Seq(AttRow) /\ Len(att') = Len(att) /\ Attempts' = Attempts
      /\ \A b \in 1..Len(att) : att'[b] = IF b = a THEN row ELSE att[b]
  BY <1>1, <1>2, <1>5, OneAttempt
<1>8. KeepsAttempts
  <2>1. "reported" \notin LiveStates /\ "failed" \notin LiveStates
    BY DEF LiveStates
  <2> QED
    BY <1>4, <1>6, <1>7, <2>1 DEF KeepsAttempts
<1>9. \A b \in 1..Len(att) : att[b].job = "passed" => att'[b] = att[b]
  BY <1>2, <1>7
<1>10. CASE eff = "inconclusive"
  <2>1. task' = task /\ run' = run
    BY <1>10 DEF handleVerificationRecord
  <2>2. RowsOK' /\ KeepsRuns
    BY <1>1, <1>2, <1>7, <2>1 DEF RowsOK, KeepsRuns
  <2>3. SuccessIsProven'
    BY <1>1, <1>2, <1>8, <1>9, <2>1, <2>2, SuccessKept
  <2>4. ReadyIsQueued'
    BY <2>1 DEF XInv, ReadyIsQueued
  <2> QED
    BY <1>2, <1>8, <2>2, <2>3, <2>4, LeasesKept DEF XInv
<1>11. CASE eff # "inconclusive"
  <2>1. CanMove(t, target) /\ task' = Moved(t, target) /\ run' = [run EXCEPT ![r].st = target]
    BY <1>11 DEF handleVerificationRecord
  <2>2. /\ target \in {"waiting", "succeeded", "failed"}
        /\ target = "succeeded" => eff = "passed"
    BY <1>3, <1>11 DEF Verdicts
  <2>3. target = "succeeded" => mode = "independent"
    BY <2>1 DEF CanMove
  <2>4. t \in TaskRow
    <3>1. a \in 0..MaxAttempts
      BY <1>1, ExecutionAssumption DEF RowsOK
    <3>2. Evidenced(task, a) \in TaskRow
      BY <1>1, <3>1, TaskRowFields DEF Evidenced
    <3> QED
      BY <1>1, <3>2
  <2>5. eff = "passed" => t.proof = a
    BY <1>1 DEF Evidenced, TaskRow
  <2> HIDE DEF t, target, eff
  <2>6. target \in TaskStates /\ target \in RunStates
    BY <2>2 DEF TaskStates, RunStates, Terminal
  <2>7. /\ task' \in TaskRow /\ task'.st = target /\ task'.proof = t.proof
        /\ target = "succeeded" => task'.est = "verification"
    BY <2>1, <2>4, <2>6, MovedRow
  <2>8. /\ run' \in Seq(RunRow) /\ Len(run') = Len(run)
        /\ \A q \in 1..Len(run) : run'[q].steps = run[q].steps
        /\ \A q \in 1..Len(run) : run'[q].st = IF q = r THEN target ELSE run[q].st
    BY <1>1, <2>1, <2>6, OneRun
  <2>9. KeepsRuns
    BY <1>1, <2>2, <2>8 DEF KeepsRuns
  <2>10. RowsOK'
    BY <1>1, <1>2, <1>7, <2>7, <2>8 DEF RowsOK
  <2>11. SuccessIsProven'
    <3> SUFFICES ASSUME target = "succeeded"
                 PROVE  SuccessIsProven'
      BY <2>7 DEF SuccessIsProven
    <3>1. /\ mode' = "independent" /\ task'.est = "verification" /\ task'.proof = a
          /\ a \in Attempts'
      BY <1>1, <1>2, <1>7, <2>2, <2>3, <2>5, <2>7
    <3>2. att'[a].job = "passed" /\ att'[a].st = "reported" /\ att'[a].run = r
      BY <1>1, <1>2, <1>3, <1>6, <1>7, <2>2 DEF eff, st
    <3>3. run'[r].st = "succeeded"
      BY <1>1, <2>8
    <3> QED
      BY <3>1, <3>2, <3>3 DEF SuccessIsProven
  <2>12. ReadyIsQueued'
    BY <2>2, <2>7 DEF ReadyIsQueued
  <2> QED
    BY <1>2, <1>8, <2>9, <2>10, <2>11, <2>12, LeasesKept DEF XInv
<1> QED
  BY <1>10, <1>11

--------------------------------------------------------------------------------
(* The inductive invariant                                                     *)

(* The invariant holds initially. *)
LEMMA XInitInv ==
  ASSUME XInit
  PROVE  XInv
<1>1. task \in TaskRow /\ task.st = "draft"
  BY ExecutionAssumption DEF XInit, TaskRow, TaskStates
<1>2. /\ run \in Seq(RunRow) /\ Len(run) = 0 /\ att \in Seq(AttRow) /\ Len(att) = 0
      /\ Attempts = {} /\ Live = {}
  BY DEF XInit, Attempts, Live
<1>3. left \in 0..Deadline /\ gen \in 1..MaxGen /\ ctl = "up" /\ obl = {} /\ ver = {}
      /\ mode \in Modes
  BY ExecutionAssumption DEF XInit
<1>4. RowsOK
  BY <1>1, <1>2, <1>3, ExecutionAssumption DEF RowsOK
<1> QED
  BY <1>1, <1>2, <1>3, <1>4 DEF XInv, OneLive, StaleAreFenced, SuccessIsProven, ReadyIsQueued

(* Every step keeps the invariant, and only a claim adds an attempt. *)
LEMMA XNextInv ==
  ASSUME XInv, [XNext]_xvars
  PROVE  XInv' /\ (KeepsAttempts \/ \E r \in DOMAIN run : admitAttempt(r))
<1> DEFINE Goal == XInv' /\ (KeepsAttempts \/ \E r \in DOMAIN run : admitAttempt(r))
<1>1. CASE TaskStep
  BY <1>1, StartTaskKeeps, ReviseContractKeeps, RequestCancellationKeeps, RetryTaskKeeps,
     ManualAcceptanceKeeps DEF TaskStep
<1>2. ASSUME NEW r \in DOMAIN run, admitAttempt(r) \/ handleRunCancel(r)
      PROVE  Goal
  BY <1>2, AdmitKeeps, RunCancelKeeps
<1>3. ASSUME NEW a \in Attempts,
             \/ handleAttemptHeartbeat(a)
             \/ handleAttemptCheckpoint(a)
             \/ reportAttempt(a)
             \/ handleAttemptCancel(a)
             \/ handleVerificationClaim(a)
             \/ abandonVerification(a)
      PROVE  Goal
  BY <1>3, HeartbeatKeeps, CheckpointKeeps, ReportKeeps, AttemptCancelKeeps,
     VerificationClaimKeeps, AbandonKeeps
<1>4. ASSUME NEW a \in Attempts, NEW d \in {"succeeded", "failed", "unknown"},
             handleObservation(a, d)
      PROVE  Goal
  BY <1>4, ObservationKeeps
<1>5. ASSUME NEW a \in Attempts, NEW v \in Verdicts, NEW c \in BOOLEAN,
             handleVerificationRecord(a, v, c)
      PROVE  Goal
  BY <1>5, VerificationRecordKeeps
<1>6. CASE handleTick \/ Crash \/ AdvanceGeneration \/ handleFence \/ ClockStep
  BY <1>6, TickKeeps, CrashKeeps, AdvanceKeeps, FenceKeeps, ClockStepKeeps
<1>7. CASE refusedTick \/ UNCHANGED xvars
  <2>1. UNCHANGED <<mode, left, task, run, att, obl, ctl, gen, ver>>
    BY <1>7 DEF refusedTick, xvars
  <2>2. KeepsAttempts
    BY <2>1 DEF KeepsAttempts
  <2> QED
    BY <2>1, <2>2 DEF XInv, RowsOK, AttemptInv, OneLive, StaleAreFenced, SuccessIsProven,
               ReadyIsQueued, Live, Attempts
<1> QED
  BY <1>1, <1>2, <1>3, <1>4, <1>5, <1>6, <1>7 DEF XNext

(* XInv is an invariant of Execution. *)
LEMMA ExecutionInvariant == XSpec => []XInv
<1>1. XInit => XInv
  BY XInitInv
<1>2. XInv /\ [XNext]_xvars => XInv'
  BY XNextInv
<1> QED
  BY <1>1, <1>2, PTL DEF XSpec

\* What is remembered of the last tick is whether it was refused.
LEMMA RefusalKnown == XSpec => [](refused \in BOOLEAN)
<1>1. XInit => refused \in BOOLEAN
  BY DEF XInit
<1>2. refused \in BOOLEAN /\ [XNext]_xvars => (refused \in BOOLEAN)'
  <2> SUFFICES ASSUME refused \in BOOLEAN, [XNext]_xvars
               PROVE  refused' \in BOOLEAN
    OBVIOUS
  <2>1. CASE TaskStep
    BY <2>1 DEF TaskStep, startTask, reviseContract, requestCancellation, retryTask,
                manualAcceptance
  <2>2. ASSUME NEW r \in DOMAIN run, admitAttempt(r) \/ handleRunCancel(r)
        PROVE  refused' \in BOOLEAN
    BY <2>2 DEF admitAttempt, handleRunCancel, CancelWith
  <2>3. ASSUME NEW a \in Attempts,
               \/ handleAttemptHeartbeat(a)
               \/ handleAttemptCheckpoint(a)
               \/ reportAttempt(a)
               \/ handleAttemptCancel(a)
               \/ handleVerificationClaim(a)
               \/ abandonVerification(a)
        PROVE  refused' \in BOOLEAN
    BY <2>3 DEF handleAttemptHeartbeat, handleAttemptCheckpoint, reportAttempt,
                handleAttemptCancel, CancelWith, handleVerificationClaim, abandonVerification
  <2>4. ASSUME NEW a \in Attempts, NEW d \in {"succeeded", "failed", "unknown"},
               handleObservation(a, d)
        PROVE  refused' \in BOOLEAN
    BY <2>4 DEF handleObservation
  <2>5. ASSUME NEW a \in Attempts, NEW v \in Verdicts, NEW c \in BOOLEAN,
               handleVerificationRecord(a, v, c)
        PROVE  refused' \in BOOLEAN
    BY <2>5 DEF handleVerificationRecord
  <2>6. CASE \/ handleTick \/ refusedTick \/ Crash \/ AdvanceGeneration \/ handleFence
             \/ ClockStep \/ UNCHANGED xvars
    BY <2>6 DEF handleTick, refusedTick, Crash, AdvanceGeneration, handleFence, ClockStep, xvars
  <2> QED
    BY <2>1, <2>2, <2>3, <2>4, <2>5, <2>6 DEF XNext
<1> QED
  BY <1>1, <1>2, PTL DEF XSpec

(* No handler, tick, restart or verdict leaves a row outside its types: an      *)
(* attempt always names a run that exists, a run's steps never pass the bound   *)
(* and the generation never exceeds what was persisted.                        *)
THEOREM ExecutionTypes == XSpec => []XTypeOK
<1>1. ASSUME XInv, refused \in BOOLEAN
      PROVE  XTypeOK
  <2>1. RowsOK /\ Attempts = 1..Len(att)
    BY <1>1, Rows DEF XInv
  <2>2. \A r \in DOMAIN run : run[r] \in [st : RunStates, steps : 0..StepLimit]
    BY <2>1, Rows DEF RunRow
  <2>3. ASSUME NEW a \in Attempts
        PROVE  att[a] \in [run : DOMAIN run, gen : 1..MaxGen, st : AttemptStates,
                           ttl : 0..Window, ctx : BOOLEAN, op : BOOLEAN,
                           job : Verdicts \cup {"none", "pending"}, claimed : BOOLEAN]
    <3>1. att[a] \in AttRow /\ att[a].run \in DOMAIN run
      BY <1>1, <2>1, Rows, RunOfAttempt
    <3> QED
      BY <3>1 DEF AttRow
  <2> QED
    BY <1>1, <2>1, <2>2, <2>3 DEF XTypeOK, RowsOK, TaskRow
<1> QED
  BY <1>1, ExecutionInvariant, RefusalKnown, PTL

(* However many attempts, restarts, expiries and late renewals there were, a    *)
(* controller that is up has no live attempt of an older generation             *)
(* (handleFence, admitAttempt).                                                *)
THEOREM NoStaleAttempt == XSpec => []StaleAreFenced
<1>1. XInv => StaleAreFenced
  BY DEF XInv
<1> QED
  BY <1>1, ExecutionInvariant, PTL

(* A task succeeds by a recorded, passed verdict of an attempt that reported,   *)
(* whose run succeeded with it, or by an operator's acceptance of a manual      *)
(* contract, and later retries, restarts and cancellations of others keep that  *)
(* (handleVerificationRecord, manualAcceptance).                               *)
THEOREM SuccessStaysProven == XSpec => []SuccessIsProven
<1>1. XInv => SuccessIsProven
  BY DEF XInv
<1> QED
  BY <1>1, ExecutionInvariant, PTL

(* Every ready task that nobody asked to cancel has a claimable run of its      *)
(* current contract (startTask, reviseContract, retryTask, enqueueRun).        *)
THEOREM ReadyTasksAreQueued == XSpec => []ReadyIsQueued
<1>1. XInv => ReadyIsQueued
  BY DEF XInv
<1> QED
  BY <1>1, ExecutionInvariant, PTL

(* For any step limit, the steps counted against a run and the one in flight    *)
(* stay within the limit, however many attempts shared the run (admitAttempt,   *)
(* handleObservation).                                                         *)
THEOREM StepBoundIsShared == XSpec => []StepsShared
<1>1. ASSUME XInv, NEW r \in DOMAIN run
      PROVE  run[r].steps + Cardinality({a \in LiveOf(r) : att[a].op}) <= StepLimit
  <2> DEFINE inFlight == {a \in LiveOf(r) : att[a].op}
  <2>1. run[r].steps \in 0..StepLimit
    BY <1>1, Rows DEF XInv, RunRow
  <2>2. CASE inFlight = {}
    <3>1. Cardinality(inFlight) = 0
      BY <2>2, FS_EmptySet
    <3> QED
      BY <2>1, <3>1, ExecutionAssumption
  <2>3. ASSUME NEW a \in inFlight
        PROVE  run[r].steps + Cardinality(inFlight) <= StepLimit
    <3>1. a \in Live /\ att[a].run = r /\ run[r].steps < StepLimit
      BY <1>1 DEF LiveOf, Live, XInv, AttemptInv
    <3>2. \A b \in inFlight : b = a
      BY <1>1, <3>1 DEF LiveOf, XInv, OneLive
    <3>3. inFlight = {a}
      BY <3>2
    <3>4. Cardinality(inFlight) = 1
      BY <3>3, FS_Singleton
    <3> QED
      BY <2>1, <3>1, <3>4, ExecutionAssumption
  <2> QED
    BY <2>2, <2>3
<1>2. XInv => StepsShared
  BY <1>1 DEF StepsShared
<1> QED
  BY <1>2, ExecutionInvariant, PTL

--------------------------------------------------------------------------------
(* A cancellation intent stops work                                            *)

\* What a step under a recorded intent leaves alone.
StopsWork ==
  /\ Len(att') = Len(att)
  /\ \A a \in Attempts : att'[a].op => att[a].op
  /\ task'.st \in {"running", "verifying"} => task'.st = task.st

\* A step that replaces one attempt's row and prepares no effect for it.
LEMMA OneAttemptStops ==
  ASSUME XInv, NEW a \in Attempts, NEW row, att' = [att EXCEPT ![a] = row],
         row.op => att[a].op,
         task'.st \in {"running", "verifying"} => task'.st = task.st
  PROVE  StopsWork
<1>1. att \in Seq(AttRow) /\ Attempts = 1..Len(att) /\ a \in 1..Len(att)
  BY Rows DEF XInv, RowsOK
<1>2. Len(att') = Len(att) /\ \A b \in 1..Len(att) : att'[b] = IF b = a THEN row ELSE att[b]
  BY <1>1
<1> QED
  BY <1>1, <1>2 DEF StopsWork

(* The operations on the task start no work under an intent. *)
LEMMA TaskStops ==
  ASSUME XInv, TaskStep, task.intent, task'.intent
  PROVE  StopsWork
<1>1. manualAcceptance \/ retryTask
  BY DEF TaskStep, startTask, reviseContract, requestCancellation
<1>2. CASE retryTask
  <2> DEFINE t == [task EXCEPT !.st = "ready", !.prior = "none", !.intent = FALSE,
                               !.est = "none", !.proof = 0, !.pinned = FALSE]
  <2>1. Enqueue(t) /\ task \in TaskRow
    BY <1>2, Rows DEF retryTask, XInv
  <2>2. t.intent = FALSE
    BY <2>1 DEF TaskRow
  <2>3. t \in TaskRow
    <3>1. "ready" \in TaskStates /\ 0 \in 0..MaxAttempts
      BY ExecutionAssumption DEF TaskStates
    <3> QED
      BY <2>1, <3>1, TaskRowFields
  <2> HIDE DEF t
  <2>4. task'.intent = FALSE
    BY <2>1, <2>2, <2>3, EnqueueRows
  <2> QED
    BY <2>4
<1>3. CASE manualAcceptance
  <2>1. /\ att' = att /\ task \in TaskRow
        /\ \/ task' = [task EXCEPT !.st = "succeeded", !.est = "manual", !.pinned = FALSE]
           \/ task' = [task EXCEPT !.st = "failed", !.pinned = FALSE]
    BY <1>3, Rows DEF manualAcceptance, XInv
  <2>2. task'.st \in {"succeeded", "failed"}
    BY <2>1 DEF TaskRow
  <2> QED
    BY <2>1, <2>2 DEF StopsWork
<1> QED
  BY <1>1, <1>2, <1>3

\* Claims and reports are refused under an intent; cancellations end attempts.
LEMMA CancelStops ==
  ASSUME XInv, NEW S \in SUBSET Attempts, NEW r \in DOMAIN run, CancelWith(S, r)
  PROVE  StopsWork
<1>1. Attempts = 1..Len(att) /\ task \in TaskRow /\ att \in Seq(AttRow)
  BY Rows DEF XInv, RowsOK
<1>2. att' = Ended(att, S, "stopped")
  BY DEF CancelWith
<1>3. Len(att') = Len(att) /\ \A a \in 1..Len(att) : att'[a].op = att[a].op
  <2>1. "stopped" \in AttemptStates
    BY DEF AttemptStates
  <2> QED
    BY <1>1, <1>2, <2>1, EndedRows
<1>4. task'.st = "cancelled"
  <2>1. "cancelled" \in TaskStates
    BY DEF TaskStates
  <2> QED
    BY <1>1, <2>1, MovedRow DEF CancelWith
<1> QED
  BY <1>1, <1>3, <1>4 DEF StopsWork

(* Calls of a worker or a verifier start no work under an intent. *)
LEMMA WorkerStops ==
  ASSUME XInv, NEW a \in Attempts, task.intent,
         \/ handleAttemptHeartbeat(a)
         \/ handleAttemptCheckpoint(a)
         \/ reportAttempt(a)
         \/ handleAttemptCancel(a)
         \/ handleVerificationClaim(a)
         \/ abandonVerification(a)
  PROVE  StopsWork
<1>1. att[a] \in AttRow
  BY Rows DEF XInv
<1>2. CASE handleAttemptHeartbeat(a)
  <2> DEFINE row == [att[a] EXCEPT !.ttl = Window]
  <2>1. att' = [att EXCEPT ![a] = row] /\ task' = task
    BY <1>2 DEF handleAttemptHeartbeat
  <2>2. row.op = att[a].op
    BY <1>1 DEF AttRow
  <2> HIDE DEF row
  <2> QED
    BY <2>1, <2>2, OneAttemptStops
<1>3. CASE handleAttemptCheckpoint(a)
  <2> DEFINE row == [att[a] EXCEPT !.ctx = TRUE]
  <2>1. att' = [att EXCEPT ![a] = row] /\ task' = task
    BY <1>3 DEF handleAttemptCheckpoint
  <2>2. row.op = att[a].op
    BY <1>1 DEF AttRow
  <2> HIDE DEF row
  <2> QED
    BY <2>1, <2>2, OneAttemptStops
<1>4. CASE reportAttempt(a)
  BY <1>4 DEF reportAttempt, CanMove
<1>5. CASE handleAttemptCancel(a)
  <2>1. {a} \in SUBSET Attempts /\ CancelWith({a}, att[a].run)
    BY <1>5 DEF handleAttemptCancel
  <2> QED
    BY <2>1, RunOfAttempt, CancelStops
<1>6. CASE handleVerificationClaim(a)
  <2> DEFINE row == [att[a] EXCEPT !.claimed = TRUE]
  <2>1. att' = [att EXCEPT ![a] = row] /\ task' = task
    BY <1>6 DEF handleVerificationClaim
  <2>2. row.op = att[a].op
    BY <1>1 DEF AttRow
  <2> HIDE DEF row
  <2> QED
    BY <2>1, <2>2, OneAttemptStops
<1>7. CASE abandonVerification(a)
  BY <1>7 DEF abandonVerification, StopsWork
<1> QED
  BY <1>2, <1>3, <1>4, <1>5, <1>6, <1>7

\* handleObservation: the next model step is not prepared.
LEMMA ObservationStops ==
  ASSUME XInv, NEW a \in Attempts, NEW d, handleObservation(a, d)
  PROVE  StopsWork
<1>1. /\ Attempts = 1..Len(att) /\ task \in TaskRow /\ att \in Seq(AttRow)
      /\ att[a] \in AttRow
  BY Rows DEF XInv, RowsOK
<1> DEFINE row == [att[a] EXCEPT !.op = FALSE]
<1>2. \/ att' = Fenced(att, {a}) /\ task' = TaskAfterFence({a})
      \/ att' = [att EXCEPT ![a] = row] /\ task' = task
      \/ att' = att /\ task' = task
  BY DEF handleObservation
<1>3. row.op = FALSE
  BY <1>1 DEF AttRow
<1> HIDE DEF row
<1>4. CASE att' = Fenced(att, {a}) /\ task' = TaskAfterFence({a})
  <2>1. Len(att') = Len(att) /\ \A b \in 1..Len(att) : att'[b].op => att[b].op
    BY <1>1, <1>4, FencedRows
  <2>2. task' = task \/ task'.st = "waiting"
    BY <1>1, <1>4, TaskAfterFenceRow
  <2> QED
    BY <1>1, <2>1, <2>2 DEF StopsWork
<1>5. CASE att' = [att EXCEPT ![a] = row] /\ task' = task
  BY <1>3, <1>5, OneAttemptStops
<1>6. CASE att' = att /\ task' = task
  BY <1>6 DEF StopsWork
<1> QED
  BY <1>2, <1>4, <1>5, <1>6

\* handleVerificationRecord: the verdict ends the task or leaves it.
LEMMA RecordStops ==
  ASSUME XInv, NEW a \in Attempts, NEW v \in Verdicts, NEW c \in BOOLEAN,
         handleVerificationRecord(a, v, c)
  PROVE  StopsWork
<1> DEFINE eff == EffectiveVerdict(v, c)
           t == IF eff \in {"passed", "failed"} THEN Evidenced(task, a) ELSE task
           target == CASE eff = "passed" -> IF mode = "manual" THEN "waiting" ELSE "succeeded"
                       [] eff \in {"failed", "tampered"} -> "failed"
                       [] OTHER -> t.st
           st == IF eff = "passed" THEN att[a].st ELSE "failed"
           row == [att[a] EXCEPT !.job = v, !.claimed = FALSE, !.st = st]
<1>1. /\ RowsOK /\ att[a] \in AttRow /\ task \in TaskRow /\ Attempts = 1..Len(att)
      /\ Len(att) \in Nat
  BY Rows DEF XInv
<1>2. att' = [att EXCEPT ![a] = row]
  BY DEF handleVerificationRecord
<1>3. row.op = att[a].op
  BY <1>1 DEF AttRow
<1>4. eff \in Verdicts
  BY DEF EffectiveVerdict, Verdicts
<1>5. eff = "inconclusive" => task' = task
  BY DEF handleVerificationRecord
<1>6. eff # "inconclusive" => task' = Moved(t, target)
  BY DEF handleVerificationRecord
<1>7. eff # "inconclusive" => target \in {"waiting", "succeeded", "failed"}
  BY <1>4 DEF Verdicts
<1>8. t \in TaskRow
  <2>1. a \in 0..MaxAttempts
    BY <1>1, ExecutionAssumption DEF RowsOK
  <2>2. Evidenced(task, a) \in TaskRow
    BY <1>1, <2>1, TaskRowFields DEF Evidenced
  <2> QED
    BY <1>1, <2>2
<1> HIDE DEF eff, t, target, st, row
<1>9. eff # "inconclusive" => task'.st = target
  <2>1. eff # "inconclusive" => target \in TaskStates
    BY <1>7 DEF TaskStates
  <2> QED
    BY <1>6, <1>8, <2>1, MovedRow
<1>10. task'.st \in {"running", "verifying"} => task'.st = task.st
  BY <1>5, <1>7, <1>9
<1> QED
  BY <1>2, <1>3, <1>10, OneAttemptStops

\* handleTick admits nothing, and no fence or clock step prepares an effect.
LEMMA ControllerStops ==
  ASSUME XInv, task.intent,
         handleTick \/ Crash \/ AdvanceGeneration \/ handleFence \/ ClockStep
  PROVE  StopsWork
<1>1. /\ Attempts = 1..Len(att) /\ task \in TaskRow /\ att \in Seq(AttRow)
      /\ \A a \in 1..Len(att) : att[a] \in AttRow /\ Len(att) \in Nat
  BY Rows DEF XInv, RowsOK
<1>2. CASE handleTick
  <2>1. PICK admitted \in SUBSET {a \in Live \ Lapsed : Admissible(a)} :
          att' = [a \in Attempts |->
                    IF a \in admitted THEN [att[a] EXCEPT !.st = "running", !.op = TRUE]
                    ELSE Fenced(att, Lapsed)[a]]
    BY <1>2 DEF handleTick
  <2>2. admitted = {}
    BY DEF Admissible
  <2>3. att' = [a \in 1..Len(att) |-> Fenced(att, Lapsed)[a]]
    BY <1>1, <2>1, <2>2
  <2>4. att' = Fenced(att, Lapsed)
    <3>1. Fenced(att, Lapsed) \in [1..Len(att) -> AttRow]
      BY <1>1, FencedRows, SeqFacts
    <3> QED
      BY <2>3, <3>1
  <2>5. Len(att') = Len(att) /\ \A a \in 1..Len(att) : att'[a].op => att[a].op
    BY <1>1, <2>4, FencedRows
  <2>6. task' = task \/ task'.st = "waiting"
    BY <1>1, <1>2, TaskAfterFenceRow DEF handleTick
  <2> QED
    BY <1>1, <2>5, <2>6 DEF StopsWork
<1>3. CASE handleFence
  <2>1. att' = Fenced(att, Stale) /\ task' = task
    BY <1>3 DEF handleFence
  <2>2. Len(att') = Len(att) /\ \A a \in 1..Len(att) : att'[a].op => att[a].op
    BY <1>1, <2>1, FencedRows
  <2> QED
    BY <1>1, <2>1, <2>2 DEF StopsWork
<1>4. CASE Crash \/ AdvanceGeneration
  BY <1>4 DEF Crash, AdvanceGeneration, StopsWork
<1>5. CASE ClockStep
  <2> DEFINE row(a) == IF a \in Live /\ att[a].ttl > 0 THEN [att[a] EXCEPT !.ttl = @ - 1]
                       ELSE att[a]
  <2>1. att' = [a \in 1..Len(att) |-> row(a)] /\ task' = task
    BY <1>1, <1>5 DEF ClockStep
  <2>2. \A a \in 1..Len(att) : row(a).op = att[a].op
    BY <1>1 DEF AttRow
  <2>3. Len(att') = Len(att)
    BY <1>5, ClockStepKeeps DEF KeepsAttempts
  <2> HIDE DEF row
  <2>4. \A a \in 1..Len(att) : att'[a].op => att[a].op
    BY <2>1, <2>2
  <2> QED
    BY <1>1, <2>1, <2>3, <2>4 DEF StopsWork
<1> QED
  BY <1>2, <1>3, <1>4, <1>5

(* From the moment a cancellation is recorded until a retry clears it, no step   *)
(* of any worker, operator or controller, in any order, claims an attempt,       *)
(* prepares a model effect or moves the task into running or verifying           *)
(* (applyTransition, handleTick, handleObservation).                            *)
THEOREM IntentHolds == XSpec => IntentStopsWork
<1>1. ASSUME XInv, [XNext]_xvars, task.intent, task'.intent
      PROVE  StopsWork
  <2>1. CASE TaskStep
    BY <1>1, <2>1, TaskStops
  <2>2. ASSUME NEW r \in DOMAIN run, admitAttempt(r) \/ handleRunCancel(r)
        PROVE  StopsWork
    <3>1. handleRunCancel(r)
      BY <1>1, <2>2 DEF admitAttempt
    <3>2. LiveOf(r) \in SUBSET Attempts /\ CancelWith(LiveOf(r), r)
      BY <3>1 DEF handleRunCancel, LiveOf, Live
    <3> QED
      BY <1>1, <3>2, CancelStops
  <2>3. ASSUME NEW a \in Attempts,
               \/ handleAttemptHeartbeat(a)
               \/ handleAttemptCheckpoint(a)
               \/ reportAttempt(a)
               \/ handleAttemptCancel(a)
               \/ handleVerificationClaim(a)
               \/ abandonVerification(a)
        PROVE  StopsWork
    BY <1>1, <2>3, WorkerStops
  <2>4. ASSUME NEW a \in Attempts, NEW d \in {"succeeded", "failed", "unknown"},
               handleObservation(a, d)
        PROVE  StopsWork
    BY <1>1, <2>4, ObservationStops
  <2>5. ASSUME NEW a \in Attempts, NEW v \in Verdicts, NEW c \in BOOLEAN,
               handleVerificationRecord(a, v, c)
        PROVE  StopsWork
    BY <1>1, <2>5, RecordStops
  <2>6. CASE handleTick \/ Crash \/ AdvanceGeneration \/ handleFence \/ ClockStep
    BY <1>1, <2>6, ControllerStops
  <2>7. CASE refusedTick \/ UNCHANGED xvars
    BY <2>7 DEF refusedTick, xvars, StopsWork
  <2> QED
    BY <1>1, <2>1, <2>2, <2>3, <2>4, <2>5, <2>6, <2>7 DEF XNext
<1>2. XInv /\ [XNext]_xvars =>
        [task.intent /\ task'.intent =>
           /\ Len(att') = Len(att)
           /\ \A a \in Attempts : att'[a].op => att[a].op
           /\ task'.st \in {"running", "verifying"} => task'.st = task.st]_xvars
  BY <1>1 DEF StopsWork
<1> QED
  BY <1>2, ExecutionInvariant, PTL DEF XSpec, IntentStopsWork

--------------------------------------------------------------------------------
(* Attempts implement the lease                                                *)

(* CHOOSE from a set of one. *)
LEMMA OnlyMember ==
  ASSUME NEW S, NEW a \in S, \A b \in S : b = a
  PROVE  (CHOOSE x \in S : TRUE) = a
OBVIOUS

\* Who holds a run, before and after a step.
LEMMA HolderIs ==
  ASSUME XInv
  PROVE  /\ LeaseHolder = [r \in 1..MaxRuns |-> LeaseHolder[r]]
         /\ \A r \in 1..MaxRuns : LiveOf(r) = {} => LeaseHolder[r] = 0
         /\ \A r \in 1..MaxRuns : \A a \in LiveOf(r) : LeaseHolder[r] = a
<1>1. \A r \in 1..MaxRuns : \A a \in LiveOf(r) : \A b \in LiveOf(r) : b = a
  BY DEF XInv, OneLive, LiveOf
<1>2. ASSUME NEW r \in 1..MaxRuns, NEW a \in LiveOf(r)
      PROVE  LeaseHolder[r] = a
  BY <1>1, OnlyMember DEF LeaseHolder
<1> QED
  BY <1>2 DEF LeaseHolder

(* The holder of a run after a step. *)
LEMMA HolderNext ==
  ASSUME XInv'
  PROVE  /\ LeaseHolder' = [r \in 1..MaxRuns |-> LeaseHolder'[r]]
         /\ \A r \in 1..MaxRuns : LiveOf(r)' = {} => LeaseHolder'[r] = 0
         /\ \A r \in 1..MaxRuns : \A a \in LiveOf(r)' : LeaseHolder'[r] = a
<1>1. \A r \in 1..MaxRuns : \A a \in LiveOf(r)' : \A b \in LiveOf(r)' : b = a
  BY DEF XInv, OneLive, LiveOf
<1>2. ASSUME NEW r \in 1..MaxRuns, NEW a \in LiveOf(r)'
      PROVE  LeaseHolder'[r] = a
  BY <1>1, OnlyMember DEF LeaseHolder
<1> QED
  BY <1>2 DEF LeaseHolder

\* A live attempt is a positive number of a run that exists.
LEMMA LiveRange ==
  ASSUME XInv, NEW a \in Live
  PROVE  a \in 1..Len(att) /\ att[a].run \in 1..MaxRuns /\ a \in LiveOf(att[a].run)
BY Rows DEF XInv, Live, LiveOf, AttRow

\* A claim grants the run to the new attempt.
LEMMA AdmitGrants ==
  ASSUME XInv, XInv', NEW r \in DOMAIN run, admitAttempt(r)
  PROVE  \E q \in 1..MaxRuns, h \in 1..MaxAttempts : Ownership!Grant(q, h)
<1>1. /\ att \in Seq(AttRow) /\ Len(att) \in Nat /\ Attempts = 1..Len(att)
      /\ r \in 1..Len(run) /\ Len(run) \in Nat /\ Len(run) <= MaxRuns
  BY Rows DEF XInv, RowsOK
<1> DEFINE row == [run |-> r, gen |-> gen, st |-> "claimed",
                   ttl |-> IF left < Window THEN left ELSE Window,
                   ctx |-> FALSE, op |-> FALSE, job |-> "none", claimed |-> FALSE]
<1>2. Len(att) < MaxAttempts /\ LiveOf(r) = {} /\ att' = Append(att, row)
  BY DEF admitAttempt
<1>3. row.run = r /\ row.st \in LiveStates
  BY DEF LiveStates
<1> HIDE DEF row
<1>4. PICK n \in Nat : n = Len(att) + 1
  BY <1>1
<1>5. /\ Attempts' = 1..n /\ att'[n] = row
      /\ \A a \in 1..Len(att) : att'[a] = att[a]
  BY <1>1, <1>2, <1>4 DEF Attempts
<1>6. r \in 1..MaxRuns /\ n \in 1..MaxAttempts
  BY <1>1, <1>2, <1>4, ExecutionAssumption
<1>7. Live' = Live \cup {n}
  BY <1>1, <1>3, <1>4, <1>5 DEF Live
<1>8. Attempts' \ Live' = Attempts \ Live
  BY <1>1, <1>4, <1>5, <1>7
<1>9. \A q \in 1..MaxRuns : LiveOf(q)' = IF q = r THEN {n} ELSE LiveOf(q)
  <2> SUFFICES ASSUME NEW q \in 1..MaxRuns
               PROVE  LiveOf(q)' = IF q = r THEN {n} ELSE LiveOf(q)
    OBVIOUS
  <2>1. \A a \in Live : a \in 1..Len(att) /\ att'[a] = att[a]
    BY <1>5, LiveRange
  <2>2. LiveOf(q)' = {a \in Live \cup {n} : att'[a].run = q}
    BY <1>7 DEF LiveOf
  <2>3. CASE q = r
    BY <1>2, <1>3, <1>5, <2>1, <2>2, <2>3, ZenonT(40) DEF LiveOf
  <2>4. CASE q # r
    BY <1>3, <1>5, <2>1, <2>2, <2>4 DEF LiveOf
  <2> QED
    BY <2>3, <2>4
<1>10. \A q \in 1..MaxRuns : LeaseHolder'[q] = IF q = r THEN n ELSE LeaseHolder[q]
  <2> SUFFICES ASSUME NEW q \in 1..MaxRuns
               PROVE  LeaseHolder'[q] = IF q = r THEN n ELSE LeaseHolder[q]
    OBVIOUS
  <2>1. CASE q = r
    BY <1>9, <2>1, HolderNext
  <2>2. CASE q # r /\ LiveOf(q) = {}
    BY <1>9, <2>2, HolderIs, HolderNext
  <2>3. ASSUME q # r, NEW a \in LiveOf(q)
        PROVE  LeaseHolder'[q] = LeaseHolder[q]
    BY <1>9, <2>3, HolderIs, HolderNext
  <2> QED
    BY <2>1, <2>2, <2>3
<1>11. LeaseHolder' = [LeaseHolder EXCEPT ![r] = n]
  BY <1>6, <1>10, HolderIs, HolderNext
<1>12. LeaseHolder[r] = 0
  BY <1>2, <1>6, HolderIs
<1>13. ASSUME NEW q \in 1..MaxRuns
       PROVE  LeaseHolder[q] # n
  <2>1. CASE LiveOf(q) = {}
    BY <1>1, <1>4, <2>1, HolderIs
  <2>2. ASSUME NEW a \in LiveOf(q)
        PROVE  LeaseHolder[q] # n
    <3>1. LeaseHolder[q] = a /\ a \in 1..Len(att)
      BY HolderIs, LiveRange DEF LiveOf
    <3> QED
      BY <1>1, <1>4, <3>1
  <2> QED
    BY <2>1, <2>2
<1>14. n \notin Attempts \ Live
  BY <1>1, <1>4
<1>15. Ownership!Grant(r, n)
  BY <1>8, <1>11, <1>12, <1>13, <1>14 DEF Ownership!Grant
<1> QED
  BY <1>6, <1>15

\* Every other step ends the leases of the runs whose attempts it ended.
LEMMA OthersEnd ==
  ASSUME XInv, XInv', KeepsAttempts
  PROVE  [Ownership!LNext]_(Ownership!lvars)
<1> DEFINE S == {r \in 1..MaxRuns : LiveOf(r) # {} /\ LiveOf(r)' = {}}
<1>1. Attempts = 1..Len(att) /\ Attempts' = 1..Len(att)
  BY Rows, RowsNext DEF XInv, KeepsAttempts
<1>2. /\ Live' \subseteq Live
      /\ \A a \in Live : att'[a].run = att[a].run
  BY <1>1 DEF Live, KeepsAttempts
<1>3. \A r \in 1..MaxRuns : LiveOf(r)' = LiveOf(r) \cap Live'
  BY <1>2 DEF LiveOf
<1>4. \A r \in 1..MaxRuns : LeaseHolder'[r] = IF r \in S THEN 0 ELSE LeaseHolder[r]
  <2> SUFFICES ASSUME NEW r \in 1..MaxRuns
               PROVE  LeaseHolder'[r] = IF r \in S THEN 0 ELSE LeaseHolder[r]
    OBVIOUS
  <2>1. CASE LiveOf(r)' = {}
    BY <2>1, HolderIs, HolderNext
  <2>2. ASSUME NEW a \in LiveOf(r)'
        PROVE  LeaseHolder'[r] = LeaseHolder[r] /\ r \notin S
    <3>1. a \in LiveOf(r)
      BY <1>3
    <3> QED
      BY <2>2, <3>1, HolderIs, HolderNext
  <2> QED
    BY <2>1, <2>2
<1>5. LeaseHolder' = [r \in 1..MaxRuns |-> IF r \in S THEN 0 ELSE LeaseHolder[r]]
  BY <1>4, HolderNext
<1>6. ASSUME NEW r \in S
      PROVE  LeaseHolder[r] # 0 /\ LeaseHolder[r] \in Live \ Live'
  <2>1. PICK a \in LiveOf(r) : TRUE
    OBVIOUS
  <2>2. LeaseHolder[r] = a /\ a \in Live /\ a \in 1..Len(att)
    BY HolderIs, LiveRange DEF LiveOf
  <2>3. a \notin Live'
    BY <1>3, <2>1
  <2> QED
    BY <2>2, <2>3
<1>7. ASSUME NEW a \in Live \ Live'
      PROVE  att[a].run \in S /\ LeaseHolder[att[a].run] = a
  <2>1. att[a].run \in 1..MaxRuns /\ a \in LiveOf(att[a].run)
    BY LiveRange
  <2>2. LeaseHolder[att[a].run] = a
    BY <2>1, HolderIs
  <2>3. \A b \in LiveOf(att[a].run) : b = a
    BY <2>1 DEF XInv, OneLive, LiveOf
  <2>4. LiveOf(att[a].run) \cap Live' = {}
    BY <2>3
  <2>5. \A r \in 1..MaxRuns : r = att[a].run => LiveOf(r)' = {}
    BY <1>3, <2>4
  <2> QED
    BY <2>1, <2>2, <2>5
<1>8. Attempts' \ Live' = (Attempts \ Live) \cup {LeaseHolder[r] : r \in S}
  <2>1. Live \ Live' = {LeaseHolder[r] : r \in S}
    BY <1>6, <1>7
  <2>2. Live \subseteq Attempts
    BY DEF Live
  <2> QED
    BY <1>1, <1>2, <2>1, <2>2
<1> HIDE DEF S
<1>9. CASE S = {}
  <2>1. LeaseHolder' = LeaseHolder
    BY <1>5, <1>9, HolderIs
  <2>2. Attempts' \ Live' = Attempts \ Live
    BY <1>8, <1>9
  <2> QED
    BY <2>1, <2>2 DEF Ownership!lvars
<1>10. CASE S # {}
  <2>1. S \in (SUBSET (1..MaxRuns)) \ {{}}
    BY <1>10 DEF S
  <2>2. Ownership!End(S)
    BY <1>5, <1>6, <1>8 DEF Ownership!End
  <2> QED
    BY <2>1, <2>2 DEF Ownership!LNext
<1> QED
  BY <1>9, <1>10

(* Attempts implement the lease that a claim promises, for any number of runs,   *)
(* attempts and restarts: a run is granted only when nobody holds it and only    *)
(* to an attempt that never held one, and whatever ends an attempt (a report, a  *)
(* cancellation, an expiry, a fence, a late observation) ends the lease for      *)
(* good (admitAttempt, checkWorkerCall, fenceAttempt).                          *)
THEOREM AttemptsAreLeases == XSpec => RunsAreLeased
<1>1. XInit => Ownership!LInit
  <2> SUFFICES ASSUME XInit
               PROVE  Ownership!LInit
    OBVIOUS
  <2>1. Attempts = {} /\ Live = {} /\ \A r \in 1..MaxRuns : LiveOf(r) = {}
    BY DEF XInit, Attempts, Live, LiveOf
  <2> QED
    BY <2>1 DEF LeaseHolder, Ownership!LInit
<1>2. XInv /\ XInv' /\ [XNext]_xvars => [Ownership!LNext]_(Ownership!lvars)
  <2> SUFFICES ASSUME XInv, XInv', [XNext]_xvars
               PROVE  [Ownership!LNext]_(Ownership!lvars)
    OBVIOUS
  <2>1. KeepsAttempts \/ \E r \in DOMAIN run : admitAttempt(r)
    BY XNextInv
  <2>2. CASE KeepsAttempts
    BY <2>2, OthersEnd
  <2>3. CASE \E r \in DOMAIN run : admitAttempt(r)
    BY <2>3, AdmitGrants DEF Ownership!LNext
  <2> QED
    BY <2>1, <2>2, <2>3
<1> QED
  BY <1>1, <1>2, ExecutionInvariant, PTL DEF XSpec, RunsAreLeased, Ownership!LeaseSpec

================================================================================
