------------------------------- MODULE TurnsProofs -------------------------------
(***************************************************************************)
(* Proofs about the decision stream of a hosted worker: a reply is the last *)
(* a turn decides, and no model step is dispatched beside another effect of *)
(* its turn.                                                                *)
(***************************************************************************)
EXTENDS Turns, SequenceTheorems, TLAPS

--------------------------------------------------------------------------------
(* The inductive invariant.  Its parts speak of a turn t with its row r, the *)
(* version n the routing index has for it, and the effects.                  *)

TurnStates == {"pending", "claimed", "context_pending", "model_pending",
               "proposal_pending", "waiting", "completed"}

TurnRow == [st : TurnStates, gen : Nat, v : Nat, wake : BOOLEAN, steps : Nat,
            ctx : Nat, staged : SUBSET Nat, said : SUBSET Nat]

OpRow == [turn : Nat, kind : {"step", "tool"}, step : Nat,
          st : {"staged", "review", "sent", "unknown", "closed"},
          row : {"prepared", "recorded", "failed"},
          d : {"none", "succeeded", "failed", "unknown"},
          route : {"none", "turn", "proposal", "nobody"},
          owed : BOOLEAN, drive : BOOLEAN, tool : Nat, ref : Nat]

PlanRow == [v : Nat, blind : BOOLEAN]

TickRow == [ph : {"work", "item", "dispatch"},
            kind : {"none", "claim", "resume", "context", "proposal", "delivery"},
            turn : Nat, v : Nat, replies : SUBSET Nat, blocked : BOOLEAN, blind : BOOLEAN]

TTypes ==
  /\ inbox \in Nat
  /\ turn \in Seq(TurnRow)
  /\ Len(turn) <= MaxTurns
  /\ op \in Seq(OpRow)
  /\ gen \in Nat
  /\ tick \in TickRow
  /\ info \in [Turns -> Nat]
  /\ plan \in [Turns -> PlanRow]
  /\ faults \in Nat

Of(t, ops) == {o \in DOMAIN ops : ops[o].turn = t}

(* A worker goes on to the tool call of this step. *)
Driving(x) == x.drive /\ x.tool # 0

(* The step bound is reached: the turn waits for good. *)
Stuck(r) == r.st = "waiting" /\ ~r.wake /\ r.steps >= StepLimit

(* No tool call can be recorded at the version the turn has. *)
Behind(t, r, ops) == \A p \in Of(t, ops) : ops[p].ref < r.v

(* Versions: every reference to a turn is to one it had. *)
Versions(t, r, n, ops) ==
  /\ r.v > 0
  /\ n <= r.v
  /\ \A p \in Of(t, ops) : ops[p].ref <= r.v
  /\ r.st = "completed" => n < r.v /\ Behind(t, r, ops)

(* A turn that recovery wakes up has nothing of the past in flight. *)
Recovering(t, r, ops) ==
  r.wake => /\ r.st = "waiting"
            /\ \A p \in Of(t, ops) : ~ops[p].drive /\ ops[p].ref = 0

(* The context of a turn is that of its last step. *)
LastStep(t, r, ops) == \A o \in Of(t, ops) : ops[o].kind = "step" => o <= r.ctx

(* While a worker goes on to a tool call the turn has not gone on. *)
OneDriver(t, r, ops) ==
  /\ \A o \in Of(t, ops) : Driving(ops[o]) =>
       \/ r.st = "proposal_pending" /\ Behind(t, r, ops)
       \/ r.st = "completed"
       \/ Stuck(r)
  /\ \A o, q \in Of(t, ops) : Driving(ops[o]) /\ Driving(ops[q]) => o = q

(* A reply without a tool call has settled what becomes of the turn. *)
Decided(t, r, ops) ==
  \A a \in r.staged \cup r.said :
    /\ a \in Of(t, ops)
    /\ ops[a].row # "prepared"
    /\ ops[a].tool = 0 =>
         \/ /\ r.st = "proposal_pending" /\ r.staged # {}
            /\ Behind(t, r, ops)
            /\ \A b \in Of(t, ops) : ~Driving(ops[b])
         \/ r.st = "completed"
         \/ Stuck(r)

Final(t, r, ops) ==
  \A a \in r.staged \cup r.said : \A o \in Of(t, ops) :
    ops[o].kind = "step" /\ o > a => ops[a].tool # 0

TurnInv(t, r, n, ops) ==
  /\ Versions(t, r, n, ops)
  /\ Recovering(t, r, ops)
  /\ LastStep(t, r, ops)
  /\ OneDriver(t, r, ops)
  /\ Decided(t, r, ops)
  /\ Final(t, r, ops)

TurnsOK(rows, ns, ops) == \A t \in DOMAIN rows : TurnInv(t, rows[t], ns[t], ops)

(* Effects are of turns, and a tool call is of the turn of its step. *)
OpsOK(rows, ops) ==
  \A o \in DOMAIN ops :
    /\ ops[o].turn \in DOMAIN rows
    /\ ops[o].tool # 0 => ops[o].tool \in Of(ops[o].turn, ops)

(* Nothing of a turn may still be sent or has an unknown outcome. *)
Settled(t, ops) == \A o \in Of(t, ops) : ops[o].st \in {"closed", "review"}

(* ItemKind, of a row. *)
KindOf(r) ==
  CASE r.st = "pending" -> "claim"
    [] r.st = "waiting" /\ r.wake -> "resume"
    [] r.st = "claimed" -> "context"
    [] r.st = "model_pending" -> "proposal"
    [] r.st = "proposal_pending" /\ r.staged # {} -> "delivery"
    [] OTHER -> "none"

(* An item is what the turn is listed as while the turn has its version, and *)
(* what was seen settled then is.                                            *)
TickOK(k, rows, ops) ==
  k.ph = "item" =>
    /\ k.turn \in DOMAIN rows
    /\ k.v <= rows[k.turn].v
    /\ k.v = rows[k.turn].v =>
         /\ KindOf(rows[k.turn]) = k.kind
         /\ ~k.blind /\ ~k.blocked => Settled(k.turn, ops)

(* A plan that the turn still has was made when its effects were settled. *)
PlanOK(pl, rows, ops) ==
  \A t \in DOMAIN rows :
    /\ pl[t].v <= rows[t].v
    /\ ~pl[t].blind /\ pl[t].v = rows[t].v => Settled(t, ops)

Unused == \A t \in Turns : t \notin DOMAIN turn => info[t] = 0 /\ plan[t] = NoPlan

TInv ==
  /\ TTypes
  /\ TurnsOK(turn, info, op)
  /\ OpsOK(turn, op)
  /\ TickOK(tick, turn, op)
  /\ PlanOK(plan, turn, op)
  /\ Unused

--------------------------------------------------------------------------------
(* What the steps do to one turn.                                            *)

(* The effects of a turn are the same in two lists, for all a turn can see. *)
Alike(x, y) ==
  /\ y.kind = x.kind /\ y.row = x.row /\ y.tool = x.tool /\ y.ref = x.ref
  /\ y.drive <=> x.drive

Agree(t, ops, ops2) ==
  /\ Of(t, ops2) = Of(t, ops)
  /\ \A o \in Of(t, ops) : Alike(ops[o], ops2[o])

(* Numbers are numbers. *)
Refs(ops) == \A p \in DOMAIN ops : p \in Nat /\ p # 0 /\ ops[p].ref \in Nat

(* The turn may go on: no worker and no answer of the past is in the way. *)
Open(t, r, ops) ==
  /\ \A o \in Of(t, ops) : ~Driving(ops[o])
  /\ \A a \in r.staged \cup r.said : ops[a].tool # 0

(* Effects of other turns do not matter to a turn's invariant. *)
LEMMA StaysInv ==
  ASSUME NEW t, NEW r, NEW n, NEW ops, NEW ops2, TurnInv(t, r, n, ops), Agree(t, ops, ops2)
  PROVE  TurnInv(t, r, n, ops2)
<1>1. Versions(t, r, n, ops2)
  BY DEF TurnInv, Versions, Agree, Alike, Behind
<1>2. Recovering(t, r, ops2)
  BY DEF TurnInv, Recovering, Agree, Alike
<1>3. LastStep(t, r, ops2)
  BY DEF TurnInv, LastStep, Agree, Alike
<1>4. \A o \in Of(t, ops) : Driving(ops2[o]) <=> Driving(ops[o])
  BY DEF Agree, Alike, Driving
<1>5. Behind(t, r, ops2) <=> Behind(t, r, ops)
  BY DEF Agree, Alike, Behind
<1>6. OneDriver(t, r, ops2)
  BY <1>4, <1>5 DEF TurnInv, OneDriver, Agree
<1>7. Decided(t, r, ops2)
  BY <1>4, <1>5 DEF TurnInv, Decided, Agree, Alike
<1>8. Final(t, r, ops2)
  BY DEF TurnInv, Final, Decided, Agree, Alike
<1> QED
  BY <1>1, <1>2, <1>3, <1>6, <1>7, <1>8 DEF TurnInv

(* A turn that is claimed, prepares a context, commits it, or is being       *)
(* recovered, is open; so is one whose tool call is recorded at its version. *)
LEMMA IsOpen ==
  ASSUME NEW t, NEW r \in TurnRow, NEW n, NEW ops, Refs(ops), TurnInv(t, r, n, ops),
         \/ r.st \in {"pending", "claimed", "context_pending", "model_pending"}
         \/ r.wake
         \/ ~Stuck(r) /\ \E p \in Of(t, ops) : ops[p].ref = r.v
  PROVE  Open(t, r, ops)
<1>1. r.wake => r.st = "waiting" /\ \A p \in Of(t, ops) : ~Driving(ops[p])
  BY DEF TurnInv, Recovering, Driving
<1>2. r.wake => ~Stuck(r)
  BY DEF Stuck
<1>3. r.st # "waiting" => ~Stuck(r)
  BY DEF Stuck
<1>4. (\E p \in Of(t, ops) : ops[p].ref = r.v) => ~Behind(t, r, ops) /\ r.st # "completed"
  <2>1. r.v \in Nat
    BY DEF TurnRow
  <2> QED
    BY <2>1 DEF Behind, TurnInv, Versions
<1>5. \A o \in Of(t, ops) : Driving(ops[o]) =>
       \/ r.st = "proposal_pending" /\ Behind(t, r, ops)
       \/ r.st = "completed"
       \/ Stuck(r)
  BY DEF TurnInv, OneDriver
<1>6. \A a \in r.staged \cup r.said : ops[a].tool = 0 =>
       \/ r.st = "proposal_pending" /\ Behind(t, r, ops)
       \/ r.st = "completed"
       \/ Stuck(r)
  BY DEF TurnInv, Decided
<1> QED
  BY <1>1, <1>2, <1>3, <1>4, <1>5, <1>6 DEF Open

(* An open turn goes on: a claim, a context, its commit, a failed or refused *)
(* step, a tool result.                                                      *)
GoesRow(r, r2) ==
  /\ r2.v = r.v + 1 /\ ~r2.wake /\ r2.st # "completed"
  /\ r2.staged = r.staged /\ r2.said = r.said

GoesOps(t, c, ops, ops2) ==
  /\ \A o \in Of(t, ops) :
       /\ o \in Of(t, ops2) /\ ops2[o].ref = ops[o].ref
       /\ ops[o].row # "prepared" => ops2[o].row # "prepared" /\ ops2[o].tool = ops[o].tool
  /\ \A o \in Of(t, ops2) :
       /\ ~Driving(ops2[o])
       /\ o \notin Of(t, ops) => ops2[o].ref = 0
       /\ ops2[o].kind = "step" => o <= c

(* A turn that is still open goes on, with no reply given. *)
LEMMA GoesOnInv ==
  ASSUME NEW t, NEW r \in TurnRow, NEW n, NEW ops, Refs(ops), TurnInv(t, r, n, ops), Open(t, r, ops),
         NEW r2 \in TurnRow, NEW n2 \in Nat, NEW ops2, Refs(ops2),
         n2 <= r2.v, GoesRow(r, r2), GoesOps(t, r2.ctx, ops, ops2)
  PROVE  TurnInv(t, r2, n2, ops2)
<1> USE DEF GoesRow, GoesOps
<1>0. r.v \in Nat /\ r2.v \in Nat
  BY DEF TurnRow
<1>1. Versions(t, r2, n2, ops2)
  <2>1. \A p \in Of(t, ops) : ops[p].ref <= r.v /\ ops[p].ref \in Nat
    BY DEF TurnInv, Versions, Refs, Of
  <2> QED
    BY <1>0, <2>1 DEF Versions
<1>2. Recovering(t, r2, ops2)
  BY DEF Recovering
<1>3. LastStep(t, r2, ops2)
  BY DEF LastStep
<1>4. OneDriver(t, r2, ops2)
  BY DEF OneDriver
<1>5. \A a \in r2.staged \cup r2.said : a \in Of(t, ops) /\ ops[a].row # "prepared" /\ ops[a].tool # 0
  BY DEF Open, TurnInv, Decided
<1>6. Decided(t, r2, ops2)
  BY <1>5 DEF Decided
<1>7. Final(t, r2, ops2)
  BY <1>5 DEF Final
<1> QED
  BY <1>1, <1>2, <1>3, <1>4, <1>6, <1>7 DEF TurnInv

(* A model step answers with a reply, a tool call or both: o is the effect   *)
(* of the step.                                                              *)
AnswersRow(r, r2, o) ==
  /\ r2.v = r.v + 1 /\ ~r2.wake /\ (r2.st = "proposal_pending" \/ Stuck(r2))
  /\ r2.ctx = r.ctx /\ r2.said = r.said /\ r2.staged \in {r.staged, r.staged \cup {o}}

AnswersOps(t, o, ops, ops2) ==
  /\ \A p \in Of(t, ops) : /\ p \in Of(t, ops2)
                           /\ ops2[p].kind = ops[p].kind /\ ops2[p].ref = ops[p].ref
                           /\ p # o => Alike(ops[p], ops2[p])
  /\ \A p \in Of(t, ops2) : p \notin Of(t, ops) =>
       ops2[p].kind = "tool" /\ ops2[p].ref = 0 /\ ~Driving(ops2[p])

(* A turn's last model step answers it. *)
LEMMA AnswersInv ==
  ASSUME NEW t, NEW r \in TurnRow, NEW n \in Nat, NEW ops, Refs(ops), TurnInv(t, r, n, ops), Open(t, r, ops),
         NEW r2 \in TurnRow, NEW ops2, Refs(ops2), NEW o \in Of(t, ops),
         ops[o].row = "prepared", ops[o].kind = "step", r.ctx = o, o \in Nat,
         AnswersRow(r, r2, o), AnswersOps(t, o, ops, ops2),
         ops2[o].row # "prepared", r2.staged = r.staged => ops2[o].tool # 0
  PROVE  TurnInv(t, r2, n, ops2)
<1> USE DEF AnswersRow, AnswersOps
<1>0. r.v \in Nat /\ r2.v \in Nat /\ r.ctx \in Nat
  BY DEF TurnRow
<1>1. \A p \in Of(t, ops2) : ops2[p].ref \in Nat /\ ops2[p].ref <= r.v
  <2>1. \A p \in Of(t, ops2) : ops2[p].ref \in Nat
    BY DEF Refs, Of
  <2>2. \A p \in Of(t, ops) : ops[p].ref <= r.v
    BY DEF TurnInv, Versions
  <2>3. \A p \in Of(t, ops2) : p \notin Of(t, ops) => ops2[p].ref = 0
    OBVIOUS
  <2>4. \A p \in Of(t, ops) : ops2[p].ref = ops[p].ref
    OBVIOUS
  <2> HIDE DEF Of
  <2> QED
    BY <1>0, <2>1, <2>2, <2>3, <2>4
<1>2. Behind(t, r2, ops2)
  <2> SUFFICES ASSUME NEW p \in Of(t, ops2)
               PROVE  ops2[p].ref < r.v + 1
    BY DEF Behind
  <2>1. ops2[p].ref \in Nat /\ ops2[p].ref <= r.v
    BY <1>1
  <2> QED
    BY <1>0, <2>1
<1>3. r2.st # "completed"
  BY DEF Stuck
<1>4. Versions(t, r2, n, ops2)
  BY <1>0, <1>1, <1>3 DEF Versions, TurnInv
<1>5. Recovering(t, r2, ops2)
  BY DEF Recovering
<1>6. LastStep(t, r2, ops2)
  BY DEF LastStep, TurnInv
<1>7. \A p \in Of(t, ops2) : Driving(ops2[p]) => p = o
  <2>1. \A p \in Of(t, ops) : ~Driving(ops[p])
    BY DEF Open
  <2> QED
    BY <2>1 DEF Driving, Alike
<1>8. OneDriver(t, r2, ops2)
  BY <1>2, <1>7 DEF OneDriver
<1>9. \A a \in r.staged \cup r.said : a \in Of(t, ops) /\ a # o /\ ops[a].row # "prepared" /\ ops[a].tool # 0
  BY DEF Open, TurnInv, Decided
<1>10. \A a \in r.staged \cup r.said : a \in Of(t, ops2) /\ ops2[a].row # "prepared" /\ ops2[a].tool # 0
  BY <1>9 DEF Alike
<1>11. Decided(t, r2, ops2)
  <2> SUFFICES ASSUME NEW a \in r2.staged \cup r2.said
               PROVE  /\ a \in Of(t, ops2)
                      /\ ops2[a].row # "prepared"
                      /\ ops2[a].tool = 0 =>
                           \/ /\ r2.st = "proposal_pending" /\ r2.staged # {}
                              /\ Behind(t, r2, ops2)
                              /\ \A b \in Of(t, ops2) : ~Driving(ops2[b])
                           \/ r2.st = "completed"
                           \/ Stuck(r2)
    BY DEF Decided
  <2>1. CASE a \in r.staged \cup r.said
    BY <1>10, <2>1
  <2>2. CASE a \notin r.staged \cup r.said
    <3>1. a = o /\ r2.staged # {}
      BY <2>2
    <3>2. ops2[o].tool = 0 => \A b \in Of(t, ops2) : ~Driving(ops2[b])
      BY <1>7 DEF Driving
    <3> QED
      BY <1>2, <3>1, <3>2
  <2> QED
    BY <2>1, <2>2
<1>12. Final(t, r2, ops2)
  <2> SUFFICES ASSUME NEW a \in r2.staged \cup r2.said, NEW p \in Of(t, ops2),
                      ops2[p].kind = "step", p > a
               PROVE  ops2[a].tool # 0
    BY DEF Final
  <2>1. CASE a \in r.staged \cup r.said
    BY <1>10, <2>1
  <2>2. CASE a \notin r.staged \cup r.said
    <3>1. a = o /\ p \in Of(t, ops) /\ ops[p].kind = "step"
      BY <2>2
    <3>2. p <= o
      BY <3>1 DEF TurnInv, LastStep
    <3>3. p \in Nat
      BY <3>1 DEF Of, Refs
    <3> QED
      BY <3>1, <3>2, <3>3
  <2> QED
    BY <2>1, <2>2
<1> QED
  BY <1>4, <1>5, <1>6, <1>8, <1>11, <1>12 DEF TurnInv

(* A reply is recorded, or a tool result is when the bound is reached: the   *)
(* turn ends.  The worker may have left off driving.                         *)
LEMMA EndsInv ==
  ASSUME NEW t, NEW r \in TurnRow, NEW n \in Nat, NEW ops, Refs(ops), TurnInv(t, r, n, ops),
         NEW r2 \in TurnRow, NEW ops2, Refs(ops2),
         r2.v = r.v + 1, r2.st = "completed" \/ Stuck(r2), ~r2.wake, r2.ctx = r.ctx,
         r2.staged \cup r2.said \subseteq r.staged \cup r.said,
         Of(t, ops2) = Of(t, ops),
         \A p \in Of(t, ops) : /\ ops2[p].kind = ops[p].kind /\ ops2[p].tool = ops[p].tool
                               /\ ops[p].row # "prepared" => ops2[p].row # "prepared"
                               /\ ops2[p].ref <= r.v
                               /\ ops2[p].drive => ops[p].drive
  PROVE  TurnInv(t, r2, n, ops2)
<1>0. r.v \in Nat /\ r2.v \in Nat
  BY DEF TurnRow
<1>1. \A p \in Of(t, ops2) : ops2[p].ref \in Nat /\ ops2[p].ref <= r.v
  BY DEF Refs, Of
<1>2. Behind(t, r2, ops2)
  BY <1>0, <1>1 DEF Behind
<1>3. n <= r.v
  BY DEF TurnInv, Versions
<1>4. Versions(t, r2, n, ops2)
  BY <1>0, <1>1, <1>2, <1>3 DEF Versions
<1>5. Recovering(t, r2, ops2)
  BY DEF Recovering
<1>6. LastStep(t, r2, ops2)
  BY DEF LastStep, TurnInv
<1>7. \A p \in Of(t, ops2) : Driving(ops2[p]) => Driving(ops[p])
  BY DEF Driving
<1>8. OneDriver(t, r2, ops2)
  BY <1>7 DEF OneDriver, TurnInv
<1>9. Decided(t, r2, ops2)
  BY DEF Decided, TurnInv
<1>10. Final(t, r2, ops2)
  <2> SUFFICES ASSUME NEW a \in r2.staged \cup r2.said, NEW p \in Of(t, ops2),
                      ops2[p].kind = "step", p > a
               PROVE  ops2[a].tool # 0
    BY DEF Final
  <2>1. a \in r.staged \cup r.said /\ a \in Of(t, ops) /\ p \in Of(t, ops) /\ ops[p].kind = "step"
    BY DEF TurnInv, Decided
  <2>2. ops[a].tool # 0
    BY <2>1 DEF TurnInv, Final
  <2> QED
    BY <2>1, <2>2
<1> QED
  BY <1>4, <1>5, <1>6, <1>8, <1>9, <1>10 DEF TurnInv

(* The reply was sent at most, or it was recorded and the turn ended. *)
SaidRow(r, r2) ==
  /\ r2.v = r.v /\ r2.st = r.st /\ (r2.wake <=> r.wake) /\ r2.steps = r.steps /\ r2.ctx = r.ctx
  /\ r2.staged = r.staged /\ r2.said \subseteq r.staged \cup r.said
EndedRow(r, r2) ==
  /\ r2.v = r.v + 1 /\ (r2.wake <=> r.wake) /\ r2.ctx = r.ctx
  /\ r2.st = "completed" \/ (r2.st = "waiting" /\ r2.steps >= StepLimit)
  /\ r2.staged \cup r2.said \subseteq r.staged \cup r.said

(* The effects of a turn whose worker goes on from the step o. *)
DroveOps(t, o, n, ops, ops2) ==
  \A p \in Of(t, ops) :
    /\ ops2[p].kind = ops[p].kind /\ ops2[p].tool = ops[p].tool
    /\ ops2[p].row = ops[p].row
    /\ p = o => ~ops2[p].drive
    /\ p # o => (ops2[p].drive <=> ops[p].drive)
    /\ (p = ops[o].tool /\ p # o) => ops2[p].ref = n
    /\ (p # ops[o].tool \/ p = o) => ops2[p].ref = ops[p].ref

(* A worker goes on from the step o and leaves off: its tool call gets the   *)
(* version n of the index; the reply may have been sent.                     *)
LEMMA DrivesInv ==
  ASSUME NEW t, NEW r \in TurnRow, NEW n \in Nat, NEW ops, Refs(ops), TurnInv(t, r, n, ops),
         NEW o \in Of(t, ops), ops[o].drive, ops[o].tool # 0 => ops[o].tool \in Of(t, ops),
         NEW r2 \in TurnRow, NEW ops2, Refs(ops2),
         SaidRow(r, r2), Of(t, ops2) = Of(t, ops), DroveOps(t, o, n, ops, ops2)
  PROVE  TurnInv(t, r2, n, ops2)
<1> USE DEF SaidRow, DroveOps
<1>0. r.v \in Nat /\ r2.v \in Nat
  BY DEF TurnRow
<1>r. ~r.wake /\ ~r2.wake
  BY DEF TurnInv, Recovering
<1>s. Stuck(r2) <=> Stuck(r)
  BY <1>r DEF Stuck
<1>d. \A p \in Of(t, ops) : Driving(ops2[p]) => Driving(ops[p]) /\ p # o
  BY DEF Driving
<1>n. n <= r.v /\ (r.st = "completed" => n < r.v)
  BY DEF TurnInv, Versions
<1>1. \A p \in Of(t, ops) : ops2[p].ref <= r.v
  BY <1>n DEF TurnInv, Versions
<1>2. r.st = "completed" => Behind(t, r2, ops2)
  <2> SUFFICES ASSUME r.st = "completed", NEW p \in Of(t, ops)
               PROVE  ops2[p].ref < r.v
    BY DEF Behind
  <2>1. ops[p].ref < r.v
    BY DEF TurnInv, Versions, Behind
  <2>2. ops2[p].ref = n \/ ops2[p].ref = ops[p].ref
    OBVIOUS
  <2> QED
    BY <1>n, <2>1, <2>2
<1>3. Versions(t, r2, n, ops2)
  BY <1>0, <1>1, <1>2, <1>n DEF Versions, TurnInv
<1>4. Recovering(t, r2, ops2)
  BY <1>r DEF Recovering
<1>5. LastStep(t, r2, ops2)
  BY DEF LastStep, TurnInv
<1>6. ops[o].tool = 0 => (Behind(t, r2, ops2) <=> Behind(t, r, ops))
  <2> SUFFICES ASSUME ops[o].tool = 0
               PROVE  \A p \in Of(t, ops) : ops2[p].ref = ops[p].ref
    BY DEF Behind
  <2>1. \A p \in Of(t, ops) : p # 0
    BY DEF Of, Refs
  <2> QED
    BY <2>1
<1>7. OneDriver(t, r2, ops2)
  <2>1. \A p, q \in Of(t, ops2) : Driving(ops2[p]) /\ Driving(ops2[q]) => p = q
    BY <1>d DEF TurnInv, OneDriver
  <2>2. ASSUME NEW p \in Of(t, ops2), Driving(ops2[p])
        PROVE  \/ r2.st = "proposal_pending" /\ Behind(t, r2, ops2)
               \/ r2.st = "completed"
               \/ Stuck(r2)
    <3>1. Driving(ops[p]) /\ p # o
      BY <1>d, <2>2
    <3>2. ops[o].tool = 0
      BY <3>1 DEF TurnInv, OneDriver, Driving
    <3> QED
      BY <1>6, <1>s, <3>1, <3>2 DEF TurnInv, OneDriver
  <2> QED
    BY <2>1, <2>2 DEF OneDriver
<1>8. Decided(t, r2, ops2)
  <2> SUFFICES ASSUME NEW a \in r.staged \cup r.said
               PROVE  /\ a \in Of(t, ops2)
                      /\ ops2[a].row # "prepared"
                      /\ ops2[a].tool = 0 =>
                           \/ /\ r2.st = "proposal_pending" /\ r2.staged # {}
                              /\ Behind(t, r2, ops2)
                              /\ \A b \in Of(t, ops2) : ~Driving(ops2[b])
                           \/ r2.st = "completed"
                           \/ Stuck(r2)
    BY DEF Decided
  <2>1. a \in Of(t, ops) /\ ops[a].row # "prepared"
    BY DEF TurnInv, Decided
  <2>2. ops[a].tool = 0 =>
           \/ /\ r.st = "proposal_pending" /\ r.staged # {}
              /\ Behind(t, r, ops)
              /\ \A b \in Of(t, ops) : ~Driving(ops[b])
           \/ r.st = "completed"
           \/ Stuck(r)
    BY DEF TurnInv, Decided
  <2>3. (\A b \in Of(t, ops) : ~Driving(ops[b])) => ops[o].tool = 0 /\ \A b \in Of(t, ops2) : ~Driving(ops2[b])
    BY <1>d DEF Driving
  <2> QED
    BY <1>6, <1>s, <2>1, <2>2, <2>3
<1>9. Final(t, r2, ops2)
  <2> SUFFICES ASSUME NEW a \in r.staged \cup r.said, NEW p \in Of(t, ops),
                      ops[p].kind = "step", p > a
               PROVE  ops2[a].tool # 0
    BY DEF Final
  <2>1. a \in Of(t, ops) /\ ops[a].tool # 0
    BY DEF TurnInv, Decided, Final
  <2> QED
    BY <2>1
<1> QED
  BY <1>3, <1>4, <1>5, <1>7, <1>8, <1>9 DEF TurnInv

(* The reply a scan found is sent, but not recorded. *)
LEMMA SendsInv ==
  ASSUME NEW t, NEW r \in TurnRow, NEW n, NEW ops, TurnInv(t, r, n, ops), NEW r2 \in TurnRow, SaidRow(r, r2)
  PROVE  TurnInv(t, r2, n, ops)
<1> USE DEF SaidRow
<1>1. Stuck(r2) <=> Stuck(r)
  BY DEF Stuck
<1>2. Behind(t, r2, ops) <=> Behind(t, r, ops)
  BY DEF Behind
<1>3. Versions(t, r2, n, ops) /\ LastStep(t, r2, ops)
  BY <1>2 DEF TurnInv, Versions, LastStep
<1>4. Recovering(t, r2, ops)
  BY DEF TurnInv, Recovering
<1>5. OneDriver(t, r2, ops)
  BY <1>1, <1>2 DEF TurnInv, OneDriver
<1>6. Decided(t, r2, ops) /\ Final(t, r2, ops)
  <2>1. r2.staged \cup r2.said \subseteq r.staged \cup r.said
    OBVIOUS
  <2> QED
    BY <1>1, <1>2, <2>1 DEF TurnInv, Decided, Final
<1> QED
  BY <1>3, <1>4, <1>5, <1>6 DEF TurnInv

(* A restart: the turn is fenced, or stays as it was; no worker drives it    *)
(* and no index holds a version of it.                                       *)
LEMMA RestartsInv ==
  ASSUME NEW t, NEW r \in TurnRow, NEW n, NEW ops, Refs(ops), TurnInv(t, r, n, ops),
         NEW r2 \in TurnRow, NEW ops2,
         \/ r2 = r
         \/ /\ r2.v = r.v + 1 /\ r2.st = "waiting" /\ r2.wake /\ r2.ctx = r.ctx
            /\ r2.staged = r.staged /\ r2.said = r.said
            /\ r.st \in {"claimed", "context_pending", "model_pending", "proposal_pending"}
            /\ ~(r.st = "proposal_pending" /\ r.staged # {}),
         Of(t, ops2) = Of(t, ops),
         \A p \in Of(t, ops) : /\ ops2[p].kind = ops[p].kind /\ ops2[p].tool = ops[p].tool
                               /\ ops2[p].row = ops[p].row
                               /\ ~ops2[p].drive /\ ops2[p].ref = 0
  PROVE  TurnInv(t, r2, 0, ops2)
<1>0. r.v \in Nat /\ r2.v \in Nat /\ r.v > 0 /\ r2.v > 0
  BY DEF TurnRow, TurnInv, Versions
<1>1. Behind(t, r2, ops2)
  BY <1>0 DEF Behind
<1>2. Versions(t, r2, 0, ops2)
  BY <1>0, <1>1 DEF Versions
<1>3. Recovering(t, r2, ops2)
  BY DEF Recovering, TurnInv
<1>4. LastStep(t, r2, ops2)
  BY DEF LastStep, TurnInv
<1>5. \A p \in Of(t, ops2) : ~Driving(ops2[p])
  BY DEF Driving
<1>6. OneDriver(t, r2, ops2)
  BY <1>5 DEF OneDriver
<1>7. Decided(t, r2, ops2)
  <2>1. \A a \in r.staged \cup r.said : a \in Of(t, ops) /\ ops[a].row # "prepared"
    BY DEF TurnInv, Decided
  <2>2. CASE r2 = r
    BY <1>1, <1>5, <2>1, <2>2 DEF TurnInv, Decided
  <2>3. CASE r2 # r
    <3>1. r.st # "completed" /\ ~Stuck(r) /\ ~(r.st = "proposal_pending" /\ r.staged # {})
      BY <2>3 DEF Stuck
    <3>2. \A a \in r.staged \cup r.said : ops[a].tool # 0
      BY <3>1 DEF TurnInv, Decided
    <3> QED
      BY <2>1, <2>3, <3>2 DEF Decided
  <2> QED
    BY <2>2, <2>3
<1>8. Final(t, r2, ops2)
  <2>1. \A a \in r.staged \cup r.said : a \in Of(t, ops)
    BY DEF TurnInv, Decided
  <2>2. r2.staged = r.staged /\ r2.said = r.said
    OBVIOUS
  <2> QED
    BY <2>1, <2>2 DEF TurnInv, Final
<1> QED
  BY <1>2, <1>3, <1>4, <1>6, <1>7, <1>8 DEF TurnInv

--------------------------------------------------------------------------------
(* Rows.                                                                     *)

(* The types of single rows. *)
LEMMA RowFacts ==
  ASSUME TTypes
  PROVE  /\ DOMAIN turn = 1..Len(turn) /\ Len(turn) \in Nat /\ DOMAIN turn \subseteq Turns
         /\ DOMAIN op = 1..Len(op) /\ Len(op) \in Nat
         /\ \A t \in DOMAIN turn : turn[t] \in TurnRow
         /\ \A o \in DOMAIN op : op[o] \in OpRow
         /\ Refs(op)
<1>1. /\ DOMAIN turn = 1..Len(turn) /\ Len(turn) \in Nat /\ DOMAIN turn \subseteq Turns
  BY LenProperties, TurnsAssumption DEF TTypes, Turns
<1>2. DOMAIN op = 1..Len(op) /\ Len(op) \in Nat
  BY LenProperties DEF TTypes
<1>3. /\ \A t \in DOMAIN turn : turn[t] \in TurnRow
      /\ \A o \in DOMAIN op : op[o] \in OpRow
  BY <1>1, <1>2, ElementOfSeq DEF TTypes
<1>4. Refs(op)
  BY <1>2, <1>3 DEF Refs, OpRow
<1> QED
  BY <1>1, <1>2, <1>3, <1>4

(* One row of a list is replaced. *)
LEMMA Replaces ==
  ASSUME NEW S, NEW s \in Seq(S), NEW i \in DOMAIN s, NEW e \in S
  PROVE  LET s2 == [s EXCEPT ![i] = e]
         IN /\ s2 \in Seq(S) /\ DOMAIN s2 = DOMAIN s /\ Len(s2) = Len(s)
            /\ s2[i] = e /\ \A j \in DOMAIN s : j # i => s2[j] = s[j]
BY ExceptSeq, LenProperties

(* One row is added to a list. *)
LEMMA Appends ==
  ASSUME NEW S, NEW s \in Seq(S), NEW e \in S
  PROVE  LET s2 == Append(s, e)
         IN /\ s2 \in Seq(S) /\ Len(s2) = Len(s) + 1 /\ Len(s) \in Nat
            /\ DOMAIN s2 = DOMAIN s \cup {Len(s) + 1} /\ Len(s) + 1 \notin DOMAIN s
            /\ s2[Len(s) + 1] = e /\ \A j \in DOMAIN s : s2[j] = s[j]
BY AppendProperties, LenProperties

(* One field of a turn's row is set. *)
LEMMA TurnRowFields ==
  ASSUME NEW r \in TurnRow
  PROVE  /\ \A x \in TurnStates : [r EXCEPT !.st = x] \in TurnRow
         /\ \A x \in Nat : /\ [r EXCEPT !.gen = x] \in TurnRow
                           /\ [r EXCEPT !.v = x] \in TurnRow
                           /\ [r EXCEPT !.steps = x] \in TurnRow
                           /\ [r EXCEPT !.ctx = x] \in TurnRow
         /\ \A x \in BOOLEAN : [r EXCEPT !.wake = x] \in TurnRow
         /\ \A x \in SUBSET Nat : /\ [r EXCEPT !.staged = x] \in TurnRow
                                  /\ [r EXCEPT !.said = x] \in TurnRow
BY DEF TurnRow

MovedRow(r, st) == [r EXCEPT !.st = st, !.v = @ + 1]

(* The row a transition leaves. *)
LEMMA MovedFields ==
  ASSUME NEW r \in TurnRow, NEW st \in TurnStates
  PROVE  LET r2 == MovedRow(r, st)
         IN /\ r2 \in TurnRow /\ r2.st = st /\ r2.v = r.v + 1 /\ r2.wake = r.wake
            /\ r2.steps = r.steps /\ r2.ctx = r.ctx /\ r2.staged = r.staged /\ r2.said = r.said
<1>1. r.v \in Nat
  BY DEF TurnRow
<1>2. MovedRow(r, st) = [[r EXCEPT !.st = st] EXCEPT !.v = r.v + 1]
  BY DEF TurnRow, MovedRow
<1>3. MovedRow(r, st) \in TurnRow
  <2> DEFINE a == [r EXCEPT !.st = st]
  <2>1. a \in TurnRow
    BY TurnRowFields
  <2>2. r.v + 1 \in Nat /\ MovedRow(r, st) = [a EXCEPT !.v = r.v + 1]
    BY <1>1, <1>2
  <2> HIDE DEF a
  <2> QED
    BY <2>1, <2>2, TurnRowFields
<1>4. LET r2 == MovedRow(r, st)
      IN /\ r2.st = st /\ r2.v = r.v + 1 /\ r2.wake = r.wake
         /\ r2.steps = r.steps /\ r2.ctx = r.ctx /\ r2.staged = r.staged /\ r2.said = r.said
  BY <1>2 DEF TurnRow
<1> QED
  BY <1>3, <1>4

(* A transition replaces one row. *)
LEMMA MovedIs ==
  ASSUME TTypes, NEW t \in DOMAIN turn, NEW st
  PROVE  Moved(t, st) = [turn EXCEPT ![t] = MovedRow(turn[t], st)]
BY DEF Moved, MovedRow

--------------------------------------------------------------------------------
(* Frames.                                                                   *)

(* Turns go forward: a version that stays has its row and its effects stay.  *)
Forward(t, r, ops, r2, ops2) ==
  \/ r2.v > r.v
  \/ r2.v = r.v /\ KindOf(r2) = KindOf(r) /\ (Settled(t, ops) => Settled(t, ops2))

(* What the loop knows stays true while versions only grow. *)
LEMMA TickStays ==
  ASSUME NEW k \in TickRow, NEW rows, NEW ops, TickOK(k, rows, ops), NEW rows2, NEW ops2,
         \A t \in DOMAIN rows : /\ t \in DOMAIN rows2 /\ rows[t].v \in Nat /\ rows2[t].v \in Nat
                                /\ Forward(t, rows[t], ops, rows2[t], ops2)
  PROVE  TickOK(k, rows2, ops2)
<1> SUFFICES ASSUME k.ph = "item"
             PROVE  /\ k.turn \in DOMAIN rows2
                    /\ k.v <= rows2[k.turn].v
                    /\ k.v = rows2[k.turn].v =>
                         /\ KindOf(rows2[k.turn]) = k.kind
                         /\ ~k.blind /\ ~k.blocked => Settled(k.turn, ops2)
  BY DEF TickOK
<1> DEFINE t == k.turn
<1>1. t \in DOMAIN rows /\ k.v <= rows[t].v /\ k.v \in Nat /\ rows[t].v \in Nat /\ rows2[t].v \in Nat
  BY DEF TickOK, TickRow
<1>2. k.v = rows[t].v => KindOf(rows[t]) = k.kind /\ (~k.blind /\ ~k.blocked => Settled(t, ops))
  BY DEF TickOK
<1>3. Forward(t, rows[t], ops, rows2[t], ops2) /\ t \in DOMAIN rows2
  BY <1>1
<1>4. CASE rows2[t].v > rows[t].v
  BY <1>1, <1>3, <1>4
<1>5. CASE rows2[t].v = rows[t].v /\ KindOf(rows2[t]) = KindOf(rows[t]) /\ (Settled(t, ops) => Settled(t, ops2))
  BY <1>1, <1>2, <1>3, <1>5
<1> QED
  BY <1>3, <1>4, <1>5 DEF Forward

(* A plan of the version the turn still has stays true. *)
LEMMA PlanStays ==
  ASSUME NEW pl, NEW rows, NEW ops, PlanOK(pl, rows, ops), NEW rows2, NEW ops2, NEW t \in DOMAIN rows,
         pl[t].v \in Nat, rows[t].v \in Nat, rows2[t].v \in Nat,
         Forward(t, rows[t], ops, rows2[t], ops2)
  PROVE  /\ pl[t].v <= rows2[t].v
         /\ ~pl[t].blind /\ pl[t].v = rows2[t].v => Settled(t, ops2)
<1>1. pl[t].v <= rows[t].v /\ (~pl[t].blind /\ pl[t].v = rows[t].v => Settled(t, ops))
  BY DEF PlanOK
<1> QED
  BY <1>1 DEF Forward

(* A step that touches only one turn and its effects. *)
LEMMA OneTurn ==
  ASSUME TInv, TTypes', NEW t \in DOMAIN turn, DOMAIN turn' = DOMAIN turn,
         \A u \in DOMAIN turn : u # t => turn'[u] = turn[u] /\ info'[u] = info[u],
         \A o \in DOMAIN op : o \in DOMAIN op' /\ op'[o].turn = op[o].turn,
         \A o \in DOMAIN op : op[o].turn # t => op'[o] = op[o],
         \A o \in DOMAIN op' : o \notin DOMAIN op => op'[o].turn = t,
         \A o \in Of(t, op') : op'[o].tool # 0 => op'[o].tool \in Of(t, op'),
         TurnInv(t, turn'[t], info'[t], op'),
         Forward(t, turn[t], op, turn'[t], op')
  PROVE  /\ TurnsOK(turn', info', op') /\ OpsOK(turn', op')
         /\ \A u \in DOMAIN turn : /\ u \in DOMAIN turn' /\ turn[u].v \in Nat /\ turn'[u].v \in Nat
                                   /\ Forward(u, turn[u], op, turn'[u], op')
<1>1. ASSUME NEW u \in DOMAIN turn, u # t
      PROVE  Of(u, op') = Of(u, op) /\ \A o \in Of(u, op) : op'[o] = op[o]
  BY <1>1 DEF Of
<1>2. TurnsOK(turn', info', op')
  <2> SUFFICES ASSUME NEW u \in DOMAIN turn, u # t
               PROVE  TurnInv(u, turn'[u], info'[u], op')
    BY DEF TurnsOK
  <2>1. Agree(u, op, op')
    BY <1>1 DEF Agree, Alike
  <2>2. TurnInv(u, turn[u], info[u], op)
    BY DEF TInv, TurnsOK
  <2> QED
    BY <2>1, <2>2, StaysInv
<1>3. OpsOK(turn', op')
  <2> SUFFICES ASSUME NEW o \in DOMAIN op'
               PROVE  /\ op'[o].turn \in DOMAIN turn'
                      /\ op'[o].tool # 0 => op'[o].tool \in Of(op'[o].turn, op')
    BY DEF OpsOK
  <2>1. CASE op'[o].turn = t
    BY <2>1 DEF Of
  <2>2. CASE op'[o].turn # t
    <3>1. o \in DOMAIN op /\ op'[o] = op[o] /\ op[o].turn # t
      BY <2>2
    <3>2. op[o].turn \in DOMAIN turn /\ (op[o].tool # 0 => op[o].tool \in Of(op[o].turn, op))
      BY <3>1 DEF TInv, OpsOK
    <3>3. Of(op[o].turn, op') = Of(op[o].turn, op)
      BY <1>1, <3>1, <3>2
    <3> QED
      BY <3>1, <3>2, <3>3
  <2> QED
    BY <2>1, <2>2
<1>4. ASSUME NEW u \in DOMAIN turn
      PROVE  /\ turn[u].v \in Nat /\ turn'[u].v \in Nat
             /\ Forward(u, turn[u], op, turn'[u], op')
  <2>1. turn[u] \in TurnRow
    BY RowFacts DEF TInv
  <2>2. turn'[u] \in TurnRow
    BY LenProperties, ElementOfSeq DEF TTypes
  <2>3. turn[u].v \in Nat /\ turn'[u].v \in Nat
    BY <2>1, <2>2 DEF TurnRow
  <2>4. u # t => Forward(u, turn[u], op, turn'[u], op')
    BY <1>1, <2>3 DEF Forward, Settled
  <2> QED
    BY <2>3, <2>4
<1> QED
  BY <1>2, <1>3, <1>4

(* A step of the effects that no turn sees. *)
LEMMA NoTurn ==
  ASSUME TInv, TTypes', turn' = turn, info' = info, DOMAIN op' = DOMAIN op,
         \A o \in DOMAIN op : /\ op'[o].turn = op[o].turn /\ Alike(op[o], op'[o])
                              /\ op[o].st \in {"closed", "review"} => op'[o].st \in {"closed", "review"}
  PROVE  /\ TurnsOK(turn', info', op') /\ OpsOK(turn', op')
         /\ \A u \in DOMAIN turn : /\ u \in DOMAIN turn' /\ turn[u].v \in Nat /\ turn'[u].v \in Nat
                                   /\ Forward(u, turn[u], op, turn'[u], op')
<1>1. \A u : Of(u, op') = Of(u, op)
  BY DEF Of
<1>2. TurnsOK(turn', info', op')
  <2> SUFFICES ASSUME NEW u \in DOMAIN turn PROVE TurnInv(u, turn[u], info[u], op')
    BY DEF TurnsOK
  <2>1. Agree(u, op, op')
    BY <1>1 DEF Agree, Of
  <2> QED
    BY <2>1, StaysInv DEF TInv, TurnsOK
<1>3. OpsOK(turn', op')
  BY <1>1 DEF TInv, OpsOK, Alike
<1>4. ASSUME NEW u \in DOMAIN turn
      PROVE  turn[u].v \in Nat /\ Forward(u, turn[u], op, turn[u], op')
  <2>1. turn[u] \in TurnRow
    BY RowFacts DEF TInv
  <2>2. turn[u].v \in Nat
    BY <2>1 DEF TurnRow
  <2>3. Settled(u, op) => Settled(u, op')
    BY <1>1 DEF Settled, Of
  <2> QED
    BY <2>2, <2>3 DEF Forward
<1> QED
  BY <1>2, <1>3, <1>4

(* Two places of the loop with the same item. *)
SameItem(k, k2) ==
  /\ k2.ph = k.ph /\ k2.turn = k.turn /\ k2.v = k.v /\ k2.kind = k.kind
  /\ (k2.blind <=> k.blind) /\ (k2.blocked <=> k.blocked)

(* The rest of the invariant, when no plan is made. *)
LEMMA Completes ==
  ASSUME TInv, TTypes', TurnsOK(turn', info', op'), OpsOK(turn', op'), DOMAIN turn' = DOMAIN turn,
         \A u \in DOMAIN turn : /\ u \in DOMAIN turn' /\ turn[u].v \in Nat /\ turn'[u].v \in Nat
                                /\ Forward(u, turn[u], op, turn'[u], op'),
         \A u \in Turns : plan'[u] = plan[u] \/ plan'[u] = NoPlan,
         tick' = tick \/ tick'.ph # "item" \/ SameItem(tick, tick'),
         \A u \in Turns \ DOMAIN turn : info'[u] = info[u]
  PROVE  TInv'
<1>1. TickOK(tick', turn', op')
  <2>1. CASE tick'.ph # "item"
    BY <2>1 DEF TickOK
  <2>2. CASE tick' = tick \/ SameItem(tick, tick')
    <3>1. tick \in TickRow /\ TickOK(tick, turn, op)
      BY DEF TInv, TTypes
    <3>2. TickOK(tick, turn', op')
      BY <3>1, TickStays
    <3>3. CASE tick' = tick
      BY <3>2, <3>3
    <3>4. CASE SameItem(tick, tick')
      BY <3>2, <3>4 DEF SameItem, TickOK
    <3> QED
      BY <2>2, <3>3, <3>4
  <2> QED
    BY <2>1, <2>2
<1>2. PlanOK(plan', turn', op')
  <2> SUFFICES ASSUME NEW u \in DOMAIN turn
               PROVE  /\ plan'[u].v <= turn'[u].v
                      /\ ~plan'[u].blind /\ plan'[u].v = turn'[u].v => Settled(u, op')
    BY DEF PlanOK
  <2>1. u \in Turns
    BY RowFacts DEF TInv
  <2>2. CASE plan'[u] = plan[u]
    <3>1. plan[u] \in PlanRow
      BY <2>1 DEF TInv, TTypes
    <3>2. plan[u].v \in Nat
      BY <3>1 DEF PlanRow
    <3> QED
      BY <2>2, <3>2, PlanStays DEF TInv
  <2>3. CASE plan'[u] = NoPlan
    <3>1. turn'[u].v > 0 /\ turn'[u].v \in Nat
      BY DEF TurnsOK, TurnInv, Versions
    <3> QED
      BY <2>3, <3>1 DEF NoPlan
  <2> QED
    BY <2>1, <2>2, <2>3
<1>3. Unused'
  BY DEF TInv, Unused
<1> QED
  BY <1>1, <1>2, <1>3 DEF TInv

--------------------------------------------------------------------------------
(* Steps no turn sees.                                                       *)

(* One field of an effect's row is set. *)
LEMMA OpRowFields ==
  ASSUME NEW x \in OpRow
  PROVE  /\ \A y \in {"staged", "review", "sent", "unknown", "closed"} : [x EXCEPT !.st = y] \in OpRow
         /\ \A y \in {"prepared", "recorded", "failed"} : [x EXCEPT !.row = y] \in OpRow
         /\ \A y \in {"none", "succeeded", "failed", "unknown"} : [x EXCEPT !.d = y] \in OpRow
         /\ \A y \in {"none", "turn", "proposal", "nobody"} : [x EXCEPT !.route = y] \in OpRow
         /\ \A y \in BOOLEAN : [x EXCEPT !.owed = y] \in OpRow /\ [x EXCEPT !.drive = y] \in OpRow
         /\ \A y \in Nat : [x EXCEPT !.tool = y] \in OpRow /\ [x EXCEPT !.ref = y] \in OpRow
BY DEF OpRow

(* An effect changes its state, route, outcome or what is owed. *)
LEMMA QuietRow ==
  ASSUME TTypes, NEW o \in DOMAIN op, NEW y \in OpRow,
         y.turn = op[o].turn, Alike(op[o], y), op' = [op EXCEPT ![o] = y],
         op[o].st \in {"closed", "review"} => y.st \in {"closed", "review"}
  PROVE  /\ op' \in Seq(OpRow) /\ DOMAIN op' = DOMAIN op
         /\ \A p \in DOMAIN op : /\ op'[p].turn = op[p].turn /\ Alike(op[p], op'[p])
                                 /\ op[p].st \in {"closed", "review"} => op'[p].st \in {"closed", "review"}
<1>1. op \in Seq(OpRow)
  BY DEF TTypes
<1>2. /\ op' \in Seq(OpRow) /\ DOMAIN op' = DOMAIN op
      /\ op'[o] = y /\ \A p \in DOMAIN op : p # o => op'[p] = op[p]
  BY <1>1, Replaces
<1> QED
  BY <1>2 DEF Alike

(* An effect is dispatched. *)
LEMMA DispatchT ==
  ASSUME TInv, NEW o \in DOMAIN op, Dispatch(o)
  PROVE  TInv'
<1> DEFINE x == op[o]
           a == [x EXCEPT !.st = "sent"]
           y == [a EXCEPT !.route = RouteOf(o)]
           z == [x EXCEPT !.st = "closed"]
<1>0. TTypes /\ x \in OpRow /\ x.st = "staged"
  BY RowFacts DEF TInv, Dispatch
<1>1. a \in OpRow /\ z \in OpRow /\ RouteOf(o) \in {"none", "turn", "proposal", "nobody"}
  BY <1>0, OpRowFields DEF RouteOf
<1>2. y \in OpRow
  <2> HIDE DEF a
  <2> QED
    BY <1>1, OpRowFields
<1>3. y.turn = x.turn /\ Alike(x, y) /\ z.turn = x.turn /\ Alike(x, z)
  BY <1>0 DEF OpRow, Alike
<1>4. op' = [op EXCEPT ![o] = y] \/ op' = [op EXCEPT ![o] = z]
  BY DEF Dispatch
<1>5. UNCHANGED <<inbox, turn, gen, tick, info, plan, faults>>
  BY DEF Dispatch
<1> HIDE DEF x, y, z
<1>6. /\ op' \in Seq(OpRow) /\ DOMAIN op' = DOMAIN op
      /\ \A p \in DOMAIN op : /\ op'[p].turn = op[p].turn /\ Alike(op[p], op'[p])
                              /\ op[p].st \in {"closed", "review"} => op'[p].st \in {"closed", "review"}
  BY <1>0, <1>1, <1>2, <1>3, <1>4, QuietRow DEF x
<1>7. TTypes'
  BY <1>0, <1>5, <1>6 DEF TTypes
<1> QED
  BY <1>5, <1>6, <1>7, NoTurn, Completes

(* An effect is observed. *)
LEMMA ObserveT ==
  ASSUME TInv, NEW o \in DOMAIN op, Observe(o)
  PROVE  TInv'
<1>1. PICK d \in {"succeeded", "failed", "unknown"} :
       op' = [op EXCEPT ![o].st = IF d = "unknown" THEN "unknown" ELSE "closed",
                        ![o].d = d, ![o].owed = TRUE]
  BY DEF Observe
<1> DEFINE x == op[o]
           s == IF d = "unknown" THEN "unknown" ELSE "closed"
           a == [x EXCEPT !.st = s]
           b == [a EXCEPT !.d = d]
           y == [b EXCEPT !.owed = TRUE]
<1>0. TTypes /\ x \in OpRow /\ x.st = "sent"
  BY RowFacts DEF TInv, Observe
<1>2. a \in OpRow
  BY <1>0, OpRowFields
<1>3. b \in OpRow
  <2> HIDE DEF a
  <2> QED
    BY <1>2, OpRowFields
<1>4. y \in OpRow
  <2> HIDE DEF b
  <2> QED
    BY <1>3, OpRowFields
<1>5. y.turn = x.turn /\ Alike(x, y)
  BY <1>0 DEF OpRow, Alike
<1>6. op' = [op EXCEPT ![o] = y]
  BY <1>1
<1>7. UNCHANGED <<inbox, turn, gen, tick, info, plan, faults>>
  BY DEF Observe
<1> HIDE DEF x, y
<1>8. /\ op' \in Seq(OpRow) /\ DOMAIN op' = DOMAIN op
      /\ \A p \in DOMAIN op : /\ op'[p].turn = op[p].turn /\ Alike(op[p], op'[p])
                              /\ op[p].st \in {"closed", "review"} => op'[p].st \in {"closed", "review"}
  BY <1>0, <1>4, <1>5, <1>6, QuietRow DEF x
<1>9. TTypes'
  BY <1>0, <1>7, <1>8 DEF TTypes
<1> QED
  BY <1>7, <1>8, <1>9, NoTurn, Completes

(* An unknown effect is concluded. *)
LEMMA ConcludeT ==
  ASSUME TInv, NEW o \in DOMAIN op, Conclude(o)
  PROVE  TInv'
<1> DEFINE x == op[o]
           y == [x EXCEPT !.st = "closed"]
<1>0. TTypes /\ x \in OpRow /\ x.st = "unknown"
  BY RowFacts DEF TInv, Conclude
<1>1. y \in OpRow
  BY <1>0, OpRowFields
<1>2. y.turn = x.turn /\ Alike(x, y)
  BY <1>0 DEF OpRow, Alike
<1>3. op' = [op EXCEPT ![o] = y] /\ UNCHANGED <<inbox, turn, gen, tick, info, plan, faults>>
  BY DEF Conclude
<1> HIDE DEF x, y
<1>4. /\ op' \in Seq(OpRow) /\ DOMAIN op' = DOMAIN op
      /\ \A p \in DOMAIN op : /\ op'[p].turn = op[p].turn /\ Alike(op[p], op'[p])
                              /\ op[p].st \in {"closed", "review"} => op'[p].st \in {"closed", "review"}
  BY <1>0, <1>1, <1>2, <1>3, QuietRow DEF x
<1>5. TTypes'
  BY <1>0, <1>3, <1>4 DEF TTypes
<1> QED
  BY <1>3, <1>4, <1>5, NoTurn, Completes

(* The loop between two items. *)
LEMMA IdleTypes ==
  /\ Idle \in TickRow /\ Idle.ph # "item"
  /\ [Idle EXCEPT !.ph = "dispatch"] \in TickRow /\ [Idle EXCEPT !.ph = "dispatch"].ph # "item"
BY DEF Idle, TickRow

(* Steps that change the loop's place alone. *)
LEMMA LoopT ==
  ASSUME TInv, EndTick \/ ItemPassed \/ ScanNothing
  PROVE  TInv'
<1>1. /\ tick' = Idle \/ tick' = [Idle EXCEPT !.ph = "dispatch"]
      /\ UNCHANGED <<inbox, turn, op, gen, info, plan>>
      /\ faults' = faults \/ faults' = faults + 1
  BY DEF EndTick, ItemPassed, ScanNothing, Item, Fault, NoFault
<1>2. tick' \in TickRow /\ tick'.ph # "item"
  BY <1>1, IdleTypes
<1>3. TTypes'
  BY <1>1, <1>2 DEF TInv, TTypes
<1>4. \A o \in DOMAIN op : op'[o].turn = op[o].turn /\ Alike(op[o], op'[o]) /\ op'[o].st = op[o].st
  BY <1>1 DEF Alike
<1> QED
  BY <1>1, <1>2, <1>3, <1>4, NoTurn, Completes

(* What the scan lists a turn as depends on its row only. *)
LEMMA ItemKindIs ==
  ASSUME NEW t
  PROVE  ItemKind(t) = KindOf(turn[t])
BY DEF ItemKind, KindOf

(* turnWork: the scan. *)
LEMMA ScanT ==
  ASSUME TInv, Scan
  PROVE  TInv'
<1>1. PICK t \in DOMAIN turn :
        /\ ItemKind(t) # "none"
        /\ info' = [info EXCEPT ![t] = turn[t].v]
        /\ \E blind \in BOOLEAN :
             /\ IF blind THEN Fault ELSE NoFault
             /\ tick' = [ph |-> "item", kind |-> ItemKind(t), turn |-> t, v |-> turn[t].v,
                         replies |-> turn[t].staged, blocked |-> ~blind /\ outstandingTurnEffects(t),
                         blind |-> blind]
  BY DEF Scan
<1>2. PICK blind \in BOOLEAN :
        /\ IF blind THEN Fault ELSE NoFault
        /\ tick' = [ph |-> "item", kind |-> ItemKind(t), turn |-> t, v |-> turn[t].v,
                    replies |-> turn[t].staged, blocked |-> ~blind /\ outstandingTurnEffects(t),
                    blind |-> blind]
  BY <1>1
<1>3. UNCHANGED <<inbox, turn, op, gen, plan>>
  BY DEF Scan
<1>4. TTypes /\ t \in Turns /\ t \in Nat /\ turn[t] \in TurnRow /\ turn[t].v \in Nat /\ turn[t].staged \in SUBSET Nat
  <2>1. TTypes /\ t \in Turns /\ t \in Nat /\ turn[t] \in TurnRow
    BY RowFacts DEF TInv, Turns
  <2> QED
    BY <2>1 DEF TurnRow
<1>5. ItemKind(t) \in {"none", "claim", "resume", "context", "proposal", "delivery"}
  BY DEF ItemKind
<1>6. tick' \in TickRow
  <2>1. (~blind /\ outstandingTurnEffects(t)) \in BOOLEAN
    OBVIOUS
  <2> QED
    BY <1>2, <1>4, <1>5, <2>1 DEF TickRow
<1>7. info' \in [Turns -> Nat] /\ faults' \in Nat
  BY <1>1, <1>2, <1>4 DEF TTypes, Fault, NoFault
<1>8. TTypes'
  BY <1>3, <1>4, <1>6, <1>7 DEF TTypes
<1>9. turn[t].st # "completed"
  BY <1>1 DEF ItemKind
<1>10. TurnsOK(turn', info', op')
  <2> SUFFICES ASSUME NEW u \in DOMAIN turn PROVE TurnInv(u, turn[u], info'[u], op)
    BY <1>3 DEF TurnsOK
  <2>1. TurnInv(u, turn[u], info[u], op)
    BY DEF TInv, TurnsOK
  <2>2. u \in Turns
    BY RowFacts, <1>4
  <2>3. CASE u # t
    BY <1>1, <1>4, <2>1, <2>2, <2>3 DEF TTypes
  <2>4. CASE u = t
    <3>1. info'[u] = turn[u].v
      BY <1>1, <1>4, <2>4 DEF TTypes
    <3>2. Versions(u, turn[u], info'[u], op)
      BY <1>4, <1>9, <2>1, <2>4, <3>1 DEF TurnInv, Versions
    <3> QED
      BY <2>1, <3>2 DEF TurnInv
  <2> QED
    BY <2>3, <2>4
<1>11. OpsOK(turn', op') /\ PlanOK(plan', turn', op')
  BY <1>3 DEF TInv
<1>12. ~(~blind /\ outstandingTurnEffects(t)) /\ ~blind => Settled(t, op)
  <2> SUFFICES ASSUME ~outstandingTurnEffects(t) PROVE Settled(t, op)
    OBVIOUS
  <2>1. \A o \in DOMAIN op : op[o].st \in {"staged", "review", "sent", "unknown", "closed"}
    BY <1>4, RowFacts DEF OpRow
  <2> QED
    BY <2>1 DEF outstandingTurnEffects, Outstanding, Settled, Of
<1>13. TickOK(tick', turn', op')
  <2>1. /\ tick'.turn = t /\ tick'.v = turn[t].v /\ tick'.kind = KindOf(turn[t])
        /\ ~tick'.blind /\ ~tick'.blocked => Settled(t, op)
    BY <1>2, <1>12, ItemKindIs
  <2> QED
    BY <1>3, <1>4, <2>1 DEF TickOK
<1>14. Unused'
  BY <1>1, <1>3, <1>4 DEF TInv, TTypes, Unused
<1> QED
  BY <1>8, <1>10, <1>11, <1>13, <1>14 DEF TInv

--------------------------------------------------------------------------------
(* Steps of one turn.                                                        *)

(* handleTurnAdmit: a new turn has nothing behind it. *)
LEMMA AdmitT ==
  ASSUME TInv, Admit
  PROVE  TInv'
<1>1. /\ UNCHANGED <<op, gen, tick, info, plan, faults>>
      /\ inbox' \in Nat
      /\ turn' = turn \/ (Len(turn) < MaxTurns /\ turn' = Append(turn, NewTurn))
  BY DEF Admit, TInv, TTypes
<1>2. TTypes
  BY DEF TInv
<1>3. CASE turn' = turn
  <2>1. TTypes'
    BY <1>1, <1>2, <1>3 DEF TTypes
  <2> QED
    BY <1>1, <1>3, <2>1 DEF TInv, Unused
<1>4. CASE Len(turn) < MaxTurns /\ turn' = Append(turn, NewTurn)
  <2> DEFINE t == Len(turn) + 1
  <2>1. NewTurn \in TurnRow /\ NewTurn.v = 1 /\ NewTurn.st = "pending" /\ ~NewTurn.wake
        /\ NewTurn.staged = {} /\ NewTurn.said = {}
    BY <1>2 DEF NewTurn, TurnRow, TurnStates, TTypes
  <2> HIDE DEF NewTurn
  <2>2. /\ turn' \in Seq(TurnRow) /\ Len(turn') = t /\ Len(turn) \in Nat
        /\ DOMAIN turn' = DOMAIN turn \cup {t} /\ t \notin DOMAIN turn
        /\ turn'[t] = NewTurn /\ \A u \in DOMAIN turn : turn'[u] = turn[u]
    BY <1>2, <1>4, <2>1, Appends DEF TTypes
  <2>3. t \in Turns /\ Len(turn') <= MaxTurns
    BY <1>4, <2>2, TurnsAssumption DEF Turns
  <2> HIDE DEF t
  <2>4. TTypes'
    BY <1>1, <1>2, <2>2, <2>3 DEF TTypes
  <2>5. Of(t, op) = {} /\ OpsOK(turn', op')
    BY <1>1, <2>2 DEF TInv, OpsOK, Of
  <2>6. info[t] = 0 /\ plan[t] = NoPlan
    BY <2>2, <2>3 DEF TInv, Unused
  <2>7. TurnInv(t, NewTurn, 0, op)
    BY <2>1, <2>5 DEF TurnInv, Versions, Behind, Recovering, LastStep, OneDriver, Decided, Final
  <2>8. TurnsOK(turn', info', op')
    BY <1>1, <2>2, <2>6, <2>7 DEF TurnsOK, TInv
  <2>9. TickOK(tick', turn', op')
    BY <1>1, <2>2 DEF TInv, TickOK
  <2>10. PlanOK(plan', turn', op')
    BY <1>1, <2>1, <2>2, <2>6 DEF TInv, PlanOK, NoPlan
  <2>11. Unused'
    BY <1>1, <2>2 DEF TInv, Unused
  <2> QED
    BY <2>4, <2>5, <2>8, <2>9, <2>10, <2>11 DEF TInv
<1> QED
  BY <1>1, <1>3, <1>4

(* A turn goes on with its effects as they are. *)
LEMMA GoesOnT ==
  ASSUME TInv, NEW t \in DOMAIN turn, Open(t, turn[t], op), NEW r2 \in TurnRow,
         turn' = [turn EXCEPT ![t] = r2], op' = op, info' \in [Turns -> Nat],
         \A u \in Turns : u # t => info'[u] = info[u],
         r2.v = turn[t].v + 1, info'[t] <= r2.v, ~r2.wake, r2.st # "completed", r2.ctx = turn[t].ctx,
         r2.staged = turn[t].staged, r2.said = turn[t].said
  PROVE  /\ TurnsOK(turn', info', op') /\ OpsOK(turn', op')
         /\ turn' \in Seq(TurnRow) /\ DOMAIN turn' = DOMAIN turn /\ Len(turn') = Len(turn)
         /\ turn'[t] = r2
         /\ \A u \in DOMAIN turn : /\ u \in DOMAIN turn' /\ turn[u].v \in Nat /\ turn'[u].v \in Nat
                                   /\ Forward(u, turn[u], op, turn'[u], op')
<1>1. TTypes /\ turn \in Seq(TurnRow) /\ turn[t] \in TurnRow /\ t \in Turns /\ Refs(op) /\ DOMAIN turn \subseteq Turns
  BY RowFacts DEF TInv, TTypes
<1>2. /\ turn' \in Seq(TurnRow) /\ DOMAIN turn' = DOMAIN turn /\ Len(turn') = Len(turn)
      /\ turn'[t] = r2 /\ \A u \in DOMAIN turn : u # t => turn'[u] = turn[u]
  BY <1>1, Replaces
<1>3. TurnInv(t, turn[t], info[t], op) /\ turn[t].v \in Nat /\ r2.v \in Nat /\ info'[t] \in Nat
  BY <1>1 DEF TInv, TurnsOK, TurnRow
<1>4. TurnInv(t, r2, info'[t], op)
  <2>1. \A o \in Of(t, op) : op[o].kind = "step" => o <= r2.ctx
    BY <1>3 DEF TurnInv, LastStep
  <2>2. \A o \in Of(t, op) : ~Driving(op[o])
    BY DEF Open
  <2> QED
    <3>1. GoesRow(turn[t], r2)
      BY DEF GoesRow
    <3>2. GoesOps(t, r2.ctx, op, op)
      BY <2>1, <2>2 DEF GoesOps
    <3> QED
      BY <1>1, <1>3, <3>1, <3>2, GoesOnInv
<1>5. Forward(t, turn[t], op, r2, op)
  BY <1>3 DEF Forward
<1>6. \A u \in DOMAIN turn : u # t => TurnInv(u, turn'[u], info'[u], op)
  BY <1>1, <1>2 DEF TInv, TurnsOK
<1>7. TurnsOK(turn', info', op')
  BY <1>2, <1>4, <1>6 DEF TurnsOK
<1>8. OpsOK(turn', op')
  BY <1>2 DEF TInv, OpsOK
<1>9. ASSUME NEW u \in DOMAIN turn
      PROVE  turn[u].v \in Nat /\ turn'[u].v \in Nat /\ Forward(u, turn[u], op, turn'[u], op')
  <2>1. turn[u] \in TurnRow
    BY RowFacts DEF TInv
  <2>2. turn[u].v \in Nat
    BY <2>1 DEF TurnRow
  <2> QED
    BY <1>2, <1>3, <1>5, <2>2 DEF Forward
<1> QED
  BY <1>2, <1>7, <1>8, <1>9

(* turn.claim. *)
LEMMA ClaimT ==
  ASSUME TInv, Claim
  PROVE  TInv'
<1> DEFINE t == tick.turn
           r == turn[t]
           m == MovedRow(r, "claimed")
           a == [m EXCEPT !.gen = gen]
           r2 == [a EXCEPT !.wake = FALSE]
<1>1. /\ tick.ph = "item" /\ tick.kind \in {"claim", "resume"} /\ turn[t].v = tick.v
      /\ tick' = [Idle EXCEPT !.ph = "dispatch"]
      /\ turn' = [Moved(t, "claimed") EXCEPT ![t].gen = gen, ![t].wake = FALSE]
      /\ \/ info' = [info EXCEPT ![t] = turn[t].v + 1]
         \/ info' = info
      /\ faults' = faults \/ faults' = faults + 1
      /\ UNCHANGED <<inbox, op, gen, plan>>
  BY DEF Claim, Item, Fresh, Fault, NoFault
<1>2. t \in DOMAIN turn /\ KindOf(turn[t]) \in {"claim", "resume"}
  BY <1>1 DEF TInv, TickOK
<1>3. TTypes /\ r \in TurnRow /\ gen \in Nat /\ t \in Turns /\ turn \in Seq(TurnRow) /\ faults \in Nat
  BY <1>2, RowFacts DEF TInv, TTypes
<1>4. m \in TurnRow /\ m.st = "claimed" /\ m.v = r.v + 1 /\ m.ctx = r.ctx
      /\ m.staged = r.staged /\ m.said = r.said
  BY <1>3, MovedFields DEF TurnStates
<1>5. turn' = [turn EXCEPT ![t] = r2]
  <2>1. Moved(t, "claimed") = [turn EXCEPT ![t] = m]
    BY <1>2, <1>3, MovedIs
  <2> HIDE DEF m
  <2> QED
    BY <1>1, <1>2, <1>3, <2>1
<1> HIDE DEF m
<1>6. a \in TurnRow
  BY <1>3, <1>4, TurnRowFields
<1>7. r2 \in TurnRow
  <2> HIDE DEF a
  <2> QED
    BY <1>6, TurnRowFields
<1>8. /\ r2.st = "claimed" /\ r2.v = r.v + 1 /\ ~r2.wake /\ r2.ctx = r.ctx
      /\ r2.staged = r.staged /\ r2.said = r.said
  BY <1>4 DEF TurnRow
<1> HIDE DEF r2
<1>9. TurnInv(t, r, info[t], op) /\ Refs(op) /\ r.v \in Nat
  BY <1>2, <1>3, RowFacts DEF TInv, TurnsOK, TurnRow
<1>10. r.st \in {"pending", "claimed", "context_pending", "model_pending"} \/ r.wake
  BY <1>2 DEF KindOf
<1>11. Open(t, r, op)
  BY <1>3, <1>9, <1>10, IsOpen
<1>12. /\ info' \in [Turns -> Nat] /\ (info'[t] = r.v + 1 \/ info'[t] = info[t])
       /\ \A u \in Turns : u # t => info'[u] = info[u]
  <2>1. info \in [Turns -> Nat] /\ r.v + 1 \in Nat
    BY <1>3, <1>9 DEF TTypes
  <2>2. info' = [info EXCEPT ![t] = r.v + 1] \/ info' = info
    BY <1>1
  <2>3. CASE info' = [info EXCEPT ![t] = r.v + 1]
    BY <1>3, <2>1, <2>3
  <2>4. CASE info' = info
    BY <2>1, <2>4
  <2> QED
    BY <2>2, <2>3, <2>4
<1>13. info'[t] <= r2.v
  BY <1>3, <1>8, <1>9, <1>12 DEF TurnInv, Versions, TTypes
<1>14. /\ TurnsOK(turn', info', op') /\ OpsOK(turn', op')
       /\ turn' \in Seq(TurnRow) /\ DOMAIN turn' = DOMAIN turn /\ Len(turn') = Len(turn)
       /\ \A u \in DOMAIN turn : /\ u \in DOMAIN turn' /\ turn[u].v \in Nat /\ turn'[u].v \in Nat
                                 /\ Forward(u, turn[u], op, turn'[u], op')
  BY <1>1, <1>2, <1>5, <1>7, <1>8, <1>11, <1>12, <1>13, GoesOnT
<1>15. tick' \in TickRow /\ tick'.ph # "item"
  BY <1>1, IdleTypes
<1>16. TTypes'
  BY <1>1, <1>3, <1>12, <1>14, <1>15 DEF TTypes
<1>17. \A u \in Turns \ DOMAIN turn : info'[u] = info[u]
  BY <1>2, <1>12
<1> QED
  BY <1>1, <1>14, <1>15, <1>16, <1>17, Completes

(* context.prepare. *)
LEMMA ContextPrepareT ==
  ASSUME TInv, ContextPrepare
  PROVE  TInv'
<1> DEFINE t == tick.turn
           r == turn[t]
           r2 == MovedRow(r, "context_pending")
           pl == [v |-> turn[t].v + 1, blind |-> tick.blind]
<1>1. /\ tick.ph = "item" /\ tick.kind = "context" /\ turn[t].v = tick.v /\ ~tick.blocked
      /\ tick' = [Idle EXCEPT !.ph = "dispatch"]
      /\ turn' = Moved(t, "context_pending")
      /\ plan' = [plan EXCEPT ![t] = pl] \/ plan' = plan
      /\ faults' = faults \/ faults' = faults + 1
      /\ UNCHANGED <<inbox, op, gen, info>>
  BY DEF ContextPrepare, Item, Fresh, Fault, NoFault
<1>2. /\ t \in DOMAIN turn /\ KindOf(turn[t]) = "context"
      /\ ~tick.blind => Settled(t, op)
  BY <1>1 DEF TInv, TickOK
<1>3. /\ TTypes /\ r \in TurnRow /\ t \in Turns /\ turn \in Seq(TurnRow) /\ faults \in Nat
      /\ info \in [Turns -> Nat]
  BY <1>2, RowFacts DEF TInv, TTypes
<1>4. r2 \in TurnRow /\ r2.st = "context_pending" /\ r2.v = r.v + 1 /\ r2.wake = r.wake /\ r2.ctx = r.ctx
      /\ r2.staged = r.staged /\ r2.said = r.said
  BY <1>3, MovedFields DEF TurnStates
<1>5. turn' = [turn EXCEPT ![t] = r2]
  BY <1>1, <1>2, <1>3, MovedIs
<1> HIDE DEF r2
<1>6. TurnInv(t, r, info[t], op) /\ Refs(op) /\ r.v \in Nat
  BY <1>2, <1>3, RowFacts DEF TInv, TurnsOK, TurnRow
<1>7. r.st = "claimed"
  BY <1>2 DEF KindOf
<1>8. Open(t, r, op)
  BY <1>3, <1>6, <1>7, IsOpen
<1>9. ~r2.wake
  BY <1>4, <1>6, <1>7 DEF TurnInv, Recovering
<1>10. info'[t] <= r2.v
  BY <1>1, <1>3, <1>4, <1>6 DEF TurnInv, Versions
<1>11. /\ TurnsOK(turn', info', op') /\ OpsOK(turn', op')
       /\ turn' \in Seq(TurnRow) /\ DOMAIN turn' = DOMAIN turn /\ Len(turn') = Len(turn)
       /\ turn'[t] = r2
       /\ \A u \in DOMAIN turn : /\ u \in DOMAIN turn' /\ turn[u].v \in Nat /\ turn'[u].v \in Nat
                                 /\ Forward(u, turn[u], op, turn'[u], op')
  BY <1>1, <1>2, <1>3, <1>4, <1>5, <1>8, <1>9, <1>10, GoesOnT
<1>12. tick' \in TickRow /\ tick'.ph # "item"
  BY <1>1, IdleTypes
<1>13. pl \in PlanRow /\ pl.v = r.v + 1
  BY <1>3, <1>6 DEF PlanRow, TTypes, TickRow
<1>14. /\ plan' \in [Turns -> PlanRow] /\ (plan'[t] = pl \/ plan'[t] = plan[t])
       /\ \A u \in Turns : u # t => plan'[u] = plan[u]
  BY <1>1, <1>3, <1>13 DEF TTypes
<1>15. TTypes'
  BY <1>1, <1>3, <1>11, <1>12, <1>14 DEF TTypes
<1>16. PlanOK(plan', turn', op')
  <2> SUFFICES ASSUME NEW u \in DOMAIN turn
               PROVE  /\ plan'[u].v <= turn'[u].v
                      /\ ~plan'[u].blind /\ plan'[u].v = turn'[u].v => Settled(u, op')
    BY <1>11 DEF PlanOK
  <2>1. u \in Turns /\ DOMAIN turn \subseteq Turns
    BY <1>3, RowFacts
  <2>2. CASE plan'[u] = plan[u]
    <3>1. plan[u] \in PlanRow
      BY <1>3, <2>1 DEF TTypes
    <3>2. plan[u].v \in Nat
      BY <3>1 DEF PlanRow
    <3> QED
      BY <1>11, <2>2, <3>2, PlanStays DEF TInv
  <2>3. CASE u = t /\ plan'[u] = pl
    <3>1. turn'[t].v = r.v + 1 /\ plan'[t].v = r.v + 1 /\ plan'[t].blind = tick.blind
      BY <1>4, <1>11, <2>3
    <3> QED
      BY <1>1, <1>2, <1>6, <2>3, <3>1
  <2> QED
    BY <1>14, <2>1, <2>2, <2>3
<1>17. TickOK(tick', turn', op')
  BY <1>12 DEF TickOK
<1>18. Unused'
  BY <1>1, <1>2, <1>11, <1>14 DEF TInv, Unused
<1> QED
  BY <1>11, <1>15, <1>16, <1>17, <1>18 DEF TInv

(* A new effect's row. *)
LEMMA NewOpFields ==
  ASSUME TTypes, NEW t \in DOMAIN turn, NEW k \in {"step", "tool"}, NEW st \in {"staged", "review"}
  PROVE  LET x == NewOp(t, k, st)
         IN /\ x \in OpRow /\ x.turn = t /\ x.kind = k /\ x.row = "prepared"
            /\ x.tool = 0 /\ x.ref = 0 /\ ~x.drive
<1>1. t \in Nat /\ turn[t] \in TurnRow
  BY RowFacts DEF Turns
<1>2. turn[t].steps \in Nat
  BY <1>1 DEF TurnRow
<1> QED
  BY <1>1, <1>2 DEF NewOp, OpRow

(* context.commit: the model step of the plan is dispatched. *)
LEMMA ContextCommitT ==
  ASSUME TInv, NEW t \in DOMAIN turn, ContextCommit(t)
  PROVE  TInv'
<1>0. /\ TTypes /\ t \in Turns /\ turn[t] \in TurnRow /\ Refs(op) /\ DOMAIN op = 1..Len(op) /\ Len(op) \in Nat
      /\ op \in Seq(OpRow) /\ turn \in Seq(TurnRow)
  BY RowFacts DEF TInv, TTypes
<1>1. /\ plan' = [plan EXCEPT ![t] = NoPlan]
      /\ UNCHANGED <<inbox, gen, tick, info, faults>>
  BY DEF ContextCommit
<1>2. plan' \in [Turns -> PlanRow] /\ \A u \in Turns : plan'[u] = plan[u] \/ plan'[u] = NoPlan
  BY <1>0, <1>1 DEF TTypes, NoPlan, PlanRow
<1>3. CASE UNCHANGED <<op, turn>>
  <2>1. TTypes'
    BY <1>0, <1>1, <1>2, <1>3 DEF TTypes
  <2>2. \A o \in DOMAIN op : op'[o].turn = op[o].turn /\ Alike(op[o], op'[o]) /\ op'[o].st = op[o].st
    BY <1>3 DEF Alike
  <2> QED
    BY <1>1, <1>2, <1>3, <2>1, <2>2, NoTurn, Completes
<1>4. ASSUME NEW st \in {"staged", "review"}, op' = Append(op, NewOp(t, "step", st)),
             turn[t].st = "context_pending",
             turn' = [Moved(t, "model_pending") EXCEPT ![t].ctx = Len(op) + 1]
      PROVE  TInv'
  <2> DEFINE r == turn[t]
             m == MovedRow(r, "model_pending")
             n == Len(op) + 1
             r2 == [m EXCEPT !.ctx = n]
             x == NewOp(t, "step", st)
  <2>1. m \in TurnRow /\ m.st = "model_pending" /\ m.v = r.v + 1 /\ m.wake = r.wake
        /\ m.staged = r.staged /\ m.said = r.said
    BY <1>0, MovedFields DEF TurnStates
  <2>2. turn' = [turn EXCEPT ![t] = r2]
    <3>1. Moved(t, "model_pending") = [turn EXCEPT ![t] = m]
      BY <1>0, MovedIs
    <3> HIDE DEF m
    <3> QED
      BY <1>0, <1>4, <3>1
  <2> HIDE DEF m
  <2>3. n \in Nat /\ r2 \in TurnRow
    <3>1. n \in Nat
      BY <1>0
    <3> HIDE DEF n
    <3> QED
      BY <2>1, <3>1, TurnRowFields
  <2>4. /\ r2.st = "model_pending" /\ r2.v = r.v + 1 /\ r2.wake = r.wake /\ r2.ctx = n
        /\ r2.staged = r.staged /\ r2.said = r.said
    BY <2>1 DEF TurnRow
  <2>5. /\ x \in OpRow /\ x.turn = t /\ x.kind = "step" /\ x.row = "prepared"
        /\ x.tool = 0 /\ x.ref = 0 /\ ~x.drive
    BY <1>0, NewOpFields
  <2> HIDE DEF r2, x
  <2>6. /\ op' \in Seq(OpRow) /\ DOMAIN op' = DOMAIN op \cup {n} /\ n \notin DOMAIN op
        /\ op'[n] = x /\ \A o \in DOMAIN op : op'[o] = op[o]
    BY <1>0, <1>4, <2>5, Appends DEF x
  <2> HIDE DEF n
  <2>7. /\ turn' \in Seq(TurnRow) /\ DOMAIN turn' = DOMAIN turn /\ Len(turn') = Len(turn)
        /\ turn'[t] = r2 /\ \A u \in DOMAIN turn : u # t => turn'[u] = turn[u]
    BY <1>0, <2>2, <2>3, Replaces
  <2>8. TTypes'
    BY <1>0, <1>1, <1>2, <2>6, <2>7 DEF TTypes
  <2>9. TurnInv(t, r, info[t], op) /\ info[t] \in Nat /\ r.v \in Nat /\ info[t] <= r.v
    BY <1>0 DEF TInv, TurnsOK, TurnInv, Versions, TTypes, TurnRow
  <2>10. Open(t, r, op) /\ ~r2.wake
    <3>1. Open(t, r, op)
      BY <1>0, <1>4, <2>9, IsOpen
    <3>2. ~r.wake
      BY <1>4, <2>9 DEF TurnInv, Recovering
    <3> QED
      BY <2>4, <3>1, <3>2
  <2>11. TurnInv(t, r2, info'[t], op')
    <3>1. Refs(op')
      BY <1>0, <2>3, <2>5, <2>6 DEF Refs, n
    <3>2. Of(t, op') = Of(t, op) \cup {n}
      BY <2>5, <2>6 DEF Of
    <3>3. \A o \in Of(t, op) : o \in DOMAIN op /\ op'[o] = op[o] /\ o \in Nat /\ o <= n
      BY <1>0, <2>6 DEF Of, n
    <3>4. \A o \in Of(t, op') : ~Driving(op'[o])
      BY <2>5, <2>6, <2>10, <3>2, <3>3 DEF Open, Driving
    <3>5. \A o \in Of(t, op') : op'[o].kind = "step" => o <= r2.ctx
      BY <2>3, <2>4, <3>2, <3>3
    <3>6. \A o \in Of(t, op') : o \notin Of(t, op) => op'[o].ref = 0
      BY <2>5, <2>6, <3>2
    <3>7. r2.v = r.v + 1 /\ info[t] <= r2.v /\ r2.st # "completed"
      BY <2>4, <2>9
    <3>8. GoesOps(t, r2.ctx, op, op')
      BY <3>2, <3>3, <3>4, <3>5, <3>6 DEF GoesOps
    <3>9. GoesRow(r, r2)
      BY <2>4, <2>10 DEF GoesRow
    <3>10. TurnInv(t, r2, info[t], op')
      BY <1>0, <2>3, <2>9, <2>10, <3>1, <3>7, <3>8, <3>9, GoesOnInv
    <3> QED
      BY <1>1, <3>10
  <2>12. Forward(t, r, op, r2, op')
    BY <2>4, <2>9 DEF Forward
  <2>13. \A o \in Of(t, op') : op'[o].tool # 0 => op'[o].tool \in Of(t, op')
    <3> SUFFICES ASSUME NEW o \in Of(t, op'), op'[o].tool # 0
                 PROVE  op'[o].tool \in Of(t, op')
      OBVIOUS
    <3>1. o \in DOMAIN op /\ op'[o] = op[o] /\ op[o].turn = t
      BY <2>5, <2>6 DEF Of
    <3>2. op[o].tool \in Of(t, op)
      BY <3>1 DEF TInv, OpsOK
    <3> QED
      BY <2>6, <3>1, <3>2 DEF Of
  <2>14. /\ TurnsOK(turn', info', op') /\ OpsOK(turn', op')
         /\ \A u \in DOMAIN turn : /\ u \in DOMAIN turn' /\ turn[u].v \in Nat /\ turn'[u].v \in Nat
                                   /\ Forward(u, turn[u], op, turn'[u], op')
    BY <1>1, <2>5, <2>6, <2>7, <2>8, <2>11, <2>12, <2>13, OneTurn
  <2> QED
    BY <1>1, <1>2, <2>7, <2>8, <2>14, Completes
<1> QED
  BY <1>3, <1>4 DEF ContextCommit

--------------------------------------------------------------------------------
(* Replies.                                                                  *)

RecordedRow(r, st) ==
  [MovedRow(r, IF r.steps + 1 >= StepLimit THEN "waiting" ELSE st) EXCEPT !.steps = r.steps + 1]

(* The row a recorded step leaves. *)
LEMMA RecordedFields ==
  ASSUME NEW r \in TurnRow, NEW st \in TurnStates
  PROVE  LET r2 == RecordedRow(r, st)
         IN /\ r2 \in TurnRow /\ r2.v = r.v + 1 /\ r2.wake = r.wake /\ r2.ctx = r.ctx
            /\ r2.staged = r.staged /\ r2.said = r.said
            /\ r2.steps = r.steps + 1
            /\ \/ r2.st = "waiting" /\ r2.steps >= StepLimit
               \/ r2.st = st /\ ~(r2.steps >= StepLimit)
<1> DEFINE n == r.steps + 1
           s == IF n >= StepLimit THEN "waiting" ELSE st
           m == MovedRow(r, s)
<1>1. n \in Nat
  BY DEF TurnRow
<1>2. s \in TurnStates /\ ((s = "waiting" /\ n >= StepLimit) \/ (s = st /\ ~(n >= StepLimit)))
  <2> HIDE DEF n
  <2>1. CASE n >= StepLimit
    BY <2>1 DEF TurnStates
  <2>2. CASE ~(n >= StepLimit)
    BY <2>2
  <2> QED
    BY <2>1, <2>2
<1>3. RecordedRow(r, st) = [m EXCEPT !.steps = n]
  BY DEF RecordedRow
<1> HIDE DEF s
<1>4. /\ m \in TurnRow /\ m.st = s /\ m.v = r.v + 1 /\ m.wake = r.wake
      /\ m.ctx = r.ctx /\ m.staged = r.staged /\ m.said = r.said
  BY <1>2, MovedFields
<1> HIDE DEF m
<1>5. [m EXCEPT !.steps = n] \in TurnRow
  <2> HIDE DEF n
  <2> QED
    BY <1>1, <1>4, TurnRowFields
<1>6. LET r2 == [m EXCEPT !.steps = n]
      IN /\ r2.st = s /\ r2.v = r.v + 1 /\ r2.wake = r.wake /\ r2.steps = n
         /\ r2.ctx = r.ctx /\ r2.staged = r.staged /\ r2.said = r.said
  BY <1>4 DEF TurnRow
<1> QED
  BY <1>2, <1>3, <1>5, <1>6

(* A recorded step replaces one row. *)
LEMMA RecordedIs ==
  ASSUME TTypes, NEW t \in DOMAIN turn, NEW st
  PROVE  Recorded(t, st) = [turn EXCEPT ![t] = RecordedRow(turn[t], st)]
<1> DEFINE s == IF turn[t].steps + 1 >= StepLimit THEN "waiting" ELSE st
           m == MovedRow(turn[t], s)
<1>1. Moved(t, s) = [turn EXCEPT ![t] = m]
  BY MovedIs
<1>2. Recorded(t, st) = [Moved(t, s) EXCEPT ![t].steps = turn[t].steps + 1]
  BY DEF Recorded
<1>3. RecordedRow(turn[t], st) = [m EXCEPT !.steps = turn[t].steps + 1]
  BY DEF RecordedRow
<1> HIDE DEF s, m
<1> QED
  BY <1>1, <1>2, <1>3

(* A staged reply is said, and ends the turn if that is at the version seen. *)
LEMMA SayReplyDoes ==
  ASSUME TTypes, NEW t \in DOMAIN turn, NEW a \in turn[t].staged, NEW v, SayReply(t, a, v)
  PROVE  /\ turn' \in Seq(TurnRow) /\ DOMAIN turn' = DOMAIN turn /\ Len(turn') = Len(turn)
         /\ \A u \in DOMAIN turn : u # t => turn'[u] = turn[u]
         /\ turn'[t] \in TurnRow
         /\ SaidRow(turn[t], turn'[t]) \/ (turn[t].v = v /\ EndedRow(turn[t], turn'[t]))
         /\ faults' \in Nat
<1> DEFINE r == turn[t]
           s == [r EXCEPT !.said = r.said \cup {a}]
           m == RecordedRow(r, "completed")
           n == [m EXCEPT !.said = m.said \cup {a}]
           e == [n EXCEPT !.staged = n.staged \ {a}]
<1>1. turn \in Seq(TurnRow) /\ r \in TurnRow /\ faults \in Nat
  BY RowFacts DEF TTypes
<1>2. r.staged \in SUBSET Nat /\ r.said \in SUBSET Nat /\ r.said \cup {a} \in SUBSET Nat
  BY <1>1 DEF TurnRow
<1>3. s \in TurnRow /\ SaidRow(r, s) /\ SaidRow(r, r)
  <2>1. s \in TurnRow
    BY <1>1, <1>2, TurnRowFields
  <2>2. SaidRow(r, s)
    BY <1>1 DEF SaidRow, TurnRow
  <2> QED
    BY <2>1, <2>2 DEF SaidRow
<1>4. /\ m \in TurnRow /\ m.v = r.v + 1 /\ m.wake = r.wake /\ m.ctx = r.ctx
      /\ m.staged = r.staged /\ m.said = r.said
      /\ (m.st = "waiting" /\ m.steps >= StepLimit) \/ m.st = "completed"
  BY <1>1, RecordedFields DEF TurnStates
<1>5. e \in TurnRow /\ EndedRow(r, e)
  <2> HIDE DEF m
  <2>1. n \in TurnRow
    BY <1>2, <1>4, TurnRowFields
  <2>2. n.staged \ {a} \in SUBSET Nat
    BY <2>1 DEF TurnRow
  <2>3. e \in TurnRow
    <3> HIDE DEF n
    <3> QED
      BY <2>1, <2>2, TurnRowFields
  <2>4. EndedRow(r, e)
    BY <1>4 DEF EndedRow, TurnRow
  <2> QED
    BY <2>3, <2>4
<1>6. \/ turn' = turn
      \/ turn' = [turn EXCEPT ![t] = s]
      \/ turn[t].v = v /\ turn' = [turn EXCEPT ![t] = e]
  <2>1. [turn EXCEPT ![t].said = @ \cup {a}] = [turn EXCEPT ![t] = s]
    OBVIOUS
  <2>2. [Recorded(t, "completed") EXCEPT ![t].said = @ \cup {a}, ![t].staged = @ \ {a}]
          = [turn EXCEPT ![t] = e]
    <3>1. Recorded(t, "completed") = [turn EXCEPT ![t] = m]
      BY RecordedIs
    <3> HIDE DEF m
    <3> QED
      BY <3>1
  <2> HIDE DEF e, s
  <2> QED
    BY <2>1, <2>2 DEF SayReply
<1>7. faults' \in Nat
  BY <1>1 DEF SayReply, Fault, NoFault
<1> HIDE DEF s, e
<1> QED
  BY <1>1, <1>3, <1>5, <1>6, <1>7, Replaces

(* The loop delivers a staged reply. *)
LEMMA DeliverReplyT ==
  ASSUME TInv, DeliverReply
  PROVE  TInv'
<1> DEFINE t == tick.turn
           a == CHOOSE x \in tick.replies : \A b \in tick.replies : x <= b
           r == turn[t]
<1>1. /\ tick.ph = "item" /\ tick.kind = "delivery"
      /\ tick' = (IF tick.replies = {a} THEN [Idle EXCEPT !.ph = "dispatch"]
                                        ELSE [tick EXCEPT !.replies = @ \ {a}])
      /\ IF a \in turn[t].staged THEN SayReply(t, a, tick.v) ELSE UNCHANGED turn /\ NoFault
      /\ UNCHANGED <<inbox, op, gen, info, plan>>
  BY DEF DeliverReply
<1> HIDE DEF a
<1>2. t \in DOMAIN turn /\ (tick.v = r.v => KindOf(r) = "delivery")
  BY <1>1 DEF TInv, TickOK
<1>3. /\ TTypes /\ r \in TurnRow /\ turn \in Seq(TurnRow) /\ faults \in Nat /\ tick \in TickRow
      /\ info \in [Turns -> Nat] /\ t \in Turns /\ Refs(op)
  BY <1>2, RowFacts DEF TInv, TTypes
<1>4. tick' \in TickRow /\ (tick'.ph # "item" \/ SameItem(tick, tick'))
  <2>1. CASE tick' = [Idle EXCEPT !.ph = "dispatch"]
    BY <2>1, IdleTypes
  <2>2. CASE tick' = [tick EXCEPT !.replies = @ \ {a}]
    <3>1. tick' \in TickRow
      BY <1>3, <2>2 DEF TickRow
    <3>2. SameItem(tick, tick')
      BY <1>3, <2>2 DEF TickRow, SameItem
    <3> QED
      BY <3>1, <3>2
  <2> QED
    BY <1>1, <2>1, <2>2
<1>5. /\ turn' \in Seq(TurnRow) /\ DOMAIN turn' = DOMAIN turn /\ Len(turn') = Len(turn)
      /\ \A u \in DOMAIN turn : u # t => turn'[u] = turn[u]
      /\ turn'[t] \in TurnRow
      /\ SaidRow(r, turn'[t]) \/ (r.v = tick.v /\ EndedRow(r, turn'[t]))
      /\ faults' \in Nat
  <2>1. CASE a \in r.staged
    BY <1>1, <1>2, <1>3, <2>1, SayReplyDoes
  <2>2. CASE a \notin r.staged
    BY <1>1, <1>3, <2>2 DEF NoFault, SaidRow
  <2> QED
    BY <2>1, <2>2
<1>6. TTypes'
  BY <1>1, <1>3, <1>4, <1>5 DEF TTypes
<1>7. TurnInv(t, r, info[t], op) /\ info[t] \in Nat /\ r.v \in Nat
  BY <1>2, <1>3 DEF TInv, TurnsOK, TurnRow
<1>8. TurnInv(t, turn'[t], info'[t], op')
  <2>1. CASE SaidRow(r, turn'[t])
    BY <1>1, <1>3, <1>5, <1>7, <2>1, SendsInv
  <2>2. CASE r.v = tick.v /\ EndedRow(r, turn'[t])
    <3>1. r.st = "proposal_pending"
      BY <1>2, <2>2 DEF KindOf
    <3>2. ~turn'[t].wake
      BY <1>7, <2>2, <3>1 DEF TurnInv, Recovering, EndedRow
    <3>3. turn'[t].st = "completed" \/ Stuck(turn'[t])
      BY <2>2, <3>2 DEF EndedRow, Stuck
    <3>4. \A p \in Of(t, op) : op[p].ref <= r.v
      BY <1>7 DEF TurnInv, Versions
    <3>5. TurnInv(t, turn'[t], info[t], op)
      BY <1>3, <1>5, <1>7, <2>2, <3>2, <3>3, <3>4, EndsInv DEF EndedRow
    <3> QED
      BY <1>1, <3>5
  <2> QED
    BY <1>5, <2>1, <2>2
<1>9. Forward(t, r, op, turn'[t], op')
  <2>1. SaidRow(r, turn'[t]) => KindOf(turn'[t]) = KindOf(r)
    BY DEF SaidRow, KindOf
  <2> QED
    BY <1>1, <1>5, <1>7, <2>1 DEF SaidRow, EndedRow, Forward
<1>10. \A p \in Of(t, op') : op'[p].tool # 0 => op'[p].tool \in Of(t, op')
  BY <1>1 DEF TInv, OpsOK, Of
<1>11. /\ TurnsOK(turn', info', op') /\ OpsOK(turn', op')
       /\ \A u \in DOMAIN turn : /\ u \in DOMAIN turn' /\ turn[u].v \in Nat /\ turn'[u].v \in Nat
                                 /\ Forward(u, turn[u], op, turn'[u], op')
  BY <1>1, <1>2, <1>5, <1>6, <1>8, <1>9, <1>10, OneTurn
<1> QED
  BY <1>1, <1>4, <1>5, <1>6, <1>11, Completes

(* The worker that delivered the answer carries out its proposals. *)
LEMMA DriveT ==
  ASSUME TInv, NEW o \in DOMAIN op, Drive(o)
  PROVE  TInv'
<1> DEFINE t == op[o].turn
           r == turn[t]
<1>1. /\ op[o].drive
      /\ op' = [i \in DOMAIN op |->
                  IF i = o THEN [op[i] EXCEPT !.drive = FALSE]
                  ELSE IF i = op[o].tool THEN [op[i] EXCEPT !.ref = info[t]] ELSE op[i]]
      /\ IF o \in turn[t].staged THEN SayReply(t, o, info[t]) ELSE UNCHANGED turn /\ NoFault
      /\ UNCHANGED <<inbox, gen, tick, info, plan>>
  BY DEF Drive
<1>2. t \in DOMAIN turn /\ (op[o].tool # 0 => op[o].tool \in Of(t, op))
  BY DEF TInv, OpsOK
<1>3. /\ TTypes /\ r \in TurnRow /\ turn \in Seq(TurnRow) /\ faults \in Nat
      /\ info \in [Turns -> Nat] /\ t \in Turns /\ Refs(op)
      /\ DOMAIN op = 1..Len(op) /\ Len(op) \in Nat /\ \A i \in DOMAIN op : op[i] \in OpRow
  BY <1>2, RowFacts DEF TInv, TTypes
<1>4. TurnInv(t, r, info[t], op) /\ info[t] \in Nat /\ r.v \in Nat
  BY <1>2, <1>3 DEF TInv, TurnsOK, TurnRow
<1>5. /\ DOMAIN op' = DOMAIN op
      /\ op'[o] = [op[o] EXCEPT !.drive = FALSE]
      /\ \A i \in DOMAIN op : i # o /\ i = op[o].tool => op'[i] = [op[i] EXCEPT !.ref = info[t]]
      /\ \A i \in DOMAIN op : i # o /\ i # op[o].tool => op'[i] = op[i]
  BY <1>1
<1>6. \A i \in DOMAIN op : op'[i] \in OpRow
  <2> SUFFICES ASSUME NEW i \in DOMAIN op PROVE op'[i] \in OpRow
    OBVIOUS
  <2>1. op[i] \in OpRow /\ info[t] \in Nat
    BY <1>3, <1>4
  <2>2. [op[i] EXCEPT !.drive = FALSE] \in OpRow /\ [op[i] EXCEPT !.ref = info[t]] \in OpRow
    BY <2>1, OpRowFields
  <2> QED
    BY <1>5, <2>1, <2>2
<1>7. op' \in Seq(OpRow)
  <2>1. op' \in [1..Len(op) -> OpRow]
    BY <1>1, <1>3, <1>6
  <2> QED
    BY <1>3, <2>1
<1>8. \A i \in DOMAIN op : /\ op'[i].turn = op[i].turn /\ op'[i].kind = op[i].kind
                           /\ op'[i].tool = op[i].tool /\ op'[i].row = op[i].row
                           /\ op'[i].st = op[i].st
                           /\ i = o => ~op'[i].drive
                           /\ i # o => (op'[i].drive <=> op[i].drive)
                           /\ (i = op[o].tool /\ i # o) => op'[i].ref = info[t]
                           /\ (i # op[o].tool \/ i = o) => op'[i].ref = op[i].ref
  BY <1>3, <1>5, SMTT(30) DEF OpRow
<1>9. Of(t, op') = Of(t, op) /\ o \in Of(t, op) /\ Of(t, op) \subseteq DOMAIN op
  BY <1>5, <1>8 DEF Of
<1>10. Refs(op')
  BY <1>3, <1>4, <1>5, <1>8 DEF Refs
<1>11. /\ turn' \in Seq(TurnRow) /\ DOMAIN turn' = DOMAIN turn /\ Len(turn') = Len(turn)
       /\ \A u \in DOMAIN turn : u # t => turn'[u] = turn[u]
       /\ turn'[t] \in TurnRow
       /\ SaidRow(r, turn'[t]) \/ EndedRow(r, turn'[t])
       /\ faults' \in Nat
  <2>1. CASE o \in r.staged
    BY <1>1, <1>2, <1>3, <2>1, SayReplyDoes
  <2>2. CASE o \notin r.staged
    BY <1>1, <1>3, <2>2 DEF NoFault, SaidRow
  <2> QED
    BY <2>1, <2>2
<1>12. TTypes'
  BY <1>1, <1>3, <1>7, <1>11 DEF TTypes
<1>13. TurnInv(t, turn'[t], info'[t], op')
  <2>1. CASE SaidRow(r, turn'[t])
    <3>1. DroveOps(t, o, info[t], op, op')
      BY <1>8, <1>9 DEF DroveOps
    <3> HIDE DEF r, t
    <3>2. TurnInv(t, turn'[t], info[t], op')
      BY <1>1, <1>2, <1>3, <1>4, <1>9, <1>10, <1>11, <2>1, <3>1, DrivesInv
    <3> QED
      BY <1>1, <3>2
  <2>2. CASE EndedRow(r, turn'[t])
    <3>1. ~turn'[t].wake
      BY <1>1, <1>4, <1>9, <2>2 DEF TurnInv, Recovering, EndedRow
    <3>2. turn'[t].st = "completed" \/ Stuck(turn'[t])
      BY <2>2, <3>1 DEF EndedRow, Stuck
    <3>3. \A p \in Of(t, op) : op[p].ref <= r.v /\ info[t] <= r.v
      BY <1>4 DEF TurnInv, Versions
    <3>4. \A p \in Of(t, op) : /\ op'[p].kind = op[p].kind /\ op'[p].tool = op[p].tool
                               /\ op[p].row # "prepared" => op'[p].row # "prepared"
                               /\ op'[p].ref <= r.v
                               /\ op'[p].drive => op[p].drive
      BY <1>8, <1>9, <3>3
    <3>5. TurnInv(t, turn'[t], info[t], op')
      BY <1>3, <1>4, <1>9, <1>10, <1>11, <2>2, <3>1, <3>2, <3>4, EndsInv DEF EndedRow
    <3> QED
      BY <1>1, <3>5
  <2> QED
    BY <1>11, <2>1, <2>2
<1>14. Forward(t, r, op, turn'[t], op')
  <2>1. SaidRow(r, turn'[t]) => KindOf(turn'[t]) = KindOf(r)
    BY DEF SaidRow, KindOf
  <2>2. Settled(t, op) => Settled(t, op')
    BY <1>8, <1>9 DEF Settled
  <2> QED
    BY <1>4, <1>11, <2>1, <2>2 DEF SaidRow, EndedRow, Forward
<1>15. \A p \in Of(t, op') : op'[p].tool # 0 => op'[p].tool \in Of(t, op')
  BY <1>8, <1>9 DEF TInv, OpsOK, Of
<1>16. \A i \in DOMAIN op : op[i].turn # t => op'[i] = op[i]
  <2> SUFFICES ASSUME NEW i \in DOMAIN op, op[i].turn # t
               PROVE  i # o /\ i # op[o].tool
    BY <1>5
  <2>1. i # 0
    BY <1>3
  <2> QED
    BY <1>2, <2>1 DEF Of
<1>17. /\ TurnsOK(turn', info', op') /\ OpsOK(turn', op')
       /\ \A u \in DOMAIN turn : /\ u \in DOMAIN turn' /\ turn[u].v \in Nat /\ turn'[u].v \in Nat
                                 /\ Forward(u, turn[u], op, turn'[u], op')
  <2>1. /\ \A i \in DOMAIN op : i \in DOMAIN op' /\ op'[i].turn = op[i].turn
        /\ \A i \in DOMAIN op' : i \notin DOMAIN op => op'[i].turn = t
        /\ \A u \in DOMAIN turn : u # t => turn'[u] = turn[u] /\ info'[u] = info[u]
    BY <1>1, <1>5, <1>8, <1>11
  <2> HIDE DEF t
  <2> QED
    BY <1>2, <1>11, <1>12, <1>13, <1>14, <1>15, <1>16, <2>1, OneTurn
<1> QED
  BY <1>1, <1>11, <1>12, <1>17, Completes

--------------------------------------------------------------------------------
(* Deliveries.                                                               *)

(* A delivery replaces the row of its effect, and may add one. *)
LEMMA OpsAfter ==
  ASSUME NEW ops \in Seq(OpRow), NEW o \in DOMAIN ops, NEW y \in OpRow, NEW x \in OpRow, NEW ops2,
         \/ ops2 = [ops EXCEPT ![o] = y]
         \/ ops2 = Append([ops EXCEPT ![o] = y], x)
  PROVE  /\ ops2 \in Seq(OpRow) /\ DOMAIN ops \subseteq DOMAIN ops2
         /\ ops2[o] = y /\ \A p \in DOMAIN ops : p # o => ops2[p] = ops[p]
         /\ \A p \in DOMAIN ops2 : p \notin DOMAIN ops => p = Len(ops) + 1 /\ ops2[p] = x
<1> DEFINE s == [ops EXCEPT ![o] = y]
<1>1. /\ s \in Seq(OpRow) /\ DOMAIN s = DOMAIN ops /\ Len(s) = Len(ops)
      /\ s[o] = y /\ \A p \in DOMAIN ops : p # o => s[p] = ops[p]
  BY Replaces
<1> HIDE DEF s
<1>2. CASE ops2 = s
  BY <1>1, <1>2
<1>3. CASE ops2 = Append(s, x)
  <2>1. LET s2 == Append(s, x)
        IN /\ s2 \in Seq(OpRow)
           /\ DOMAIN s2 = DOMAIN s \cup {Len(s) + 1} /\ Len(s) + 1 \notin DOMAIN s
           /\ s2[Len(s) + 1] = x /\ \A j \in DOMAIN s : s2[j] = s[j]
    BY ONLY <1>1, Appends, x \in OpRow
  <2> QED
    BY <1>1, <1>3, <2>1
<1> QED
  BY <1>2, <1>3 DEF s

(* A step on one turn and an effect of its keeps the invariant if the turn's does. *)
LEMMA TurnStep ==
  ASSUME TInv, NEW o \in DOMAIN op, NEW r2 \in TurnRow, NEW y \in OpRow, NEW x \in OpRow,
         turn' = [turn EXCEPT ![op[o].turn] = r2], r2.v = turn[op[o].turn].v + 1,
         \/ op' = [op EXCEPT ![o] = y]
         \/ op' = Append([op EXCEPT ![o] = y], x),
         y.turn = op[o].turn, y.tool # 0 => y.tool \in Of(op[o].turn, op') \/ y.tool = op[o].tool,
         x.turn = op[o].turn, x.tool = 0,
         UNCHANGED <<inbox, gen, tick, info, plan>>, faults' \in Nat,
         TurnInv(op[o].turn, r2, info[op[o].turn], op')
  PROVE  TInv'
<1> DEFINE t == op[o].turn
<1>1. t \in DOMAIN turn /\ (op[o].tool # 0 => op[o].tool \in Of(t, op))
  BY DEF TInv, OpsOK
<1>2. TTypes /\ turn \in Seq(TurnRow) /\ op \in Seq(OpRow) /\ turn[t] \in TurnRow
  BY <1>1, RowFacts DEF TInv, TTypes
<1>3. /\ turn' \in Seq(TurnRow) /\ DOMAIN turn' = DOMAIN turn /\ Len(turn') = Len(turn)
      /\ turn'[t] = r2 /\ \A u \in DOMAIN turn : u # t => turn'[u] = turn[u]
  BY <1>1, <1>2, Replaces
<1>4. /\ op' \in Seq(OpRow) /\ DOMAIN op \subseteq DOMAIN op'
      /\ op'[o] = y /\ \A p \in DOMAIN op : p # o => op'[p] = op[p]
      /\ \A p \in DOMAIN op' : p \notin DOMAIN op => op'[p] = x
  BY <1>2, OpsAfter
<1>5. TTypes'
  BY <1>2, <1>3, <1>4 DEF TTypes
<1>6. Forward(t, turn[t], op, turn'[t], op')
  BY <1>2, <1>3 DEF Forward, TurnRow
<1>7. /\ \A p \in DOMAIN op : p \in DOMAIN op' /\ op'[p].turn = op[p].turn
      /\ \A p \in DOMAIN op : op[p].turn # t => op'[p] = op[p]
      /\ \A p \in DOMAIN op' : p \notin DOMAIN op => op'[p].turn = t
      /\ \A u \in DOMAIN turn : u # t => turn'[u] = turn[u] /\ info'[u] = info[u]
  BY <1>3, <1>4
<1>8. Of(t, op) \subseteq Of(t, op')
  BY <1>7 DEF Of
<1>9. \A p \in Of(t, op') : op'[p].tool # 0 => op'[p].tool \in Of(t, op')
  <2> SUFFICES ASSUME NEW p \in Of(t, op'), op'[p].tool # 0
               PROVE  op'[p].tool \in Of(t, op')
    OBVIOUS
  <2>1. CASE p = o
    BY <1>1, <1>4, <1>8, <2>1
  <2>2. CASE p # o
    <3>1. p \in DOMAIN op /\ op'[p] = op[p] /\ op[p].turn = t
      BY <1>4, <2>2 DEF Of
    <3>2. op[p].tool \in Of(t, op)
      BY <3>1 DEF TInv, OpsOK
    <3> QED
      BY <1>8, <3>1, <3>2
  <2> QED
    BY <2>1, <2>2
<1>10. TurnInv(t, turn'[t], info'[t], op')
  BY <1>3
<1> HIDE DEF t
<1>11. /\ TurnsOK(turn', info', op') /\ OpsOK(turn', op')
       /\ \A u \in DOMAIN turn : /\ u \in DOMAIN turn' /\ turn[u].v \in Nat /\ turn'[u].v \in Nat
                                 /\ Forward(u, turn[u], op, turn'[u], op')
  BY <1>1, <1>3, <1>5, <1>6, <1>7, <1>9, <1>10, OneTurn
<1> QED
  BY <1>3, <1>5, <1>11, Completes

(* handleTurnObservation, of an effect whose row and turn expect it. *)
LEMMA ObservationT ==
  ASSUME TInv, NEW o \in DOMAIN op, NEW drive \in BOOLEAN, Expected(o), TurnObservation(o, drive),
         UNCHANGED <<inbox, gen, tick, info, plan>>, faults' \in Nat
  PROVE  TInv'
<1> DEFINE t == op[o].turn
           r == turn[t]
           n == Len(op) + 1
           x == NewOp(t, "tool", "staged")
<1>1. t \in DOMAIN turn
  BY DEF TInv, OpsOK
<1>2. /\ TTypes /\ r \in TurnRow /\ op[o] \in OpRow /\ Refs(op) /\ op \in Seq(OpRow)
      /\ DOMAIN op = 1..Len(op) /\ Len(op) \in Nat /\ o \in Nat
      /\ info \in [Turns -> Nat] /\ t \in Turns /\ \A p \in DOMAIN op : op[p] \in OpRow
  BY <1>1, RowFacts DEF TInv, TTypes
<1>3. /\ TurnInv(t, r, info[t], op) /\ info[t] \in Nat /\ r.v \in Nat /\ r.steps \in Nat
      /\ info[t] <= r.v /\ r.staged \in SUBSET Nat
  <2>1. TurnInv(t, r, info[t], op) /\ info[t] \in Nat
    BY <1>1, <1>2 DEF TInv, TurnsOK
  <2> QED
    BY <1>2, <2>1 DEF TurnRow, TurnInv, Versions
<1>4. op[o].kind = "step" /\ op[o].row = "prepared" /\ r.st = "model_pending"
  BY DEF Expected
<1>5. Open(t, r, op)
  BY <1>2, <1>3, <1>4, IsOpen
<1>6. /\ x \in OpRow /\ x.turn = t /\ x.kind = "tool" /\ x.tool = 0 /\ x.ref = 0 /\ ~x.drive
  BY <1>1, <1>2, NewOpFields
<1>7. o \in Of(t, op)
  BY DEF Of
<1> HIDE DEF x
(* The turn goes on without an answer. *)
<1>8. ASSUME NEW r2 \in TurnRow, NEW y \in OpRow, turn' = [turn EXCEPT ![t] = r2],
             op' = [op EXCEPT ![o] = y],
             r2.v = r.v + 1, ~r2.wake, r2.st # "completed", r2.ctx = r.ctx,
             r2.staged = r.staged, r2.said = r.said,
             y.turn = t, y.kind = "step", y.ref = op[o].ref,
             ~Driving(y), y.tool = 0 \/ y.tool = op[o].tool
      PROVE  TInv'
  <2>1. /\ op' \in Seq(OpRow) /\ DOMAIN op' = DOMAIN op
        /\ op'[o] = y /\ \A p \in DOMAIN op : p # o => op'[p] = op[p]
    BY <1>2, <1>8, Replaces
  <2>2. Of(t, op') = Of(t, op) /\ Of(t, op) \subseteq DOMAIN op
    BY <1>8, <2>1 DEF Of
  <2>3. Refs(op')
    BY <1>2, <1>8, <2>1 DEF Refs
  <2>4. \A p \in Of(t, op) : /\ p \in Of(t, op') /\ op'[p].ref = op[p].ref
                             /\ op[p].row # "prepared" =>
                                  op'[p].row # "prepared" /\ op'[p].tool = op[p].tool
    BY <1>4, <1>8, <2>1, <2>2
  <2>5. \A p \in Of(t, op') : ~Driving(op'[p])
    BY <1>5, <1>8, <2>1, <2>2 DEF Open
  <2>6. \A p \in Of(t, op') : op'[p].kind = "step" => p <= r2.ctx
    BY <1>3, <1>4, <1>8, <2>1, <2>2 DEF TurnInv, LastStep
  <2>7. \A p \in Of(t, op') : p \notin Of(t, op) => op'[p].ref = 0
    BY <2>2
  <2>8. info[t] <= r2.v
    BY <1>3, <1>8
  <2>9. TurnInv(t, r2, info[t], op')
    <3>1. GoesOps(t, r2.ctx, op, op')
      BY <2>4, <2>5, <2>6, <2>7 DEF GoesOps
    <3>2. GoesRow(r, r2)
      BY <1>8 DEF GoesRow
    <3> HIDE DEF t, r
    <3> QED
      BY <1>2, <1>3, <1>5, <2>3, <2>8, <3>1, <3>2, GoesOnInv
  <2> QED
    BY <1>6, <1>8, <2>9, TurnStep
<1>9. CASE op[o].d # "succeeded"
  <2> DEFINE m == MovedRow(r, "waiting")
             r2 == [m EXCEPT !.wake = FALSE]
             z == [op[o] EXCEPT !.row = "failed"]
             y == [z EXCEPT !.owed = ~drive]
  <2>1. m \in TurnRow /\ m.st = "waiting" /\ m.v = r.v + 1
        /\ m.ctx = r.ctx /\ m.staged = r.staged /\ m.said = r.said
    BY <1>2, MovedFields DEF TurnStates
  <2>2. turn' = [turn EXCEPT ![t] = r2]
    <3>1. Moved(t, "waiting") = [turn EXCEPT ![t] = m]
      BY <1>1, <1>2, MovedIs
    <3> HIDE DEF m
    <3> QED
      BY <1>1, <1>2, <1>9, <3>1 DEF TurnObservation
  <2> HIDE DEF m
  <2>3. r2 \in TurnRow
    BY <2>1, TurnRowFields
  <2>4. /\ r2.st = "waiting" /\ r2.v = r.v + 1 /\ ~r2.wake /\ r2.ctx = r.ctx
        /\ r2.staged = r.staged /\ r2.said = r.said
    BY <2>1 DEF TurnRow
  <2>5. op' = [op EXCEPT ![o] = y]
    BY <1>9 DEF TurnObservation
  <2>6. z \in OpRow
    BY <1>2, OpRowFields
  <2>7. y \in OpRow
    <3> HIDE DEF z
    <3> QED
      BY <2>6, OpRowFields
  <2>8. /\ y.turn = t /\ y.kind = "step" /\ y.ref = op[o].ref /\ y.tool = op[o].tool
        /\ (y.drive <=> op[o].drive)
    BY <1>2, <1>4 DEF OpRow
  <2>9. ~Driving(y)
    BY <1>5, <1>7, <2>8 DEF Open, Driving
  <2> HIDE DEF r2, y, r
  <2> QED
    BY <1>8, <2>2, <2>3, <2>4, <2>5, <2>7, <2>8, <2>9
<1>10. CASE op[o].d = "succeeded"
  <2>1. PICK out \in Proposals(o) :
         LET steps == turn[t].steps + (IF out \cap {"refused", "clarify"} # {} THEN 1 ELSE 0)
             tool == "tool" \in out
             this == [op EXCEPT ![o].row = "recorded", ![o].owed = ~drive,
                                ![o].drive = drive /\ out \cap {"reply", "tool"} # {},
                                ![o].tool = IF tool THEN Len(op) + 1 ELSE 0]
         IN /\ op' = IF tool THEN Append(this, NewOp(t, "tool", "staged")) ELSE this
            /\ turn' = [Moved(t, NextTurnState(out, steps)) EXCEPT
                          ![t].steps = steps,
                          ![t].wake = FALSE,
                          ![t].staged = IF "reply" \in out THEN @ \cup {o} ELSE @]
    BY <1>10 DEF TurnObservation
  <2> DEFINE steps == r.steps + (IF out \cap {"refused", "clarify"} # {} THEN 1 ELSE 0)
             st == NextTurnState(out, steps)
             goes == drive /\ out \cap {"reply", "tool"} # {}
             k == IF "tool" \in out THEN n ELSE 0
             y1 == [op[o] EXCEPT !.row = "recorded"]
             y2 == [y1 EXCEPT !.owed = ~drive]
             y3 == [y2 EXCEPT !.drive = goes]
             y == [y3 EXCEPT !.tool = k]
             m == MovedRow(r, st)
             r1 == [m EXCEPT !.steps = steps]
             r2 == [r1 EXCEPT !.wake = FALSE]
             sg == IF "reply" \in out THEN r.staged \cup {o} ELSE r.staged
             r3 == [r2 EXCEPT !.staged = sg]
  <2>2. steps \in Nat
    BY <1>3
  <2>3. k \in Nat /\ goes \in BOOLEAN /\ sg \in SUBSET Nat
    BY <1>2, <1>3
  <2> HIDE DEF k, goes
  <2>4. y1 \in OpRow
    BY <1>2, OpRowFields
  <2>5. y2 \in OpRow
    <3> HIDE DEF y1
    <3> QED
      BY <2>4, OpRowFields
  <2>6. y3 \in OpRow
    <3> HIDE DEF y2
    <3> QED
      BY <2>3, <2>5, OpRowFields
  <2>7. y \in OpRow
    <3> HIDE DEF y3
    <3> QED
      BY <2>3, <2>6, OpRowFields
  <2>8. /\ y.turn = t /\ y.kind = "step" /\ y.ref = op[o].ref /\ y.tool = k /\ y.row = "recorded"
        /\ y.drive = goes
    BY <1>2, <1>4 DEF OpRow
  <2>9. op' = (IF "tool" \in out THEN Append([op EXCEPT ![o] = y], x) ELSE [op EXCEPT ![o] = y])
    BY <2>1 DEF x, k, goes
  <2>10. st \in TurnStates /\ st # "completed"
    BY DEF NextTurnState, TurnStates
  <2> HIDE DEF y, steps
  <2>11. m \in TurnRow /\ m.st = st /\ m.v = r.v + 1
         /\ m.ctx = r.ctx /\ m.staged = r.staged /\ m.said = r.said
    BY <1>2, <2>10, MovedFields
  <2>12. turn' = [turn EXCEPT ![t] = r3]
    <3>1. Moved(t, st) = [turn EXCEPT ![t] = m]
      BY <1>1, <1>2, MovedIs
    <3>2. turn' = [Moved(t, st) EXCEPT ![t].steps = steps, ![t].wake = FALSE,
                                       ![t].staged = IF "reply" \in out THEN @ \cup {o} ELSE @]
      BY <2>1 DEF steps
    <3>3. m.staged = r.staged
      BY <2>11
    <3> HIDE DEF m, st, r
    <3> QED
      BY <1>1, <1>2, <3>1, <3>2, <3>3 DEF TurnRow
  <2> HIDE DEF m, st, sg
  <2>13. r1 \in TurnRow
    BY <2>2, <2>11, TurnRowFields
  <2>14. r2 \in TurnRow
    <3> HIDE DEF r1
    <3> QED
      BY <2>13, TurnRowFields
  <2>15. r3 \in TurnRow
    <3> HIDE DEF r2
    <3> QED
      BY <2>3, <2>14, TurnRowFields
  <2>16. /\ r3.st = st /\ r3.v = r.v + 1 /\ ~r3.wake /\ r3.ctx = r.ctx /\ r3.steps = steps
         /\ r3.staged = sg /\ r3.said = r.said
    BY <2>11 DEF TurnRow
  <2> HIDE DEF r3, r
  <2>17. CASE out \cap {"reply", "tool"} = {}
    <3>1. op' = [op EXCEPT ![o] = y] /\ sg = r.staged /\ k = 0 /\ goes = FALSE
      BY <2>9, <2>17 DEF sg, k, goes
    <3>2. ~Driving(y)
      BY <2>8, <3>1 DEF Driving
    <3> QED
      BY <1>8, <2>7, <2>8, <2>10, <2>12, <2>15, <2>16, <3>1, <3>2
  <2>18. CASE out \cap {"reply", "tool"} # {}
    <3>1. r.ctx = o
      BY <2>1, <2>18 DEF Proposals, r
    <3>2. r3.st = "proposal_pending" \/ Stuck(r3)
      BY <2>16, <2>18 DEF st, NextTurnState, Stuck
    <3>3. o \notin r.staged
      BY <1>3, <1>4 DEF TurnInv, Decided
    <3>4. /\ r3.staged \in {r.staged, r.staged \cup {o}}
          /\ r3.staged = r.staged => "tool" \in out
      BY <2>16, <2>18, <3>3 DEF sg
    <3>5. "tool" \in out => k # 0
      BY <1>2 DEF k
    <3>6. \/ op' = [op EXCEPT ![o] = y]
          \/ op' = Append([op EXCEPT ![o] = y], x)
      BY <2>9
    <3>7. /\ op' \in Seq(OpRow) /\ DOMAIN op \subseteq DOMAIN op'
          /\ op'[o] = y /\ \A p \in DOMAIN op : p # o => op'[p] = op[p]
          /\ \A p \in DOMAIN op' : p \notin DOMAIN op => p = n /\ op'[p] = x
      <4>1. op \in Seq(OpRow) /\ x \in OpRow
        BY <1>2, <1>6
      <4> QED
        BY <2>7, <3>6, <4>1, OpsAfter
    <3>8. Of(t, op) \subseteq Of(t, op') /\ Of(t, op) \subseteq DOMAIN op
      BY <2>8, <3>7 DEF Of
    <3>9. Refs(op')
      <4>1. n \in Nat /\ n # 0
        BY <1>2
      <4>2. y.ref \in Nat
        BY <2>7 DEF OpRow
      <4> HIDE DEF n
      <4> QED
        BY <1>2, <1>6, <3>7, <4>1, <4>2 DEF Refs
    <3>10. \A p \in Of(t, op) : /\ p \in Of(t, op')
                                /\ op'[p].kind = op[p].kind /\ op'[p].ref = op[p].ref
      BY <1>4, <2>8, <3>7, <3>8
    <3>11. \A p \in Of(t, op) : p # o => Alike(op[p], op'[p])
      BY <3>7, <3>8 DEF Alike
    <3>12. \A p \in Of(t, op') : p \notin Of(t, op) =>
             op'[p].kind = "tool" /\ op'[p].ref = 0 /\ ~Driving(op'[p])
      BY <1>6, <2>8, <3>7 DEF Of, Driving
    <3>13. op'[o].row # "prepared" /\ (r3.staged = r.staged => op'[o].tool # 0)
      BY <2>8, <3>4, <3>5, <3>7
    <3>14. TurnInv(t, r3, info[t], op')
      <4>1. AnswersRow(r, r3, o)
        BY <2>16, <3>2, <3>4 DEF AnswersRow
      <4>2. AnswersOps(t, o, op, op')
        BY <3>10, <3>11, <3>12 DEF AnswersOps
      <4> HIDE DEF n, t
      <4> QED
        BY <1>2, <1>3, <1>4, <1>5, <1>7, <2>15, <3>1, <3>9, <3>13, <4>1, <4>2, AnswersInv
    <3>15. y.tool # 0 => y.tool \in Of(t, op')
      <4> SUFFICES ASSUME "tool" \in out PROVE n \in Of(t, op')
        BY <2>8 DEF k
      <4>1. op' = Append([op EXCEPT ![o] = y], x)
        BY <2>9
      <4>2. [op EXCEPT ![o] = y] \in Seq(OpRow) /\ Len([op EXCEPT ![o] = y]) = Len(op)
        BY <1>2, <2>7, Replaces
      <4>3. n \in DOMAIN op' /\ op'[n] = x
        BY <1>6, <4>1, <4>2, Appends
      <4> QED
        BY <1>6, <4>3 DEF Of
    <3> QED
      BY <1>6, <2>7, <2>8, <2>12, <2>15, <2>16, <3>6, <3>14, <3>15, TurnStep DEF r
  <2> QED
    BY <2>17, <2>18
<1> QED
  BY <1>9, <1>10

(* handleProposalRecord, of a tool call at the version its worker saw. *)
LEMMA ProposalT ==
  ASSUME TInv, NEW o \in DOMAIN op, NEW lost \in BOOLEAN,
         op[o].row = "prepared", op[o].ref = turn[op[o].turn].v,
         turn' = Recorded(op[o].turn, "claimed"),
         op' = [op EXCEPT ![o].row = "recorded", ![o].owed = lost],
         UNCHANGED <<inbox, gen, tick, info, plan>>, faults' \in Nat
  PROVE  TInv'
<1> DEFINE t == op[o].turn
           r == turn[t]
           r2 == RecordedRow(r, "claimed")
           z == [op[o] EXCEPT !.row = "recorded"]
           y == [z EXCEPT !.owed = lost]
           x == NewOp(t, "tool", "staged")
<1>1. t \in DOMAIN turn
  BY DEF TInv, OpsOK
<1>2. /\ TTypes /\ r \in TurnRow /\ op[o] \in OpRow /\ Refs(op) /\ op \in Seq(OpRow)
      /\ info \in [Turns -> Nat] /\ t \in Turns
  BY <1>1, RowFacts DEF TInv, TTypes
<1>3. TurnInv(t, r, info[t], op) /\ info[t] \in Nat /\ r.v \in Nat /\ r.steps \in Nat
      /\ info[t] <= r.v /\ r.v > 0 /\ \A p \in Of(t, op) : op[p].ref <= r.v
  <2>1. TurnInv(t, r, info[t], op) /\ info[t] \in Nat
    BY <1>1, <1>2 DEF TInv, TurnsOK
  <2> QED
    BY <1>2, <2>1 DEF TurnRow, TurnInv, Versions
<1>4. o \in Of(t, op) /\ op[o].ref = r.v
  BY DEF Of
<1>5. ~r.wake
  BY <1>3, <1>4 DEF TurnInv, Recovering
<1>6. /\ r2 \in TurnRow /\ r2.v = r.v + 1 /\ r2.wake = r.wake /\ r2.ctx = r.ctx
      /\ r2.staged = r.staged /\ r2.said = r.said /\ r2.steps = r.steps + 1
      /\ \/ r2.st = "waiting" /\ r2.steps >= StepLimit
         \/ r2.st = "claimed" /\ ~(r2.steps >= StepLimit)
  BY <1>2, RecordedFields DEF TurnStates
<1>7. turn' = [turn EXCEPT ![t] = r2]
  BY <1>1, <1>2, RecordedIs
<1>8. z \in OpRow
  BY <1>2, OpRowFields
<1>9. y \in OpRow
  <2> HIDE DEF z
  <2> QED
    BY <1>8, OpRowFields
<1>10. /\ y.turn = t /\ y.kind = op[o].kind /\ y.ref = op[o].ref /\ y.tool = op[o].tool
       /\ (y.drive <=> op[o].drive) /\ y.row = "recorded"
  BY <1>2 DEF OpRow
<1>11. op' = [op EXCEPT ![o] = y]
  OBVIOUS
<1>12. x \in OpRow /\ x.turn = t /\ x.tool = 0
  BY <1>1, <1>2, NewOpFields
<1> HIDE DEF r2, y, x
<1>13. /\ op' \in Seq(OpRow) /\ DOMAIN op' = DOMAIN op
       /\ op'[o] = y /\ \A p \in DOMAIN op : p # o => op'[p] = op[p]
  BY ONLY <1>2, <1>9, <1>11, Replaces, o \in DOMAIN op
<1>14. Of(t, op') = Of(t, op) /\ Of(t, op) \subseteq DOMAIN op
  BY <1>10, <1>13 DEF Of
<1>15. Refs(op')
  BY <1>2, <1>10, <1>13 DEF Refs
<1>16. \A p \in Of(t, op) : /\ op'[p].kind = op[p].kind /\ op'[p].tool = op[p].tool
                            /\ op'[p].ref = op[p].ref /\ (op'[p].drive <=> op[p].drive)
                            /\ op[p].row # "prepared" => op'[p].row # "prepared"
  BY <1>10, <1>13, <1>14
<1>17. TurnInv(t, r2, info[t], op')
  <2>1. CASE r2.st = "waiting" /\ r2.steps >= StepLimit
    <3>1. Stuck(r2) /\ ~r2.wake
      BY <1>5, <1>6, <2>1 DEF Stuck
    <3>2. \A p \in Of(t, op) : /\ op'[p].kind = op[p].kind /\ op'[p].tool = op[p].tool
                               /\ op[p].row # "prepared" => op'[p].row # "prepared"
                               /\ op'[p].ref <= r.v
                               /\ op'[p].drive => op[p].drive
      BY <1>3, <1>16
    <3>3. r2.staged \cup r2.said \subseteq r.staged \cup r.said
      BY <1>6
    <3> HIDE DEF t, r
    <3> QED
      BY <1>2, <1>3, <1>6, <1>14, <1>15, <3>1, <3>2, <3>3, EndsInv
  <2>2. CASE r2.st = "claimed" /\ ~(r2.steps >= StepLimit)
    <3>1. ~Stuck(r)
      BY <1>3, <1>6, <2>2, TurnsAssumption DEF Stuck
    <3>2. Open(t, r, op)
      BY <1>2, <1>3, <1>4, <3>1, IsOpen
    <3>3. \A p \in Of(t, op') : ~Driving(op'[p])
      BY <1>14, <1>16, <3>2 DEF Open, Driving
    <3>4. \A p \in Of(t, op') : op'[p].kind = "step" => p <= r2.ctx
      BY <1>3, <1>6, <1>14, <1>16 DEF TurnInv, LastStep
    <3>5. GoesOps(t, r2.ctx, op, op')
      BY <1>14, <1>16, <3>3, <3>4 DEF GoesOps
    <3>6. GoesRow(r, r2)
      BY <1>5, <1>6, <2>2 DEF GoesRow
    <3>7. info[t] <= r2.v
      BY <1>3, <1>6
    <3> HIDE DEF t, r
    <3> QED
      BY <1>2, <1>3, <1>6, <1>15, <3>2, <3>5, <3>6, <3>7, GoesOnInv
  <2> QED
    BY <1>6, <2>1, <2>2
<1>18. /\ r2.v = r.v + 1 /\ r2 \in TurnRow /\ y.turn = t /\ y.tool = op[o].tool
       /\ x.turn = t /\ x.tool = 0 /\ x \in OpRow
  BY <1>6, <1>10, <1>12
<1> QED
  BY <1>7, <1>9, <1>11, <1>17, <1>18, TurnStep

(* An observation is handed to the owner its admission named. *)
LEMMA DeliverT ==
  ASSUME TInv, NEW o \in DOMAIN op, Deliver(o)
  PROVE  TInv'
<1>1. UNCHANGED <<inbox, gen, tick, info, plan>> /\ faults' \in Nat /\ TTypes /\ op[o] \in OpRow
  <2>1. TTypes /\ op[o] \in OpRow /\ faults \in Nat
    BY RowFacts DEF TInv, TTypes
  <2>2. UNCHANGED <<inbox, gen, tick, info, plan>>
    BY DEF Deliver
  <2>3. Fault \/ NoFault
    BY DEF Deliver
  <2> QED
    BY <2>1, <2>2, <2>3 DEF Fault, NoFault
<1>2. CASE \E drive \in BOOLEAN : Expected(o) /\ TurnObservation(o, drive)
  BY <1>1, <1>2, ObservationT
<1>3. CASE /\ op[o].row = "prepared" /\ op[o].ref = turn[op[o].turn].v
           /\ turn' = Recorded(op[o].turn, "claimed")
           /\ \E lost \in BOOLEAN : op' = [op EXCEPT ![o].row = "recorded", ![o].owed = lost]
  BY <1>1, <1>3, ProposalT
<1>4. CASE Refused(o)
  <2> DEFINE y == [op[o] EXCEPT !.owed = FALSE]
  <2>1. y \in OpRow
    BY <1>1, OpRowFields
  <2>2. y.turn = op[o].turn /\ Alike(op[o], y) /\ y.st = op[o].st
    BY <1>1 DEF OpRow, Alike
  <2>3. op' = [op EXCEPT ![o] = y] /\ turn' = turn
    BY <1>4 DEF Refused
  <2> HIDE DEF y
  <2>4. /\ op' \in Seq(OpRow) /\ DOMAIN op' = DOMAIN op
        /\ \A p \in DOMAIN op : /\ op'[p].turn = op[p].turn /\ Alike(op[p], op'[p])
                                /\ op[p].st \in {"closed", "review"} => op'[p].st \in {"closed", "review"}
    BY <1>1, <2>1, <2>2, <2>3, QuietRow
  <2>5. TTypes'
    BY <1>1, <2>3, <2>4 DEF TTypes
  <2> QED
    BY <1>1, <2>3, <2>4, <2>5, NoTurn, Completes
<1> QED
  BY <1>2, <1>3, <1>4 DEF Deliver

--------------------------------------------------------------------------------
(* Restarts.                                                                 *)

(* The next lifetime of the controller begins. *)
LEMMA RestartT ==
  ASSUME TInv, Restart
  PROVE  TInv'
<1>1. /\ gen' = gen + 1
      /\ turn' = [t \in DOMAIN turn |->
                    IF Fenced(t) THEN [turn[t] EXCEPT !.st = "waiting", !.v = @ + 1, !.wake = TRUE]
                                 ELSE turn[t]]
      /\ op' = [o \in DOMAIN op |-> [op[o] EXCEPT !.drive = FALSE, !.ref = 0]]
      /\ tick' = Idle
      /\ info' = [t \in Turns |-> 0]
      /\ plan' = [t \in Turns |-> NoPlan]
      /\ UNCHANGED <<inbox, faults>>
  BY DEF Restart
<1>2. /\ TTypes /\ Refs(op) /\ DOMAIN turn = 1..Len(turn) /\ Len(turn) \in Nat
      /\ DOMAIN op = 1..Len(op) /\ Len(op) \in Nat /\ DOMAIN turn \subseteq Turns
      /\ \A t \in DOMAIN turn : turn[t] \in TurnRow
      /\ \A o \in DOMAIN op : op[o] \in OpRow
  BY RowFacts DEF TInv
<1>3. DOMAIN turn' = DOMAIN turn /\ DOMAIN op' = DOMAIN op
  BY <1>1
<1>4. ASSUME NEW o \in DOMAIN op
      PROVE  /\ op'[o] \in OpRow
             /\ op'[o].turn = op[o].turn /\ op'[o].kind = op[o].kind /\ op'[o].tool = op[o].tool
             /\ op'[o].row = op[o].row /\ op'[o].st = op[o].st /\ ~op'[o].drive /\ op'[o].ref = 0
  <2> DEFINE y == [op[o] EXCEPT !.drive = FALSE]
             z == [y EXCEPT !.ref = 0]
  <2>1. op'[o] = z /\ op[o] \in OpRow
    BY <1>1, <1>2
  <2>2. y \in OpRow
    BY <2>1, OpRowFields
  <2>3. z \in OpRow
    <3> HIDE DEF y
    <3> QED
      BY <2>2, OpRowFields
  <2> QED
    BY <2>1, <2>3 DEF OpRow
<1>5. ASSUME NEW t \in DOMAIN turn
      PROVE  /\ turn'[t] \in TurnRow
             /\ \/ turn'[t] = turn[t]
                \/ /\ turn'[t].v = turn[t].v + 1 /\ turn'[t].st = "waiting" /\ turn'[t].wake
                   /\ turn'[t].ctx = turn[t].ctx
                   /\ turn'[t].staged = turn[t].staged /\ turn'[t].said = turn[t].said
                   /\ turn[t].st \in {"claimed", "context_pending", "model_pending", "proposal_pending"}
                   /\ ~(turn[t].st = "proposal_pending" /\ turn[t].staged # {})
  <2> DEFINE m == MovedRow(turn[t], "waiting")
             z == [m EXCEPT !.wake = TRUE]
  <2>0. turn[t] \in TurnRow
    BY <1>2
  <2>1. m \in TurnRow /\ m.st = "waiting" /\ m.v = turn[t].v + 1 /\ m.ctx = turn[t].ctx
        /\ m.staged = turn[t].staged /\ m.said = turn[t].said
    BY <2>0, MovedFields DEF TurnStates
  <2>2. turn'[t] = (IF Fenced(t) THEN z ELSE turn[t])
    BY <1>1 DEF MovedRow
  <2> HIDE DEF m
  <2>3. z \in TurnRow
    BY <2>1, TurnRowFields
  <2>4. /\ z.v = turn[t].v + 1 /\ z.st = "waiting" /\ z.wake /\ z.ctx = turn[t].ctx
        /\ z.staged = turn[t].staged /\ z.said = turn[t].said
    BY <2>1 DEF TurnRow
  <2> HIDE DEF z
  <2>5. CASE Fenced(t)
    BY <2>2, <2>3, <2>4, <2>5 DEF Fenced
  <2>6. CASE ~Fenced(t)
    BY <2>0, <2>2, <2>6
  <2> QED
    BY <2>5, <2>6
<1>6. turn' \in Seq(TurnRow) /\ op' \in Seq(OpRow) /\ Len(turn') <= MaxTurns
  <2>1. turn' \in [1..Len(turn) -> TurnRow]
    BY <1>1, <1>2, <1>5
  <2>2. op' \in [1..Len(op) -> OpRow]
    BY <1>1, <1>2, <1>4
  <2>3. turn' \in Seq(TurnRow) /\ op' \in Seq(OpRow)
    BY <1>2, <2>1, <2>2
  <2>4. Len(turn') = Len(turn)
    BY <1>2, <1>3, <2>3, LenProperties
  <2> QED
    BY <1>2, <2>3, <2>4 DEF TTypes
<1>7. TTypes'
  <2>1. info' \in [Turns -> Nat] /\ plan' \in [Turns -> PlanRow] /\ tick' \in TickRow
    BY <1>1, IdleTypes DEF NoPlan, PlanRow
  <2>2. gen \in Nat /\ inbox \in Nat /\ faults \in Nat
    BY <1>2 DEF TTypes
  <2>3. gen' = gen + 1 /\ inbox' = inbox /\ faults' = faults
    BY <1>1
  <2>4. gen' \in Nat /\ inbox' \in Nat /\ faults' \in Nat
    BY <2>2, <2>3
  <2> QED
    BY <1>6, <2>1, <2>4 DEF TTypes
<1>8. \A t : Of(t, op') = Of(t, op) /\ Of(t, op) \subseteq DOMAIN op
  BY <1>3, <1>4 DEF Of
<1>9. TurnsOK(turn', info', op')
  <2> SUFFICES ASSUME NEW t \in DOMAIN turn
               PROVE  TurnInv(t, turn'[t], 0, op')
    BY <1>1, <1>2, <1>3 DEF TurnsOK
  <2>1. TurnInv(t, turn[t], info[t], op)
    BY DEF TInv, TurnsOK
  <2>2. \A p \in Of(t, op) : /\ op'[p].kind = op[p].kind /\ op'[p].tool = op[p].tool
                             /\ op'[p].row = op[p].row
                             /\ ~op'[p].drive /\ op'[p].ref = 0
    BY <1>4, <1>8
  <2> QED
    BY <1>2, <1>5, <1>8, <2>1, <2>2, RestartsInv
<1>10. OpsOK(turn', op')
  BY <1>3, <1>4, <1>8 DEF TInv, OpsOK
<1>11. TickOK(tick', turn', op')
  BY <1>1, IdleTypes DEF TickOK
<1>12. PlanOK(plan', turn', op')
  <2> SUFFICES ASSUME NEW t \in DOMAIN turn
               PROVE  /\ plan'[t].v <= turn'[t].v
                      /\ ~plan'[t].blind /\ plan'[t].v = turn'[t].v => Settled(t, op')
    BY <1>3 DEF PlanOK
  <2>1. plan'[t] = NoPlan
    BY <1>1, <1>2
  <2>2. turn'[t].v > 0 /\ turn'[t].v \in Nat
    BY <1>3, <1>5, <1>9 DEF TurnsOK, TurnInv, Versions, TurnRow
  <2> QED
    BY <2>1, <2>2 DEF NoPlan
<1>13. Unused'
  BY <1>1 DEF Unused
<1> QED
  BY <1>7, <1>9, <1>10, <1>11, <1>12, <1>13 DEF TInv

(* The invariant holds initially. *)
LEMMA InitT == TInit => TInv
<1> SUFFICES ASSUME TInit PROVE TInv
  OBVIOUS
<1>1. turn = <<>> /\ op = <<>> /\ gen = 1 /\ faults = 0 /\ inbox = MaxMessages /\ tick = Idle
      /\ info = [t \in Turns |-> 0] /\ plan = [t \in Turns |-> NoPlan]
  BY DEF TInit
<1>2. turn \in Seq(TurnRow) /\ op \in Seq(OpRow) /\ Len(turn) = 0 /\ DOMAIN turn = {} /\ DOMAIN op = {}
  BY <1>1
<1>3. info \in [Turns -> Nat] /\ plan \in [Turns -> PlanRow] /\ tick \in TickRow
  BY <1>1, IdleTypes DEF NoPlan, PlanRow
<1>4. TTypes
  BY <1>1, <1>2, <1>3, TurnsAssumption DEF TTypes
<1>5. TurnsOK(turn, info, op) /\ OpsOK(turn, op) /\ PlanOK(plan, turn, op)
  BY <1>2 DEF TurnsOK, OpsOK, PlanOK
<1>6. TickOK(tick, turn, op)
  BY <1>1, IdleTypes DEF TickOK
<1>7. Unused
  BY <1>1 DEF Unused
<1> QED
  BY <1>4, <1>5, <1>6, <1>7 DEF TInv

(* A step that changes nothing. *)
LEMMA StutterT ==
  ASSUME TInv, UNCHANGED tvars
  PROVE  TInv'
<1>1. inbox' = inbox /\ turn' = turn /\ op' = op /\ gen' = gen /\ tick' = tick
      /\ info' = info /\ plan' = plan /\ faults' = faults
  BY DEF tvars
<1>2. TTypes'
  BY <1>1 DEF TInv, TTypes
<1>3. Unused'
  BY <1>1 DEF TInv, Unused
<1> QED
  BY <1>1, <1>2, <1>3 DEF TInv

(* Every step keeps the invariant. *)
LEMMA StepT ==
  ASSUME TInv, [TNext]_tvars
  PROVE  TInv'
<1>1. CASE TurnWork
  <2>1. CASE Admit
    BY <2>1, AdmitT
  <2>2. CASE \E t \in DOMAIN turn : ContextCommit(t)
    BY <2>2, ContextCommitT
  <2>3. CASE Scan
    BY <2>3, ScanT
  <2>4. CASE EndTick \/ ItemPassed \/ ScanNothing
    BY <2>4, LoopT
  <2>5. CASE Claim
    BY <2>5, ClaimT
  <2>6. CASE ContextPrepare
    BY <2>6, ContextPrepareT
  <2>7. CASE DeliverReply
    BY <2>7, DeliverReplyT
  <2> QED
    BY <1>1, <2>1, <2>2, <2>3, <2>4, <2>5, <2>6, <2>7 DEF TurnWork
<1>2. CASE Restart
  BY <1>2, RestartT
<1>3. ASSUME NEW o \in DOMAIN op, Dispatch(o) \/ Observe(o) \/ Conclude(o) \/ Deliver(o) \/ Drive(o)
      PROVE  TInv'
  BY <1>3, DispatchT, ObserveT, ConcludeT, DeliverT, DriveT
<1>4. CASE UNCHANGED tvars
  BY <1>4, StutterT
<1> QED
  BY <1>1, <1>2, <1>3, <1>4 DEF TNext

--------------------------------------------------------------------------------
(* The theorems.                                                             *)

(* The inductive invariant holds of every behaviour. *)
LEMMA TurnsInvariant == TSpec => []TInv
<1>1. TInit => TInv
  BY InitT
<1>2. TInv /\ [TNext]_tvars => TInv'
  BY StepT
<1> QED
  BY <1>1, <1>2, PTL DEF TSpec

(* A reply is the turn's final answer: once a model step has given one that  *)
(* asks for no tool, no later model step is dispatched for the turn, through *)
(* lost answers, restarts and late observations (prepareReplyDelivery,       *)
(* handleFence, handleProposalRecord).                                       *)
THEOREM RepliesAreFinal == TSpec => []AnswerIsFinal
<1>1. TInv => AnswerIsFinal
  <2> SUFFICES ASSUME TInv, NEW t \in DOMAIN turn, NEW a \in turn[t].staged \cup turn[t].said,
                      NEW o \in DOMAIN op, op[o].turn = t, op[o].kind = "step", o > a
               PROVE  op[a].tool # 0
    BY DEF AnswerIsFinal
  <2>1. o \in Of(t, op)
    BY DEF Of
  <2> QED
    BY <2>1 DEF TInv, TurnsOK, TurnInv, Final
<1> QED
  BY <1>1, TurnsInvariant, PTL

(* A step that adds a model step's effect is the commit of a context. *)
LEMMA StepsAreCommitted ==
  ASSUME TInv, [TNext]_tvars, Len(op') > Len(op), op'[Len(op')].kind = "step"
  PROVE  \E t \in DOMAIN turn : /\ op'[Len(op')].turn = t
                                /\ plan[t].v = turn[t].v
<1> DEFINE n == Len(op) + 1
<1>0. TTypes /\ op \in Seq(OpRow) /\ Len(op) \in Nat /\ DOMAIN op = 1..Len(op)
  BY RowFacts DEF TInv, TTypes
<1>1. op' # op
  BY <1>0
<1>2. ASSUME NEW y \in OpRow, NEW o \in DOMAIN op PROVE op' # [op EXCEPT ![o] = y]
  BY <1>0, <1>2, Replaces
<1>3. CASE \E t \in DOMAIN turn : ContextCommit(t)
  <2>1. PICK t \in DOMAIN turn : ContextCommit(t)
    BY <1>3
  <2>2. PICK st \in {"staged", "review"} : op' = Append(op, NewOp(t, "step", st))
    BY <1>1, <2>1 DEF ContextCommit
  <2>3. turn[t].v = plan[t].v
    BY <1>1, <2>1 DEF ContextCommit
  <2>4. NewOp(t, "step", st) \in OpRow /\ NewOp(t, "step", st).turn = t
    BY <1>0, NewOpFields
  <2>5. op'[Len(op')] = NewOp(t, "step", st)
    BY <1>0, <2>2, <2>4, Appends
  <2> QED
    BY <2>3, <2>4, <2>5
<1>4. CASE \E o \in DOMAIN op : Dispatch(o) \/ Observe(o) \/ Conclude(o) \/ Drive(o)
  <2>1. PICK o \in DOMAIN op : Dispatch(o) \/ Observe(o) \/ Conclude(o) \/ Drive(o)
    BY <1>4
  <2>2. DOMAIN op' = DOMAIN op
    BY <2>1 DEF Dispatch, Observe, Conclude, Drive
  <2>3. op' \in Seq(OpRow)
    BY <1>0, StepT DEF TInv, TTypes
  <2> QED
    BY <1>0, <2>2, <2>3, LenProperties
<1>5. CASE Restart
  <2>1. DOMAIN op' = DOMAIN op
    BY <1>5 DEF Restart
  <2>2. op' \in Seq(OpRow)
    BY <1>0, StepT DEF TInv, TTypes
  <2> QED
    BY <1>0, <2>1, <2>2, LenProperties
<1>6. CASE \E o \in DOMAIN op : Deliver(o)
  <2>1. PICK o \in DOMAIN op : Deliver(o)
    BY <1>6
  <2>2. op' \in Seq(OpRow)
    BY <1>0, StepT DEF TInv, TTypes
  <2>3. DOMAIN op' # DOMAIN op
    BY <1>0, <2>2, LenProperties
  <2>4. PICK drive \in BOOLEAN : TurnObservation(o, drive)
    BY <2>1, <2>3 DEF Deliver, Refused
  <2>5. op[o].d = "succeeded"
    BY <2>3, <2>4 DEF TurnObservation
  <2> DEFINE x == NewOp(op[o].turn, "tool", "staged")
  <2>6. \E y : op' = Append([op EXCEPT ![o] = y], x)
    <3>1. PICK out \in Proposals(o) :
            LET tool == "tool" \in out
                this == [op EXCEPT ![o].row = "recorded", ![o].owed = ~drive,
                                   ![o].drive = drive /\ out \cap {"reply", "tool"} # {},
                                   ![o].tool = IF tool THEN Len(op) + 1 ELSE 0]
            IN op' = IF tool THEN Append(this, x) ELSE this
      BY <2>4, <2>5 DEF TurnObservation
    <3> DEFINE y == [op[o] EXCEPT !.row = "recorded", !.owed = ~drive,
                                  !.drive = drive /\ out \cap {"reply", "tool"} # {},
                                  !.tool = IF "tool" \in out THEN Len(op) + 1 ELSE 0]
    <3>2. op' = IF "tool" \in out THEN Append([op EXCEPT ![o] = y], x) ELSE [op EXCEPT ![o] = y]
      BY <3>1
    <3> HIDE DEF y, x
    <3> QED
      BY <2>3, <3>2
  <2>7. PICK y : op' = Append([op EXCEPT ![o] = y], x)
    BY <2>6
  <2>8. x \in OpRow /\ x.kind = "tool"
    BY <1>0, NewOpFields DEF TInv, OpsOK
  <2> HIDE DEF x
  <2> DEFINE S == OpRow \cup {y}
             s == [op EXCEPT ![o] = y]
  <2>9. op \in Seq(S)
    BY <1>0, LenProperties
  <2>10. x \in S /\ y \in S
    BY <2>8
  <2> HIDE DEF S
  <2>11. s \in Seq(S)
    BY <2>9, <2>10, Replaces
  <2> HIDE DEF s
  <2>12. op'[Len(op')] = x
    BY <2>7, <2>10, <2>11, Appends DEF s
  <2> QED
    BY <2>8, <2>12
<1>7. CASE UNCHANGED op
  BY <1>1, <1>7
<1> QED
  BY <1>3, <1>4, <1>5, <1>6, <1>7
  DEF TNext, TurnWork, tvars, Admit, Scan, ScanNothing, Claim, ContextPrepare, ItemPassed, DeliverReply, EndTick

(* No model step is dispatched beside an effect of its turn that may still   *)
(* be sent or has an unknown outcome, although that was read a tick earlier, *)
(* before the context was built: the turn has moved on if it was no longer   *)
(* so (driveWorkItems, advanceContext, handleContextCommit).                 *)
THEOREM StepsGoAlone == TSpec => NoSecondDispatch
<1> DEFINE A == Len(op') > Len(op) /\ op'[Len(op')].kind = "step" =>
                  \/ plan[op'[Len(op')].turn].blind
                  \/ \A o \in DOMAIN op : op[o].turn = op'[Len(op')].turn => op[o].st \in {"closed", "review"}
<1>1. TInv /\ [TNext]_tvars => A
  <2> SUFFICES ASSUME TInv, [TNext]_tvars, Len(op') > Len(op), op'[Len(op')].kind = "step"
               PROVE  \/ plan[op'[Len(op')].turn].blind
                      \/ \A o \in DOMAIN op : op[o].turn = op'[Len(op')].turn => op[o].st \in {"closed", "review"}
    OBVIOUS
  <2>1. PICK t \in DOMAIN turn : op'[Len(op')].turn = t /\ plan[t].v = turn[t].v
    BY StepsAreCommitted
  <2>2. plan[t].blind \/ Settled(t, op)
    BY <2>1 DEF TInv, PlanOK
  <2> QED
    BY <2>1, <2>2 DEF Settled, Of
<1> HIDE DEF A
<1>2. TSpec => [][A]_tvars
  BY <1>1, TurnsInvariant, PTL DEF TSpec
<1> QED
  BY <1>2 DEF NoSecondDispatch, A

================================================================================
