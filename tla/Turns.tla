-------------------------------- MODULE Turns --------------------------------
(***************************************************************************)
(* The decision stream of one hosted worker in a conversation: messages    *)
(* are admitted as turns or injected into the active one, the controller's *)
(* tick claims a turn, builds its context, commits it with a model step,   *)
(* and hands the step's observation back; a reply is staged, sent as the   *)
(* worker's message and recorded, a tool call becomes an effect of its own *)
(* whose result is recorded (internal/execution turns, internal/controller *)
(* turns.go and deliver.go).                                               *)
(*                                                                         *)
(* An effect is what Effects and Dispatch say of it: staged, admitted and  *)
(* sent once, observed, delivered to the owner its admission named until   *)
(* the delivery is answered.  Here only what a turn can see of it is kept. *)
(* A worker has one active turn at a time, so a scan lists one item, or    *)
(* one per staged reply of that turn.                                      *)
(***************************************************************************)
EXTENDS Integers, Sequences, FiniteSets

CONSTANTS
  MaxMessages, \* bound: messages to the worker
  StepLimit,   \* limits.model_steps of a turn
  MaxTurns,    \* bound: turns admitted
  MaxOps,      \* bound: effects staged
  MaxGen,      \* bound: controller generations
  MaxFaults    \* bound: lost answers, failed reads and journal lines

ASSUME TurnsAssumption ==
  {MaxMessages, StepLimit, MaxTurns, MaxOps, MaxGen, MaxFaults} \subseteq Nat \ {0}

VARIABLES
  inbox,   \* messages _messaging.ready lists, or will list once they are sent
  turn,    \* execution_turns, in the order of admission
  op,      \* effects of the turns with their dispatch rows and deliveries
  gen,     \* the controller's generation
  tick,    \* where the controller's loop is in its tick
  info,    \* turnInfos: per turn, the version the controller last saw
  plan,    \* open context entries: per turn, the version of the plan, and
           \* whether the scan before it could not read the pending effects
  faults

tvars == <<inbox, turn, op, gen, tick, info, plan, faults>>

Turns == 1 .. MaxTurns
Ops == 1 .. MaxOps

\* staged: replies that are prepared, by the model step that gave them;
\* said: replies that were sent as messages.
NewTurn == [st |-> "pending", gen |-> gen, v |-> 1, wake |-> FALSE, steps |-> 0,
            ctx |-> 0, staged |-> {}, said |-> {}]

\* row: the dispatch or proposal row that waits for the result; ref: the version
\* turnProposals holds for a tool call; drive: the worker that delivered the
\* observation goes on to its proposals.
NewOp(t, kind, st) ==
  [turn |-> t, kind |-> kind, step |-> turn[t].steps, st |-> st, row |-> "prepared",
   d |-> "none", route |-> "none", owed |-> FALSE, drive |-> FALSE, tool |-> 0, ref |-> 0]

NoPlan == [v |-> 0, blind |-> FALSE]

Idle == [ph |-> "work", kind |-> "none", turn |-> 0, v |-> 0, replies |-> {},
         blocked |-> FALSE, blind |-> FALSE]

Fault == faults < MaxFaults /\ faults' = faults + 1
NoFault == UNCHANGED faults

Active(t) == turn[t].st # "completed"

------------------------------------------------------------------------------
(* Messages.                                                                 *)

\* discoverMessages and handleTurnAdmit: a message is linked to the active turn
\* or starts one, and is processed, in one transaction.
Admit ==
  /\ tick.ph = "work"
  /\ inbox > 0
  /\ inbox' = inbox - 1
  /\ IF \E t \in DOMAIN turn : Active(t)
     THEN UNCHANGED turn
     ELSE Len(turn) < MaxTurns /\ turn' = Append(turn, NewTurn)
  /\ UNCHANGED <<op, gen, tick, info, plan, faults>>

------------------------------------------------------------------------------
(* The turn work of a tick.                                                  *)

\* updateTurn: every write is fenced by the version and moves it on.
Moved(t, st) == [turn EXCEPT ![t].st = st, ![t].v = @ + 1]

\* handleWorkPending: the item of a turn, none if it is not listed.
ItemKindNoDelivery(t) ==
  CASE turn[t].st = "pending" -> "claim"
    [] turn[t].st = "waiting" /\ turn[t].wake -> "resume"
    [] turn[t].st = "claimed" -> "context"
    [] turn[t].st = "model_pending" -> "proposal"
    [] OTHER -> "none"
ItemKind(t) ==
  CASE turn[t].st = "pending" -> "claim"
    [] turn[t].st = "waiting" /\ turn[t].wake -> "resume"
    [] turn[t].st = "claimed" -> "context"
    [] turn[t].st = "model_pending" -> "proposal"
    [] turn[t].st = "proposal_pending" /\ turn[t].staged # {} -> "delivery"
    [] OTHER -> "none"

\* _effects.pending: the effects a turn is known to wait for.  One that awaits
\* review is not listed.
OutstandingUntilObserved(o) == op[o].st \in {"staged", "sent"}
Outstanding(o) == op[o].st \in {"staged", "sent", "unknown"}
outstandingTurnEffects(t) == \E o \in DOMAIN op : op[o].turn = t /\ Outstanding(o)

\* driveWorkItems: the scan, the refresh of the routing index, and the read of
\* the pending effects, which counts nothing as outstanding when it fails.
Scan ==
  /\ tick.ph = "work"
  /\ \E t \in DOMAIN turn : ItemKind(t) # "none"
       /\ info' = [info EXCEPT ![t] = turn[t].v]
       /\ \E blind \in BOOLEAN :
            /\ IF blind THEN Fault ELSE NoFault
            /\ tick' = [ph |-> "item", kind |-> ItemKind(t), turn |-> t, v |-> turn[t].v,
                        replies |-> turn[t].staged, blocked |-> ~blind /\ outstandingTurnEffects(t),
                        blind |-> blind]
  /\ UNCHANGED <<inbox, turn, op, gen, plan>>

\* A tick whose scan lists nothing, or fails.
ScanNothing ==
  /\ tick.ph = "work"
  /\ IF \A t \in DOMAIN turn : ItemKind(t) = "none" THEN NoFault ELSE Fault
  /\ tick' = [Idle EXCEPT !.ph = "dispatch"]
  /\ UNCHANGED <<inbox, turn, op, gen, info, plan>>

Item(kinds) ==
  /\ tick.ph = "item"
  /\ tick.kind \in kinds
  /\ tick' = [Idle EXCEPT !.ph = "dispatch"]

Fresh == turn[tick.turn].v = tick.v

\* claimTurnWork and handleWorkClaim.  A lost answer leaves the index behind.
Claim ==
  LET t == tick.turn IN
  /\ Item({"claim", "resume"})
  /\ Fresh
  /\ turn' = [Moved(t, "claimed") EXCEPT ![t].gen = gen, ![t].wake = FALSE]
  /\ \/ info' = [info EXCEPT ![t] = turn[t].v + 1] /\ NoFault
     \/ UNCHANGED info /\ Fault
  /\ UNCHANGED <<inbox, op, gen, plan>>

\* advanceContext and handleContextPrepare.  Without the answer or the journal
\* line nothing remembers the plan.
ContextPrepare ==
  LET t == tick.turn IN
  /\ Item({"context"})
  /\ ~tick.blocked
  /\ Fresh
  /\ turn[t].gen = gen
  /\ turn' = Moved(t, "context_pending")
  /\ \/ plan' = [plan EXCEPT ![t] = [v |-> turn[t].v + 1, blind |-> tick.blind]] /\ NoFault
     \/ UNCHANGED plan /\ Fault
  /\ UNCHANGED <<inbox, op, gen, info>>

\* An item that is stale, blocked, refused by its owner or awaits its effect.
ItemPassed ==
  /\ Item({"claim", "resume", "context", "proposal"})
  /\ UNCHANGED <<inbox, turn, op, gen, info, plan, faults>>

\* resumeContextStages, stageAndCommit, handleContextCommit and
\* dispatchModelEffect: the staged context is committed with the model step it
\* is for, or the commit is refused for good and the entry closed.
ContextCommit(t) ==
  /\ tick.ph = "work"
  /\ plan[t] # NoPlan
  /\ plan' = [plan EXCEPT ![t] = NoPlan]
  /\ \/ /\ turn[t].v = plan[t].v
        /\ turn[t].st = "context_pending"
        /\ Len(op) < MaxOps
        /\ \E st \in {"staged", "review"} : op' = Append(op, NewOp(t, "step", st))
        /\ turn' = [Moved(t, "model_pending") EXCEPT ![t].ctx = Len(op) + 1]
     \/ UNCHANGED <<op, turn>>
  /\ UNCHANGED <<inbox, gen, tick, info, faults>>

------------------------------------------------------------------------------
(* The dispatch of a tick and the life of an effect.                         *)

\* routeWorkerTurn: from the indexes, at admission.
RouteOf(o) ==
  IF op[o].ref # 0 THEN "proposal" ELSE IF info[op[o].turn] # 0 THEN "turn" ELSE "nobody"

\* admit: the effect is sent, or closed by its owner without an attempt, which
\* nobody is told.
Dispatch(o) ==
  /\ tick.ph = "dispatch"
  /\ op[o].st = "staged"
  /\ \/ op' = [op EXCEPT ![o].st = "sent", ![o].route = RouteOf(o)]
     \/ op' = [op EXCEPT ![o].st = "closed"]
  /\ UNCHANGED <<inbox, turn, gen, tick, info, plan, faults>>

EndTick ==
  /\ tick.ph = "dispatch"
  /\ tick' = Idle
  /\ UNCHANGED <<inbox, turn, op, gen, info, plan, faults>>

\* The observation is recorded with the effects owner; its delivery is owed.
Observe(o) ==
  /\ op[o].st = "sent"
  /\ \E d \in {"succeeded", "failed", "unknown"} :
       op' = [op EXCEPT ![o].st = IF d = "unknown" THEN "unknown" ELSE "closed",
                        ![o].d = d, ![o].owed = TRUE]
  /\ UNCHANGED <<inbox, turn, gen, tick, info, plan, faults>>

\* A reconciliation concludes it; the turn is not told.
Conclude(o) ==
  /\ op[o].st = "unknown"
  /\ op' = [op EXCEPT ![o].st = "closed"]
  /\ UNCHANGED <<inbox, turn, gen, tick, info, plan, faults>>

------------------------------------------------------------------------------
(* Deliveries.                                                               *)

\* What handleTurnObservation asks of the row and the turn.
Expected(o) ==
  LET t == op[o].turn IN
  /\ op[o].kind = "step"
  /\ op[o].row = "prepared"
  /\ turn[t].st = "model_pending"
  /\ op[o].step = turn[t].steps

\* interpretOneProposal: what a model output holds.  A proposal made for another
\* context than the turn's is refused, which like a clarification is recorded
\* at once.
Proposals(o) ==
  IF turn[op[o].turn].ctx = o
  THEN {{"reply"}, {"tool"}, {"refused"}, {"clarify"}, {"reply", "tool"}, {"reply", "refused"}}
  ELSE {{"refused"}}

\* nextTurnState, with the bound on model steps last.
NextTurnState(out, steps) ==
  IF steps >= StepLimit THEN "waiting"
  ELSE IF out \cap {"reply", "tool"} # {} THEN "proposal_pending"
  ELSE IF "clarify" \in out THEN "waiting" ELSE "claimed"

\* handleTurnObservation.  drive is whether the answer arrives and the worker
\* goes on to observeTurnDelivery.
TurnObservation(o, drive) ==
  LET t == op[o].turn IN
  IF op[o].d # "succeeded"
  THEN /\ turn' = [Moved(t, "waiting") EXCEPT ![t].wake = FALSE]
       /\ op' = [op EXCEPT ![o].row = "failed", ![o].owed = ~drive]
  ELSE \E out \in Proposals(o) :
         LET steps == turn[t].steps + (IF out \cap {"refused", "clarify"} # {} THEN 1 ELSE 0)
             tool == "tool" \in out
             this == [op EXCEPT ![o].row = "recorded", ![o].owed = ~drive,
                                ![o].drive = drive /\ out \cap {"reply", "tool"} # {},
                                ![o].tool = IF tool THEN Len(op) + 1 ELSE 0]
         IN /\ tool => Len(op) < MaxOps
            /\ op' = IF tool THEN Append(this, NewOp(t, "tool", "staged")) ELSE this
            /\ turn' = [Moved(t, NextTurnState(out, steps)) EXCEPT
                          ![t].steps = steps,
                          ![t].wake = FALSE,
                          ![t].staged = IF "reply" \in out THEN @ \cup {o} ELSE @]

\* handleProposalRecord's disposition: one more step, and the state the kind of
\* the proposal leads to unless the bound is reached.
Recorded(t, st) ==
  LET steps == turn[t].steps + 1 IN
  [Moved(t, IF steps >= StepLimit THEN "waiting" ELSE st) EXCEPT ![t].steps = steps]

Refused(o) == op' = [op EXCEPT ![o].owed = FALSE] /\ UNCHANGED turn

\* deliver: an answer that is lost leaves the delivery owed, with its work done;
\* a redelivery then finds its row taken.  The owner refuses evidence that is
\* stale, or an output it cannot read or act on.
Deliver(o) ==
  LET t == op[o].turn IN
  /\ op[o].owed
  /\ \/ op[o].route = "turn" /\ Expected(o) /\ TurnObservation(o, TRUE) /\ NoFault
     \/ op[o].route = "turn" /\ Expected(o) /\ TurnObservation(o, FALSE) /\ Fault
     \/ /\ op[o].route = "proposal"
        /\ op[o].row = "prepared"
        /\ op[o].ref = turn[t].v
        /\ turn' = Recorded(t, "claimed")
        /\ \E lost \in BOOLEAN :
             /\ op' = [op EXCEPT ![o].row = "recorded", ![o].owed = lost]
             /\ IF lost THEN Fault ELSE NoFault
     \/ /\ \/ op[o].route = "nobody"
           \/ op[o].route = "turn" /\ (~Expected(o) \/ op[o].d = "succeeded")
           \/ op[o].route = "proposal" /\ (op[o].row # "prepared" \/ op[o].ref # turn[t].v)
        /\ Refused(o)
        /\ NoFault
  /\ UNCHANGED <<inbox, gen, tick, info, plan>>

\* driveLocalOperation: the reply of step r is sent under its own key, then
\* recorded if the turn is still at version v; the operator or the record may
\* fail.
SayReply(t, r, v) ==
  LET sent == [turn EXCEPT ![t].said = @ \cup {r}]
      recorded == [Recorded(t, "completed") EXCEPT ![t].said = @ \cup {r}, ![t].staged = @ \ {r}]
  IN \/ turn' \in {turn, sent} /\ Fault
     \/ turn' = (IF turn[t].v = v THEN recorded ELSE sent) /\ NoFault

\* observeTurnDelivery and driveOneProposal, with the version the index holds.
Drive(o) ==
  LET t == op[o].turn IN
  /\ op[o].drive
  /\ op' = [i \in DOMAIN op |->
              IF i = o THEN [op[i] EXCEPT !.drive = FALSE]
              ELSE IF i = op[o].tool THEN [op[i] EXCEPT !.ref = info[t]] ELSE op[i]]
  /\ IF o \in turn[t].staged THEN SayReply(t, o, info[t]) ELSE UNCHANGED turn /\ NoFault
  /\ UNCHANGED <<inbox, gen, tick, info, plan>>

\* The delivery items, oldest first: the same, with the version of the scan.
DeliverReply ==
  LET t == tick.turn
      r == CHOOSE a \in tick.replies : \A b \in tick.replies : a <= b
  IN /\ tick.ph = "item"
     /\ tick.kind = "delivery"
     /\ tick' = IF tick.replies = {r} THEN [Idle EXCEPT !.ph = "dispatch"]
                                      ELSE [tick EXCEPT !.replies = @ \ {r}]
     /\ IF r \in turn[t].staged THEN SayReply(t, r, tick.v) ELSE UNCHANGED turn /\ NoFault
     /\ UNCHANGED <<inbox, op, gen, info, plan>>

------------------------------------------------------------------------------
(* Restart.                                                                  *)

\* handleFence: a turn an older generation claimed waits for recovery, due at
\* once, unless its reply is already decided.
FencedWithReply(t) ==
  turn[t].st \in {"claimed", "context_pending", "model_pending", "proposal_pending"}
Fenced(t) ==
  /\ turn[t].st \in {"claimed", "context_pending", "model_pending", "proposal_pending"}
  /\ ~(turn[t].st = "proposal_pending" /\ turn[t].staged # {})

\* The process ends at any point and the next one starts, with empty indexes.
Restart ==
  /\ gen < MaxGen
  /\ gen' = gen + 1
  /\ turn' = [t \in DOMAIN turn |->
                IF Fenced(t) THEN [turn[t] EXCEPT !.st = "waiting", !.v = @ + 1, !.wake = TRUE]
                             ELSE turn[t]]
  /\ op' = [o \in DOMAIN op |-> [op[o] EXCEPT !.drive = FALSE, !.ref = 0]]
  /\ tick' = Idle
  /\ info' = [t \in Turns |-> 0]
  /\ plan' = [t \in Turns |-> NoPlan]
  /\ UNCHANGED <<inbox, faults>>

------------------------------------------------------------------------------

TInit ==
  /\ inbox = MaxMessages
  /\ turn = <<>>
  /\ op = <<>>
  /\ gen = 1
  /\ tick = Idle
  /\ info = [t \in Turns |-> 0]
  /\ plan = [t \in Turns |-> NoPlan]
  /\ faults = 0

TurnWork ==
  \/ Admit
  \/ \E t \in DOMAIN turn : ContextCommit(t)
  \/ Scan
  \/ ScanNothing
  \/ Claim
  \/ ContextPrepare
  \/ ItemPassed
  \/ DeliverReply
  \/ EndTick

TNext ==
  \/ TurnWork
  \/ Restart
  \/ \E o \in DOMAIN op : Dispatch(o) \/ Observe(o) \/ Conclude(o) \/ Deliver(o) \/ Drive(o)

\* The loop ticks until it is stopped, and a worker goes on with what it holds.
TFairness ==
  /\ WF_tvars(TurnWork)
  /\ \A o \in Ops : WF_tvars(o \in DOMAIN op /\ (Deliver(o) \/ Drive(o)))

TSpec == TInit /\ [][TNext]_tvars /\ TFairness

------------------------------------------------------------------------------

\* A reply is the turn's final answer: once a model step has given one, staged
\* or sent, no later model step is dispatched for the turn, through lost
\* answers, restarts and late observations (prepareReplyDelivery, handleFence).
\* A step that asked for a tool besides its reply is excepted: the tool's result
\* may be recorded first and take the turn on.
AnswerIsFinal ==
  \A t \in DOMAIN turn : \A a \in turn[t].staged \cup turn[t].said : \A o \in DOMAIN op :
    op[o].turn = t /\ op[o].kind = "step" /\ o > a => op[a].tool # 0

\* No model step is dispatched while another effect of its turn may still be
\* sent or has an unknown outcome, although that was read before the context was
\* built (driveWorkItems' no-double-dispatch guarantee).  Two exceptions: a failed
\* read counts nothing as outstanding, so the plan that follows it is not held
\* to this, and _effects.pending does not list an effect that awaits review.
NoSecondDispatch ==
  [][Len(op') > Len(op) /\ op'[Len(op')].kind = "step" =>
       \/ plan[op'[Len(op')].turn].blind
       \/ \A o \in DOMAIN op : op[o].turn = op'[Len(op')].turn => op[o].st \in {"closed", "review"}]_tvars

\* A reply that is staged for delivery reaches the conversation and ends the
\* turn, or is its last before the step bound, whatever was lost on the way
\* (handleWorkPending's delivery items).  A turn that gave a reply with a tool
\* call is excepted, as above.
AnswersArrive ==
  \A a \in Ops :
    (/\ a \in DOMAIN op
     /\ turn[op[a].turn].st = "proposal_pending"
     /\ a \in turn[op[a].turn].staged
     /\ \A b \in turn[op[a].turn].staged \cup turn[op[a].turn].said : op[b].tool = 0)
      ~> (/\ a \in DOMAIN op
          /\ turn[op[a].turn].st \in {"completed", "waiting"}
          /\ a \in turn[op[a].turn].said)
==============================================================================
