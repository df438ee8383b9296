-------------------------------- MODULE Effects --------------------------------
(***************************************************************************)
(* The effects owner (internal/effects): operations, their physical        *)
(* attempts with one-use claims, append-only observations and recovery     *)
(* obligations, and the accounting reservation each operation is funded    *)
(* by.  Every handler is one write transaction and one action; a fault     *)
(* rolls it back, so a refused call is a step that is not taken.  Budget   *)
(* exhaustion, revoked authority, stale versions, expired claims and       *)
(* changed connections only refuse, and are refusals that may always       *)
(* happen.                                                                 *)
(***************************************************************************)
EXTENDS Reservation, Sequences, FiniteSets, FiniteSetsExt

CONSTANTS
  Operations,
  Costs,        \* cost bounds an action can carry
  Usages,       \* usage reports an observation can carry
  LateUnknown,  \* whether a caller may report "unknown" against evidence an
                \* attempt already carries; module Dispatch sets it and checks
                \* what the controller, the only caller, makes of it
  MaxAttempts,  \* bound: attempts of one operation
  MaxObs,       \* bound: observations of one operation
  MaxDisputes,  \* bound: observations that dispute earlier ones
  MaxGen        \* bound: controller generations

ASSUME EffectsAssumption ==
  /\ Costs \subseteq Nat
  /\ Usages \subseteq Usage
  /\ LateUnknown \in BOOLEAN
  /\ MaxAttempts \in Nat \ {0}
  /\ MaxObs \in Nat
  /\ MaxDisputes \in Nat
  /\ MaxGen \in Nat \ {0}

VARIABLES
  op,      \* operation states; "absent" before the operation is staged
  approved, \* external: the action's digest has an approved review
  count,   \* attempt_count
  att,     \* attempts by attempt_no, each with its claim
  obs,     \* observations in record order
  obl,     \* kinds of open obligations
  resv,    \* the reservation whose operation id this is
  gen      \* the generation of the controller that holds the store

evars == <<op, approved, count, att, obs, obl, resv, gen>>

AttemptNos == 1..MaxAttempts

Generations == 1..MaxGen

OpStates == {"absent", "prepared", "awaiting_review", "ready", "executing",
             "awaiting_confirmation", "outcome_unknown",
             "succeeded", "failed", "denied", "expired"}

Concluded == {"succeeded", "failed", "denied", "expired"}

Uncertain == {"outcome_unknown", "awaiting_confirmation"}

Dispositions == {"succeeded", "accepted", "failed", "unknown", "not_sent"}

Attempt == [kind : {"none", "dispatch", "reconciliation"},
            state : {"none", "prepared", "claimed", "recorded"},
            consumed : BOOLEAN,   \* effects_claims.consumed
            gen : Nat,
            target : Nat,         \* the dispatch attempt a read is about
            rver : Nat]           \* the reservation version it settles against

NoAttempt == [kind |-> "none", state |-> "none", consumed |-> FALSE,
              gen |-> 0, target |-> 0, rver |-> 0]

Observation == [att : AttemptNos, kind : {"physical", "correction", "dispute"},
                disp : Dispositions]

ObligationKinds == {"reconcile", "confirm", "dispute", "restore_overlay"}

Row == [state : RowStates, version : Nat, amount : Nat, usage : Usage]

Unreserved(cost) == [state |-> "none", version |-> 0, amount |-> cost, usage |-> ZeroUsage]

EInit ==
  /\ op = [o \in Operations |-> "absent"]
  /\ approved = [o \in Operations |-> FALSE]
  /\ count = [o \in Operations |-> 0]
  /\ att = [o \in Operations |-> [i \in AttemptNos |-> NoAttempt]]
  /\ obs = [o \in Operations |-> <<>>]
  /\ obl = [o \in Operations |-> {}]
  /\ resv \in [Operations -> {Unreserved(c) : c \in Costs}]
  /\ gen = 1

--------------------------------------------------------------------------------
(* Staging and review *)

(* prepare and propose.  The policy allows the action, routes it to review  *)
(* or denies it; a repeated source key returns the row it finds.            *)
Stage(o, policy) ==
  /\ op[o] = "absent"
  /\ op' = [op EXCEPT ![o] = CASE policy = "allow" -> "prepared"
                               [] policy = "review" -> "awaiting_review"
                               [] policy = "deny" -> "denied"]
  /\ UNCHANGED <<approved, count, att, obs, obl, resv, gen>>

(* External: the reviews owner approves the exact action.  Reviews belong   *)
(* to the digest, not to the operation; one that is rejected, expired or    *)
(* invalidated is refused like one that is pending.                         *)
Approve(o) ==
  /\ op[o] # "absent"
  /\ ~approved[o]
  /\ approved' = [approved EXCEPT ![o] = TRUE]
  /\ UNCHANGED <<op, count, att, obs, obl, resv, gen>>

(* What policy and the reviews recheck answer for the stored action. *)
Authorized(o, policy) ==
  policy = "allow" \/ (policy = "review" /\ approved[o])

--------------------------------------------------------------------------------
(* Admission and claim *)

AdmissibleAfterOutcome(o) ==
  op[o] \in {"prepared", "awaiting_review", "outcome_unknown"}

Admissible(o) == op[o] \in {"prepared", "awaiting_review"}

NewAttempt(kind, target, rver) ==
  [kind |-> kind, state |-> "prepared", consumed |-> FALSE, gen |-> gen,
   target |-> target, rver |-> rver]

(* Reserve for an operation id: the existing row if there is one. *)
Reserved(r) ==
  IF r.state # "none" THEN r ELSE [r EXCEPT !.state = "reserved", !.version = 1]

Admit(o, policy) ==
  /\ Admissible(o)
  /\ Authorized(o, policy)
  /\ count[o] < MaxAttempts
  /\ resv' = [resv EXCEPT ![o] = Reserved(@)]
  /\ att' = [att EXCEPT ![o][count[o] + 1] =
               NewAttempt("dispatch", 0, Reserved(resv[o]).version)]
  /\ count' = [count EXCEPT ![o] = @ + 1]
  /\ op' = [op EXCEPT ![o] = "ready"]
  /\ UNCHANGED <<approved, obs, obl, gen>>

(* Admission finds the action past its expiry, or denied by policy. *)
AdmitRefuses(o, to) ==
  /\ Admissible(o)
  /\ to \in {"expired", "denied"}
  /\ op' = [op EXCEPT ![o] = to]
  /\ UNCHANGED <<approved, count, att, obs, obl, resv, gen>>

(* A read claims while the outcome is uncertain, a dispatch only from ready. *)
ClaimableState(o, i) ==
  /\ IF att[o][i].kind = "reconciliation" THEN op[o] \in Uncertain ELSE op[o] = "ready"
  /\ att[o][i].state = "prepared"
  /\ ~att[o][i].consumed

Claim(o, i, policy) ==
  /\ att[o][i].state # "none"
  /\ att[o][i].gen = gen
  /\ ClaimableState(o, i)
  /\ Authorized(o, policy)
  /\ att' = [att EXCEPT ![o][i].consumed = TRUE, ![o][i].state = "claimed"]
  /\ op' = [op EXCEPT ![o] = IF att[o][i].kind = "reconciliation" THEN @ ELSE "executing"]
  /\ UNCHANGED <<approved, count, obs, obl, resv, gen>>

--------------------------------------------------------------------------------
(* Recording a dispatch attempt *)

ObservedBy(o, i) == {k \in 1..Len(obs[o]) : obs[o][k].att = i}

(* The last observation of an attempt, by record order. *)
Prior(o, i) == obs[o][Max(ObservedBy(o, i))]

UnknownAmong(o, ks) == \E k \in ks : obs[o][k].disp = "unknown"

Entry(i, kind, d) == [att |-> i, kind |-> kind, disp |-> d]

CanSettle(r, version, u, nonexecution) ==
  SettleReplays(r, u) \/ SettleApplies(r, version, u, nonexecution)

Settled(r, u, nonexecution) ==
  IF Terminal(r) THEN r ELSE SettledRow(r, u, nonexecution)

SettlesNotSentAlways(d, wasClaimed) == d # "unknown"

SettlesOnSuccess(d, wasClaimed) == d \in {"succeeded", "accepted"}

SettlesAlways(d, wasClaimed) == TRUE

(* Evidence that settles the reservation; a claimed attempt that says it was *)
(* not sent proves nothing.                                                  *)
Settles(d, wasClaimed) ==
  d \in {"succeeded", "accepted", "failed"} \/ (d = "not_sent" /\ ~wasClaimed)

Outcome(d, wasClaimed, unknownBefore) ==
  CASE d = "succeeded" -> "succeeded"
    [] d = "accepted"  -> "awaiting_confirmation"
    [] d = "failed"    -> IF unknownBefore THEN "outcome_unknown" ELSE "failed"
    [] d = "unknown"   -> "outcome_unknown"
    [] d = "not_sent"  -> IF wasClaimed THEN "outcome_unknown" ELSE "failed"

ResolvedKeepsConfirm(kinds) == kinds \ {"reconcile"}

(* A conclusion closes the reconcile and confirm obligations. *)
Resolved(kinds) == kinds \ {"reconcile", "confirm"}

ObligationsAfter(kinds, to, d) ==
  IF to \in Concluded THEN Resolved(kinds)
  ELSE kinds \cup (CASE d = "accepted" -> {"confirm"}
                     [] d \in {"unknown", "not_sent"} -> {"reconcile"}
                     [] OTHER -> {})

(* recordDisposition, with the attempt's own recorded row and observation. *)
RecordPhysical(o, i, d, u) ==
  LET wasClaimed == att[o][i].state = "claimed"
      nonexecution == d = "not_sent"
      to == Outcome(d, wasClaimed, UnknownAmong(o, 1..Len(obs[o])))
  IN /\ op[o] \in {"ready", "executing"}
     /\ Len(obs[o]) < MaxObs
     /\ Settles(d, wasClaimed) => CanSettle(resv[o], att[o][i].rver, u, nonexecution)
     /\ att' = [att EXCEPT ![o][i].state = "recorded"]
     /\ obs' = [obs EXCEPT ![o] = Append(@, Entry(i, "physical", d))]
     /\ resv' = [resv EXCEPT ![o] = IF Settles(d, wasClaimed)
                                    THEN Settled(@, u, nonexecution) ELSE @]
     /\ op' = [op EXCEPT ![o] = to]
     /\ obl' = [obl EXCEPT ![o] = ObligationsAfter(@, to, d)]
     /\ UNCHANGED <<approved, count, gen>>

(* _effects.record, first evidence. *)
RecordFresh(o, i, d, u) ==
  /\ att[o][i].kind = "dispatch"
  /\ ObservedBy(o, i) = {}
  /\ RecordPhysical(o, i, d, u)

(* _effects.record naming a later current generation: durable claim state   *)
(* alone decides, whatever the caller observed.                             *)
RecordSuccessor(o, i) ==
  /\ att[o][i].kind = "dispatch"
  /\ att[o][i].gen < gen
  /\ ObservedBy(o, i) = {}
  /\ RecordPhysical(o, i,
       IF att[o][i].state = "claimed" THEN "unknown" ELSE "not_sent", ZeroUsage)

(* _effects.record, late evidence that resolves a recorded unknown.         *)
RecordCorrection(o, i, d, u) ==
  LET last == Max(ObservedBy(o, i))
      to   == Outcome(d, TRUE, UnknownAmong(o, (1..Len(obs[o])) \ {last}))
  IN /\ Len(obs[o]) < MaxObs
     /\ att[o][i].kind = "dispatch"
     /\ d # "unknown"
     /\ ObservedBy(o, i) # {}
     /\ Prior(o, i).disp = "unknown"
     /\ Settles(d, TRUE) => CanSettle(resv[o], att[o][i].rver, u, FALSE)
     /\ obs' = [obs EXCEPT ![o] = Append(@, Entry(i, "correction", d))]
     /\ resv' = [resv EXCEPT ![o] = IF Settles(d, TRUE) THEN Settled(@, u, FALSE) ELSE @]
     /\ op' = [op EXCEPT ![o] = to]
     /\ obl' = [obl EXCEPT ![o] = IF d = "not_sent" THEN @ ELSE ObligationsAfter(@, to, d)]
     /\ UNCHANGED <<approved, count, att, gen>>

(* Evidence that contradicts what was recorded, for either kind of attempt: *)
(* the state stands and an obligation asks for an operator.                 *)
RecordDispute(o, i, d) ==
  /\ Len(obs[o]) < MaxObs
  /\ d = "unknown" => LateUnknown
  /\ ObservedBy(o, i) # {}
  /\ d # Prior(o, i).disp
  /\ att[o][i].kind = "dispatch" => Prior(o, i).disp # "unknown"
  /\ Cardinality({k \in 1..Len(obs[o]) : obs[o][k].kind = "dispute"}) < MaxDisputes
  /\ obs' = [obs EXCEPT ![o] = Append(@, Entry(i, "dispute", d))]
  /\ obl' = [obl EXCEPT ![o] = @ \cup {"dispute"}]
  /\ UNCHANGED <<op, approved, count, att, resv, gen>>

--------------------------------------------------------------------------------
(* Reconciliation reads *)

DispatchAttempts(o) == {i \in AttemptNos : att[o][i].kind = "dispatch"}

AdmitReadNotCounted(o, policy) ==
  /\ op[o] \in Uncertain
  /\ DispatchAttempts(o) # {}
  /\ Authorized(o, policy)
  /\ resv[o].amount = 0
  /\ count[o] < MaxAttempts
  /\ resv' = [resv EXCEPT ![o] = Reserved(@)]
  /\ att' = [att EXCEPT ![o][count[o] + 1] =
               NewAttempt("reconciliation", Max(DispatchAttempts(o)),
                          Reserved(resv[o]).version)]
  /\ UNCHANGED <<op, approved, count, obs, gen>>

(* admitReconciliationRead.  The read reserves zero under the operation's   *)
(* own id, so a paid operation's request differs and conflicts, and any     *)
(* other one is handed the reservation that already exists.                 *)
AdmitRead(o, policy) ==
  /\ op[o] \in Uncertain
  /\ DispatchAttempts(o) # {}
  /\ Authorized(o, policy)
  /\ resv[o].amount = 0
  /\ count[o] < MaxAttempts
  /\ resv' = [resv EXCEPT ![o] = Reserved(@)]
  /\ att' = [att EXCEPT ![o][count[o] + 1] =
               NewAttempt("reconciliation", Max(DispatchAttempts(o)),
                          Reserved(resv[o]).version)]
  /\ count' = [count EXCEPT ![o] = @ + 1]
  /\ UNCHANGED <<op, approved, obs, gen>>

ReconciliationPrepare(o, policy) == AdmitRead(o, policy) /\ UNCHANGED obl

(* operation.reconcile: the same admission with a job and its obligation. *)
Reconcile(o, policy) ==
  /\ AdmitRead(o, policy)
  /\ obl' = [obl EXCEPT ![o] = @ \cup {"reconcile"}]

ReadOutcomeTrustsFailure(o, d, target) ==
  IF d = "failed" THEN "failed" ELSE IF d = "succeeded" THEN "succeeded" ELSE op[o]

(* What a read makes of the operation.  A failure does not outweigh an      *)
(* unknown observation of any attempt but the target.                       *)
ReadOutcome(o, d, target) ==
  CASE d = "succeeded" -> "succeeded"
    [] d = "failed" ->
         IF UnknownAmong(o, {k \in 1..Len(obs[o]) : obs[o][k].att # target})
         THEN "outcome_unknown" ELSE "failed"
    [] OTHER -> op[o]

(* _effects.reconciliation.record, first answer of the read.  The read      *)
(* itself settles whatever it says; an authoritative answer also corrects   *)
(* and settles the target.                                                  *)
ReconciliationRecord(o, i, d, u) ==
  LET a    == att[o][i]
      auth == d \in {"succeeded", "failed"}
      mid  == Settled(resv[o], u, FALSE)
      to   == ReadOutcome(o, d, a.target)
      new  == IF auth THEN <<Entry(i, "physical", d), Entry(a.target, "correction", d)>>
              ELSE <<Entry(i, "physical", d)>>
  IN /\ a.kind = "reconciliation"
     /\ op[o] \in Uncertain
     /\ Len(obs[o]) + Len(new) <= MaxObs
     /\ ObservedBy(o, i) = {}
     /\ CanSettle(resv[o], a.rver, u, FALSE)
     /\ auth => CanSettle(mid, att[o][a.target].rver, u, FALSE)
     /\ att' = [att EXCEPT ![o][i].state = "recorded"]
     /\ obs' = [obs EXCEPT ![o] = @ \o new]
     /\ resv' = [resv EXCEPT ![o] = IF auth THEN Settled(mid, u, FALSE) ELSE mid]
     /\ op' = [op EXCEPT ![o] = to]
     /\ obl' = [obl EXCEPT ![o] = IF to \in Concluded THEN Resolved(@) ELSE @]
     /\ UNCHANGED <<approved, count, gen>>

--------------------------------------------------------------------------------
(* Restore and restart *)

MergeableReopens(o) == op[o] # "absent"

(* foldObligation: an operation that exists and has not concluded. *)
Mergeable(o) == op[o] \notin Concluded \cup {"absent"}

(* _effects.restore.merge folds one captured obligation, of any number an     *)
(* operation has; what counts is that one is open.                            *)
RestoreMerge(o) ==
  /\ Mergeable(o)
  /\ obl' = [obl EXCEPT ![o] = @ \cup {"restore_overlay"}]
  /\ op' = [op EXCEPT ![o] = "outcome_unknown"]
  /\ UNCHANGED <<approved, count, att, obs, resv, gen>>

(* A controller takes over the store with the next generation. *)
NextGeneration ==
  /\ gen < MaxGen
  /\ gen' = gen + 1
  /\ UNCHANGED <<op, approved, count, att, obs, obl, resv>>

Policies == {"allow", "review"}

RecordNext(o) ==
  \E i \in AttemptNos, d \in Dispositions :
    \/ \E u \in Usages : RecordFresh(o, i, d, u) \/ RecordCorrection(o, i, d, u)
                         \/ ReconciliationRecord(o, i, d, u)
    \/ RecordDispute(o, i, d)

ENext ==
  \/ \E o \in Operations :
       \/ \E policy \in {"allow", "review", "deny"} : Stage(o, policy)
       \/ Approve(o)
       \/ \E policy \in Policies :
            \/ Admit(o, policy)
            \/ ReconciliationPrepare(o, policy)
            \/ Reconcile(o, policy)
            \/ \E i \in AttemptNos : Claim(o, i, policy)
       \/ \E to \in {"expired", "denied"} : AdmitRefuses(o, to)
       \/ RecordNext(o)
       \/ \E i \in AttemptNos : RecordSuccessor(o, i)
       \/ RestoreMerge(o)
  \/ NextGeneration

ESpec == EInit /\ [][ENext]_evars

--------------------------------------------------------------------------------
(* Properties *)

(* Every row keeps its type, and an attempt exists exactly for the numbers  *)
(* attempt_count has handed out.                                            *)
ETypeOK ==
  /\ op \in [Operations -> OpStates]
  /\ approved \in [Operations -> BOOLEAN]
  /\ count \in [Operations -> 0..MaxAttempts]
  /\ att \in [Operations -> [AttemptNos -> Attempt]]
  /\ obs \in [Operations -> Seq(Observation)]
  /\ obl \in [Operations -> SUBSET ObligationKinds]
  /\ resv \in [Operations -> Row]
  /\ gen \in Generations
  /\ \A o \in Operations, i \in AttemptNos :
       att[o][i].state # "none" <=> i <= count[o]

(* handleAdmit, handleClaim: an operation is dispatched by at most one      *)
(* physical attempt, whatever is recorded, restored or reconciled later: an *)
(* uncertain mutation is never sent again.                                  *)
OneDispatch ==
  \A o \in Operations : \A i, j \in DispatchAttempts(o) : i = j

(* recordDisposition: a reservation is released as never executed only if   *)
(* the claim of its dispatch attempt was not consumed, and then it never    *)
(* will be.                                                                 *)
ReleasedNeverClaimed ==
  \A o \in Operations :
    resv[o].state = "released" => \A i \in DispatchAttempts(o) : ~att[o][i].consumed

Evidence(o, i, d) ==
  \E k \in 1..Len(obs[o]) : obs[o][k].att = i /\ obs[o][k].disp = d
                            /\ obs[o][k].kind # "dispute"

(* recordDisposition, handleRecord, handleReconciliationRecord: success is  *)
(* claimed only on evidence of success.  Failure is claimed only if the     *)
(* attempt was never claimed, or on evidence of failure while no other      *)
(* attempt's answer was unknown.                                            *)
ConclusionsProven ==
  \A o \in Operations : \A i \in DispatchAttempts(o) :
    /\ op[o] = "succeeded" => Evidence(o, i, "succeeded")
    /\ (op[o] = "failed" /\ att[o][i].consumed) =>
         /\ Evidence(o, i, "failed")
         /\ \A j \in AttemptNos \ {i} : ~Evidence(o, j, "unknown")

(* resolveOpenObligations, openObligation: uncertainty is always somebody's *)
(* open obligation, and a conclusion leaves no reconcile or confirm         *)
(* obligation behind.                                                       *)
ObligationsMatchState ==
  \A o \in Operations :
    /\ op[o] \in Uncertain => obl[o] \ {"dispute"} # {}
    /\ op[o] \in Concluded => obl[o] \cap {"reconcile", "confirm"} = {}

(* settleReservation: a concluded operation's reservation is no longer just *)
(* reserved; every conclusion reported what it used.                        *)
ConcludedSettles ==
  \A o \in Operations : op[o] \in Concluded => resv[o].state # "reserved"

Unresolved(o) ==
  \A k \in 1..Len(obs[o]) :
    obs[o][k].att \in DispatchAttempts(o) => obs[o][k].disp \in {"unknown", "not_sent"}

(* recordDisposition: while nothing but unknown or claimed not-sent evidence *)
(* is recorded, a paid operation keeps its whole reservation.                *)
PaidUncertaintyRetains ==
  \A o \in Operations :
    (op[o] = "outcome_unknown" /\ count[o] > 0 /\ Unresolved(o) /\ resv[o].amount > 0) =>
      resv[o].state = "reserved"

(* transitionOperation: a concluded operation keeps its state, against late  *)
(* evidence, reconciliation and restore merges.                              *)
ConclusionsStand ==
  [][\A o \in Operations : op[o] \in Concluded => op'[o] = op[o]]_evars

================================================================================
