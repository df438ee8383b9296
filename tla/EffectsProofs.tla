----------------------------- MODULE EffectsProofs -----------------------------
(***************************************************************************)
(* Proofs about the effects owner, for any number of operations, attempts, *)
(* observations and generations: it keeps its types, never admits a second *)
(* dispatch attempt, and never releases a reservation as unused once the   *)
(* attempt it funded was claimed. The last two are not inductive alone:    *)
(* IndInv adds what the handlers keep between them. EvInv adds to IndInv   *)
(* what the observations say of an operation's state, its obligations and  *)
(* its reservation; from it follow the theorems on evidence, for callers   *)
(* that report no late unknown.                                            *)
(***************************************************************************)
EXTENDS Effects, WellFoundedInduction, TLAPS

Staged == {"absent", "prepared", "awaiting_review"}

(* What holds of one attempt row: it has a kind from its creation on, a      *)
(* read points at a dispatch attempt, a consumed claim shows in the state,   *)
(* and a recorded attempt has an observation.                                *)
AttemptInv(o, i) ==
  /\ att[o][i].kind = "none" <=> att[o][i].state = "none"
  /\ att[o][i].kind = "reconciliation" => att[o][i].target \in DispatchAttempts(o)
  /\ att[o][i].consumed => att[o][i].state \in {"claimed", "recorded"}
  /\ att[o][i].state = "recorded" => \E k \in 1..Len(obs[o]) : obs[o][k].att = i

(* What holds of one operation: nothing is attempted or reserved before it  *)
(* is admitted, and while it waits for its claim its bound is reserved.     *)
OperationInv(o) ==
  /\ op[o] \in Staged => count[o] = 0
  /\ count[o] = 0 => resv[o].state = "none"
  /\ op[o] = "ready" => resv[o].state = "reserved"

IndInv ==
  /\ ETypeOK
  /\ OneDispatch
  /\ ReleasedNeverClaimed
  /\ \A o \in Operations : OperationInv(o)
  /\ \A o \in Operations, i \in AttemptNos : AttemptInv(o, i)

--------------------------------------------------------------------------------
(* Lemmas about the operators *)

(* Outcome: recording evidence never takes an operation back to a state in  *)
(* which it could be admitted or claimed (recordDisposition).               *)
LEMMA OutcomeType ==
  ASSUME NEW d \in Dispositions, NEW w \in BOOLEAN, NEW b \in BOOLEAN
  PROVE  Outcome(d, w, b) \in OpStates \ (Staged \cup {"ready", "executing"})
BY DEF Outcome, Dispositions, OpStates, Staged

(* Settled: settling keeps a row's type and its bound, and only evidence of *)
(* non-execution releases it (settle_ops.go).                               *)
LEMMA SettledType ==
  ASSUME NEW r \in Row, NEW u \in Usage, NEW n \in BOOLEAN
  PROVE  /\ Settled(r, u, n) \in Row
         /\ Settled(r, u, n).state = "released" => n \/ r.state = "released"
         /\ r.state # "none" => Settled(r, u, n).state # "none"
<1> DEFINE to == SettledState(r, u, n)
<1>1. to \in RowStates /\ to # "none" /\ (to = "released" => n)
  BY DEF SettledState, RowStates
<1> HIDE DEF to
<1> DEFINE r1 == [r EXCEPT !.state = to]
           r2 == [r1 EXCEPT !.version = r.version + 1]
           r3 == [r2 EXCEPT !.usage = u]
<1>2. r1 \in Row /\ r1.state = to
  BY <1>1 DEF Row
<1> HIDE DEF r1
<1>3. r2 \in Row /\ r2.state = to
  BY <1>2 DEF Row
<1> HIDE DEF r2
<1>4. r3 \in Row /\ r3.state = to
  BY <1>3 DEF Row
<1>5. r3 = SettledRow(r, u, n)
  BY DEF r1, r2, to, SettledRow
<1> QED
  BY <1>1, <1>4, <1>5 DEF Settled

(* Reserved: reserving for an operation keeps the row's type and releases   *)
(* nothing (reserve_ops.go).                                                *)
LEMMA ReservedType ==
  ASSUME NEW r \in Row
  PROVE  /\ Reserved(r) \in Row
         /\ Reserved(r).version \in Nat
         /\ r.state = "none" => Reserved(r).state = "reserved"
         /\ Reserved(r).state = "released" => r.state = "released"
         /\ Reserved(r).state # "none"
BY DEF Reserved, Row, RowStates

(* ObligationsAfter keeps the type of obligations. *)
LEMMA ObligationsType ==
  ASSUME NEW kinds \in SUBSET ObligationKinds, NEW to, NEW d
  PROVE  /\ ObligationsAfter(kinds, to, d) \in SUBSET ObligationKinds
         /\ Resolved(kinds) \in SUBSET ObligationKinds
BY DEF ObligationsAfter, Resolved, ObligationKinds

(* The dispatch attempt a read is about is the only one there is            *)
(* (lastDispatchAttempt).                                                   *)
LEMMA LastDispatch ==
  ASSUME OneDispatch, NEW o \in Operations, DispatchAttempts(o) # {}
  PROVE  Max(DispatchAttempts(o)) \in DispatchAttempts(o)
<1>1. PICK i \in DispatchAttempts(o) : TRUE
  OBVIOUS
<1>2. DispatchAttempts(o) = {i}
  BY <1>1 DEF OneDispatch
<1>3. i \in Int
  BY <1>1 DEF DispatchAttempts, AttemptNos
<1>4. \E x \in {i} : \A y \in {i} : x >= y
  BY <1>3
<1> QED
  BY <1>2, <1>4 DEF Max

--------------------------------------------------------------------------------
(* The initial state and each handler *)

(* The inductive invariant holds of the empty tables. *)
LEMMA InitInd == EInit => IndInv
<1> SUFFICES ASSUME EInit PROVE IndInv
  OBVIOUS
<1> USE EffectsAssumption
<1>1. \A c \in Costs : Unreserved(c) \in Row /\ Unreserved(c).state = "none"
  BY DEF Unreserved, Row, RowStates, ZeroUsage, Usage
<1>2. NoAttempt \in Attempt
  BY DEF NoAttempt, Attempt
<1>3. ETypeOK
  BY <1>1, <1>2 DEF EInit, ETypeOK, OpStates, Generations, AttemptNos, NoAttempt
<1>4. \A o \in Operations : DispatchAttempts(o) = {}
  BY DEF EInit, DispatchAttempts, NoAttempt
<1>5. OneDispatch /\ ReleasedNeverClaimed
  BY <1>4 DEF OneDispatch, ReleasedNeverClaimed
<1>6. \A o \in Operations : OperationInv(o)
  BY <1>1 DEF EInit, OperationInv, Staged
<1>7. \A o \in Operations, i \in AttemptNos : AttemptInv(o, i)
  BY DEF EInit, AttemptInv, NoAttempt
<1> QED
  BY <1>3, <1>5, <1>6, <1>7 DEF IndInv

(* Handlers that write neither attempts, observations nor reservations.     *)
LEMMA QuietStep ==
  ASSUME IndInv, ETypeOK', UNCHANGED <<count, att, obs, resv>>,
         \A o \in Operations : op'[o] \in Staged => op[o] \in Staged,
         \A o \in Operations : op'[o] = "ready" => op[o] = "ready"
  PROVE  IndInv'
<1>1. OneDispatch' /\ ReleasedNeverClaimed'
  BY DEF IndInv, OneDispatch, ReleasedNeverClaimed, DispatchAttempts
<1>2. \A o \in Operations : OperationInv(o)'
  BY DEF IndInv, OperationInv
<1>3. \A o \in Operations, i \in AttemptNos : AttemptInv(o, i)'
  BY DEF IndInv, AttemptInv, DispatchAttempts
<1> QED
  BY <1>1, <1>2, <1>3 DEF IndInv

(* prepare and propose create an operation without attempts or reservation. *)
LEMMA StageStep ==
  ASSUME IndInv, NEW o \in Operations, NEW policy \in {"allow", "review", "deny"},
         Stage(o, policy)
  PROVE  IndInv'
<1>1. op'[o] \in {"prepared", "awaiting_review", "denied"}
  BY DEF Stage, IndInv, ETypeOK
<1>2. \A p \in Operations : p # o => op'[p] = op[p]
  BY DEF Stage, IndInv, ETypeOK
<1>3. ETypeOK'
  <2>1. op' \in [Operations -> OpStates]
    BY <1>1, <1>2 DEF Stage, IndInv, ETypeOK, OpStates
  <2> QED
    BY <2>1 DEF Stage, IndInv, ETypeOK
<1> QED
  BY <1>1, <1>2, <1>3, QuietStep DEF Stage, Staged

(* A review decision writes none of the rows the invariant is about. *)
LEMMA ApproveStep ==
  ASSUME IndInv, NEW o \in Operations, Approve(o)
  PROVE  IndInv'
<1>1. ETypeOK'
  BY DEF Approve, IndInv, ETypeOK
<1> QED
  BY <1>1, QuietStep DEF Approve

(* An admission that expires or denies a staged operation leaves it without *)
(* attempts.                                                                *)
LEMMA AdmitRefusesStep ==
  ASSUME IndInv, NEW o \in Operations, NEW to, AdmitRefuses(o, to)
  PROVE  IndInv'
<1>1. op' \in [Operations -> OpStates] /\ op'[o] \in {"expired", "denied"}
  BY DEF AdmitRefuses, IndInv, ETypeOK, OpStates
<1>2. ETypeOK'
  BY <1>1 DEF AdmitRefuses, IndInv, ETypeOK
<1> QED
  BY <1>1, <1>2, QuietStep DEF AdmitRefuses, Staged, IndInv, ETypeOK

(* A restore merge moves an unconcluded operation to outcome_unknown, from  *)
(* which nothing is admitted for dispatch or claimed.                       *)
LEMMA RestoreMergeStep ==
  ASSUME IndInv, NEW o \in Operations, RestoreMerge(o)
  PROVE  IndInv'
<1>1. op' \in [Operations -> OpStates] /\ op'[o] = "outcome_unknown"
  BY DEF RestoreMerge, IndInv, ETypeOK, OpStates
<1>2. obl' \in [Operations -> SUBSET ObligationKinds]
  BY DEF RestoreMerge, IndInv, ETypeOK, ObligationKinds
<1>3. ETypeOK'
  BY <1>1, <1>2 DEF RestoreMerge, IndInv, ETypeOK
<1> QED
  BY <1>1, <1>3, QuietStep DEF RestoreMerge, Staged, IndInv, ETypeOK

(* A new controller generation writes no row. *)
LEMMA NextGenerationStep == ASSUME IndInv, NextGeneration PROVE IndInv'
<1>1. ETypeOK'
  BY EffectsAssumption DEF NextGeneration, IndInv, ETypeOK, Generations
<1> QED
  BY <1>1, QuietStep DEF NextGeneration

(* createAttempt: the row with the next number was free, and every other     *)
(* row stays as it is.                                                       *)
LEMMA AttemptCreated ==
  ASSUME IndInv, NEW o \in Operations, count[o] < MaxAttempts,
         NEW kind \in {"dispatch", "reconciliation"}, NEW target \in Nat,
         att' = [att EXCEPT ![o][count[o] + 1] =
                   NewAttempt(kind, target, Reserved(resv[o]).version)],
         count' = [count EXCEPT ![o] = @ + 1],
         resv' = [resv EXCEPT ![o] = Reserved(@)],
         op' \in [Operations -> OpStates], obl' \in [Operations -> SUBSET ObligationKinds],
         UNCHANGED <<approved, obs, gen>>
  PROVE  /\ ETypeOK'
         /\ att[o][count[o] + 1].kind = "none"
         /\ \A p \in Operations, i \in AttemptNos :
              att'[p][i] = IF p = o /\ i = count[o] + 1
                           THEN NewAttempt(kind, target, Reserved(resv[o]).version)
                           ELSE att[p][i]
<1> USE EffectsAssumption
<1> DEFINE n == count[o] + 1
           a == NewAttempt(kind, target, Reserved(resv[o]).version)
<1>1. count \in [Operations -> 0..MaxAttempts] /\ n \in AttemptNos
  BY DEF IndInv, ETypeOK, AttemptNos
<1>2. resv[o] \in Row /\ Reserved(resv[o]) \in Row /\ Reserved(resv[o]).version \in Nat
  BY ReservedType DEF IndInv, ETypeOK
<1>3. a \in Attempt /\ a.state = "prepared"
  BY <1>2 DEF IndInv, ETypeOK, Generations, NewAttempt, Attempt
<1>4. att \in [Operations -> [AttemptNos -> Attempt]]
  BY DEF IndInv, ETypeOK
<1> HIDE DEF a
<1>5. att' = [att EXCEPT ![o][n] = a]
  BY DEF a
<1>6. \A p \in Operations, i \in AttemptNos :
        att'[p][i] = IF p = o /\ i = n THEN a ELSE att[p][i]
  BY <1>1, <1>4, <1>5
<1>7. att' \in [Operations -> [AttemptNos -> Attempt]]
  BY <1>1, <1>3, <1>4, <1>5
<1>8. att[o][n].state = "none"
  BY <1>1 DEF IndInv, ETypeOK, AttemptNos
<1>9. count' \in [Operations -> 0..MaxAttempts] /\ resv' \in [Operations -> Row]
  BY <1>1, <1>2 DEF IndInv, ETypeOK
<1>10. \A p \in Operations, i \in AttemptNos : att'[p][i].state # "none" <=> i <= count'[p]
  <2> SUFFICES ASSUME NEW p \in Operations, NEW i \in AttemptNos
               PROVE  att'[p][i].state # "none" <=> i <= count'[p]
    OBVIOUS
  <2>1. att[p][i].state # "none" <=> i <= count[p]
    BY DEF IndInv, ETypeOK
  <2>2. i \in Int /\ count[p] \in Int /\ count'[p] = IF p = o THEN n ELSE count[p]
    BY <1>1 DEF AttemptNos
  <2> QED
    BY <1>3, <1>6, <2>1, <2>2
<1>11. ETypeOK'
  BY <1>7, <1>9, <1>10 DEF IndInv, ETypeOK
<1> QED
  BY <1>1, <1>6, <1>8, <1>11 DEF a, IndInv, AttemptInv

(* handleAdmit creates the one dispatch attempt: the operation was staged,  *)
(* so no attempt was counted before, and it is ready with a live            *)
(* reservation afterwards.                                                  *)
LEMMA AdmitStep ==
  ASSUME IndInv, NEW o \in Operations, NEW policy, Admit(o, policy)
  PROVE  IndInv'
<1> DEFINE n == count[o] + 1
           a == NewAttempt("dispatch", 0, Reserved(resv[o]).version)
<1>1. op' \in [Operations -> OpStates] /\ obl' \in [Operations -> SUBSET ObligationKinds]
  BY DEF Admit, IndInv, ETypeOK, OpStates
<1>2. count[o] = 0 /\ resv[o].state = "none"
  BY DEF Admit, Admissible, IndInv, OperationInv, Staged
<1>3. /\ ETypeOK'
      /\ \A p \in Operations, i \in AttemptNos :
           att'[p][i] = IF p = o /\ i = n THEN a ELSE att[p][i]
  <2>1. /\ count[o] < MaxAttempts /\ att' = [att EXCEPT ![o][n] = a]
        /\ count' = [count EXCEPT ![o] = @ + 1]
        /\ resv' = [resv EXCEPT ![o] = Reserved(@)]
        /\ UNCHANGED <<approved, obs, gen>>
    BY DEF Admit
  <2>2. "dispatch" \in {"dispatch", "reconciliation"} /\ 0 \in Nat
    OBVIOUS
  <2> QED
    BY ONLY IndInv, o \in Operations, <1>1, <2>1, <2>2, AttemptCreated
<1>4. a.kind = "dispatch" /\ a.state = "prepared" /\ a.consumed = FALSE
  BY DEF NewAttempt
<1>5. \A i \in AttemptNos : att[o][i].state = "none" /\ att[o][i].kind = "none"
  <2> SUFFICES ASSUME NEW i \in AttemptNos
               PROVE  att[o][i].state = "none" /\ att[o][i].kind = "none"
    OBVIOUS
  <2>1. att[o][i].state # "none" <=> i <= 0
    BY <1>2 DEF IndInv, ETypeOK
  <2>2. ~(i <= 0)
    BY EffectsAssumption DEF AttemptNos
  <2> QED
    BY <2>1, <2>2 DEF IndInv, AttemptInv
<1> HIDE DEF a
<1>6. \A p \in Operations : p # o => DispatchAttempts(p)' = DispatchAttempts(p)
  BY <1>3 DEF DispatchAttempts
<1>7. DispatchAttempts(o)' \subseteq {n}
  BY <1>3, <1>5 DEF DispatchAttempts
<1>8. OneDispatch'
  BY <1>6, <1>7 DEF IndInv, OneDispatch
<1>9. resv'[o].state = "reserved" /\ \A p \in Operations : p # o => resv'[p] = resv[p]
  BY <1>2, ReservedType DEF Admit, IndInv, ETypeOK
<1>10. ReleasedNeverClaimed'
  BY <1>3, <1>6, <1>9 DEF IndInv, ReleasedNeverClaimed, DispatchAttempts
<1>11. \A p \in Operations : OperationInv(p)'
  <2>1. OperationInv(o)'
    BY <1>2, <1>9, EffectsAssumption DEF Admit, IndInv, ETypeOK, OperationInv, Staged
  <2>2. \A p \in Operations : p # o => OperationInv(p)'
    BY DEF Admit, IndInv, ETypeOK, OperationInv
  <2> QED
    BY <2>1, <2>2
<1>12. \A p \in Operations, i \in AttemptNos : AttemptInv(p, i)'
  <2> SUFFICES ASSUME NEW p \in Operations, NEW i \in AttemptNos PROVE AttemptInv(p, i)'
    OBVIOUS
  <2>1. CASE p = o /\ i = n
    BY <2>1, <1>3, <1>4 DEF AttemptInv
  <2>2. CASE p = o /\ i # n
    BY <2>2, <1>3, <1>5 DEF AttemptInv, IndInv
  <2>3. CASE p # o
    BY <2>3, <1>3, <1>6 DEF AttemptInv, IndInv, Admit
  <2> QED
    BY <2>1, <2>2, <2>3
<1> QED
  BY <1>3, <1>8, <1>10, <1>11, <1>12 DEF IndInv

(* admitReconciliationRead creates an attempt that is no dispatch, and      *)
(* never replaces a reservation that exists.                                *)
LEMMA AdmitReadStep ==
  ASSUME IndInv, NEW o \in Operations, NEW policy, AdmitRead(o, policy),
         obl' \in [Operations -> SUBSET ObligationKinds]
  PROVE  IndInv'
<1> DEFINE n == count[o] + 1
           t == Max(DispatchAttempts(o))
           a == NewAttempt("reconciliation", t, Reserved(resv[o]).version)
<1>1. t \in DispatchAttempts(o) /\ t \in AttemptNos /\ t \in Nat
  <2>1. OneDispatch /\ DispatchAttempts(o) # {}
    BY DEF AdmitRead, IndInv
  <2>2. t \in DispatchAttempts(o)
    BY <2>1, LastDispatch
  <2> HIDE DEF t
  <2> QED
    BY <2>2, EffectsAssumption DEF DispatchAttempts, AttemptNos
<1>2. a.kind = "reconciliation" /\ a.state = "prepared" /\ a.consumed = FALSE /\ a.target = t
  BY DEF NewAttempt
<1> HIDE DEF t
<1>3. /\ ETypeOK'
      /\ att[o][n].kind = "none"
      /\ \A p \in Operations, i \in AttemptNos :
           att'[p][i] = IF p = o /\ i = n THEN a ELSE att[p][i]
  <2>1. /\ count[o] < MaxAttempts /\ att' = [att EXCEPT ![o][n] = a]
        /\ count' = [count EXCEPT ![o] = @ + 1]
        /\ resv' = [resv EXCEPT ![o] = Reserved(@)]
        /\ UNCHANGED <<approved, obs, gen>>
    BY DEF AdmitRead, t
  <2>2. op' \in [Operations -> OpStates]
    BY DEF AdmitRead, IndInv, ETypeOK
  <2>3. "reconciliation" \in {"dispatch", "reconciliation"}
    OBVIOUS
  <2> QED
    BY ONLY IndInv, o \in Operations, obl' \in [Operations -> SUBSET ObligationKinds],
            <1>1, <2>1, <2>2, <2>3, AttemptCreated
<1> HIDE DEF a
<1>4. \A p \in Operations : DispatchAttempts(p)' = DispatchAttempts(p)
  BY <1>2, <1>3 DEF DispatchAttempts
<1>5. OneDispatch'
  BY <1>4 DEF IndInv, OneDispatch
<1>6. /\ resv'[o].state # "none"
      /\ resv'[o].state = "released" => resv[o].state = "released"
      /\ \A p \in Operations : p # o => resv'[p] = resv[p]
  BY ReservedType DEF AdmitRead, IndInv, ETypeOK
<1>7. ReleasedNeverClaimed'
  BY <1>2, <1>3, <1>4, <1>6 DEF IndInv, ReleasedNeverClaimed, DispatchAttempts
<1>8. \A p \in Operations : OperationInv(p)'
  <2>1. OperationInv(o)'
    <3>1. op'[o] \in Uncertain /\ count'[o] = n
      BY DEF AdmitRead, IndInv, ETypeOK
    <3>2. n # 0
      BY EffectsAssumption DEF IndInv, ETypeOK
    <3> QED
      BY <3>1, <3>2 DEF OperationInv, Staged, Uncertain
  <2>2. \A p \in Operations : p # o => OperationInv(p)'
    BY DEF AdmitRead, IndInv, ETypeOK, OperationInv
  <2> QED
    BY <2>1, <2>2
<1>9. \A p \in Operations, i \in AttemptNos : AttemptInv(p, i)'
  <2> SUFFICES ASSUME NEW p \in Operations, NEW i \in AttemptNos PROVE AttemptInv(p, i)'
    OBVIOUS
  <2>1. CASE p = o /\ i = n
    BY <2>1, <1>1, <1>2, <1>3, <1>4 DEF AttemptInv
  <2>2. CASE ~(p = o /\ i = n)
    BY <2>2, <1>3, <1>4 DEF AttemptInv, IndInv, AdmitRead
  <2> QED
    BY <2>1, <2>2
<1> QED
  BY <1>3, <1>5, <1>7, <1>8, <1>9 DEF IndInv

(* handleClaim consumes the claim of a ready operation, whose reservation   *)
(* is still reserved, or of a read.                                         *)
LEMMA ClaimStep ==
  ASSUME IndInv, NEW o \in Operations, NEW n \in AttemptNos, NEW policy,
         Claim(o, n, policy)
  PROVE  IndInv'
<1> DEFINE a == [att[o][n] EXCEPT !.consumed = TRUE, !.state = "claimed"]
<1>1. att \in [Operations -> [AttemptNos -> Attempt]] /\ att[o][n] \in Attempt
  BY DEF IndInv, ETypeOK
<1>2. /\ a \in Attempt /\ a.kind = att[o][n].kind /\ a.target = att[o][n].target
      /\ a.state = "claimed"
  BY <1>1 DEF Attempt
<1>3. att[o][n].state = "prepared" /\ a.kind # "none"
  BY <1>2 DEF Claim, ClaimableState, IndInv, AttemptInv
<1>4. att' = [att EXCEPT ![o][n] = a]
  BY <1>1 DEF Claim
<1> HIDE DEF a
<1>5. /\ \A p \in Operations, i \in AttemptNos :
           att'[p][i] = IF p = o /\ i = n THEN a ELSE att[p][i]
      /\ att' \in [Operations -> [AttemptNos -> Attempt]]
  BY <1>1, <1>2, <1>4
<1>6. op' \in [Operations -> OpStates] /\ op'[o] \in Uncertain \cup {"executing"}
  BY DEF Claim, ClaimableState, IndInv, ETypeOK, OpStates
<1>7. ETypeOK'
  <2>1. \A p \in Operations, i \in AttemptNos : att'[p][i].state # "none" <=> i <= count'[p]
    BY <1>2, <1>3, <1>5 DEF Claim, IndInv, ETypeOK
  <2> QED
    BY <1>5, <1>6, <2>1 DEF Claim, IndInv, ETypeOK
<1>8. \A p \in Operations : DispatchAttempts(p)' = DispatchAttempts(p)
  BY <1>2, <1>5 DEF DispatchAttempts
<1>9. OneDispatch'
  BY <1>8 DEF IndInv, OneDispatch
<1>10. ReleasedNeverClaimed'
  <2>1. a.kind = "dispatch" => resv[o].state = "reserved"
    BY <1>2 DEF Claim, ClaimableState, IndInv, OperationInv
  <2> QED
    BY <1>2, <1>5, <1>8, <2>1 DEF Claim, IndInv, ReleasedNeverClaimed, DispatchAttempts
<1>11. \A p \in Operations : OperationInv(p)'
  BY <1>6 DEF Claim, IndInv, ETypeOK, OperationInv, Staged, Uncertain
<1>12. \A p \in Operations, i \in AttemptNos : AttemptInv(p, i)'
  <2> SUFFICES ASSUME NEW p \in Operations, NEW i \in AttemptNos PROVE AttemptInv(p, i)'
    OBVIOUS
  <2>1. CASE p = o /\ i = n
    BY <2>1, <1>2, <1>3, <1>5, <1>8 DEF AttemptInv, IndInv
  <2>2. CASE ~(p = o /\ i = n)
    BY <2>2, <1>5, <1>8 DEF AttemptInv, IndInv, Claim
  <2> QED
    BY <2>1, <2>2
<1> QED
  BY <1>7, <1>9, <1>10, <1>11, <1>12 DEF IndInv

(* appendObservation: rows of an attempt are only added to. *)
LEMMA ObservationsGrow ==
  ASSUME NEW s \in Seq(Observation), NEW e \in Observation
  PROVE  /\ Append(s, e) \in Seq(Observation)
         /\ \A i : (\E k \in 1..Len(s) : s[k].att = i) =>
                   \E k \in 1..Len(Append(s, e)) : Append(s, e)[k].att = i
         /\ \E k \in 1..Len(Append(s, e)) : Append(s, e)[k].att = e.att
<1>1. /\ Append(s, e) \in Seq(Observation) /\ Len(s) \in Nat
      /\ Len(Append(s, e)) = Len(s) + 1
      /\ \A k \in 1..Len(s) : Append(s, e)[k] = s[k]
      /\ Append(s, e)[Len(s) + 1] = e
  OBVIOUS
<1>2. 1..Len(s) \subseteq 1..(Len(s) + 1) /\ Len(s) + 1 \in 1..(Len(s) + 1)
  BY <1>1
<1> QED
  BY <1>1, <1>2

(* An attempt reaches "recorded" and nothing else about it changes: the      *)
(* common part of the first record of a dispatch and of a read.              *)
LEMMA AttemptRecorded ==
  ASSUME IndInv, NEW o \in Operations, NEW n \in AttemptNos,
         att[o][n].state # "none",
         att' = [att EXCEPT ![o][n].state = "recorded"]
  PROVE  /\ att' \in [Operations -> [AttemptNos -> Attempt]]
         /\ \A p \in Operations, i \in AttemptNos :
              /\ att'[p][i].kind = att[p][i].kind
              /\ att'[p][i].target = att[p][i].target
              /\ att'[p][i].consumed = att[p][i].consumed
              /\ att'[p][i].state = IF p = o /\ i = n THEN "recorded" ELSE att[p][i].state
         /\ \A p \in Operations : DispatchAttempts(p)' = DispatchAttempts(p)
<1>1. att \in [Operations -> [AttemptNos -> Attempt]] /\ att[o][n] \in Attempt
  BY DEF IndInv, ETypeOK
<1> DEFINE a == [att[o][n] EXCEPT !.state = "recorded"]
<1>2. /\ a \in Attempt /\ a.kind = att[o][n].kind /\ a.target = att[o][n].target
      /\ a.consumed = att[o][n].consumed /\ a.state = "recorded"
  <2>1. a \in Attempt /\ a.kind = att[o][n].kind /\ a.target = att[o][n].target
    BY <1>1 DEF Attempt
  <2>2. a.state = "recorded"
    BY <1>1 DEF Attempt
  <2>3. a.consumed = att[o][n].consumed
    BY <1>1, Zenon DEF Attempt
  <2> QED
    BY <2>1, <2>2, <2>3
<1>3. att' = [att EXCEPT ![o][n] = a]
  BY <1>1
<1> HIDE DEF a
<1>4. /\ \A p \in Operations, i \in AttemptNos :
           att'[p][i] = IF p = o /\ i = n THEN a ELSE att[p][i]
      /\ att' \in [Operations -> [AttemptNos -> Attempt]]
  BY <1>1, <1>2, <1>3
<1>5. \A p \in Operations, i \in AttemptNos :
        /\ att'[p][i].kind = att[p][i].kind
        /\ att'[p][i].target = att[p][i].target
        /\ att'[p][i].consumed = att[p][i].consumed
        /\ att'[p][i].state = IF p = o /\ i = n THEN "recorded" ELSE att[p][i].state
  BY <1>2, <1>4
<1>6. \A p \in Operations : DispatchAttempts(p)' = DispatchAttempts(p)
  BY <1>5 DEF DispatchAttempts
<1> QED
  BY <1>4, <1>5, <1>6

(* Recording keeps what holds of attempts: n has its observation, and no     *)
(* other attempt loses one.                                                  *)
LEMMA AttemptsKept ==
  ASSUME IndInv, NEW o \in Operations, NEW n \in AttemptNos, att[o][n].state # "none",
         \A p \in Operations, i \in AttemptNos :
              /\ att'[p][i].kind = att[p][i].kind
              /\ att'[p][i].target = att[p][i].target
              /\ att'[p][i].consumed = att[p][i].consumed
              /\ att'[p][i].state = IF p = o /\ i = n THEN "recorded" ELSE att[p][i].state,
         \A p \in Operations : DispatchAttempts(p)' = DispatchAttempts(p),
         \E k \in 1..Len(obs'[o]) : obs'[o][k].att = n,
         \A i \in AttemptNos : (\E k \in 1..Len(obs[o]) : obs[o][k].att = i) =>
                              \E k \in 1..Len(obs'[o]) : obs'[o][k].att = i,
         \A p \in Operations : p # o => obs'[p] = obs[p]
  PROVE  \A p \in Operations, i \in AttemptNos : AttemptInv(p, i)'
<1> SUFFICES ASSUME NEW p \in Operations, NEW i \in AttemptNos PROVE AttemptInv(p, i)'
  OBVIOUS
<1>1. AttemptInv(p, i)
  BY DEF IndInv
<1>2. CASE p = o /\ i = n
  BY <1>1, <1>2 DEF AttemptInv
<1>3. CASE p = o /\ i # n
  BY <1>1, <1>3 DEF AttemptInv
<1>4. CASE p # o
  BY <1>1, <1>4 DEF AttemptInv
<1> QED
  BY <1>2, <1>3, <1>4

(* The observations of one operation grow by one row, of attempt i. *)
LEMMA ObservationAdded ==
  ASSUME IndInv, NEW o \in Operations, NEW i \in AttemptNos, NEW d \in Dispositions,
         NEW kind \in {"physical", "correction", "dispute"},
         obs' = [obs EXCEPT ![o] = Append(@, Entry(i, kind, d))]
  PROVE  /\ obs' \in [Operations -> Seq(Observation)]
         /\ \A p \in Operations : p # o => obs'[p] = obs[p]
         /\ \A j \in AttemptNos : (\E k \in 1..Len(obs[o]) : obs[o][k].att = j) =>
                              \E k \in 1..Len(obs'[o]) : obs'[o][k].att = j
         /\ \E k \in 1..Len(obs'[o]) : obs'[o][k].att = i
<1> DEFINE e == Entry(i, kind, d)
<1>1. e \in Observation /\ e.att = i
  BY DEF Entry, Observation
<1>2. obs \in [Operations -> Seq(Observation)] /\ obs[o] \in Seq(Observation)
  BY DEF IndInv, ETypeOK
<1> HIDE DEF e
<1>3. obs'[o] = Append(obs[o], e) /\ obs' = [obs EXCEPT ![o] = Append(obs[o], e)]
  BY <1>2 DEF e
<1>4. /\ Append(obs[o], e) \in Seq(Observation)
      /\ \A j : (\E k \in 1..Len(obs[o]) : obs[o][k].att = j) =>
                   \E k \in 1..Len(Append(obs[o], e)) : Append(obs[o], e)[k].att = j
      /\ \E k \in 1..Len(Append(obs[o], e)) : Append(obs[o], e)[k].att = e.att
  BY <1>1, <1>2, ObservationsGrow
<1>5. obs' \in [Operations -> Seq(Observation)] /\ \A p \in Operations : p # o => obs'[p] = obs[p]
  BY <1>2, <1>3, <1>4
<1> QED
  BY <1>1, <1>3, <1>4, <1>5

(* A dispute adds an observation and an obligation and leaves the rest as   *)
(* it is.                                                                   *)
LEMMA RecordDisputeStep ==
  ASSUME IndInv, NEW o \in Operations, NEW i \in AttemptNos, NEW d \in Dispositions,
         RecordDispute(o, i, d)
  PROVE  IndInv'
<1>1. /\ obs' \in [Operations -> Seq(Observation)]
      /\ \A p \in Operations : p # o => obs'[p] = obs[p]
      /\ \A j \in AttemptNos : (\E k \in 1..Len(obs[o]) : obs[o][k].att = j) =>
                              \E k \in 1..Len(obs'[o]) : obs'[o][k].att = j
  BY ObservationAdded DEF RecordDispute
<1>2. obl' \in [Operations -> SUBSET ObligationKinds]
  BY DEF RecordDispute, IndInv, ETypeOK, ObligationKinds
<1>3. ETypeOK'
  BY <1>1, <1>2 DEF RecordDispute, IndInv, ETypeOK
<1>4. OneDispatch' /\ ReleasedNeverClaimed'
  BY DEF RecordDispute, IndInv, OneDispatch, ReleasedNeverClaimed, DispatchAttempts
<1>5. \A p \in Operations : OperationInv(p)'
  BY DEF RecordDispute, IndInv, OperationInv
<1>6. \A p \in Operations, j \in AttemptNos : AttemptInv(p, j)'
  BY <1>1 DEF RecordDispute, IndInv, AttemptInv, DispatchAttempts
<1> QED
  BY <1>3, <1>4, <1>5, <1>6 DEF IndInv

(* An attempt that exists has been counted. *)
LEMMA AttemptCounted ==
  ASSUME IndInv, NEW o \in Operations, NEW i \in AttemptNos, att[o][i].kind # "none"
  PROVE  att[o][i].state # "none" /\ count[o] # 0
<1>1. att[o][i].state # "none"
  BY DEF IndInv, AttemptInv
<1>2. i <= count[o] /\ i \in Int /\ i >= 1 /\ count[o] \in Int
  BY <1>1, EffectsAssumption DEF IndInv, ETypeOK, AttemptNos
<1> QED
  BY <1>1, <1>2

(* A correction settles a reservation as used, never as released, and       *)
(* leaves no state from which the operation could be admitted or claimed.   *)
LEMMA RecordCorrectionStep ==
  ASSUME IndInv, NEW o \in Operations, NEW i \in AttemptNos, NEW d \in Dispositions,
         NEW u \in Usage, RecordCorrection(o, i, d, u)
  PROVE  IndInv'
<1> DEFINE b == UnknownAmong(o, (1..Len(obs[o])) \ {Max(ObservedBy(o, i))})
           to == Outcome(d, TRUE, b)
<1>1. to \in OpStates \ (Staged \cup {"ready", "executing"})
  <2>1. b \in BOOLEAN
    BY DEF UnknownAmong
  <2> QED
    BY <2>1, OutcomeType
<1>2. op' = [op EXCEPT ![o] = to]
  BY DEF RecordCorrection
<1> HIDE DEF to
<1>3. count[o] # 0
  BY AttemptCounted DEF RecordCorrection
<1>4. /\ obs' \in [Operations -> Seq(Observation)]
      /\ \A p \in Operations : p # o => obs'[p] = obs[p]
      /\ \A j \in AttemptNos : (\E k \in 1..Len(obs[o]) : obs[o][k].att = j) =>
                              \E k \in 1..Len(obs'[o]) : obs'[o][k].att = j
  BY ObservationAdded DEF RecordCorrection
<1>5. obl' \in [Operations -> SUBSET ObligationKinds]
  <2>1. obl[o] \in SUBSET ObligationKinds /\ obl \in [Operations -> SUBSET ObligationKinds]
    BY DEF IndInv, ETypeOK
  <2>2. ObligationsAfter(obl[o], to, d) \in SUBSET ObligationKinds
    BY <2>1, ObligationsType
  <2>3. obl' = [obl EXCEPT ![o] = IF d = "not_sent" THEN @ ELSE ObligationsAfter(@, to, d)]
    BY DEF RecordCorrection, to
  <2> QED
    BY <2>1, <2>2, <2>3
<1>6. resv[o] \in Row /\ resv \in [Operations -> Row]
  BY DEF IndInv, ETypeOK
<1>7. /\ resv' \in [Operations -> Row]
      /\ resv'[o].state = "released" => resv[o].state = "released"
      /\ \A p \in Operations : p # o => resv'[p] = resv[p]
  BY <1>6, SettledType DEF RecordCorrection
<1>8. op' \in [Operations -> OpStates] /\ op'[o] = to /\ \A p \in Operations : p # o => op'[p] = op[p]
  BY <1>1, <1>2 DEF IndInv, ETypeOK
<1> UNCHANGED <<approved, count, att, gen>>
  BY DEF RecordCorrection
<1>9. ETypeOK'
  BY <1>4, <1>5, <1>7, <1>8 DEF IndInv, ETypeOK
<1>10. OneDispatch' /\ ReleasedNeverClaimed'
  <2>1. \A p \in Operations : DispatchAttempts(p)' = DispatchAttempts(p)
    BY DEF DispatchAttempts
  <2> QED
    BY <1>7, <2>1 DEF IndInv, OneDispatch, ReleasedNeverClaimed
<1>11. \A p \in Operations : OperationInv(p)'
  BY <1>1, <1>3, <1>7, <1>8 DEF RecordCorrection, IndInv, OperationInv
<1>12. \A p \in Operations, j \in AttemptNos : AttemptInv(p, j)'
  BY <1>4 DEF RecordCorrection, IndInv, AttemptInv, DispatchAttempts
<1> QED
  BY <1>9, <1>10, <1>11, <1>12 DEF IndInv

(* The first record of a dispatch attempt releases the reservation only if  *)
(* the attempt is unclaimed, and then makes the operation failed.           *)
LEMMA RecordPhysicalStep ==
  ASSUME IndInv, NEW o \in Operations, NEW i \in AttemptNos, NEW d \in Dispositions,
         NEW u \in Usage, att[o][i].kind = "dispatch", ObservedBy(o, i) = {},
         RecordPhysical(o, i, d, u)
  PROVE  IndInv'
<1> DEFINE w == att[o][i].state = "claimed"
           b == UnknownAmong(o, 1..Len(obs[o]))
           to == Outcome(d, w, b)
<1>1. to \in OpStates \ (Staged \cup {"ready", "executing"})
  <2>1. w \in BOOLEAN /\ b \in BOOLEAN
    BY DEF UnknownAmong
  <2> QED
    BY <2>1, OutcomeType
<1>2. op' = [op EXCEPT ![o] = to]
  BY DEF RecordPhysical
<1> HIDE DEF to
<1>3. att[o][i].state # "none" /\ count[o] # 0
  BY AttemptCounted
<1>4. /\ obs' \in [Operations -> Seq(Observation)]
      /\ \A p \in Operations : p # o => obs'[p] = obs[p]
      /\ \A j \in AttemptNos : (\E k \in 1..Len(obs[o]) : obs[o][k].att = j) =>
                              \E k \in 1..Len(obs'[o]) : obs'[o][k].att = j
      /\ \E k \in 1..Len(obs'[o]) : obs'[o][k].att = i
  BY ObservationAdded DEF RecordPhysical
<1>5. obl' \in [Operations -> SUBSET ObligationKinds]
  <2>1. obl[o] \in SUBSET ObligationKinds /\ obl \in [Operations -> SUBSET ObligationKinds]
    BY DEF IndInv, ETypeOK
  <2>2. ObligationsAfter(obl[o], to, d) \in SUBSET ObligationKinds
    BY <2>1, ObligationsType
  <2>3. obl' = [obl EXCEPT ![o] = ObligationsAfter(@, to, d)]
    BY DEF RecordPhysical, to
  <2> QED
    BY <2>1, <2>2, <2>3
<1>6. resv[o] \in Row /\ resv \in [Operations -> Row]
  BY DEF IndInv, ETypeOK
<1>7. /\ resv' \in [Operations -> Row]
      /\ resv'[o].state = "released" =>
           resv[o].state = "released" \/ (d = "not_sent" /\ ~w)
      /\ \A p \in Operations : p # o => resv'[p] = resv[p]
  <2>1. resv' = [resv EXCEPT ![o] = IF Settles(d, w) THEN Settled(@, u, d = "not_sent") ELSE @]
    BY DEF RecordPhysical
  <2>2. /\ Settled(resv[o], u, d = "not_sent") \in Row
        /\ Settled(resv[o], u, d = "not_sent").state = "released" =>
             d = "not_sent" \/ resv[o].state = "released"
    BY <1>6, SettledType
  <2>3. Settles(d, w) /\ d = "not_sent" => ~w
    BY DEF Settles
  <2> HIDE DEF w
  <2> QED
    BY <1>6, <2>1, <2>2, <2>3
<1>8. op' \in [Operations -> OpStates] /\ op'[o] = to /\ \A p \in Operations : p # o => op'[p] = op[p]
  BY <1>1, <1>2 DEF IndInv, ETypeOK
<1>9. UNCHANGED <<approved, count, gen>> /\ att' = [att EXCEPT ![o][i].state = "recorded"]
  BY DEF RecordPhysical
<1>10. /\ att' \in [Operations -> [AttemptNos -> Attempt]]
       /\ \A p \in Operations, j \in AttemptNos :
            /\ att'[p][j].kind = att[p][j].kind
            /\ att'[p][j].target = att[p][j].target
            /\ att'[p][j].consumed = att[p][j].consumed
            /\ att'[p][j].state = IF p = o /\ j = i THEN "recorded" ELSE att[p][j].state
       /\ \A p \in Operations : DispatchAttempts(p)' = DispatchAttempts(p)
  BY <1>3, <1>9, AttemptRecorded
<1>11. ETypeOK'
  <2>1. \A p \in Operations, j \in AttemptNos : att'[p][j].state # "none" <=> j <= count'[p]
    BY <1>3, <1>9, <1>10 DEF IndInv, ETypeOK
  <2> QED
    BY <1>4, <1>5, <1>7, <1>8, <1>9, <1>10, <2>1 DEF IndInv, ETypeOK
<1>12. ~w => \A j \in DispatchAttempts(o) : ~att[o][j].consumed
  <2>1. att[o][i].state # "recorded"
    BY DEF IndInv, AttemptInv, ObservedBy
  <2>2. ~w => ~att[o][i].consumed
    BY <2>1 DEF IndInv, AttemptInv
  <2>3. \A j \in DispatchAttempts(o) : j = i
    BY DEF IndInv, OneDispatch, DispatchAttempts
  <2> QED
    BY <2>2, <2>3
<1>13. OneDispatch'
  BY <1>10 DEF IndInv, OneDispatch
<1>14. ReleasedNeverClaimed'
  <2> SUFFICES ASSUME NEW p \in Operations, resv'[p].state = "released",
                      NEW j \in DispatchAttempts(p)
               PROVE  ~att[p][j].consumed
    BY <1>10 DEF ReleasedNeverClaimed, DispatchAttempts
  <2>1. CASE resv[p].state = "released"
    BY <2>1 DEF IndInv, ReleasedNeverClaimed
  <2>2. CASE resv[p].state # "released"
    BY <2>2, <1>7, <1>12
  <2> QED
    BY <2>1, <2>2
<1>15. \A p \in Operations : OperationInv(p)'
  BY <1>1, <1>3, <1>7, <1>8, <1>9 DEF IndInv, OperationInv
<1>16. \A p \in Operations, j \in AttemptNos : AttemptInv(p, j)'
  BY <1>3, <1>4, <1>10, AttemptsKept
<1> QED
  BY <1>11, <1>13, <1>14, <1>15, <1>16 DEF IndInv

(* The two rows an authoritative read appends, or the one of any other. *)
LEMMA ObservationsJoin ==
  ASSUME NEW s \in Seq(Observation), NEW t \in Seq(Observation), Len(t) >= 1
  PROVE  /\ s \o t \in Seq(Observation)
         /\ \A i : (\E k \in 1..Len(s) : s[k].att = i) =>
                   \E k \in 1..Len(s \o t) : (s \o t)[k].att = i
         /\ \E k \in 1..Len(s \o t) : (s \o t)[k].att = t[1].att
<1>1. /\ s \o t \in Seq(Observation) /\ Len(s) \in Nat /\ Len(t) \in Nat
      /\ Len(s \o t) = Len(s) + Len(t)
      /\ \A k \in 1..Len(s) : (s \o t)[k] = s[k]
      /\ (s \o t)[Len(s) + 1] = t[1]
  OBVIOUS
<1>2. 1..Len(s) \subseteq 1..Len(s \o t) /\ Len(s) + 1 \in 1..Len(s \o t)
  BY <1>1
<1> QED
  BY <1>1, <1>2

(* The record of a read settles as used, never as released, and admits      *)
(* nothing.                                                                 *)
LEMMA ReconciliationRecordStep ==
  ASSUME IndInv, NEW o \in Operations, NEW i \in AttemptNos, NEW d \in Dispositions,
         NEW u \in Usage, ReconciliationRecord(o, i, d, u)
  PROVE  IndInv'
<1> DEFINE t == att[o][i].target
           auth == d \in {"succeeded", "failed"}
           mid == Settled(resv[o], u, FALSE)
           to == ReadOutcome(o, d, t)
           new == IF auth THEN <<Entry(i, "physical", d), Entry(t, "correction", d)>>
                  ELSE <<Entry(i, "physical", d)>>
<1>1. /\ att[o][i].kind = "reconciliation" /\ op[o] \in Uncertain
      /\ att' = [att EXCEPT ![o][i].state = "recorded"]
      /\ obs' = [obs EXCEPT ![o] = @ \o new]
      /\ resv' = [resv EXCEPT ![o] = IF auth THEN Settled(mid, u, FALSE) ELSE mid]
      /\ op' = [op EXCEPT ![o] = to]
      /\ obl' = [obl EXCEPT ![o] = IF to \in Concluded THEN Resolved(@) ELSE @]
      /\ UNCHANGED <<approved, count, gen>>
  BY DEF ReconciliationRecord
<1>2. att[o][i].state # "none" /\ count[o] # 0
  BY <1>1, AttemptCounted
<1>3. t \in AttemptNos
  BY <1>1 DEF IndInv, AttemptInv, DispatchAttempts
<1>4. to \in OpStates \ (Staged \cup {"ready", "executing"})
  BY <1>1 DEF ReadOutcome, Uncertain, OpStates, Staged
<1>5. new \in Seq(Observation) /\ Len(new) >= 1 /\ new[1].att = i
  <2>1. /\ Entry(i, "physical", d) \in Observation /\ Entry(i, "physical", d).att = i
        /\ Entry(t, "correction", d) \in Observation
    BY <1>3 DEF Entry, Observation
  <2> QED
    BY <2>1
<1> HIDE DEF new, to, t
<1>6. /\ obs' \in [Operations -> Seq(Observation)]
      /\ \A p \in Operations : p # o => obs'[p] = obs[p]
      /\ \A j \in AttemptNos : (\E k \in 1..Len(obs[o]) : obs[o][k].att = j) =>
                              \E k \in 1..Len(obs'[o]) : obs'[o][k].att = j
      /\ \E k \in 1..Len(obs'[o]) : obs'[o][k].att = i
  <2>1. obs \in [Operations -> Seq(Observation)] /\ obs[o] \in Seq(Observation)
    BY DEF IndInv, ETypeOK
  <2>2. obs'[o] = obs[o] \o new
    BY <1>1, <2>1
  <2>3. /\ obs[o] \o new \in Seq(Observation)
        /\ \A j : (\E k \in 1..Len(obs[o]) : obs[o][k].att = j) =>
                   \E k \in 1..Len(obs[o] \o new) : (obs[o] \o new)[k].att = j
        /\ \E k \in 1..Len(obs[o] \o new) : (obs[o] \o new)[k].att = new[1].att
    BY <1>5, <2>1, ObservationsJoin
  <2>4. obs' \in [Operations -> Seq(Observation)] /\ \A p \in Operations : p # o => obs'[p] = obs[p]
    BY <1>1, <2>1, <2>3
  <2> QED
    BY <1>5, <2>2, <2>3, <2>4
<1>7. obl' \in [Operations -> SUBSET ObligationKinds]
  <2>1. obl[o] \in SUBSET ObligationKinds /\ obl \in [Operations -> SUBSET ObligationKinds]
    BY DEF IndInv, ETypeOK
  <2>2. Resolved(obl[o]) \in SUBSET ObligationKinds
    BY <2>1, ObligationsType
  <2> QED
    BY <1>1, <2>1, <2>2
<1>8. /\ resv' \in [Operations -> Row]
      /\ resv'[o].state = "released" => resv[o].state = "released"
      /\ \A p \in Operations : p # o => resv'[p] = resv[p]
  <2>1. resv[o] \in Row /\ resv \in [Operations -> Row]
    BY DEF IndInv, ETypeOK
  <2>2. mid \in Row /\ (mid.state = "released" => resv[o].state = "released")
    BY <2>1, SettledType
  <2> HIDE DEF mid
  <2>3. Settled(mid, u, FALSE) \in Row
        /\ (Settled(mid, u, FALSE).state = "released" => mid.state = "released")
    BY <2>2, SettledType
  <2> QED
    BY <1>1, <2>1, <2>2, <2>3
<1>9. op' \in [Operations -> OpStates] /\ op'[o] = to /\ \A p \in Operations : p # o => op'[p] = op[p]
  BY <1>1, <1>4 DEF IndInv, ETypeOK
<1>10. /\ att' \in [Operations -> [AttemptNos -> Attempt]]
       /\ \A p \in Operations, j \in AttemptNos :
            /\ att'[p][j].kind = att[p][j].kind
            /\ att'[p][j].target = att[p][j].target
            /\ att'[p][j].consumed = att[p][j].consumed
            /\ att'[p][j].state = IF p = o /\ j = i THEN "recorded" ELSE att[p][j].state
       /\ \A p \in Operations : DispatchAttempts(p)' = DispatchAttempts(p)
  BY <1>1, <1>2, AttemptRecorded
<1>11. ETypeOK'
  <2>1. \A p \in Operations, j \in AttemptNos : att'[p][j].state # "none" <=> j <= count'[p]
    BY <1>1, <1>2, <1>10 DEF IndInv, ETypeOK
  <2> QED
    BY <1>1, <1>6, <1>7, <1>8, <1>9, <1>10, <2>1 DEF IndInv, ETypeOK
<1>12. OneDispatch'
  BY <1>10 DEF IndInv, OneDispatch
<1>13. ReleasedNeverClaimed'
  <2> SUFFICES ASSUME NEW p \in Operations, resv'[p].state = "released",
                      NEW j \in DispatchAttempts(p)
               PROVE  ~att[p][j].consumed
    BY <1>10 DEF ReleasedNeverClaimed, DispatchAttempts
  <2>1. resv[p].state = "released"
    BY <1>8
  <2> QED
    BY <2>1 DEF IndInv, ReleasedNeverClaimed
<1>14. \A p \in Operations : OperationInv(p)'
  BY <1>1, <1>2, <1>4, <1>8, <1>9 DEF IndInv, OperationInv
<1>15. \A p \in Operations, j \in AttemptNos : AttemptInv(p, j)'
  BY <1>2, <1>6, <1>10, AttemptsKept
<1> QED
  BY <1>11, <1>12, <1>13, <1>14, <1>15 DEF IndInv

--------------------------------------------------------------------------------
(* The theorems *)

(* Every handler of the effects owner preserves the inductive invariant. *)
LEMMA NextInd == IndInv /\ [ENext]_evars => IndInv'
<1> SUFFICES ASSUME IndInv, [ENext]_evars PROVE IndInv'
  OBVIOUS
<1>0. CASE UNCHANGED evars
  <2>1. ETypeOK'
    BY <1>0 DEF evars, IndInv, ETypeOK
  <2> QED
    BY <1>0, <2>1, QuietStep DEF evars
<1>1. CASE NextGeneration
  BY <1>1, NextGenerationStep
<1>2. ASSUME NEW o \in Operations, NEW policy \in {"allow", "review", "deny"},
             Stage(o, policy)
      PROVE  IndInv'
  BY <1>2, StageStep
<1>3. ASSUME NEW o \in Operations, Approve(o) PROVE IndInv'
  BY <1>3, ApproveStep
<1>4. ASSUME NEW o \in Operations, NEW policy \in Policies, Admit(o, policy) PROVE IndInv'
  BY <1>4, AdmitStep
<1>5. ASSUME NEW o \in Operations, NEW policy \in Policies, ReconciliationPrepare(o, policy)
      PROVE  IndInv'
  <2>1. obl' \in [Operations -> SUBSET ObligationKinds]
    BY <1>5 DEF ReconciliationPrepare, IndInv, ETypeOK
  <2> QED
    BY <1>5, <2>1, AdmitReadStep DEF ReconciliationPrepare
<1>6. ASSUME NEW o \in Operations, NEW policy \in Policies, Reconcile(o, policy)
      PROVE  IndInv'
  <2>1. obl' \in [Operations -> SUBSET ObligationKinds]
    BY <1>6 DEF Reconcile, IndInv, ETypeOK, ObligationKinds
  <2> QED
    BY <1>6, <2>1, AdmitReadStep DEF Reconcile
<1>7. ASSUME NEW o \in Operations, NEW policy \in Policies, NEW i \in AttemptNos,
             Claim(o, i, policy)
      PROVE  IndInv'
  BY <1>7, ClaimStep
<1>8. ASSUME NEW o \in Operations, NEW to \in {"expired", "denied"}, AdmitRefuses(o, to)
      PROVE  IndInv'
  BY <1>8, AdmitRefusesStep
<1>9. ASSUME NEW o \in Operations, RecordNext(o) PROVE IndInv'
  <2>1. Usages \subseteq Usage
    BY EffectsAssumption
  <2>2. PICK i \in AttemptNos, d \in Dispositions :
          \/ \E u \in Usages : RecordFresh(o, i, d, u) \/ RecordCorrection(o, i, d, u)
                               \/ ReconciliationRecord(o, i, d, u)
          \/ RecordDispute(o, i, d)
    BY <1>9 DEF RecordNext
  <2>3. CASE RecordDispute(o, i, d)
    BY <2>3, RecordDisputeStep
  <2>4. ASSUME NEW u \in Usages, RecordFresh(o, i, d, u) PROVE IndInv'
    BY <2>1, <2>4, RecordPhysicalStep DEF RecordFresh
  <2>5. ASSUME NEW u \in Usages, RecordCorrection(o, i, d, u) PROVE IndInv'
    BY <2>1, <2>5, RecordCorrectionStep
  <2>6. ASSUME NEW u \in Usages, ReconciliationRecord(o, i, d, u) PROVE IndInv'
    BY <2>1, <2>6, ReconciliationRecordStep
  <2> QED
    BY <2>2, <2>3, <2>4, <2>5, <2>6
<1>10. ASSUME NEW o \in Operations, NEW i \in AttemptNos, RecordSuccessor(o, i) PROVE IndInv'
  <2> DEFINE d == IF att[o][i].state = "claimed" THEN "unknown" ELSE "not_sent"
  <2>1. d \in Dispositions /\ ZeroUsage \in Usage
    BY DEF Dispositions, ZeroUsage, Usage
  <2>2. /\ att[o][i].kind = "dispatch" /\ ObservedBy(o, i) = {}
        /\ RecordPhysical(o, i, d, ZeroUsage)
    BY <1>10 DEF RecordSuccessor
  <2> HIDE DEF d
  <2> QED
    BY <2>1, <2>2, RecordPhysicalStep
<1>11. ASSUME NEW o \in Operations, RestoreMerge(o) PROVE IndInv'
  BY <1>11, RestoreMergeStep
<1> QED
  BY <1>0, <1>1, <1>2, <1>3, <1>4, <1>5, <1>6, <1>7, <1>8, <1>9, <1>10, <1>11 DEF ENext

(* The owner keeps the types of its rows and the numbering of its attempts.  *)
THEOREM EffectsTypes == ESpec => []ETypeOK
<1>1. IndInv => ETypeOK
  BY DEF IndInv
<1> QED
  BY InitInd, NextInd, <1>1, PTL DEF ESpec

(* An operation has at most one dispatch attempt, for ever: whatever is      *)
(* recorded, reconciled, merged by a restore or retried under later          *)
(* controller generations, an uncertain mutation is never admitted again     *)
(* (handleAdmit).                                                            *)
THEOREM AtMostOneDispatch == ESpec => []OneDispatch
<1>1. IndInv => OneDispatch
  BY DEF IndInv
<1> QED
  BY InitInd, NextInd, <1>1, PTL DEF ESpec

(* A reservation released as never executed belongs to an operation whose    *)
(* dispatch attempt was never claimed, and is never claimed afterwards       *)
(* (recordDisposition, handleClaim).                                         *)
THEOREM ReleasedIsUnsent == ESpec => []ReleasedNeverClaimed
<1>1. IndInv => ReleasedNeverClaimed
  BY DEF IndInv
<1> QED
  BY InitInd, NextInd, <1>1, PTL DEF ESpec

--------------------------------------------------------------------------------
(* What the evidence says, row by row: x is an operation's state, s its         *)
(* observations, b its obligations, r its reservation, c its attempt count and  *)
(* a its attempts.                                                              *)

By(s, i) == {k \in 1..Len(s) : s[k].att = i}

(* Once an observation of i says more than "unknown", so do all later ones.    *)
KnownStays(s, i) ==
  \A k, m \in By(s, i) : k < m /\ s[k].disp # "unknown" => s[m].disp # "unknown"

OnlyUnknown(s, i) == By(s, i) # {} /\ \A k \in By(s, i) : s[k].disp = "unknown"

Says(s, i, d) ==
  \E k \in 1..Len(s) : s[k].att = i /\ s[k].disp = d /\ s[k].kind # "dispute"

Doubtful(s, A) ==
  \A k \in 1..Len(s) : s[k].att \in A => s[k].disp \in {"unknown", "not_sent"}

Dispatches(a) == {i \in AttemptNos : a[i].kind = "dispatch"}

(* While a dispatch attempt has only unknown observations its operation is     *)
(* outcome_unknown, so that no correction ever meets a conclusion.             *)
Corrigible(x, s, a) ==
  \A i \in Dispatches(a) :
    KnownStays(s, i) /\ (OnlyUnknown(s, i) => x = "outcome_unknown")

Unobserved(x, s) ==
  x \in Staged \cup {"ready", "executing", "denied", "expired"} => s = <<>>

Owed(x, b) ==
  /\ x \in Uncertain => b \ {"dispute"} # {}
  /\ x \notin Uncertain => b \cap {"reconcile", "confirm"} = {}

Funded(x, s, r, c, a) ==
  /\ x = "executing" => r.state = "reserved"
  /\ x \in Concluded => r.state # "reserved"
  /\ \A i \in AttemptNos : a[i].kind = "reconciliation" => r.amount = 0
  /\ x = "awaiting_confirmation" => ~Doubtful(s, Dispatches(a))
  /\ (x = "outcome_unknown" /\ c > 0 /\ Doubtful(s, Dispatches(a)) /\ r.amount > 0) =>
       r.state = "reserved"

Proven(x, s, a) ==
  \A i \in Dispatches(a) :
    /\ x = "succeeded" => Says(s, i, "succeeded")
    /\ (x = "failed" /\ a[i].consumed) =>
         Says(s, i, "failed") /\ \A j \in AttemptNos \ {i} : ~Says(s, j, "unknown")

EvidenceRow(x, s, b, r, c, a) ==
  Corrigible(x, s, a) /\ Unobserved(x, s) /\ Owed(x, b) /\ Funded(x, s, r, c, a) /\ Proven(x, s, a)

(* The second inductive invariant. *)
EvInv ==
  \A o \in Operations : EvidenceRow(op[o], obs[o], obl[o], resv[o], count[o], att[o])

(* appendObservation: what one more observation changes. *)
LEMMA Appended ==
  ASSUME NEW s \in Seq(Observation), NEW e \in Observation
  PROVE  LET t == Append(s, e)
         IN /\ t \in Seq(Observation) /\ t # <<>>
            /\ \A i, d : Says(t, i, d) <=>
                 Says(s, i, d) \/ (e.att = i /\ e.disp = d /\ e.kind # "dispute")
            /\ \A i : KnownStays(s, i) /\ (e.att = i => e.disp # "unknown") => KnownStays(t, i)
            /\ \A i : OnlyUnknown(t, i) =>
                 IF e.att = i THEN e.disp = "unknown" ELSE OnlyUnknown(s, i)
            /\ \A A : Doubtful(t, A) <=>
                 Doubtful(s, A) /\ (e.att \in A => e.disp \in {"unknown", "not_sent"})
            /\ s = <<>> => \A i : KnownStays(t, i)
<1> DEFINE t == Append(s, e)
           n == Len(s)
<1>1. /\ t \in Seq(Observation) /\ n \in Nat /\ Len(t) = n + 1
      /\ \A k \in 1..n : t[k] = s[k]
      /\ t[n + 1] = e
  OBVIOUS
<1>2. t # <<>>
  BY <1>1
<1>3. s = <<>> => n = 0
  OBVIOUS
<1> HIDE DEF t, n
<1>4. 1..(n + 1) = 1..n \cup {n + 1} /\ n + 1 \notin 1..n
  BY <1>1
<1>5. n = Len(s)
  BY DEF n
<1>6. \A i : By(t, i) = By(s, i) \cup (IF e.att = i THEN {n + 1} ELSE {})
  BY <1>1, <1>4, <1>5 DEF By
<1>7. \A i : \A k \in By(s, i) : k \in 1..n /\ t[k] = s[k]
  BY <1>1, <1>5 DEF By
<1>8. \A i, d : Says(t, i, d) <=>
                 Says(s, i, d) \/ (e.att = i /\ e.disp = d /\ e.kind # "dispute")
  BY <1>1, <1>4, <1>5 DEF Says
<1>9. \A A : Doubtful(t, A) <=>
                 Doubtful(s, A) /\ (e.att \in A => e.disp \in {"unknown", "not_sent"})
  BY <1>1, <1>4, <1>5 DEF Doubtful
<1>10. ASSUME NEW i, KnownStays(s, i), e.att = i => e.disp # "unknown"
       PROVE  KnownStays(t, i)
  BY <1>1, <1>4, <1>6, <1>7, <1>10 DEF KnownStays
<1>11. ASSUME NEW i, OnlyUnknown(t, i)
       PROVE  IF e.att = i THEN e.disp = "unknown" ELSE OnlyUnknown(s, i)
  <2>1. CASE e.att = i
    BY <1>1, <1>6, <1>11, <2>1 DEF OnlyUnknown
  <2>2. CASE e.att # i
    BY <1>6, <1>7, <1>11, <2>2 DEF OnlyUnknown
  <2> QED
    BY <2>1, <2>2
<1>12. ASSUME s = <<>>, NEW i
       PROVE  KnownStays(t, i)
  <2>1. Len(s) = 0
    BY <1>3, <1>5, <1>12
  <2>2. By(s, i) = {}
    BY <2>1 DEF By
  <2>3. By(t, i) \subseteq {n + 1}
    BY <1>6, <2>2
  <2> QED
    BY <1>1, <2>3 DEF KnownStays
<1> QED
  BY <1>1, <1>2, <1>8, <1>9, <1>10, <1>11, <1>12 DEF t

(* Prior: the last observation of an attempt is its greatest row. *)
LEMMA LastObservation ==
  ASSUME NEW s \in Seq(Observation), NEW i, By(s, i) # {}
  PROVE  Max(By(s, i)) \in By(s, i) /\ \A k \in By(s, i) : k <= Max(By(s, i))
<1> DEFINE S == By(s, i)
           n == Len(s)
           T == {n - x : x \in S}
           R == OpToRel(<, Nat)
<1>1. n \in Nat /\ S \subseteq 1..n /\ S # {}
  BY DEF By
<1> HIDE DEF S, n
<1>2. T \in SUBSET Nat /\ T # {}
  <2>1. \A x \in S : n - x \in Nat
    BY <1>1
  <2>2. PICK x \in S : TRUE
    BY <1>1
  <2> QED
    BY <2>1, <2>2
<1>3. IsWellFoundedOn(R, Nat)
  BY NatLessThanWellFounded
<1>4. \A x, y \in Nat : y < x => <<y, x>> \in R
  BY DEF OpToRel
<1> HIDE DEF R
<1>5. PICK z \in T : \A y \in T : ~(<<y, z>> \in R)
  BY <1>2, <1>3, WFMin
<1>6. PICK x \in S : z = n - x
  BY <1>5
<1>7. \A y \in S : x >= y
  <2> SUFFICES ASSUME NEW y \in S PROVE x >= y
    OBVIOUS
  <2>1. n - y \in T /\ n - y \in Nat /\ z \in Nat
    BY <1>1, <1>2, <1>5
  <2>2. ~(n - y < z)
    BY <1>4, <1>5, <2>1
  <2> QED
    BY <1>1, <1>6, <2>2
<1>8. Max(S) = CHOOSE m \in S : \A y \in S : m >= y
  BY DEF Max
<1>9. Max(S) \in S /\ \A y \in S : Max(S) >= y
  BY <1>7, <1>8
<1> QED
  BY <1>1, <1>9 DEF S

(* An attempt whose last observation is unknown has no other. *)
LEMMA LastUnknown ==
  ASSUME NEW s \in Seq(Observation), NEW i, By(s, i) # {}, KnownStays(s, i),
         s[Max(By(s, i))].disp = "unknown"
  PROVE  OnlyUnknown(s, i)
<1> DEFINE m == Max(By(s, i))
<1>1. m \in By(s, i) /\ \A k \in By(s, i) : k <= m
  BY LastObservation
<1> HIDE DEF m
<1>2. ASSUME NEW k \in By(s, i)
      PROVE  s[k].disp = "unknown"
  <2>1. k \in Int /\ m \in Int /\ k <= m /\ s[m].disp = "unknown"
    BY <1>1 DEF By, m
  <2>2. CASE k = m
    BY <2>1, <2>2
  <2>3. CASE k < m
    BY <1>1, <2>1, <2>3 DEF KnownStays
  <2> QED
    BY <2>1, <2>2, <2>3
<1> QED
  BY <1>2 DEF OnlyUnknown

(* Each handler writes the rows of one operation. *)
LEMMA OneOperation ==
  ASSUME EvInv, NEW o \in Operations,
         EvidenceRow(op'[o], obs'[o], obl'[o], resv'[o], count'[o], att'[o]),
         \A p \in Operations \ {o} :
           /\ op'[p] = op[p] /\ obs'[p] = obs[p] /\ obl'[p] = obl[p]
           /\ resv'[p] = resv[p] /\ count'[p] = count[p] /\ att'[p] = att[p]
  PROVE  EvInv'
<1>1. ASSUME NEW p \in Operations
      PROVE  EvidenceRow(op'[p], obs'[p], obl'[p], resv'[p], count'[p], att'[p])
  <2>1. CASE p = o
    BY <2>1
  <2>2. CASE p # o
    BY <2>2 DEF EvInv
  <2> QED
    BY <2>1, <2>2
<1> QED
  BY <1>1 DEF EvInv

(* The types and the invariant of one operation's rows. *)
LEMMA RowOf ==
  ASSUME IndInv, EvInv, NEW o \in Operations
  PROVE  /\ op[o] \in OpStates /\ obs[o] \in Seq(Observation)
         /\ obl[o] \in SUBSET ObligationKinds /\ resv[o] \in Row
         /\ count[o] \in Nat /\ att[o] \in [AttemptNos -> Attempt]
         /\ EvidenceRow(op[o], obs[o], obl[o], resv[o], count[o], att[o])
         /\ OperationInv(o)
         /\ Dispatches(att[o]) = DispatchAttempts(o)
         /\ \A i, j \in Dispatches(att[o]) : i = j
         /\ count[o] = 0 => \A i \in AttemptNos : att[o][i].kind = "none"
<1>1. count[o] \in Nat
  BY EffectsAssumption DEF IndInv, ETypeOK
<1>2. ASSUME count[o] = 0, NEW i \in AttemptNos
      PROVE  att[o][i].kind = "none"
  <2>1. ~(i <= count[o])
    BY <1>2, EffectsAssumption DEF AttemptNos
  <2> QED
    BY <2>1, ZenonT(40) DEF IndInv, ETypeOK, AttemptInv
<1>3. Dispatches(att[o]) = DispatchAttempts(o)
  BY DEF Dispatches, DispatchAttempts
<1>4. \A i, j \in Dispatches(att[o]) : i = j
  BY <1>3 DEF IndInv, OneDispatch
<1> QED
  BY <1>1, <1>2, <1>3, <1>4 DEF IndInv, ETypeOK, EvInv

(* prepare, propose, and an admission that refuses: an operation without      *)
(* attempts stays without evidence, obligations and reservation.              *)
LEMMA StagedEv ==
  ASSUME IndInv, EvInv, NEW o \in Operations, op[o] \in Staged,
         op' = [op EXCEPT ![o] = op'[o]], op'[o] \in Staged \cup {"denied", "expired"},
         UNCHANGED <<count, att, obs, obl, resv>>
  PROVE  EvInv'
<1>1. /\ EvidenceRow(op[o], obs[o], obl[o], resv[o], count[o], att[o])
      /\ OperationInv(o) /\ count[o] \in Nat
      /\ count[o] = 0 => \A i \in AttemptNos : att[o][i].kind = "none"
  BY RowOf
<1>2. count[o] = 0 /\ resv[o].state = "none" /\ Dispatches(att[o]) = {}
  BY <1>1 DEF OperationInv, Dispatches
<1>3. obs[o] = <<>> /\ op[o] \notin Uncertain
  BY <1>1 DEF EvidenceRow, Unobserved, Staged, Uncertain
<1>4. Corrigible(op'[o], obs[o], att[o]) /\ Proven(op'[o], obs[o], att[o])
  BY <1>2 DEF Corrigible, Proven
<1>5. Unobserved(op'[o], obs[o])
  BY <1>3 DEF Unobserved
<1>6. Owed(op'[o], obl[o])
  BY <1>1, <1>3 DEF EvidenceRow, Owed, Staged, Uncertain
<1>7. Funded(op'[o], obs[o], resv[o], count[o], att[o])
  BY <1>1, <1>2 DEF EvidenceRow, Funded, Staged
<1>8. EvidenceRow(op'[o], obs'[o], obl'[o], resv'[o], count'[o], att'[o])
  BY <1>4, <1>5, <1>6, <1>7 DEF EvidenceRow
<1>9. \A p \in Operations \ {o} : op'[p] = op[p]
  BY DEF IndInv, ETypeOK
<1> QED
  BY <1>8, <1>9, OneOperation

(* A restore merge makes an operation uncertain together with its             *)
(* obligation, whatever evidence it has.                                      *)
LEMMA RestoreMergeEv ==
  ASSUME IndInv, EvInv, NEW o \in Operations, RestoreMerge(o)
  PROVE  EvInv'
<1>1. /\ EvidenceRow(op[o], obs[o], obl[o], resv[o], count[o], att[o])
      /\ OperationInv(o) /\ op[o] \in OpStates /\ count[o] \in Nat
  BY RowOf
<1>2. /\ op'[o] = "outcome_unknown" /\ obl'[o] = obl[o] \cup {"restore_overlay"}
      /\ UNCHANGED <<count, att, obs, resv>>
      /\ \A p \in Operations \ {o} : op'[p] = op[p] /\ obl'[p] = obl[p]
      /\ op[o] \notin Concluded
  BY DEF RestoreMerge, Mergeable, IndInv, ETypeOK
<1>3. Corrigible(op'[o], obs[o], att[o]) /\ Proven(op'[o], obs[o], att[o])
  BY <1>1, <1>2 DEF EvidenceRow, Corrigible, Proven
<1>4. Unobserved(op'[o], obs[o]) /\ Owed(op'[o], obl'[o])
  BY <1>2 DEF Unobserved, Owed, Staged, Uncertain
<1>5. Funded(op'[o], obs[o], resv[o], count[o], att[o])
  <2>1. CASE op[o] \in Staged
    BY <1>1, <1>2, <2>1 DEF EvidenceRow, Funded, OperationInv, Concluded
  <2>2. CASE op[o] \in {"ready", "executing"}
    BY <1>1, <1>2, <2>2 DEF EvidenceRow, Funded, OperationInv, Concluded
  <2>3. CASE op[o] \in Uncertain
    BY <1>1, <1>2, <2>3 DEF EvidenceRow, Funded, Uncertain, Concluded
  <2> QED
    BY <1>1, <1>2, <2>1, <2>2, <2>3 DEF OpStates, Staged, Uncertain, Concluded
<1>6. EvidenceRow(op'[o], obs'[o], obl'[o], resv'[o], count'[o], att'[o])
  BY <1>2, <1>3, <1>4, <1>5 DEF EvidenceRow
<1> QED
  BY <1>2, <1>6, OneOperation

(* Reserved keeps the bound. *)
LEMMA ReservedAmount ==
  ASSUME NEW r \in Row
  PROVE  Reserved(r).amount = r.amount
BY DEF Reserved, Row

(* handleAdmit: the first attempt, with its reservation and no evidence. *)
LEMMA AdmitEv ==
  ASSUME IndInv, EvInv, NEW o \in Operations, NEW policy, Admit(o, policy)
  PROVE  EvInv'
<1> DEFINE n == count[o] + 1
           a == NewAttempt("dispatch", 0, Reserved(resv[o]).version)
<1>1. /\ EvidenceRow(op[o], obs[o], obl[o], resv[o], count[o], att[o])
      /\ OperationInv(o) /\ count[o] \in Nat /\ resv[o] \in Row
      /\ att[o] \in [AttemptNos -> Attempt]
      /\ count[o] = 0 => \A i \in AttemptNos : att[o][i].kind = "none"
  BY RowOf
<1>2. op[o] \in {"prepared", "awaiting_review"} /\ count[o] = 0 /\ resv[o].state = "none"
  BY <1>1 DEF Admit, Admissible, OperationInv, Staged
<1>3. /\ op'[o] = "ready" /\ resv'[o] = Reserved(resv[o])
      /\ UNCHANGED <<obs, obl>>
      /\ att'[o] = [att[o] EXCEPT ![n] = a]
      /\ \A p \in Operations \ {o} :
           op'[p] = op[p] /\ resv'[p] = resv[p] /\ count'[p] = count[p] /\ att'[p] = att[p]
  BY DEF Admit, IndInv, ETypeOK
<1>4. a.kind = "dispatch"
  BY DEF NewAttempt
<1> HIDE DEF a
<1>5. \A i \in AttemptNos : att'[o][i].kind # "reconciliation"
  BY <1>1, <1>2, <1>3, <1>4
<1>6. obs[o] = <<>> /\ obl[o] \cap {"reconcile", "confirm"} = {}
  BY <1>1, <1>2 DEF EvidenceRow, Unobserved, Owed, Staged, Uncertain
<1>7. \A i : By(obs[o], i) = {}
  BY <1>6 DEF By
<1>8. Corrigible(op'[o], obs[o], att'[o])
  BY <1>7 DEF Corrigible, KnownStays, OnlyUnknown
<1>9. Unobserved(op'[o], obs[o]) /\ Owed(op'[o], obl[o])
  BY <1>3, <1>6 DEF Unobserved, Owed, Uncertain
<1>10. Funded(op'[o], obs[o], resv'[o], count'[o], att'[o])
  BY <1>3, <1>5 DEF Funded, Concluded
<1>11. Proven(op'[o], obs[o], att'[o])
  BY <1>3 DEF Proven
<1>12. EvidenceRow(op'[o], obs'[o], obl'[o], resv'[o], count'[o], att'[o])
  BY <1>3, <1>8, <1>9, <1>10, <1>11 DEF EvidenceRow
<1> QED
  BY <1>3, <1>12, OneOperation

(* admitReconciliationRead: an uncertain operation stays uncertain, and only  *)
(* a free one gets a read.                                                    *)
LEMMA AdmitReadEv ==
  ASSUME IndInv, EvInv, NEW o \in Operations, NEW policy, AdmitRead(o, policy),
         obl' \in {obl, [obl EXCEPT ![o] = @ \cup {"reconcile"}]}
  PROVE  EvInv'
<1> DEFINE n == count[o] + 1
           a == NewAttempt("reconciliation", Max(DispatchAttempts(o)), Reserved(resv[o]).version)
<1>1. /\ EvidenceRow(op[o], obs[o], obl[o], resv[o], count[o], att[o])
      /\ count[o] \in Nat /\ resv[o] \in Row
      /\ att[o] \in [AttemptNos -> Attempt]
  BY RowOf
<1>2. op[o] \in Uncertain /\ resv[o].amount = 0 /\ count[o] < MaxAttempts
  BY DEF AdmitRead
<1>3. /\ op'[o] = op[o] /\ resv'[o] = Reserved(resv[o])
      /\ UNCHANGED obs
      /\ att'[o] = [att[o] EXCEPT ![n] = a]
      /\ \A p \in Operations \ {o} :
           op'[p] = op[p] /\ resv'[p] = resv[p] /\ count'[p] = count[p] /\ att'[p] = att[p]
  BY DEF AdmitRead, IndInv, ETypeOK
<1>4. a.kind = "reconciliation"
  BY DEF NewAttempt
<1> HIDE DEF a
<1>5. n \in AttemptNos /\ att[o][n].kind = "none"
  <2>1. n \in AttemptNos /\ ~(n <= count[o])
    BY <1>1, <1>2, EffectsAssumption DEF AttemptNos
  <2> QED
    BY <2>1, ZenonT(40) DEF IndInv, ETypeOK, AttemptInv
<1>6. /\ Dispatches(att'[o]) = Dispatches(att[o])
      /\ \A i \in Dispatches(att[o]) : att'[o][i] = att[o][i]
  BY <1>1, <1>3, <1>4, <1>5 DEF Dispatches
<1>7. resv'[o].amount = 0
  BY <1>1, <1>2, <1>3, ReservedAmount
<1>8. obl'[o] \in {obl[o], obl[o] \cup {"reconcile"}} /\ \A p \in Operations \ {o} : obl'[p] = obl[p]
  BY DEF IndInv, ETypeOK
<1>9. Corrigible(op'[o], obs[o], att'[o]) /\ Proven(op'[o], obs[o], att'[o])
  BY <1>1, <1>3, <1>6 DEF EvidenceRow, Corrigible, Proven
<1>10. Unobserved(op'[o], obs[o]) /\ Owed(op'[o], obl'[o])
  BY <1>1, <1>2, <1>3, <1>8 DEF EvidenceRow, Unobserved, Owed
<1>11. Funded(op'[o], obs[o], resv'[o], count'[o], att'[o])
  BY <1>1, <1>2, <1>3, <1>6, <1>7 DEF EvidenceRow, Funded, Uncertain, Concluded
<1>12. EvidenceRow(op'[o], obs'[o], obl'[o], resv'[o], count'[o], att'[o])
  BY <1>3, <1>9, <1>10, <1>11 DEF EvidenceRow
<1> QED
  BY <1>3, <1>8, <1>12, OneOperation

(* handleClaim: a dispatch is claimed without evidence, on a reserved bound;  *)
(* the claim of a read changes no state and no dispatch attempt.              *)
LEMMA ClaimEv ==
  ASSUME IndInv, EvInv, NEW o \in Operations, NEW n \in AttemptNos, NEW policy,
         Claim(o, n, policy)
  PROVE  EvInv'
<1> DEFINE a == [att[o][n] EXCEPT !.consumed = TRUE, !.state = "claimed"]
<1>1. /\ EvidenceRow(op[o], obs[o], obl[o], resv[o], count[o], att[o])
      /\ OperationInv(o) /\ att[o] \in [AttemptNos -> Attempt] /\ att[o][n] \in Attempt
  BY RowOf
<1>2. a.kind = att[o][n].kind
  BY <1>1 DEF Attempt
<1>3. /\ UNCHANGED <<obs, obl, resv, count>>
      /\ att'[o] = [att[o] EXCEPT ![n] = a]
      /\ op'[o] = IF att[o][n].kind = "reconciliation" THEN op[o] ELSE "executing"
      /\ att[o][n].kind # "reconciliation" => op[o] = "ready"
      /\ \A p \in Operations \ {o} : op'[p] = op[p] /\ att'[p] = att[p]
  BY DEF Claim, ClaimableState, IndInv, ETypeOK
<1> HIDE DEF a
<1>4. \A i \in AttemptNos : att'[o][i].kind = att[o][i].kind
  BY <1>1, <1>2, <1>3
<1>5. Dispatches(att'[o]) = Dispatches(att[o])
  BY <1>4 DEF Dispatches
<1>6. CASE att[o][n].kind = "reconciliation"
  <2>1. \A i \in Dispatches(att[o]) : att'[o][i] = att[o][i]
    BY <1>1, <1>3, <1>6 DEF Dispatches
  <2>2. op'[o] = op[o]
    BY <1>3, <1>6
  <2>3. EvidenceRow(op[o], obs[o], obl[o], resv[o], count[o], att'[o])
    BY <1>1, <1>4, <1>5, <2>1 DEF EvidenceRow, Corrigible, Proven, Funded
  <2> QED
    BY <1>3, <2>2, <2>3, OneOperation
<1>7. CASE att[o][n].kind # "reconciliation"
  <2>1. op[o] = "ready" /\ op'[o] = "executing" /\ resv[o].state = "reserved" /\ obs[o] = <<>>
    BY <1>1, <1>3, <1>7 DEF OperationInv, EvidenceRow, Unobserved
  <2>2. Corrigible(op'[o], obs[o], att'[o])
    BY <1>1, <1>5, <2>1 DEF EvidenceRow, Corrigible
  <2>3. Proven(op'[o], obs[o], att'[o])
    BY <2>1 DEF Proven
  <2>4. Unobserved(op'[o], obs[o]) /\ Owed(op'[o], obl[o])
    BY <1>1, <2>1 DEF EvidenceRow, Unobserved, Owed, Uncertain
  <2>5. Funded(op'[o], obs[o], resv[o], count[o], att'[o])
    BY <1>1, <1>4, <2>1 DEF EvidenceRow, Funded, Concluded
  <2>6. EvidenceRow(op'[o], obs'[o], obl'[o], resv'[o], count'[o], att'[o])
    BY <1>3, <2>2, <2>3, <2>4, <2>5 DEF EvidenceRow
  <2> QED
    BY <1>3, <2>6, OneOperation
<1> QED
  BY <1>6, <1>7

(* settle_ops.go: a settled row is reserved no more, and keeps its bound. *)
LEMMA SettledRowIs ==
  ASSUME NEW r \in Row, NEW u \in Usage, NEW n \in BOOLEAN
  PROVE  Settled(r, u, n).state # "reserved" /\ Settled(r, u, n).amount = r.amount
<1> DEFINE to == SettledState(r, u, n)
           r1 == [r EXCEPT !.state = to]
           r2 == [r1 EXCEPT !.version = r.version + 1]
           r3 == [r2 EXCEPT !.usage = u]
<1>1. to \in {"unknown", "settled", "released"} /\ to \in RowStates
  BY DEF SettledState, RowStates
<1> HIDE DEF to
<1>2. r1 \in Row /\ r1.state = to /\ r1.amount = r.amount
  BY <1>1 DEF Row
<1> HIDE DEF r1
<1>3. r2 \in Row /\ r2.state = to /\ r2.amount = r.amount
  BY <1>2 DEF Row
<1> HIDE DEF r2
<1>4. r3 \in Row /\ r3.state = to /\ r3.amount = r.amount
  BY <1>3 DEF Row
<1>5. r3 = SettledRow(r, u, n)
  BY DEF r1, r2, to, SettledRow
<1> QED
  BY <1>1, <1>4, <1>5 DEF Settled, Terminal

(* A dispute adds evidence that is not unknown, and no conclusion rests on it. *)
LEMMA RecordDisputeEv ==
  ASSUME IndInv, EvInv, LateUnknown = FALSE, NEW o \in Operations, NEW i \in AttemptNos,
         NEW d \in Dispositions, RecordDispute(o, i, d)
  PROVE  EvInv'
<1> DEFINE s == obs[o]
           x == op[o]
           e == Entry(i, "dispute", d)
           t == Append(s, e)
<1>1. /\ EvidenceRow(x, s, obl[o], resv[o], count[o], att[o])
      /\ s \in Seq(Observation)
  BY RowOf
<1>2. e \in Observation /\ e.att = i /\ e.disp = d /\ e.kind = "dispute"
  BY DEF Entry, Observation
<1>3. /\ obs'[o] = t /\ obl'[o] = obl[o] \cup {"dispute"}
      /\ UNCHANGED <<op, count, att, resv>>
      /\ \A p \in Operations \ {o} : obs'[p] = obs[p] /\ obl'[p] = obl[p]
      /\ d # "unknown" /\ ObservedBy(o, i) # {}
  BY DEF RecordDispute, IndInv, ETypeOK
<1>4. s # <<>>
  BY <1>3 DEF ObservedBy
<1> HIDE DEF e
<1>5. /\ t \in Seq(Observation) /\ t # <<>>
      /\ \A j, q : Says(t, j, q) <=>
           Says(s, j, q) \/ (e.att = j /\ e.disp = q /\ e.kind # "dispute")
      /\ \A j : KnownStays(s, j) /\ (e.att = j => e.disp # "unknown") => KnownStays(t, j)
      /\ \A j : OnlyUnknown(t, j) =>
           IF e.att = j THEN e.disp = "unknown" ELSE OnlyUnknown(s, j)
      /\ \A A : Doubtful(t, A) <=>
           Doubtful(s, A) /\ (e.att \in A => e.disp \in {"unknown", "not_sent"})
  BY <1>1, <1>2, Appended
<1> HIDE DEF s, t, x
<1>6. Corrigible(x, t, att[o])
  BY <1>1, <1>2, <1>3, <1>5 DEF EvidenceRow, Corrigible
<1>7. Unobserved(x, t)
  BY <1>1, <1>4 DEF EvidenceRow, Unobserved
<1>8. Owed(x, obl'[o])
  BY <1>1, <1>3 DEF EvidenceRow, Owed
<1>9. Funded(x, t, resv[o], count[o], att[o])
  BY <1>1, <1>5 DEF EvidenceRow, Funded
<1>10. Proven(x, t, att[o])
  BY <1>1, <1>2, <1>5 DEF EvidenceRow, Proven
<1>11. EvidenceRow(op'[o], obs'[o], obl'[o], resv'[o], count'[o], att'[o])
  BY <1>3, <1>6, <1>7, <1>8, <1>9, <1>10 DEF EvidenceRow, x
<1> QED
  BY <1>3, <1>11, OneOperation

(* recordDisposition: the first evidence of the one dispatch attempt decides  *)
(* the state, its obligation and its settlement together.                     *)
LEMMA RecordPhysicalEv ==
  ASSUME IndInv, EvInv, NEW o \in Operations, NEW i \in AttemptNos, NEW d \in Dispositions,
         NEW u \in Usage, att[o][i].kind = "dispatch", ObservedBy(o, i) = {},
         RecordPhysical(o, i, d, u)
  PROVE  EvInv'
<1> DEFINE w == att[o][i].state = "claimed"
           b == UnknownAmong(o, 1..Len(obs[o]))
           to == Outcome(d, w, b)
           e == Entry(i, "physical", d)
           t == Append(obs[o], e)
           r == IF Settles(d, w) THEN Settled(resv[o], u, d = "not_sent") ELSE resv[o]
<1>1. /\ EvidenceRow(op[o], obs[o], obl[o], resv[o], count[o], att[o])
      /\ obs[o] \in Seq(Observation) /\ resv[o] \in Row /\ OperationInv(o)
      /\ \A j, k \in Dispatches(att[o]) : j = k
  BY RowOf
<1>2. /\ op[o] \in {"ready", "executing"}
      /\ op'[o] = to /\ obs'[o] = t /\ resv'[o] = r
      /\ obl'[o] = ObligationsAfter(obl[o], to, d)
      /\ att' = [att EXCEPT ![o][i].state = "recorded"]
      /\ UNCHANGED count
      /\ \A p \in Operations \ {o} :
           /\ op'[p] = op[p] /\ obs'[p] = obs[p] /\ resv'[p] = resv[p]
           /\ obl'[p] = obl[p] /\ att'[p] = att[p]
  BY DEF RecordPhysical, IndInv, ETypeOK
<1>3. obs[o] = <<>> /\ resv[o].state = "reserved" /\ obl[o] \cap {"reconcile", "confirm"} = {}
  BY <1>1, <1>2 DEF EvidenceRow, Unobserved, OperationInv, Owed, Funded, Uncertain
<1>4. b = FALSE
  BY <1>3 DEF UnknownAmong
<1>5. e \in Observation /\ e.att = i /\ e.disp = d /\ e.kind = "physical"
  BY DEF Entry, Observation
<1>6. /\ t # <<>>
      /\ \A j, q : Says(t, j, q) <=>
           Says(obs[o], j, q) \/ (e.att = j /\ e.disp = q /\ e.kind # "dispute")
      /\ \A j : OnlyUnknown(t, j) =>
           IF e.att = j THEN e.disp = "unknown" ELSE OnlyUnknown(obs[o], j)
      /\ \A A : Doubtful(t, A) <=>
           Doubtful(obs[o], A) /\ (e.att \in A => e.disp \in {"unknown", "not_sent"})
      /\ \A j : KnownStays(t, j)
  BY <1>1, <1>3, <1>5, Appended
<1>7. ~att[o][i].consumed \/ w
  BY DEF IndInv, AttemptInv, ObservedBy
<1>8. /\ to = "succeeded" <=> d = "succeeded"
      /\ to = "failed" <=> d = "failed" \/ (d = "not_sent" /\ ~w)
      /\ to = "awaiting_confirmation" <=> d = "accepted"
      /\ to \in {"succeeded", "failed", "awaiting_confirmation", "outcome_unknown"}
  BY <1>4 DEF Outcome, Dispositions
<1>9. Settles(d, w) <=> d \in {"succeeded", "accepted", "failed"} \/ (d = "not_sent" /\ ~w)
  BY DEF Settles
<1>10. r.amount = resv[o].amount /\ (Settles(d, w) => r.state # "reserved") /\ (~Settles(d, w) => r = resv[o])
  BY <1>1, SettledRowIs
<1>11. att[o][i].state # "none"
  BY AttemptCounted
<1>12. \A j \in AttemptNos : att'[o][j].kind = att[o][j].kind /\ att'[o][j].consumed = att[o][j].consumed
  BY <1>2, <1>11, AttemptRecorded
<1>13. Dispatches(att'[o]) = Dispatches(att[o]) /\ i \in Dispatches(att[o])
  BY <1>12 DEF Dispatches
<1>14. \A j : By(obs[o], j) = {} /\ ~OnlyUnknown(obs[o], j) /\ \A q : ~Says(obs[o], j, q)
  BY <1>3 DEF By, OnlyUnknown, Says
<1> HIDE DEF w, b, to, e, t, r
<1>15. Corrigible(to, t, att'[o])
  BY <1>1, <1>5, <1>6, <1>8, <1>13, <1>14 DEF Corrigible, Dispositions
<1>16. Unobserved(to, t)
  BY <1>8 DEF Unobserved, Staged
<1>17. Owed(to, obl'[o])
  BY <1>2, <1>3, <1>8 DEF Owed, Uncertain, Concluded, ObligationsAfter, Resolved, Dispositions
<1>18. Funded(to, t, r, count[o], att'[o])
  <2>1. \A j \in AttemptNos : att'[o][j].kind = "reconciliation" => r.amount = 0
    BY <1>1, <1>10, <1>12 DEF EvidenceRow, Funded
  <2>2. to \in Concluded => r.state # "reserved"
    BY <1>8, <1>9, <1>10 DEF Concluded
  <2>3. to = "awaiting_confirmation" => ~Doubtful(t, Dispatches(att'[o]))
    BY <1>5, <1>6, <1>8, <1>13
  <2>4. to = "outcome_unknown" /\ Doubtful(t, Dispatches(att'[o])) => r.state = "reserved"
    BY <1>3, <1>5, <1>6, <1>8, <1>9, <1>10, <1>13
  <2> QED
    BY <1>8, <2>1, <2>2, <2>3, <2>4 DEF Funded
<1>19. Proven(to, t, att'[o])
  <2> SUFFICES ASSUME NEW j \in Dispatches(att'[o])
               PROVE  /\ to = "succeeded" => Says(t, j, "succeeded")
                      /\ (to = "failed" /\ att'[o][j].consumed) =>
                           Says(t, j, "failed") /\ \A k \in AttemptNos \ {j} : ~Says(t, k, "unknown")
    BY DEF Proven
  <2>1. j = i /\ j \in AttemptNos
    BY <1>1, <1>13 DEF Dispatches
  <2>2. att'[o][j].consumed => w
    BY <1>7, <1>12, <2>1
  <2> QED
    BY <1>5, <1>6, <1>8, <1>14, <2>1, <2>2
<1>20. EvidenceRow(op'[o], obs'[o], obl'[o], resv'[o], count'[o], att'[o])
  BY <1>2, <1>15, <1>16, <1>17, <1>18, <1>19 DEF EvidenceRow
<1> QED
  BY <1>2, <1>20, OneOperation

(* A correction of an unknown outcome meets an outcome_unknown operation,     *)
(* settles what it concludes, and a failure concludes only without another    *)
(* unknown answer.                                                            *)
LEMMA RecordCorrectionEv ==
  ASSUME IndInv, EvInv, NEW o \in Operations, NEW i \in AttemptNos, NEW d \in Dispositions,
         NEW u \in Usage, RecordCorrection(o, i, d, u)
  PROVE  EvInv' /\ op[o] = "outcome_unknown"
<1> DEFINE s == obs[o]
           last == Max(ObservedBy(o, i))
           b == UnknownAmong(o, (1..Len(obs[o])) \ {last})
           to == Outcome(d, TRUE, b)
           e == Entry(i, "correction", d)
           t == Append(s, e)
           r == IF Settles(d, TRUE) THEN Settled(resv[o], u, FALSE) ELSE resv[o]
<1>1. /\ EvidenceRow(op[o], s, obl[o], resv[o], count[o], att[o])
      /\ s \in Seq(Observation) /\ resv[o] \in Row
      /\ \A j, k \in Dispatches(att[o]) : j = k
  BY RowOf
<1>2. /\ d # "unknown" /\ att[o][i].kind = "dispatch"
      /\ By(s, i) # {} /\ s[Max(By(s, i))].disp = "unknown"
      /\ op'[o] = to /\ obs'[o] = t /\ resv'[o] = r
      /\ obl'[o] = IF d = "not_sent" THEN obl[o] ELSE ObligationsAfter(obl[o], to, d)
      /\ UNCHANGED <<count, att>>
      /\ \A p \in Operations \ {o} :
           op'[p] = op[p] /\ obs'[p] = obs[p] /\ resv'[p] = resv[p] /\ obl'[p] = obl[p]
  BY DEF RecordCorrection, IndInv, ETypeOK, ObservedBy, By, Prior
<1>3. i \in Dispatches(att[o])
  BY <1>2 DEF Dispatches
<1>4. op[o] = "outcome_unknown"
  <2>1. KnownStays(s, i) /\ (OnlyUnknown(s, i) => op[o] = "outcome_unknown")
    BY <1>1, <1>3 DEF EvidenceRow, Corrigible
  <2>2. OnlyUnknown(s, i)
    BY <1>1, <1>2, <2>1, LastUnknown
  <2> QED
    BY <2>1, <2>2
<1>5. last \in By(s, i)
  <2>1. By(s, i) = ObservedBy(o, i)
    BY DEF By, ObservedBy
  <2> QED
    BY <1>1, <1>2, <2>1, LastObservation
<1>6. ASSUME ~b, NEW j \in AttemptNos \ {i}
      PROVE  ~Says(s, j, "unknown")
  <2>1. ASSUME NEW k \in 1..Len(s), s[k].att = j, s[k].disp = "unknown"
        PROVE  FALSE
    <3>1. k # last
      BY <1>5, <1>6, <2>1 DEF By
    <3> QED
      BY <1>6, <2>1, <3>1 DEF UnknownAmong
  <2> QED
    BY <2>1 DEF Says
<1>7. e \in Observation /\ e.att = i /\ e.disp = d /\ e.kind = "correction"
  BY DEF Entry, Observation
<1> HIDE DEF e
<1>8. /\ t # <<>>
      /\ \A j, q : Says(t, j, q) <=>
           Says(s, j, q) \/ (e.att = j /\ e.disp = q /\ e.kind # "dispute")
      /\ \A j : KnownStays(s, j) /\ (e.att = j => e.disp # "unknown") => KnownStays(t, j)
      /\ \A j : OnlyUnknown(t, j) =>
           IF e.att = j THEN e.disp = "unknown" ELSE OnlyUnknown(s, j)
      /\ \A A : Doubtful(t, A) <=>
           Doubtful(s, A) /\ (e.att \in A => e.disp \in {"unknown", "not_sent"})
  BY <1>1, <1>7, Appended
<1>9. /\ to = "succeeded" <=> d = "succeeded"
      /\ to = "failed" <=> d = "failed" /\ ~b
      /\ to = "awaiting_confirmation" <=> d = "accepted"
      /\ to \in {"succeeded", "failed", "awaiting_confirmation", "outcome_unknown"}
  BY <1>2 DEF Outcome, Dispositions
<1>10. Settles(d, TRUE) <=> d \in {"succeeded", "accepted", "failed"}
  BY DEF Settles
<1>11. /\ r.amount = resv[o].amount /\ (Settles(d, TRUE) => r.state # "reserved")
       /\ (~Settles(d, TRUE) => r = resv[o])
  BY <1>1, SettledRowIs
<1> HIDE DEF s, b, to, t, r, last
<1>12. Corrigible(to, t, att[o])
  <2> SUFFICES ASSUME NEW j \in Dispatches(att[o])
               PROVE  KnownStays(t, j) /\ ~OnlyUnknown(t, j)
    BY DEF Corrigible
  <2>1. j = i
    BY <1>1, <1>3
  <2>2. KnownStays(s, i)
    BY <1>1, <1>3 DEF EvidenceRow, Corrigible
  <2> QED
    BY <1>2, <1>7, <1>8, <2>1, <2>2
<1>13. Unobserved(to, t)
  BY <1>9 DEF Unobserved, Staged
<1>14. Owed(to, obl'[o])
  <2>1. obl[o] \ {"dispute"} # {}
    BY <1>1, <1>4 DEF EvidenceRow, Owed, Uncertain
  <2>2. CASE to \in Concluded
    <3>1. obl'[o] = Resolved(obl[o])
      BY <1>2, <1>9, <2>2 DEF ObligationsAfter, Concluded
    <3> QED
      BY <2>2, <3>1 DEF Owed, Uncertain, Concluded, Resolved
  <2>3. CASE to \notin Concluded
    <3>1. obl[o] \subseteq obl'[o]
      BY <1>2, <2>3 DEF ObligationsAfter
    <3>2. to \in Uncertain
      BY <1>9, <2>3 DEF Concluded, Uncertain
    <3> QED
      BY <2>1, <3>1, <3>2 DEF Owed
  <2> QED
    BY <2>2, <2>3
<1>15. Funded(to, t, r, count[o], att[o])
  <2>1. \A j \in AttemptNos : att[o][j].kind = "reconciliation" => r.amount = 0
    BY <1>1, <1>11 DEF EvidenceRow, Funded
  <2>2. to \in Concluded => r.state # "reserved"
    BY <1>9, <1>10, <1>11 DEF Concluded
  <2>3. to = "awaiting_confirmation" => ~Doubtful(t, Dispatches(att[o]))
    BY <1>3, <1>7, <1>8, <1>9
  <2>4. (to = "outcome_unknown" /\ count[o] > 0 /\ Doubtful(t, Dispatches(att[o])) /\ r.amount > 0) =>
          r.state = "reserved"
    BY <1>1, <1>3, <1>4, <1>7, <1>8, <1>10, <1>11 DEF EvidenceRow, Funded
  <2> QED
    BY <1>9, <2>1, <2>2, <2>3, <2>4 DEF Funded
<1>16. Proven(to, t, att[o])
  <2> SUFFICES ASSUME NEW j \in Dispatches(att[o])
               PROVE  /\ to = "succeeded" => Says(t, j, "succeeded")
                      /\ to = "failed" =>
                           Says(t, j, "failed") /\ \A k \in AttemptNos \ {j} : ~Says(t, k, "unknown")
    BY DEF Proven
  <2>1. j = i
    BY <1>1, <1>3
  <2> QED
    BY <1>6, <1>7, <1>8, <1>9, <2>1
<1>17. EvidenceRow(op'[o], obs'[o], obl'[o], resv'[o], count'[o], att'[o])
  BY <1>2, <1>12, <1>13, <1>14, <1>15, <1>16 DEF EvidenceRow
<1> QED
  BY <1>2, <1>4, <1>17, OneOperation

(* Two rows appended in one transaction are appended one after the other. *)
LEMMA AppendedTwo ==
  ASSUME NEW s \in Seq(Observation), NEW e \in Observation, NEW f \in Observation
  PROVE  s \o <<e>> = Append(s, e) /\ s \o <<e, f>> = Append(Append(s, e), f)
OBVIOUS

(* A read's answer corrects the one dispatch attempt it is about, and only an *)
(* answer that concludes changes the state.                                   *)
LEMMA ReconciliationRecordEv ==
  ASSUME IndInv, EvInv, NEW o \in Operations, NEW i \in AttemptNos, NEW d \in Dispositions,
         NEW u \in Usage, ReconciliationRecord(o, i, d, u)
  PROVE  EvInv' /\ op[o] \in Uncertain
<1> DEFINE s == obs[o]
           x == op[o]
           g == att[o][i].target
           auth == d \in {"succeeded", "failed"}
           mid == Settled(resv[o], u, FALSE)
           r == IF auth THEN Settled(mid, u, FALSE) ELSE mid
           to == ReadOutcome(o, d, g)
           e == Entry(i, "physical", d)
           f == Entry(g, "correction", d)
           s1 == Append(s, e)
           s2 == Append(s1, f)
           t == IF auth THEN s2 ELSE s1
<1>1. /\ EvidenceRow(x, s, obl[o], resv[o], count[o], att[o])
      /\ s \in Seq(Observation) /\ resv[o] \in Row
      /\ \A j, k \in Dispatches(att[o]) : j = k
      /\ Dispatches(att[o]) = DispatchAttempts(o)
  BY RowOf
<1>2. /\ att[o][i].kind = "reconciliation" /\ x \in Uncertain
      /\ att' = [att EXCEPT ![o][i].state = "recorded"]
      /\ op'[o] = to /\ resv'[o] = r
      /\ obl'[o] = IF to \in Concluded THEN Resolved(obl[o]) ELSE obl[o]
      /\ obs'[o] = s \o (IF auth THEN <<e, f>> ELSE <<e>>)
      /\ UNCHANGED count
      /\ \A p \in Operations \ {o} :
           /\ op'[p] = op[p] /\ obs'[p] = obs[p] /\ resv'[p] = resv[p]
           /\ obl'[p] = obl[p] /\ att'[p] = att[p]
  BY DEF ReconciliationRecord, IndInv, ETypeOK
<1>3. g \in Dispatches(att[o]) /\ g \in AttemptNos /\ g # i
  BY <1>1, <1>2 DEF IndInv, AttemptInv, DispatchAttempts
<1>4. /\ e \in Observation /\ e.att = i /\ e.disp = d /\ e.kind = "physical"
      /\ f \in Observation /\ f.att = g /\ f.disp = d /\ f.kind = "correction"
  BY <1>3 DEF Entry, Observation
<1>5. ASSUME d = "failed", to = "failed", NEW k \in AttemptNos \ {g}
      PROVE  ~Says(s, k, "unknown")
  BY <1>5 DEF ReadOutcome, UnknownAmong, Says
<1>6. /\ to = "succeeded" <=> d = "succeeded"
      /\ to = "failed" => d = "failed"
      /\ ~auth => to = x
      /\ to \in {"succeeded", "failed", "outcome_unknown", x}
      /\ d = "failed" => to # "awaiting_confirmation"
  BY <1>2 DEF ReadOutcome, Uncertain
<1>7. r.amount = resv[o].amount /\ r.state # "reserved" /\ resv[o].amount = 0
  <2>1. mid \in Row /\ mid.state # "reserved" /\ mid.amount = resv[o].amount
    BY <1>1, SettledType, SettledRowIs
  <2> HIDE DEF mid
  <2>2. Settled(mid, u, FALSE).state # "reserved" /\ Settled(mid, u, FALSE).amount = mid.amount
    BY <2>1, SettledRowIs
  <2>3. resv[o].amount = 0
    BY <1>1, <1>2 DEF EvidenceRow, Funded
  <2> QED
    BY <2>1, <2>2, <2>3
<1>8. att[o][i].state # "none"
  BY <1>2, AttemptCounted
<1>9. \A j \in AttemptNos : att'[o][j].kind = att[o][j].kind /\ att'[o][j].consumed = att[o][j].consumed
  BY <1>2, <1>8, AttemptRecorded
<1>10. Dispatches(att'[o]) = Dispatches(att[o])
  BY <1>9 DEF Dispatches
<1> HIDE DEF s, x, g, mid, r, to, e, f
<1>11. obs'[o] = t
  BY <1>1, <1>2, <1>4, AppendedTwo
<1>12. /\ s1 \in Seq(Observation) /\ s1 # <<>>
       /\ \A j, q : Says(s1, j, q) <=>
            Says(s, j, q) \/ (e.att = j /\ e.disp = q /\ e.kind # "dispute")
       /\ \A j : KnownStays(s, j) /\ (e.att = j => e.disp # "unknown") => KnownStays(s1, j)
       /\ \A j : OnlyUnknown(s1, j) =>
            IF e.att = j THEN e.disp = "unknown" ELSE OnlyUnknown(s, j)
       /\ \A A : Doubtful(s1, A) <=>
            Doubtful(s, A) /\ (e.att \in A => e.disp \in {"unknown", "not_sent"})
  BY <1>1, <1>4, Appended
<1> HIDE DEF s1
<1>13. /\ s2 \in Seq(Observation) /\ s2 # <<>>
       /\ \A j, q : Says(s2, j, q) <=>
            Says(s1, j, q) \/ (f.att = j /\ f.disp = q /\ f.kind # "dispute")
       /\ \A j : KnownStays(s1, j) /\ (f.att = j => f.disp # "unknown") => KnownStays(s2, j)
       /\ \A j : OnlyUnknown(s2, j) =>
            IF f.att = j THEN f.disp = "unknown" ELSE OnlyUnknown(s1, j)
  BY <1>4, <1>12, Appended
<1> HIDE DEF s2
<1>14. Corrigible(to, t, att'[o])
  <2> SUFFICES ASSUME NEW j \in Dispatches(att[o])
               PROVE  KnownStays(t, j) /\ (OnlyUnknown(t, j) => to = "outcome_unknown")
    BY <1>10 DEF Corrigible
  <2>1. j = g
    BY <1>1, <1>3
  <2>2. KnownStays(s, g) /\ (OnlyUnknown(s, g) => x = "outcome_unknown")
    BY <1>1, <1>3 DEF EvidenceRow, Corrigible
  <2>3. KnownStays(s1, g) /\ (OnlyUnknown(s1, g) => x = "outcome_unknown")
    BY <1>3, <1>4, <1>12, <2>2
  <2>4. CASE auth
    BY <1>4, <1>13, <2>1, <2>3, <2>4
  <2>5. CASE ~auth
    BY <1>6, <2>1, <2>3, <2>5
  <2> QED
    BY <2>4, <2>5
<1>15. Unobserved(to, t)
  BY <1>2, <1>6 DEF Unobserved, Staged, Uncertain
<1>16. Owed(to, obl'[o])
  <2>1. obl[o] \ {"dispute"} # {}
    BY <1>1, <1>2 DEF EvidenceRow, Owed
  <2>2. CASE to \in Concluded
    BY <1>2, <2>2 DEF Owed, Uncertain, Concluded, Resolved
  <2>3. CASE to \notin Concluded
    <3>1. to \in Uncertain
      BY <1>2, <1>6, <2>3 DEF Concluded, Uncertain
    <3> QED
      BY <1>2, <2>1, <2>3, <3>1 DEF Owed
  <2> QED
    BY <2>2, <2>3
<1>17. Funded(to, t, r, count[o], att'[o])
  <2>1. ASSUME to = "awaiting_confirmation" PROVE ~Doubtful(t, Dispatches(att'[o]))
    <3>1. ~auth /\ x = "awaiting_confirmation"
      BY <1>6, <2>1
    <3>2. ~Doubtful(s, Dispatches(att[o]))
      BY <1>1, <3>1 DEF EvidenceRow, Funded
    <3> QED
      BY <1>10, <1>12, <3>1, <3>2
  <2>2. to # "executing"
    BY <1>2, <1>6 DEF Uncertain
  <2> QED
    BY <1>7, <2>1, <2>2 DEF Funded
<1>18. Proven(to, t, att'[o])
  <2> SUFFICES ASSUME NEW j \in Dispatches(att[o])
               PROVE  /\ to = "succeeded" => Says(t, j, "succeeded")
                      /\ to = "failed" =>
                           Says(t, j, "failed") /\ \A k \in AttemptNos \ {j} : ~Says(t, k, "unknown")
    BY <1>10 DEF Proven
  <2>1. j = g
    BY <1>1, <1>3
  <2>2. to = "succeeded" => Says(t, j, "succeeded")
    BY <1>4, <1>6, <1>13, <2>1
  <2>3. to = "failed" => Says(t, j, "failed")
    BY <1>4, <1>6, <1>13, <2>1
  <2>4. ASSUME to = "failed", NEW k \in AttemptNos \ {j} PROVE ~Says(t, k, "unknown")
    <3>1. d = "failed" /\ ~Says(s, k, "unknown")
      BY <1>5, <1>6, <2>1, <2>4
    <3> QED
      BY <1>4, <1>12, <1>13, <3>1
  <2> QED
    BY <2>2, <2>3, <2>4
<1> HIDE DEF t
<1>19. EvidenceRow(op'[o], obs'[o], obl'[o], resv'[o], count'[o], att'[o])
  BY <1>2, <1>11, <1>14, <1>15, <1>16, <1>17, <1>18 DEF EvidenceRow
<1>20. EvInv'
  BY <1>2, <1>19, OneOperation
<1> QED
  BY <1>2, <1>20 DEF x

(* The empty tables. *)
LEMMA InitEv == EInit => EvInv
<1> SUFFICES ASSUME EInit, NEW o \in Operations
             PROVE  EvidenceRow(op[o], obs[o], obl[o], resv[o], count[o], att[o])
  BY DEF EvInv
<1>1. /\ op[o] = "absent" /\ obs[o] = <<>> /\ obl[o] = {} /\ count[o] = 0
      /\ \A i \in AttemptNos : att[o][i] = NoAttempt
  BY DEF EInit
<1>2. Dispatches(att[o]) = {} /\ \A i \in AttemptNos : att[o][i].kind = "none"
  BY <1>1 DEF Dispatches, NoAttempt
<1>3. Corrigible(op[o], obs[o], att[o]) /\ Proven(op[o], obs[o], att[o])
  BY <1>2 DEF Corrigible, Proven
<1>4. Unobserved(op[o], obs[o]) /\ Owed(op[o], obl[o])
  BY <1>1 DEF Unobserved, Owed, Uncertain
<1>5. Funded(op[o], obs[o], resv[o], count[o], att[o])
  BY <1>1, <1>2 DEF Funded, Concluded
<1> QED
  BY <1>3, <1>4, <1>5 DEF EvidenceRow

(* What a step does to a concluded operation: nothing. *)
Stands == \A o \in Operations : op[o] \in Concluded => op'[o] = op[o]

(* Every handler keeps the evidence in order, and leaves conclusions alone. *)
LEMMA NextEv ==
  ASSUME LateUnknown = FALSE, IndInv, EvInv, [ENext]_evars
  PROVE  EvInv' /\ Stands
<1>0. CASE UNCHANGED <<op, count, att, obs, obl, resv>>
  BY <1>0 DEF EvInv, Stands
<1>1. ASSUME NEW o \in Operations, NEW policy \in {"allow", "review", "deny"},
             Stage(o, policy)
      PROVE  EvInv' /\ Stands
  <2>1. op \in [Operations -> OpStates]
    BY DEF IndInv, ETypeOK
  <2>2. /\ op[o] = "absent" /\ op'[o] \in {"prepared", "awaiting_review", "denied"}
        /\ op' = [op EXCEPT ![o] = op'[o]]
        /\ UNCHANGED <<count, att, obs, obl, resv>>
    BY <1>1, <2>1 DEF Stage
  <2>3. Stands
    BY <2>1, <2>2 DEF Stands, Concluded
  <2> QED
    BY <2>2, <2>3, StagedEv DEF Staged
<1>2. ASSUME NEW o \in Operations, NEW policy \in Policies, Admit(o, policy)
      PROVE  EvInv' /\ Stands
  <2>1. Stands
    BY <1>2 DEF Admit, Admissible, Stands, Concluded, IndInv, ETypeOK
  <2> QED
    BY <1>2, <2>1, AdmitEv
<1>3. ASSUME NEW o \in Operations, NEW policy \in Policies,
             ReconciliationPrepare(o, policy) \/ Reconcile(o, policy)
      PROVE  EvInv' /\ Stands
  <2>1. AdmitRead(o, policy) /\ obl' \in {obl, [obl EXCEPT ![o] = @ \cup {"reconcile"}]}
    BY <1>3 DEF ReconciliationPrepare, Reconcile
  <2>2. Stands
    BY <2>1 DEF AdmitRead, Stands
  <2> QED
    BY <2>1, <2>2, AdmitReadEv
<1>4. ASSUME NEW o \in Operations, NEW policy \in Policies, NEW i \in AttemptNos,
             Claim(o, i, policy)
      PROVE  EvInv' /\ Stands
  <2>1. Stands
    BY <1>4 DEF Claim, ClaimableState, Stands, Concluded, IndInv, ETypeOK
  <2> QED
    BY <1>4, <2>1, ClaimEv
<1>5. ASSUME NEW o \in Operations, NEW to \in {"expired", "denied"}, AdmitRefuses(o, to)
      PROVE  EvInv' /\ Stands
  <2>1. op \in [Operations -> OpStates]
    BY DEF IndInv, ETypeOK
  <2>2. /\ op[o] \in Staged /\ op'[o] \in {"expired", "denied"}
        /\ op' = [op EXCEPT ![o] = op'[o]]
        /\ UNCHANGED <<count, att, obs, obl, resv>>
    BY <1>5, <2>1 DEF AdmitRefuses, Admissible, Staged
  <2>3. Stands
    BY <2>1, <2>2 DEF Stands, Concluded, Staged
  <2> QED
    BY <2>2, <2>3, StagedEv
<1>6. ASSUME NEW o \in Operations, NEW i \in AttemptNos, NEW d \in Dispositions,
             RecordDispute(o, i, d)
      PROVE  EvInv' /\ Stands
  <2>1. Stands
    BY <1>6 DEF RecordDispute, Stands
  <2> QED
    BY <1>6, <2>1, RecordDisputeEv
<1>7. ASSUME NEW o \in Operations, NEW i \in AttemptNos, NEW d \in Dispositions,
             NEW u \in Usage, att[o][i].kind = "dispatch", ObservedBy(o, i) = {},
             RecordPhysical(o, i, d, u)
      PROVE  EvInv' /\ Stands
  <2>1. Stands
    BY <1>7 DEF RecordPhysical, Stands, Concluded, IndInv, ETypeOK
  <2> QED
    BY <1>7, <2>1, RecordPhysicalEv
<1>8. ASSUME NEW o \in Operations, NEW i \in AttemptNos, NEW d \in Dispositions,
             NEW u \in Usages, RecordCorrection(o, i, d, u)
      PROVE  EvInv' /\ Stands
  <2>1. EvInv' /\ op[o] = "outcome_unknown"
    BY <1>8, RecordCorrectionEv, EffectsAssumption
  <2>2. Stands
    BY <1>8, <2>1 DEF RecordCorrection, Stands, Concluded, IndInv, ETypeOK
  <2> QED
    BY <2>1, <2>2
<1>9. ASSUME NEW o \in Operations, NEW i \in AttemptNos, NEW d \in Dispositions,
             NEW u \in Usages, ReconciliationRecord(o, i, d, u)
      PROVE  EvInv' /\ Stands
  <2>1. EvInv' /\ op[o] \in Uncertain
    BY <1>9, ReconciliationRecordEv, EffectsAssumption
  <2>2. Stands
    BY <1>9, <2>1 DEF ReconciliationRecord, Stands, Concluded, Uncertain, IndInv, ETypeOK
  <2> QED
    BY <2>1, <2>2
<1>10. ASSUME NEW o \in Operations, RecordNext(o)
       PROVE  EvInv' /\ Stands
  <2>1. Usages \subseteq Usage
    BY EffectsAssumption
  <2>2. PICK i \in AttemptNos, d \in Dispositions :
          \/ \E u \in Usages : RecordFresh(o, i, d, u) \/ RecordCorrection(o, i, d, u)
                               \/ ReconciliationRecord(o, i, d, u)
          \/ RecordDispute(o, i, d)
    BY <1>10 DEF RecordNext
  <2>3. ASSUME NEW u \in Usages, RecordFresh(o, i, d, u)
        PROVE  EvInv' /\ Stands
    BY <1>7, <2>1, <2>3 DEF RecordFresh
  <2> QED
    BY <1>6, <1>8, <1>9, <2>2, <2>3
<1>11. ASSUME NEW o \in Operations, NEW i \in AttemptNos, RecordSuccessor(o, i)
       PROVE  EvInv' /\ Stands
  <2> DEFINE d == IF att[o][i].state = "claimed" THEN "unknown" ELSE "not_sent"
  <2>1. d \in Dispositions /\ ZeroUsage \in Usage
    BY DEF Dispositions, ZeroUsage, Usage
  <2>2. /\ att[o][i].kind = "dispatch" /\ ObservedBy(o, i) = {}
        /\ RecordPhysical(o, i, d, ZeroUsage)
    BY <1>11 DEF RecordSuccessor
  <2> HIDE DEF d
  <2> QED
    BY <1>7, <2>1, <2>2
<1>12. ASSUME NEW o \in Operations, RestoreMerge(o)
       PROVE  EvInv' /\ Stands
  <2>1. Stands
    BY <1>12 DEF RestoreMerge, Mergeable, Stands, IndInv, ETypeOK
  <2> QED
    BY <1>12, <2>1, RestoreMergeEv
<1>13. ASSUME NEW o \in Operations, Approve(o)
       PROVE  EvInv' /\ Stands
  BY <1>0, <1>13 DEF Approve
<1>14. CASE NextGeneration
  BY <1>0, <1>14 DEF NextGeneration
<1>15. CASE UNCHANGED evars
  BY <1>0, <1>15 DEF evars
<1> QED
  BY <1>1, <1>2, <1>3, <1>4, <1>5, <1>10, <1>11, <1>12, <1>13, <1>14, <1>15 DEF ENext

(* The invariant on evidence, with callers that report no late unknown. *)
LEMMA EvidenceInvariant ==
  ASSUME LateUnknown = FALSE
  PROVE  ESpec => [](IndInv /\ EvInv)
<1>1. IndInv /\ EvInv /\ [ENext]_evars => EvInv'
  BY NextEv
<1> QED
  BY <1>1, InitInd, NextInd, InitEv, PTL DEF ESpec

(* The operators of the properties are those of the rows. *)
LEMMA RowReading ==
  ASSUME NEW o
  PROVE  /\ DispatchAttempts(o) = Dispatches(att[o])
         /\ \A i, d : Evidence(o, i, d) <=> Says(obs[o], i, d)
         /\ Unresolved(o) <=> Doubtful(obs[o], DispatchAttempts(o))
BY DEF DispatchAttempts, Dispatches, Evidence, Says, Unresolved, Doubtful

(* Success is claimed only on evidence of success and failure only on evidence *)
(* of failure with no other answer unknown, for every order of records,        *)
(* corrections, disputes, reads and restores a controller that reports no late *)
(* "unknown" can make (recordDisposition, handleReconciliationRecord).         *)
THEOREM ConclusionsHaveEvidence ==
  ASSUME LateUnknown = FALSE
  PROVE  ESpec => []ConclusionsProven
<1>1. EvInv => ConclusionsProven
  <2> SUFFICES ASSUME EvInv, NEW o \in Operations, NEW i \in DispatchAttempts(o)
               PROVE  /\ op[o] = "succeeded" => Evidence(o, i, "succeeded")
                      /\ (op[o] = "failed" /\ att[o][i].consumed) =>
                           /\ Evidence(o, i, "failed")
                           /\ \A j \in AttemptNos \ {i} : ~Evidence(o, j, "unknown")
    BY DEF ConclusionsProven
  <2> QED
    BY RowReading DEF EvInv, EvidenceRow, Proven
<1> QED
  BY <1>1, EvidenceInvariant, PTL

(* An uncertain operation always has an open obligation and a concluded one    *)
(* leaves none to reconcile or confirm behind (openObligation,                 *)
(* resolveOpenObligations).                                                    *)
THEOREM ObligationsAgree ==
  ASSUME LateUnknown = FALSE
  PROVE  ESpec => []ObligationsMatchState
<1>1. EvInv => ObligationsMatchState
  BY DEF EvInv, EvidenceRow, Owed, ObligationsMatchState, Uncertain, Concluded
<1> QED
  BY <1>1, EvidenceInvariant, PTL

(* No conclusion leaves its reservation merely reserved (settleReservation). *)
THEOREM ConclusionsSettle ==
  ASSUME LateUnknown = FALSE
  PROVE  ESpec => []ConcludedSettles
<1>1. EvInv => ConcludedSettles
  BY DEF EvInv, EvidenceRow, Funded, ConcludedSettles
<1> QED
  BY <1>1, EvidenceInvariant, PTL

(* A paid operation keeps its whole reservation for as long as nothing but     *)
(* unknown or claimed not-sent evidence is recorded (recordDisposition).       *)
THEOREM PaidUncertaintyIsHeld ==
  ASSUME LateUnknown = FALSE
  PROVE  ESpec => []PaidUncertaintyRetains
<1>1. EvInv => PaidUncertaintyRetains
  <2> SUFFICES ASSUME EvInv, NEW o \in Operations, op[o] = "outcome_unknown", count[o] > 0,
                      Unresolved(o), resv[o].amount > 0
               PROVE  resv[o].state = "reserved"
    BY DEF PaidUncertaintyRetains
  <2> QED
    BY RowReading DEF EvInv, EvidenceRow, Funded
<1> QED
  BY <1>1, EvidenceInvariant, PTL

(* A concluded operation keeps its state, against late evidence, reads and     *)
(* restore merges (transitionOperation).                                       *)
THEOREM ConclusionsAreFinal ==
  ASSUME LateUnknown = FALSE
  PROVE  ESpec => ConclusionsStand
<1>1. IndInv /\ EvInv /\ [ENext]_evars =>
        [\A o \in Operations : op[o] \in Concluded => op'[o] = op[o]]_evars
  BY NextEv DEF Stands
<1> QED
  BY <1>1, EvidenceInvariant, PTL DEF ESpec, ConclusionsStand

================================================================================
