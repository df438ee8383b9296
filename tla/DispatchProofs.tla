----------------------------- MODULE DispatchProofs -----------------------------
(***************************************************************************)
(* Proofs about controllers and the effects owner together, for any number *)
(* of operations, attempts, faults and lifetimes, and whether or not late  *)
(* unknowns are reported: a read attempt reaches its adapter at most once, *)
(* the phase a successor finds on disk bounds what may have happened, and  *)
(* every behaviour implements OneShot.                                     *)
(***************************************************************************)
EXTENDS Dispatch, EffectsProofs

--------------------------------------------------------------------------------
(* The inductive invariant *)

(* The kind of attempt an entry is about. *)
KindOf(x) == IF x[2] = "effect" THEN "dispatch" ELSE "reconciliation"

(* Adapter calls made for an attempt; a dispatch is the only one of its       *)
(* operation.                                                                 *)
Calls(x, i) == IF x[2] = "effect" THEN sent[x[1]] ELSE reads[x[1]][i]

(* A worker, of this controller or of a displaced one, is about to call. *)
Poised(x, i) == <<x, i>> \in orphan \/ (run[x] = "invoke" /\ mem[x].att = i)

(* Who is about to call holds a consumed claim, is alone and the first; and   *)
(* every call was made under a consumed claim.                                *)
CallInv(x, i) ==
  /\ Calls(x, i) <= 1
  /\ Poised(x, i) =>
       /\ Calls(x, i) = 0
       /\ att[x[1]][i].kind = KindOf(x)
       /\ att[x[1]][i].consumed
  /\ ~(<<x, i>> \in orphan /\ run[x] = "invoke" /\ mem[x].att = i)
  /\ Calls(x, i) = 1 =>
       IF x[2] = "effect" THEN \E j \in DispatchAttempts(x[1]) : att[x[1]][j].consumed
       ELSE att[x[1]][i].consumed

(* The adapter was not called for the attempt of line l, and nobody is about  *)
(* to.  For a dispatch this does not depend on the line's knowing its attempt.*)
Untouched(x, l) ==
  \A i \in AttemptNos : x[2] = "effect" \/ l.att = i => Calls(x, i) = 0 /\ ~Poised(x, i)

Spoken == {"observed", "recorded", "done", "refused"}

(* What a line of the journal says, of the running controller's copy as of    *)
(* the one on disk.  The last clause is why late evidence never corrects a    *)
(* dispatch: where the owner holds an unknown of the dispatch attempt, the    *)
(* journal holds the same.                                                    *)
LineInv(x, l) ==
  /\ l.phase \in {"admitted", "claimed", "observed", "recorded"} =>
       l.att \in AttemptNos /\ att[x[1]][l.att].kind = KindOf(x)
  /\ l.phase = "claimed" => att[x[1]][l.att].consumed
  /\ l.phase = "recorded" =>
       \E k \in 1..Len(obs[x[1]]) : obs[x[1]][k].att = l.att /\ obs[x[1]][k].disp = l.disp
  /\ l.phase = "admitting" /\ x[2] = "effect" =>
       \A i \in DispatchAttempts(x[1]) : ~att[x[1]][i].consumed
  /\ l.phase \in {"admitting", "admitted"} => Untouched(x, l)
  /\ x[2] = "effect" =>
       \A k \in 1..Len(obs[x[1]]) :
         obs[x[1]][k].att \in DispatchAttempts(x[1]) /\ obs[x[1]][k].disp = "unknown" =>
           l.phase \in Spoken /\ l.disp = "unknown"

(* The step an entry is at agrees with its phase, and the line on disk is not *)
(* behind the controller's copy.                                              *)
StepInv(x) ==
  /\ run[x] = "claim" => mem[x].phase = "admitted"
  /\ run[x] \in {"invoke", "return"} => mem[x].phase = "claimed"
  /\ run[x] = "record" => mem[x].phase = "observed"
  /\ run[x] = "deliver" => mem[x].phase = "recorded"
  /\ mem[x].phase = "admitted" => disk[x].phase # "admitting"
  /\ mem[x].phase = "observed" =>
       disk[x].phase \in {"observed", "recorded", "refused"} /\ disk[x].disp = mem[x].disp

(* An operation that was given up before its admission has no attempts, and   *)
(* observations are of attempts that exist.                                   *)
OwnerInv(o) ==
  /\ op[o] \in {"denied", "expired"} => count[o] = 0
  /\ \A k \in 1..Len(obs[o]) : att[o][obs[o][k].att].kind # "none"

(* What the loop found staged at the start of the part is staged when it      *)
(* comes to it: nobody else admits.                                           *)
VisitInv(o) ==
  pass = "admit" /\ <<o, "effect">> \in visit =>
    Admissible(o) \/ mem[<<o, "effect">>].phase = "admitted"

(* The copies of the last line of an entry. *)
Lines(x) == {mem[x], disk[x]}

ItemInv(x) ==
  /\ \A l \in Lines(x) : LineInv(x, l)
  /\ StepInv(x)
  /\ \A i \in AttemptNos : CallInv(x, i)

DInv ==
  /\ IndInv
  /\ DTypeOK
  /\ \A o \in Operations : OwnerInv(o) /\ VisitInv(o)
  /\ \A x \in Items : ItemInv(x)

--------------------------------------------------------------------------------
(* What the owner's handlers do to the rows the journal speaks of *)

(* Attempts keep their kind and their consumed claim, observations stay.      *)
Grows ==
  \A p \in Operations :
    /\ \A i \in AttemptNos :
         /\ att[p][i].kind # "none" => att'[p][i].kind = att[p][i].kind
         /\ att[p][i].consumed => att'[p][i].consumed
    /\ Len(obs[p]) <= Len(obs'[p])
    /\ \A k \in 1..Len(obs[p]) : obs'[p][k] = obs[p][k]

SameRows(p) ==
  /\ op'[p] = op[p] /\ count'[p] = count[p] /\ att'[p] = att[p]
  /\ obs'[p] = obs[p] /\ resv'[p] = resv[p]

(* A handler about operation o. *)
OwnerStep(o) ==
  /\ IndInv'
  /\ OwnerInv(o)'
  /\ \A p \in Operations \ {o} : SameRows(p)
  /\ Grows
  /\ Verdict[o] # "open" => Verdict'[o] = Verdict[o]

(* It consumes no dispatch claim. *)
NoClaim(o) ==
  \A i \in AttemptNos :
    att'[o][i].kind = "dispatch" /\ att'[o][i].consumed =>
      att[o][i].kind = "dispatch" /\ att[o][i].consumed

(* It records no unknown of a dispatch. *)
NoUnknown(o) ==
  \A k \in 1..Len(obs'[o]) :
    att'[o][obs'[o][k].att].kind = "dispatch" /\ obs'[o][k].disp = "unknown" =>
      k \in 1..Len(obs[o]) /\ att[o][obs[o][k].att].kind = "dispatch"

(* The types of one operation's rows. *)
LEMMA RowTypes ==
  ASSUME IndInv
  PROVE  \A p \in Operations :
           /\ op[p] \in OpStates /\ count[p] \in 0..MaxAttempts
           /\ att[p] \in [AttemptNos -> Attempt] /\ obs[p] \in Seq(Observation)
           /\ resv[p] \in Row
BY DEF IndInv, ETypeOK

(* An observation is about an attempt and has a disposition. *)
LEMMA ObservedAttempt ==
  ASSUME IndInv, NEW p \in Operations, NEW k \in 1..Len(obs[p])
  PROVE  obs[p][k].att \in AttemptNos /\ obs[p][k].disp \in Dispositions
<1>1. obs[p] \in Seq(Observation)
  BY RowTypes
<1>2. obs[p][k] \in Observation
  BY <1>1
<1> QED
  BY <1>2 DEF Observation

(* The verdict on an operation, before and after a step. *)
LEMMA VerdictAt ==
  ASSUME NEW o \in Operations
  PROVE  /\ Verdict[o] = IF op[o] \in {"denied", "expired"} \/ resv[o].state = "released"
                         THEN "unsent"
                         ELSE IF op[o] \in {"succeeded", "failed"} THEN op[o] ELSE "open"
         /\ Verdict'[o] = IF op'[o] \in {"denied", "expired"} \/ resv'[o].state = "released"
                          THEN "unsent"
                          ELSE IF op'[o] \in {"succeeded", "failed"} THEN op'[o] ELSE "open"
BY DEF Verdict

(* A verdict stands if the operation's state stands once it is concluded and  *)
(* a released reservation is not touched.                                     *)
LEMMA VerdictStands ==
  ASSUME NEW o \in Operations,
         resv[o].state = "released" => resv'[o].state = "released",
         op[o] \in {"denied", "expired"} => op'[o] = op[o],
         op[o] \in {"succeeded", "failed"} =>
           op'[o] = op[o] /\ (resv'[o].state = "released" => resv[o].state = "released")
  PROVE  Verdict[o] # "open" => Verdict'[o] = Verdict[o]
BY VerdictAt

(* Handlers that write neither attempts, observations nor reservations.       *)
LEMMA QuietOwner ==
  ASSUME IndInv, IndInv', NEW o \in Operations, OwnerInv(o),
         UNCHANGED <<count, att, obs, resv>>,
         \A p \in Operations \ {o} : op'[p] = op[p],
         op[o] \in Concluded => op'[o] = op[o],
         op'[o] \in {"denied", "expired"} => count[o] = 0
  PROVE  OwnerStep(o) /\ NoClaim(o) /\ NoUnknown(o)
<1>1. OwnerInv(o)'
  BY DEF OwnerInv
<1>2. \A p \in Operations \ {o} : SameRows(p)
  BY DEF SameRows
<1>3. Grows
  BY RowTypes DEF Grows
<1>4. Verdict[o] # "open" => Verdict'[o] = Verdict[o]
  BY VerdictStands DEF Concluded
<1>5. NoClaim(o) /\ NoUnknown(o)
  BY DEF NoClaim, NoUnknown
<1> QED
  BY <1>1, <1>2, <1>3, <1>4, <1>5 DEF OwnerStep

(* The owner does nothing. *)
LEMMA OwnerStutters ==
  ASSUME IndInv, \A p \in Operations : OwnerInv(p), UNCHANGED evars
  PROVE  \A o \in Operations : OwnerStep(o) /\ NoClaim(o) /\ NoUnknown(o)
<1> SUFFICES ASSUME NEW o \in Operations PROVE OwnerStep(o) /\ NoClaim(o) /\ NoUnknown(o)
  OBVIOUS
<1>1. IndInv'
  BY NextInd
<1>2. UNCHANGED <<count, att, obs, resv>> /\ op' = op
  BY DEF evars
<1>3. op[o] \in {"denied", "expired"} => count[o] = 0
  BY DEF OwnerInv
<1> QED
  BY <1>1, <1>2, <1>3, QuietOwner

(* A new generation changes no row. *)
LEMMA OwnerGeneration ==
  ASSUME IndInv, \A p \in Operations : OwnerInv(p), NextGeneration
  PROVE  \A o \in Operations : OwnerStep(o) /\ NoClaim(o) /\ NoUnknown(o)
<1> SUFFICES ASSUME NEW o \in Operations PROVE OwnerStep(o) /\ NoClaim(o) /\ NoUnknown(o)
  OBVIOUS
<1>1. IndInv'
  BY NextGenerationStep
<1>2. UNCHANGED <<count, att, obs, resv>> /\ op' = op
  BY DEF NextGeneration
<1>3. op[o] \in {"denied", "expired"} => count[o] = 0
  BY DEF OwnerInv
<1> QED
  BY <1>1, <1>2, <1>3, QuietOwner

(* Staging, approval and a refused admission make no attempt. *)
LEMMA OwnerStages ==
  ASSUME IndInv, \A p \in Operations : OwnerInv(p), NEW o \in Operations,
         \/ \E policy \in {"allow", "review", "deny"} : Stage(o, policy)
         \/ Approve(o)
         \/ \E to \in {"expired", "denied"} : AdmitRefuses(o, to)
  PROVE  OwnerStep(o) /\ NoClaim(o) /\ NoUnknown(o)
<1>1. IndInv'
  BY StageStep, ApproveStep, AdmitRefusesStep
<1>2. UNCHANGED <<count, att, obs, resv>>
  BY DEF Stage, Approve, AdmitRefuses
<1>3. op[o] \in Staged => count[o] = 0
  BY DEF IndInv, OperationInv
<1>4. \A p \in Operations \ {o} : op'[p] = op[p]
  BY DEF Stage, Approve, AdmitRefuses, IndInv, ETypeOK
<1>5. CASE \E policy \in {"allow", "review", "deny"} : Stage(o, policy)
  <2>1. op[o] = "absent"
    BY <1>5 DEF Stage
  <2>2. op[o] \notin Concluded /\ op[o] \in Staged
    BY <2>1 DEF Concluded, Staged
  <2> QED
    BY <1>1, <1>2, <1>3, <1>4, <2>2, QuietOwner
<1>6. CASE Approve(o)
  <2>1. op' = op
    BY <1>6 DEF Approve
  <2>2. op[o] \in {"denied", "expired"} => count[o] = 0
    BY DEF OwnerInv
  <2> QED
    BY <1>1, <1>2, <2>1, <2>2, QuietOwner
<1>7. CASE \E to \in {"expired", "denied"} : AdmitRefuses(o, to)
  <2>1. Admissible(o) /\ op'[o] \in {"denied", "expired"}
    BY <1>7 DEF AdmitRefuses, IndInv, ETypeOK
  <2>2. op[o] \in Staged /\ op[o] \notin Concluded
    BY <2>1 DEF Admissible, Staged, Concluded
  <2> QED
    BY <1>1, <1>2, <1>3, <1>4, <2>1, <2>2, QuietOwner
<1> QED
  BY <1>5, <1>6, <1>7

(* A new attempt joins those that exist; it has no observation yet and its    *)
(* claim is not consumed.                                                     *)
LEMMA AttemptJoins ==
  ASSUME IndInv, IndInv', NEW o \in Operations, OwnerInv(o), NEW n \in AttemptNos,
         att[o][n].kind = "none", att'[o][n].consumed = FALSE,
         \A i \in AttemptNos \ {n} : att'[o][i] = att[o][i],
         obs' = obs,
         \A p \in Operations \ {o} : SameRows(p),
         resv[o].state = "released" => resv'[o].state = "released",
         op[o] \notin Concluded, op'[o] \notin {"denied", "expired"}
  PROVE  OwnerStep(o) /\ NoClaim(o) /\ NoUnknown(o)
<1>1. \A i \in AttemptNos : att[o][i].kind # "none" => att'[o][i] = att[o][i]
  OBVIOUS
<1>2. att[o][n].consumed = FALSE
  <2>1. att[o][n].state = "none" /\ att[o][n] \in Attempt
    BY RowTypes DEF IndInv, AttemptInv
  <2>2. AttemptInv(o, n)
    BY DEF IndInv
  <2>3. ~att[o][n].consumed
    BY <2>1, <2>2 DEF AttemptInv
  <2> QED
    BY <2>1, <2>3 DEF Attempt
<1>3. Grows
  <2> SUFFICES ASSUME NEW p \in Operations
               PROVE  /\ \A i \in AttemptNos :
                           /\ att[p][i].kind # "none" => att'[p][i].kind = att[p][i].kind
                           /\ att[p][i].consumed => att'[p][i].consumed
                      /\ Len(obs[p]) <= Len(obs'[p])
                      /\ \A k \in 1..Len(obs[p]) : obs'[p][k] = obs[p][k]
    BY DEF Grows
  <2>1. Len(obs[p]) <= Len(obs'[p])
    BY RowTypes
  <2> QED
    BY <1>1, <1>2, <2>1 DEF SameRows
<1>4. \A k \in 1..Len(obs[o]) : att'[o][obs[o][k].att] = att[o][obs[o][k].att]
                                /\ att[o][obs[o][k].att].kind # "none"
  BY <1>1, ObservedAttempt DEF OwnerInv
<1>5. OwnerInv(o)'
  BY <1>4 DEF OwnerInv
<1>6. NoClaim(o)
  BY DEF NoClaim
<1>7. NoUnknown(o)
  BY <1>4 DEF NoUnknown
<1>8. Verdict[o] # "open" => Verdict'[o] = Verdict[o]
  BY VerdictStands DEF Concluded
<1> QED
  BY <1>3, <1>5, <1>6, <1>7, <1>8 DEF OwnerStep

(* The row after the last attempt is free. *)
LEMMA FreeRow ==
  ASSUME IndInv, NEW o \in Operations, count[o] < MaxAttempts
  PROVE  count[o] + 1 \in AttemptNos /\ att[o][count[o] + 1].kind = "none"
<1>1. count[o] \in 0..MaxAttempts
  BY RowTypes
<1>2. count[o] + 1 \in AttemptNos /\ ~(count[o] + 1 <= count[o])
  BY <1>1, EffectsAssumption DEF AttemptNos
<1>3. att[o][count[o] + 1].state = "none"
  BY <1>2 DEF IndInv, ETypeOK
<1> QED
  BY <1>2, <1>3 DEF IndInv, AttemptInv

(* An admission makes the first dispatch attempt, unclaimed. *)
LEMMA OwnerAdmits ==
  ASSUME IndInv, \A p \in Operations : OwnerInv(p), NEW o \in Operations, NEW policy,
         Admit(o, policy)
  PROVE  /\ OwnerStep(o) /\ NoClaim(o) /\ NoUnknown(o)
         /\ count[o] + 1 \in AttemptNos
         /\ att'[o][count[o] + 1].kind = "dispatch"
         /\ \A i \in DispatchAttempts(o)' : ~att'[o][i].consumed
<1> DEFINE a == NewAttempt("dispatch", 0, Reserved(resv[o]).version)
<1>1. IndInv'
  BY AdmitStep
<1>2. PICK n \in AttemptNos : n = count[o] + 1 /\ att[o][n].kind = "none"
  BY FreeRow DEF Admit
<1>3. a.kind = "dispatch" /\ a.consumed = FALSE
  BY DEF NewAttempt
<1>4. att' = [att EXCEPT ![o][n] = a] /\ obs' = obs
  BY <1>2 DEF Admit
<1> HIDE DEF a
<1>5. /\ att'[o][n] = a /\ \A i \in AttemptNos \ {n} : att'[o][i] = att[o][i]
      /\ \A p \in Operations \ {o} : att'[p] = att[p]
  BY <1>4 DEF IndInv, ETypeOK
<1>6. \A p \in Operations \ {o} : SameRows(p)
  BY <1>4, <1>5 DEF Admit, IndInv, ETypeOK, SameRows
<1>7. op[o] \notin Concluded /\ op'[o] = "ready" /\ resv[o].state # "released"
  <2>1. op[o] \in Staged /\ op[o] \notin Concluded
    BY DEF Admit, Admissible, Staged, Concluded
  <2>2. resv[o].state = "none"
    BY <2>1 DEF IndInv, OperationInv
  <2> QED
    BY <2>1, <2>2 DEF Admit, IndInv, ETypeOK
<1>8. OwnerStep(o) /\ NoClaim(o) /\ NoUnknown(o)
  BY <1>1, <1>2, <1>3, <1>4, <1>5, <1>6, <1>7, AttemptJoins
<1>9. \A i \in DispatchAttempts(o)' : ~att'[o][i].consumed
  <2>1. n \in DispatchAttempts(o)'
    BY <1>2, <1>3, <1>5 DEF DispatchAttempts
  <2>2. \A i \in DispatchAttempts(o)' : i = n
    BY <1>1, <2>1 DEF IndInv, OneDispatch
  <2> QED
    BY <1>3, <1>5, <2>2
<1> QED
  BY <1>2, <1>3, <1>5, <1>8, <1>9

(* A read that is prepared is a fresh attempt, unclaimed. *)
LEMMA OwnerPrepares ==
  ASSUME IndInv, \A p \in Operations : OwnerInv(p), NEW o \in Operations, NEW policy,
         ReconciliationPrepare(o, policy) \/ Reconcile(o, policy)
  PROVE  /\ OwnerStep(o) /\ NoClaim(o) /\ NoUnknown(o)
         /\ ~Admissible(o)
         /\ count[o] + 1 \in AttemptNos
         /\ att[o][count[o] + 1].kind = "none"
         /\ att'[o][count[o] + 1].kind = "reconciliation"
         /\ ~att'[o][count[o] + 1].consumed
<1> DEFINE a == NewAttempt("reconciliation", Max(DispatchAttempts(o)), Reserved(resv[o]).version)
<1>1. IndInv'
  <2>1. obl' \in [Operations -> SUBSET ObligationKinds]
    BY DEF ReconciliationPrepare, Reconcile, IndInv, ETypeOK, ObligationKinds
  <2> QED
    BY <2>1, AdmitReadStep DEF ReconciliationPrepare, Reconcile
<1>2. AdmitRead(o, policy)
  BY DEF ReconciliationPrepare, Reconcile
<1>3. PICK n \in AttemptNos : n = count[o] + 1 /\ att[o][n].kind = "none"
  BY <1>2, FreeRow DEF AdmitRead
<1>4. a.kind = "reconciliation" /\ a.consumed = FALSE
  BY DEF NewAttempt
<1>5. att' = [att EXCEPT ![o][n] = a] /\ obs' = obs
  BY <1>2, <1>3 DEF AdmitRead
<1> HIDE DEF a
<1>6. /\ att'[o][n] = a /\ \A i \in AttemptNos \ {n} : att'[o][i] = att[o][i]
      /\ \A p \in Operations \ {o} : att'[p] = att[p]
  BY <1>5 DEF IndInv, ETypeOK
<1>7. \A p \in Operations \ {o} : SameRows(p)
  BY <1>2, <1>5, <1>6 DEF AdmitRead, IndInv, ETypeOK, SameRows
<1>8. /\ op[o] \in Uncertain /\ op' = op /\ op[o] \notin Concluded
      /\ op[o] \notin {"denied", "expired"}
  BY <1>2 DEF AdmitRead, Uncertain, Concluded
<1>9. resv'[o] = Reserved(resv[o])
  BY <1>2 DEF AdmitRead, IndInv, ETypeOK
<1>10. resv[o].state = "released" => resv'[o].state = "released"
  BY <1>9 DEF Reserved
<1>11. OwnerStep(o) /\ NoClaim(o) /\ NoUnknown(o)
  BY <1>1, <1>3, <1>4, <1>5, <1>6, <1>7, <1>8, <1>10, AttemptJoins
<1>12. ~Admissible(o)
  BY <1>8 DEF Admissible, Uncertain
<1> QED
  BY <1>3, <1>4, <1>6, <1>11, <1>12

(* A claim consumes one attempt, once, and leaves the others alone. *)
LEMMA OwnerClaims ==
  ASSUME IndInv, \A p \in Operations : OwnerInv(p), NEW o \in Operations,
         NEW n \in AttemptNos, NEW policy, Claim(o, n, policy)
  PROVE  /\ OwnerStep(o) /\ NoUnknown(o)
         /\ ~Admissible(o)
         /\ ~att[o][n].consumed /\ att'[o][n].consumed
         /\ att'[o][n].kind = att[o][n].kind
         /\ \A i \in AttemptNos \ {n} : att'[o][i] = att[o][i]
         /\ att[o][n].kind = "reconciliation" => NoClaim(o)
<1> DEFINE a == [att[o][n] EXCEPT !.consumed = TRUE, !.state = "claimed"]
<1>1. IndInv'
  BY ClaimStep
<1>2. att[o][n] \in Attempt /\ ~att[o][n].consumed
  BY RowTypes DEF Claim, ClaimableState
<1>3. a.kind = att[o][n].kind /\ a.consumed = TRUE
  BY <1>2 DEF Attempt
<1>4. att' = [att EXCEPT ![o][n] = a]
  BY DEF Claim, IndInv, ETypeOK
<1> HIDE DEF a
<1>5. /\ att'[o][n] = a /\ \A i \in AttemptNos \ {n} : att'[o][i] = att[o][i]
      /\ \A p \in Operations \ {o} : att'[p] = att[p]
  BY <1>4 DEF IndInv, ETypeOK
<1>6. UNCHANGED <<count, obs, resv>> /\ \A p \in Operations \ {o} : op'[p] = op[p]
  BY DEF Claim, IndInv, ETypeOK
<1>7. \A p \in Operations \ {o} : SameRows(p)
  BY <1>5, <1>6 DEF SameRows
<1>8. op[o] \in Uncertain \cup {"ready"} /\ op'[o] \in Uncertain \cup {"executing"}
  BY DEF Claim, ClaimableState, IndInv, ETypeOK
<1>9. \A i \in AttemptNos : att'[o][i].kind = att[o][i].kind
  BY <1>3, <1>5
<1>10. Grows
  <2> SUFFICES ASSUME NEW p \in Operations
               PROVE  /\ \A i \in AttemptNos :
                           /\ att[p][i].kind # "none" => att'[p][i].kind = att[p][i].kind
                           /\ att[p][i].consumed => att'[p][i].consumed
                      /\ Len(obs[p]) <= Len(obs'[p])
                      /\ \A k \in 1..Len(obs[p]) : obs'[p][k] = obs[p][k]
    BY DEF Grows
  <2>1. Len(obs[p]) <= Len(obs'[p])
    BY <1>6, RowTypes
  <2> QED
    BY <1>2, <1>5, <1>6, <1>9, <2>1 DEF SameRows
<1>11. \A k \in 1..Len(obs[o]) : att'[o][obs[o][k].att].kind = att[o][obs[o][k].att].kind
  BY <1>9, ObservedAttempt
<1>12. OwnerInv(o)'
  BY <1>6, <1>8, <1>11 DEF OwnerInv, Uncertain
<1>13. NoUnknown(o)
  BY <1>6, <1>11 DEF NoUnknown
<1>14. Verdict[o] # "open" => Verdict'[o] = Verdict[o]
  BY <1>6, <1>8, VerdictStands DEF Uncertain
<1>15. att[o][n].kind = "reconciliation" => NoClaim(o)
  BY <1>5, <1>9 DEF NoClaim
<1>16. ~Admissible(o)
  BY <1>8 DEF Admissible, Uncertain
<1> QED
  BY <1>1, <1>2, <1>3, <1>5, <1>7, <1>10, <1>12, <1>13, <1>14, <1>15, <1>16 DEF OwnerStep

(* What recording observation d of attempt i does. *)
Recorded(o, i, d) ==
  /\ OwnerStep(o)
  /\ NoClaim(o)
  /\ ~Admissible(o)
  /\ \E k \in 1..Len(obs'[o]) : obs'[o][k].att = i /\ obs'[o][k].disp = d
  /\ \A k \in 1..Len(obs'[o]) :
       k \notin 1..Len(obs[o]) /\ obs'[o][k].disp = "unknown" =>
         obs'[o][k].att = i /\ d = "unknown"

(* appendObservation, row by row. *)
LEMMA RowAppended ==
  ASSUME IndInv, NEW o \in Operations, NEW i \in AttemptNos, NEW d \in Dispositions,
         NEW kind \in {"physical", "correction", "dispute"},
         obs' = [obs EXCEPT ![o] = Append(@, Entry(i, kind, d))]
  PROVE  /\ Len(obs[o]) \in Nat /\ Len(obs'[o]) = Len(obs[o]) + 1
         /\ \A k \in 1..Len(obs[o]) : obs'[o][k] = obs[o][k]
         /\ obs'[o][Len(obs[o]) + 1].att = i /\ obs'[o][Len(obs[o]) + 1].disp = d
         /\ \A p \in Operations \ {o} : obs'[p] = obs[p]
<1> DEFINE e == Entry(i, kind, d)
<1>1. e \in Observation /\ e.att = i /\ e.disp = d
  BY DEF Entry, Observation
<1>2. obs \in [Operations -> Seq(Observation)] /\ obs[o] \in Seq(Observation)
  BY DEF IndInv, ETypeOK
<1> HIDE DEF e
<1>3. obs'[o] = Append(obs[o], e) /\ \A p \in Operations \ {o} : obs'[p] = obs[p]
  BY <1>2 DEF e
<1>4. /\ Len(obs[o]) \in Nat /\ Len(Append(obs[o], e)) = Len(obs[o]) + 1
      /\ \A k \in 1..Len(obs[o]) : Append(obs[o], e)[k] = obs[o][k]
      /\ Append(obs[o], e)[Len(obs[o]) + 1] = e
  BY <1>1, <1>2
<1> QED
  BY <1>1, <1>3, <1>4

(* Handlers that add observations and leave attempts but for their state.     *)
LEMMA ObservationsJoinRows ==
  ASSUME IndInv, IndInv', NEW o \in Operations, OwnerInv(o),
         \A i \in AttemptNos :
           att'[o][i].kind = att[o][i].kind /\ att'[o][i].consumed = att[o][i].consumed,
         Len(obs[o]) <= Len(obs'[o]),
         \A k \in 1..Len(obs[o]) : obs'[o][k] = obs[o][k],
         \A k \in 1..Len(obs'[o]) : k \notin 1..Len(obs[o]) => att[o][obs'[o][k].att].kind # "none",
         \A p \in Operations \ {o} : SameRows(p),
         count'[o] = count[o],
         op'[o] \in {"denied", "expired"} => op'[o] = op[o],
         resv[o].state = "released" => resv'[o].state = "released",
         op[o] \in Concluded => op'[o] = op[o] /\ resv'[o] = resv[o]
  PROVE  OwnerStep(o) /\ NoClaim(o)
<1>1. Grows
  <2> SUFFICES ASSUME NEW p \in Operations
               PROVE  /\ \A i \in AttemptNos :
                           /\ att[p][i].kind # "none" => att'[p][i].kind = att[p][i].kind
                           /\ att[p][i].consumed => att'[p][i].consumed
                      /\ Len(obs[p]) <= Len(obs'[p])
                      /\ \A k \in 1..Len(obs[p]) : obs'[p][k] = obs[p][k]
    BY DEF Grows
  <2>1. CASE p = o
    BY <2>1
  <2>2. CASE p # o
    BY <2>2, RowTypes DEF SameRows
  <2> QED
    BY <2>1, <2>2
<1>2. OwnerInv(o)'
  <2>1. ASSUME NEW k \in 1..Len(obs'[o]) PROVE att'[o][obs'[o][k].att].kind # "none"
    <3>1. obs'[o][k].att \in AttemptNos
      <4>1. obs'[o] \in Seq(Observation)
        BY DEF IndInv, ETypeOK
      <4>2. obs'[o][k] \in Observation
        BY <4>1
      <4> QED
        BY <4>2 DEF Observation
    <3>2. CASE k \in 1..Len(obs[o])
      BY <3>1, <3>2 DEF OwnerInv
    <3>3. CASE k \notin 1..Len(obs[o])
      BY <3>1, <3>3
    <3> QED
      BY <3>2, <3>3
  <2>2. op'[o] \in {"denied", "expired"} => count'[o] = 0
    BY DEF OwnerInv
  <2> QED
    BY <2>1, <2>2 DEF OwnerInv
<1>3. Verdict[o] # "open" => Verdict'[o] = Verdict[o]
  BY VerdictStands DEF Concluded
<1>4. NoClaim(o)
  BY DEF NoClaim
<1> QED
  BY <1>1, <1>2, <1>3, <1>4 DEF OwnerStep

(* An attempt with a kind has been counted, so its operation is not staged. *)
LEMMA NotStaged ==
  ASSUME IndInv, NEW o \in Operations, NEW i \in AttemptNos, att[o][i].kind # "none"
  PROVE  ~Admissible(o) /\ op[o] \notin Staged /\ att[o][i].state # "none"
<1>1. att[o][i].state # "none" /\ count[o] # 0
  BY AttemptCounted
<1> QED
  BY <1>1 DEF IndInv, OperationInv, Admissible, Staged

(* A released reservation stays as it is. *)
LEMMA SettledStays ==
  ASSUME NEW r \in Row, NEW u, NEW n, r.state = "released"
  PROVE  Settled(r, u, n) = r
BY DEF Settled, Terminal

(* The first record of an attempt, or one that corrects it. *)
LEMMA OwnerRecordsFresh ==
  ASSUME IndInv, \A p \in Operations : OwnerInv(p), NEW o \in Operations,
         NEW i \in AttemptNos, NEW d \in Dispositions, NEW u \in Usage,
         RecordFresh(o, i, d, u)
  PROVE  Recorded(o, i, d)
<1> DEFINE w == att[o][i].state = "claimed"
           b == UnknownAmong(o, 1..Len(obs[o]))
           to == Outcome(d, w, b)
<1>1. att[o][i].kind = "dispatch" /\ ObservedBy(o, i) = {} /\ RecordPhysical(o, i, d, u)
  BY DEF RecordFresh
<1>2. IndInv'
  BY <1>1, RecordPhysicalStep
<1>3. /\ op[o] \in {"ready", "executing"} /\ op' = [op EXCEPT ![o] = to]
      /\ obs' = [obs EXCEPT ![o] = Append(@, Entry(i, "physical", d))]
      /\ att' = [att EXCEPT ![o][i].state = "recorded"]
      /\ resv' = [resv EXCEPT ![o] = IF Settles(d, w) THEN Settled(@, u, d = "not_sent") ELSE @]
      /\ UNCHANGED <<approved, count, gen>>
  BY <1>1 DEF RecordPhysical
<1>4. to \notin {"denied", "expired"}
  BY DEF Outcome, Dispositions
<1> HIDE DEF to, w, b
<1>5. ~Admissible(o) /\ att[o][i].state # "none"
  BY <1>1, NotStaged
<1>6. /\ \A p \in Operations, j \in AttemptNos :
           att'[p][j].kind = att[p][j].kind /\ att'[p][j].consumed = att[p][j].consumed
      /\ \A p \in Operations \ {o} : att'[p] = att[p]
  BY <1>3, <1>5, AttemptRecorded DEF IndInv, ETypeOK
<1>7. /\ Len(obs[o]) \in Nat /\ Len(obs'[o]) = Len(obs[o]) + 1
      /\ \A k \in 1..Len(obs[o]) : obs'[o][k] = obs[o][k]
      /\ obs'[o][Len(obs[o]) + 1].att = i /\ obs'[o][Len(obs[o]) + 1].disp = d
      /\ \A p \in Operations \ {o} : obs'[p] = obs[p]
  BY <1>3, RowAppended
<1>8. \A k \in 1..Len(obs'[o]) : k \notin 1..Len(obs[o]) => k = Len(obs[o]) + 1
  BY <1>7
<1>9. \A p \in Operations \ {o} : SameRows(p)
  BY <1>3, <1>6, <1>7 DEF SameRows, IndInv, ETypeOK
<1>10. op'[o] = to /\ count'[o] = count[o] /\ op[o] \notin Concluded
  BY <1>3 DEF IndInv, ETypeOK, Concluded
<1>11. resv[o].state = "released" => resv'[o].state = "released"
  <2>1. resv[o] \in Row /\ resv \in [Operations -> Row]
    BY DEF IndInv, ETypeOK
  <2> QED
    BY <1>3, <2>1, SettledStays
<1>12. OwnerStep(o) /\ NoClaim(o)
  BY <1>1, <1>2, <1>4, <1>6, <1>7, <1>8, <1>9, <1>10, <1>11, ObservationsJoinRows
<1>13. Len(obs[o]) + 1 \in 1..Len(obs'[o])
  BY <1>7
<1> QED
  BY <1>5, <1>7, <1>8, <1>12, <1>13 DEF Recorded

(* A record filed as a dispute. *)
LEMMA OwnerRecordsDispute ==
  ASSUME IndInv, \A p \in Operations : OwnerInv(p), NEW o \in Operations,
         NEW i \in AttemptNos, NEW d \in Dispositions, RecordDispute(o, i, d)
  PROVE  Recorded(o, i, d)
<1>1. IndInv'
  BY RecordDisputeStep
<1>2. /\ obs' = [obs EXCEPT ![o] = Append(@, Entry(i, "dispute", d))]
      /\ UNCHANGED <<op, count, att, resv>>
  BY DEF RecordDispute
<1>3. att[o][i].kind # "none"
  BY DEF RecordDispute, ObservedBy, OwnerInv
<1>4. ~Admissible(o)
  BY <1>3, NotStaged
<1>5. /\ Len(obs[o]) \in Nat /\ Len(obs'[o]) = Len(obs[o]) + 1
      /\ \A k \in 1..Len(obs[o]) : obs'[o][k] = obs[o][k]
      /\ obs'[o][Len(obs[o]) + 1].att = i /\ obs'[o][Len(obs[o]) + 1].disp = d
      /\ \A p \in Operations \ {o} : obs'[p] = obs[p]
  BY <1>2, RowAppended
<1>6. \A k \in 1..Len(obs'[o]) : k \notin 1..Len(obs[o]) => k = Len(obs[o]) + 1
  BY <1>5
<1>7. \A p \in Operations \ {o} : SameRows(p)
  BY <1>2, <1>5 DEF SameRows
<1>8. OwnerStep(o) /\ NoClaim(o)
  BY <1>1, <1>2, <1>3, <1>5, <1>6, <1>7, ObservationsJoinRows
<1>9. Len(obs[o]) + 1 \in 1..Len(obs'[o])
  BY <1>5
<1> QED
  BY <1>4, <1>5, <1>6, <1>8, <1>9 DEF Recorded

(* The rows an authoritative read appends say what the provider knows of the  *)
(* dispatch, so they are never unknown.                                       *)
LEMMA OwnerRecordsRead ==
  ASSUME IndInv, \A p \in Operations : OwnerInv(p), NEW o \in Operations,
         NEW i \in AttemptNos, NEW d \in Dispositions, NEW u \in Usage,
         ReconciliationRecord(o, i, d, u)
  PROVE  Recorded(o, i, d)
<1> DEFINE t == att[o][i].target
           auth == d \in {"succeeded", "failed"}
           mid == Settled(resv[o], u, FALSE)
           to == ReadOutcome(o, d, t)
           new == IF auth THEN <<Entry(i, "physical", d), Entry(t, "correction", d)>>
                  ELSE <<Entry(i, "physical", d)>>
<1>1. IndInv'
  BY ReconciliationRecordStep
<1>2. /\ att[o][i].kind = "reconciliation" /\ op[o] \in Uncertain
      /\ att' = [att EXCEPT ![o][i].state = "recorded"]
      /\ obs' = [obs EXCEPT ![o] = @ \o new]
      /\ resv' = [resv EXCEPT ![o] = IF auth THEN Settled(mid, u, FALSE) ELSE mid]
      /\ op' = [op EXCEPT ![o] = to]
      /\ UNCHANGED <<approved, count, gen>>
  BY DEF ReconciliationRecord
<1>3. ~Admissible(o) /\ att[o][i].state # "none"
  BY <1>2, NotStaged
<1>4. t \in AttemptNos /\ att[o][t].kind # "none"
  BY <1>2 DEF IndInv, AttemptInv, DispatchAttempts
<1>5. to \notin {"denied", "expired"}
  BY <1>2 DEF ReadOutcome, Uncertain
<1>6. /\ new \in Seq(Observation) /\ Len(new) \in 1..2
      /\ new[1].att = i /\ new[1].disp = d
      /\ Len(new) = 2 => new[2].att = t /\ new[2].disp = d /\ d # "unknown"
  <2>1. /\ Entry(i, "physical", d) \in Observation
        /\ Entry(t, "correction", d) \in Observation
        /\ Entry(i, "physical", d).att = i /\ Entry(i, "physical", d).disp = d
        /\ Entry(t, "correction", d).att = t /\ Entry(t, "correction", d).disp = d
    BY <1>4 DEF Entry, Observation
  <2>2. CASE auth
    BY <2>1, <2>2
  <2>3. CASE ~auth
    BY <2>1, <2>3
  <2> QED
    BY <2>2, <2>3
<1> HIDE DEF new, to
<1>7. /\ Len(obs[o]) \in Nat /\ Len(obs'[o]) = Len(obs[o]) + Len(new)
      /\ \A k \in 1..Len(obs[o]) : obs'[o][k] = obs[o][k]
      /\ \A k \in 1..Len(new) : obs'[o][Len(obs[o]) + k] = new[k]
      /\ \A p \in Operations \ {o} : obs'[p] = obs[p]
  <2>1. obs \in [Operations -> Seq(Observation)] /\ obs[o] \in Seq(Observation)
    BY DEF IndInv, ETypeOK
  <2>2. obs'[o] = obs[o] \o new /\ \A p \in Operations \ {o} : obs'[p] = obs[p]
    BY <1>2, <2>1
  <2>3. /\ Len(obs[o]) \in Nat /\ Len(obs[o] \o new) = Len(obs[o]) + Len(new)
        /\ \A k \in 1..Len(obs[o]) : (obs[o] \o new)[k] = obs[o][k]
        /\ \A k \in 1..Len(new) : (obs[o] \o new)[Len(obs[o]) + k] = new[k]
    BY <1>6, <2>1
  <2> QED
    BY <2>2, <2>3
<1>8. ASSUME NEW k \in 1..Len(obs'[o]), k \notin 1..Len(obs[o])
      PROVE  /\ obs'[o][k].att \in {i, t}
             /\ obs'[o][k].disp = "unknown" => obs'[o][k].att = i /\ d = "unknown"
  <2>1. PICK j \in 1..Len(new) : k = Len(obs[o]) + j
    <3>1. k - Len(obs[o]) \in 1..Len(new) /\ k = Len(obs[o]) + (k - Len(obs[o]))
      BY <1>6, <1>7, <1>8
    <3> QED
      BY <3>1
  <2>2. obs'[o][k] = new[j]
    BY <1>7, <2>1
  <2>3. j = 1 \/ (j = 2 /\ Len(new) = 2)
    <3>1. PICK m \in 1..2 : m = Len(new)
      BY <1>6
    <3>2. j \in 1..m
      BY <3>1
    <3>3. j = 1 \/ (j = 2 /\ m = 2)
      BY <3>2
    <3> QED
      BY <3>1, <3>3
  <2> QED
    BY <1>6, <2>2, <2>3
<1>9. /\ \A p \in Operations, j \in AttemptNos :
           att'[p][j].kind = att[p][j].kind /\ att'[p][j].consumed = att[p][j].consumed
      /\ \A p \in Operations \ {o} : att'[p] = att[p]
  BY <1>2, <1>3, AttemptRecorded DEF IndInv, ETypeOK
<1>10. \A p \in Operations \ {o} : SameRows(p)
  BY <1>2, <1>7, <1>9 DEF SameRows, IndInv, ETypeOK
<1>11. op'[o] = to /\ count'[o] = count[o] /\ op[o] \notin Concluded
  BY <1>2 DEF IndInv, ETypeOK, Concluded, Uncertain
<1>12. resv[o].state = "released" => resv'[o].state = "released"
  <2>1. resv[o] \in Row /\ resv \in [Operations -> Row]
    BY DEF IndInv, ETypeOK
  <2>2. resv[o].state = "released" => mid = resv[o] /\ Settled(resv[o], u, FALSE) = resv[o]
    BY <2>1, SettledStays
  <2> HIDE DEF mid
  <2> QED
    BY <1>2, <2>1, <2>2
<1>13. Len(obs[o]) <= Len(obs'[o])
  BY <1>6, <1>7
<1>14. \A k \in 1..Len(obs'[o]) : k \notin 1..Len(obs[o]) => att[o][obs'[o][k].att].kind # "none"
  BY <1>2, <1>4, <1>8
<1> HIDE DEF t, mid, auth
<1>15. OwnerStep(o) /\ NoClaim(o)
  BY <1>1, <1>5, <1>7, <1>9, <1>10, <1>11, <1>12, <1>13, <1>14, ObservationsJoinRows
<1>16. Len(obs[o]) + 1 \in 1..Len(obs'[o]) /\ obs'[o][Len(obs[o]) + 1] = new[1]
  BY <1>6, <1>7
<1> QED
  BY <1>3, <1>6, <1>8, <1>15, <1>16 DEF Recorded

(* What a record of the journaled observation comes to: late evidence never   *)
(* corrects a dispatch, since where the owner holds an unknown the journal    *)
(* does too.                                                                  *)
LEMMA OwnerRecordsIt ==
  ASSUME DInv, NEW x \in Items, run[x] = "record", OwnerRecords(x)
  PROVE  /\ mem[x].att \in AttemptNos
         /\ att[x[1]][mem[x].att].kind = KindOf(x)
         /\ \E i \in AttemptNos, d \in Dispositions :
              i = mem[x].att /\ d = mem[x].disp /\ Recorded(x[1], i, d)
<1>1. LineInv(x, mem[x]) /\ mem[x].phase = "observed"
  BY DEF DInv, ItemInv, Lines, StepInv
<1>2. PICK i \in AttemptNos : i = mem[x].att /\ att[x[1]][i].kind = KindOf(x)
  BY <1>1 DEF LineInv
<1>3. mem[x] \in JournalEntry
  BY DEF DInv, DTypeOK
<1>4. PICK d \in Dispositions : d = mem[x].disp
  BY <1>3 DEF JournalEntry
<1>5. PICK u \in Usage : u = mem[x].usage
  BY <1>3 DEF JournalEntry
<1>6. PICK o \in Operations : o = x[1]
  BY DEF Items
<1>7. IndInv /\ \A p \in Operations : OwnerInv(p)
  BY DEF DInv
<1>8. PICK s \in Seq(Observation) : s = obs[o]
  BY <1>7 DEF IndInv, ETypeOK
<1>9. By(s, i) = ObservedBy(o, i)
  BY <1>8 DEF By, ObservedBy
<1>10. ASSUME ObservedBy(o, i) # {}
       PROVE  \E k \in 1..Len(obs[o]) : obs[o][k].att = i /\ obs[o][k].disp = Prior(o, i).disp
  <2>1. Max(By(s, i)) \in By(s, i)
    BY <1>9, <1>10, LastObservation
  <2> QED
    BY <1>8, <1>9, <2>1 DEF Prior, ObservedBy
<1>11. CASE RecordReplays(x[1], mem[x].att, mem[x].disp)
  <2>1. ObservedBy(o, i) # {} /\ Prior(o, i).disp = d /\ UNCHANGED evars
    BY <1>2, <1>4, <1>6, <1>11 DEF RecordReplays
  <2>2. OwnerStep(o) /\ NoClaim(o)
    BY <1>7, <2>1, OwnerStutters
  <2>3. obs' = obs
    BY <2>1 DEF evars
  <2>4. att[o][i].kind # "none"
    BY <1>2, <1>6 DEF KindOf
  <2>5. ~Admissible(o)
    BY <1>7, <2>4, NotStaged
  <2>6. Recorded(o, i, d)
    BY <1>10, <2>1, <2>2, <2>3, <2>5 DEF Recorded
  <2> QED
    BY <1>2, <1>4, <1>6, <2>6
<1>12. CASE RecordDispute(x[1], mem[x].att, mem[x].disp)
  <2>1. RecordDispute(o, i, d)
    BY <1>2, <1>4, <1>6, <1>12
  <2>2. Recorded(o, i, d)
    BY <1>7, <2>1, OwnerRecordsDispute
  <2> QED
    BY <1>2, <1>4, <1>6, <2>2
<1>13. CASE x[2] = "effect" /\ RecordFresh(x[1], mem[x].att, mem[x].disp, mem[x].usage)
  <2>1. RecordFresh(o, i, d, u)
    BY <1>2, <1>4, <1>5, <1>6, <1>13
  <2>2. Recorded(o, i, d)
    BY <1>7, <2>1, OwnerRecordsFresh
  <2> QED
    BY <1>2, <1>4, <1>6, <2>2
<1>14. CASE x[2] = "effect" /\ RecordCorrection(x[1], mem[x].att, mem[x].disp, mem[x].usage)
  <2>1. /\ d # "unknown" /\ ObservedBy(o, i) # {} /\ Prior(o, i).disp = "unknown"
        /\ i \in DispatchAttempts(o)
    BY <1>2, <1>4, <1>6, <1>14 DEF RecordCorrection, DispatchAttempts
  <2>2. PICK k \in 1..Len(obs[o]) : obs[o][k].att = i /\ obs[o][k].disp = "unknown"
    BY <1>10, <2>1
  <2>3. mem[x].disp = "unknown"
    BY <1>1, <1>6, <1>14, <2>1, <2>2 DEF LineInv
  <2> QED
    BY <1>4, <2>1, <2>3
<1>15. CASE x[2] # "effect" /\ ReconciliationRecord(x[1], mem[x].att, mem[x].disp, mem[x].usage)
  <2>1. ReconciliationRecord(o, i, d, u)
    BY <1>2, <1>4, <1>5, <1>6, <1>15
  <2>2. Recorded(o, i, d)
    BY <1>7, <2>1, OwnerRecordsRead
  <2> QED
    BY <1>2, <1>4, <1>6, <2>2
<1> QED
  BY <1>11, <1>12, <1>13, <1>14, <1>15 DEF OwnerRecords

--------------------------------------------------------------------------------
(* What an owner's step leaves true of lines, workers and the loop *)

Runs == {"idle", "claim", "invoke", "return", "record", "deliver"}

(* No call is made, and nobody new is about to make one for entry x.          *)
Calm(x) ==
  /\ UNCHANGED <<orphan, sent, reads>>
  /\ run'[x] = "invoke" => run[x] = "invoke" /\ mem'[x].att = mem[x].att

(* Where nothing is called, nobody becomes about to call. *)
LEMMA CalmCalls ==
  ASSUME NEW x \in Items, Calm(x)
  PROVE  /\ \A i : Calls(x, i)' = Calls(x, i)
         /\ \A i : Poised(x, i)' => Poised(x, i)
         /\ \A l : Untouched(x, l) => Untouched(x, l)'
<1>1. \A i : Calls(x, i)' = Calls(x, i)
  BY DEF Calm, Calls
<1>2. \A i : Poised(x, i)' => Poised(x, i)
  BY DEF Calm, Poised
<1> QED
  BY <1>1, <1>2 DEF Untouched

(* The invariant on calls, when none is made and nobody new is about to. *)
LEMMA CallStands ==
  ASSUME NEW x \in Items, NEW i \in AttemptNos, CallInv(x, i), IndInv, Grows,
         Calls(x, i)' = Calls(x, i),
         Poised(x, i)' => Poised(x, i),
         ~(<<x, i>> \in orphan' /\ run'[x] = "invoke" /\ mem'[x].att = i)
  PROVE  CallInv(x, i)'
<1>1. x[1] \in Operations /\ KindOf(x) # "none"
  BY DEF Items, KindOf
<1>2. Poised(x, i)' =>
        Calls(x, i)' = 0 /\ att'[x[1]][i].kind = KindOf(x) /\ att'[x[1]][i].consumed
  BY <1>1 DEF CallInv, Grows
<1>3. ASSUME Calls(x, i)' = 1
      PROVE  IF x[2] = "effect" THEN \E j \in DispatchAttempts(x[1])' : att'[x[1]][j].consumed
             ELSE att'[x[1]][i].consumed
  <2>1. CASE x[2] = "effect"
    <3>1. PICK j \in AttemptNos : att[x[1]][j].kind = "dispatch" /\ att[x[1]][j].consumed
      BY <1>3, <2>1 DEF CallInv, DispatchAttempts
    <3>2. att'[x[1]][j].kind = "dispatch" /\ att'[x[1]][j].consumed
      BY <1>1, <3>1 DEF Grows
    <3> QED
      BY <2>1, <3>2 DEF DispatchAttempts
  <2>2. CASE x[2] # "effect"
    BY <1>1, <1>3, <2>2 DEF CallInv, Grows
  <2> QED
    BY <2>1, <2>2
<1> QED
  BY <1>1, <1>2, <1>3 DEF CallInv, KindOf

(* What a line says stays true if nobody calls for it and the owner neither   *)
(* claims what is being admitted nor records an unknown the line lacks.       *)
LEMMA LineStands ==
  ASSUME IndInv, NEW x \in Items, OwnerInv(x[1]), NEW l, LineInv(x, l), Grows,
         l.phase \in {"admitting", "admitted"} => Untouched(x, l)',
         x[2] = "effect" /\ l.phase = "admitting" => NoClaim(x[1]),
         x[2] = "effect" =>
           NoUnknown(x[1]) \/ (l.phase \in Spoken /\ l.disp = "unknown")
  PROVE  LineInv(x, l)'
<1>1. x[1] \in Operations /\ KindOf(x) # "none"
  BY DEF Items, KindOf
<1> DEFINE o == x[1]
<1>2. l.phase \in {"admitted", "claimed", "observed", "recorded"} =>
        l.att \in AttemptNos /\ att'[o][l.att].kind = KindOf(x)
  BY <1>1 DEF LineInv, Grows
<1>3. l.phase = "claimed" => att'[o][l.att].consumed
  BY <1>1 DEF LineInv, Grows
<1>4. ASSUME l.phase = "recorded"
      PROVE  \E k \in 1..Len(obs'[o]) : obs'[o][k].att = l.att /\ obs'[o][k].disp = l.disp
  <2>1. PICK k \in 1..Len(obs[o]) : obs[o][k].att = l.att /\ obs[o][k].disp = l.disp
    BY <1>4 DEF LineInv
  <2>2. k \in 1..Len(obs'[o]) /\ obs'[o][k] = obs[o][k]
    <3>1. Len(obs[o]) \in Nat /\ Len(obs'[o]) >= Len(obs[o])
      BY <1>1, RowTypes DEF Grows
    <3>2. obs'[o][k] = obs[o][k]
      BY <1>1 DEF Grows
    <3> QED
      BY <3>1, <3>2
  <2> QED
    BY <2>1, <2>2
<1>5. l.phase = "admitting" /\ x[2] = "effect" =>
        \A i \in DispatchAttempts(o)' : ~att'[o][i].consumed
  BY DEF LineInv, NoClaim, DispatchAttempts
<1>6. ASSUME x[2] = "effect", NEW k \in 1..Len(obs'[o]),
             obs'[o][k].att \in DispatchAttempts(o)', obs'[o][k].disp = "unknown"
      PROVE  l.phase \in Spoken /\ l.disp = "unknown"
  <2>1. CASE NoUnknown(o)
    <3>1. k \in 1..Len(obs[o]) /\ att[o][obs[o][k].att].kind = "dispatch"
      BY <1>6, <2>1 DEF NoUnknown, DispatchAttempts
    <3>2. obs[o][k].att \in DispatchAttempts(o) /\ obs[o][k].disp = "unknown"
      BY <1>1, <1>6, <3>1, ObservedAttempt DEF DispatchAttempts, Grows
    <3> QED
      BY <1>6, <3>1, <3>2 DEF LineInv
  <2> QED
    BY <1>6, <2>1
<1> QED
  BY <1>2, <1>3, <1>4, <1>5, <1>6 DEF LineInv, KindOf

(* Entry y is not the one a step is about. *)
Apart(y) ==
  /\ mem'[y] = mem[y] /\ disk'[y] = disk[y] /\ run'[y] = run[y]
  /\ \A i \in AttemptNos :
       /\ Calls(y, i)' = Calls(y, i)
       /\ <<y, i>> \in orphan' <=> <<y, i>> \in orphan

(* Rows that stay as they are got no claim and no unknown. *)
LEMMA SameRowsQuiet ==
  ASSUME IndInv, NEW p \in Operations, SameRows(p)
  PROVE  NoClaim(p) /\ NoUnknown(p)
BY DEF SameRows, NoClaim, NoUnknown

(* An entry that a step is not about keeps its invariant. *)
LEMMA ApartStands ==
  ASSUME DInv, NEW y \in Items, Apart(y), Grows,
         y[2] = "effect" => NoClaim(y[1]) /\ NoUnknown(y[1])
  PROVE  ItemInv(y)'
<1>1. IndInv /\ OwnerInv(y[1]) /\ ItemInv(y)
  BY DEF DInv, Items
<1>2. \A i \in AttemptNos : Calls(y, i)' = Calls(y, i) /\ (Poised(y, i)' => Poised(y, i))
  BY DEF Apart, Poised
<1>3. ASSUME NEW i \in AttemptNos PROVE CallInv(y, i)'
  <2>1. CallInv(y, i)
    BY <1>1 DEF ItemInv
  <2>2. ~(<<y, i>> \in orphan' /\ run'[y] = "invoke" /\ mem'[y].att = i)
    BY <2>1 DEF CallInv, Apart
  <2> QED
    BY <1>1, <1>2, <2>1, <2>2, CallStands
<1>4. ASSUME NEW l \in Lines(y)' PROVE LineInv(y, l)'
  <2>1. LineInv(y, l)
    BY <1>1 DEF Lines, Apart, ItemInv
  <2>2. l.phase \in {"admitting", "admitted"} => Untouched(y, l)'
    BY <1>2, <2>1 DEF LineInv, Untouched
  <2> QED
    BY <1>1, <2>1, <2>2, LineStands
<1>5. StepInv(y)'
  BY <1>1 DEF ItemInv, StepInv, Apart
<1> QED
  BY <1>3, <1>4, <1>5 DEF ItemInv

(* A step about entry x keeps the invariant if it keeps it for x and for the  *)
(* loop's visit to the operation.                                             *)
LEMMA OneEntry ==
  ASSUME DInv, NEW x \in Items, OwnerStep(x[1]), DTypeOK', ItemInv(x)', VisitInv(x[1])',
         x[2] = "reconcile" => NoClaim(x[1]) /\ NoUnknown(x[1]),
         \A y \in Items \ {x} : Apart(y),
         pass' = pass, visit' \subseteq visit
  PROVE  DInv'
<1> PICK o \in Operations : o = x[1]
  BY DEF Items
<1>1. IndInv' /\ Grows /\ \A p \in Operations \ {o} : SameRows(p)
  BY DEF OwnerStep
<1>2. ASSUME NEW p \in Operations PROVE OwnerInv(p)'
  <2>1. CASE p = o
    BY <2>1 DEF OwnerStep
  <2>2. CASE p # o
    <3>1. OwnerInv(p)
      BY DEF DInv
    <3> QED
      BY <1>1, <2>2, <3>1 DEF OwnerInv, SameRows
  <2> QED
    BY <2>1, <2>2
<1>3. ASSUME NEW y \in Items PROVE ItemInv(y)'
  <2>1. CASE y = x
    BY <2>1
  <2>2. CASE y # x
    <3>1. y[2] = "effect" => NoClaim(y[1]) /\ NoUnknown(y[1])
      <4>1. CASE y[1] # o
        BY <1>1, <4>1, SameRowsQuiet DEF Items, DInv
      <4>2. CASE y[1] = o
        BY <2>2, <4>2 DEF Items, Kinds
      <4> QED
        BY <4>1, <4>2
    <3> QED
      BY <1>1, <2>2, <3>1, ApartStands
  <2> QED
    BY <2>1, <2>2
<1>4. ASSUME NEW p \in Operations PROVE VisitInv(p)'
  <2>1. CASE p = o
    BY <2>1
  <2>2. CASE p # o
    <3>1. <<p, "effect">> \in Items \ {x} /\ SameRows(p) /\ VisitInv(p)
      BY <1>1, <2>2 DEF Items, Kinds, DInv
    <3>2. mem'[<<p, "effect">>] = mem[<<p, "effect">>] /\ op'[p] = op[p]
      BY <3>1 DEF Apart, SameRows
    <3> QED
      BY <3>1, <3>2 DEF VisitInv, Admissible
  <2> QED
    BY <2>1, <2>2
<1> QED
  BY <1>1, <1>2, <1>3, <1>4 DEF DInv

--------------------------------------------------------------------------------
(* How an entry moves *)

Moves(x) ==
  /\ mem' \in [Items -> JournalEntry]
  /\ disk' \in [Items -> JournalEntry]
  /\ run' \in [Items -> Runs]
  /\ held' \subseteq Items
  /\ faults' \in 0..MaxFaults
  /\ \A y \in Items \ {x} : mem'[y] = mem[y] /\ disk'[y] = disk[y] /\ run'[y] = run[y]

(* Both copies become e, or the line fails and only the file may have it.     *)
Written(x, kept, e, s) ==
  \/ mem'[x] = e /\ disk'[x] = e /\ run'[x] = s
  \/ mem'[x] = kept /\ disk'[x] \in {kept, e} /\ run'[x] = "idle"

(* put that returns, and the entry moves on. *)
LEMMA PutMoves ==
  ASSUME DTypeOK, NEW x \in Items, NEW e \in JournalEntry, NEW s \in Runs,
         Put(x, e), Step(x, s), held' \in {held, held \cup {x}, held \ {x}}
  PROVE  Moves(x) /\ mem'[x] = e /\ disk'[x] = e /\ run'[x] = s
BY DEF DTypeOK, Put, Step, Moves, Runs

(* put that fails, and the entry is let go. *)
LEMMA PutFailsMoves ==
  ASSUME DTypeOK, NEW x \in Items, NEW kept \in JournalEntry, NEW e \in JournalEntry,
         PutFails(x, kept, e), LetGo(x)
  PROVE  Moves(x) /\ mem'[x] = kept /\ disk'[x] \in {kept, e} /\ run'[x] = "idle"
<1>1. PICK line \in {kept, e} : disk' = [disk EXCEPT ![x] = line]
  BY DEF PutFails
<1>2. faults' \in 0..MaxFaults
  BY DispatchAssumption DEF DTypeOK, PutFails
<1>3. mem' = [mem EXCEPT ![x] = kept]
  BY DEF PutFails
<1> QED
  BY <1>1, <1>2, <1>3 DEF DTypeOK, LetGo, Step, Moves, Runs

(* An entry advances, or its line fails. *)
LEMMA AdvanceMoves ==
  ASSUME DTypeOK, NEW x \in Items, NEW kept \in JournalEntry, NEW e \in JournalEntry,
         NEW s \in Runs, Advance(x, kept, e, s)
  PROVE  Moves(x) /\ Written(x, kept, e, s)
BY PutMoves, PutFailsMoves DEF Advance, Written

(* An entry ends, or its line fails. *)
LEMMA CloseMoves ==
  ASSUME DTypeOK, NEW x \in Items, NEW kept \in JournalEntry, NEW e \in JournalEntry,
         Close(x, kept, e)
  PROVE  Moves(x) /\ Written(x, kept, e, "idle")
<1>1. CASE PutFails(x, kept, e)
  BY <1>1, PutFailsMoves DEF Close, Written
<1>2. CASE Put(x, e)
  <2>1. Step(x, "idle") /\ held' = held \ {x} /\ "idle" \in Runs
    BY DEF Close, LetGo, Runs
  <2> QED
    BY <1>2, <2>1, PutMoves DEF Written
<1> QED
  BY <1>1, <1>2 DEF Close

(* The line is written but the call that follows is not answered. *)
LEMMA UnansweredMoves ==
  ASSUME DTypeOK, NEW x \in Items, NEW e \in JournalEntry, Unanswered, LetGo(x),
         mem' = [mem EXCEPT ![x] = e], disk' = [disk EXCEPT ![x] = e]
  PROVE  Moves(x) /\ mem'[x] = e /\ disk'[x] = e /\ run'[x] = "idle"
<1>1. faults' \in 0..MaxFaults
  BY DispatchAssumption DEF DTypeOK, Unanswered
<1> QED
  BY <1>1 DEF DTypeOK, LetGo, Step, Moves, Runs

(* The answer of the owner was lost, or nobody was asked, and the entry is    *)
(* let go.                                                                    *)
LEMMA NoAnswerMoves ==
  ASSUME DTypeOK, NEW x \in Items, NoAnswer \/ UNCHANGED <<mem, disk, faults>>, LetGo(x)
  PROVE  Moves(x) /\ mem'[x] = mem[x] /\ disk'[x] = disk[x] /\ run'[x] = "idle"
<1>1. faults' \in 0..MaxFaults
  BY DispatchAssumption DEF DTypeOK, NoAnswer, Unanswered
<1> QED
  BY <1>1 DEF DTypeOK, NoAnswer, LetGo, Step, Moves, Runs

(* The line an admission begins with. *)
LEMMA BegunType ==
  ASSUME DTypeOK
  PROVE  Begun \in JournalEntry /\ Begun.phase = "admitting" /\ Begun.att = 0
<1>1. ZeroUsage \in Usage
  BY DEF ZeroUsage, Usage
<1>2. gen \in 0..MaxGen /\ 0 \in 0..MaxAttempts
  BY EffectsAssumption DEF DTypeOK, ETypeOK, Generations
<1>3. Entry0 \in [phase : Phases, att : 0..MaxAttempts, gen : {0}, fault : BOOLEAN,
                  disp : Dispositions, usage : Usage]
  BY <1>1, <1>2 DEF Entry0, Phases, Dispositions
<1>4. Entry0.att = 0
  BY DEF Entry0
<1> QED
  BY <1>2, <1>3, <1>4 DEF Begun, JournalEntry, Phases

--------------------------------------------------------------------------------
(* Steps about one entry *)

(* An entry moves: what is left to show is its own invariant and types. *)
LEMMA EntryMoves ==
  ASSUME DInv, NEW x \in Items, OwnerStep(x[1]),
         x[2] = "reconcile" => NoClaim(x[1]) /\ NoUnknown(x[1]),
         Moves(x), LoopUnchanged, visit' \subseteq visit, VisitInv(x[1])',
         \A l \in Lines(x)' : LineInv(x, l)',
         StepInv(x)',
         \A i \in AttemptNos : CallInv(x, i)'
  PROVE  DInv'
<1>1. DTypeOK'
  <2>1. ETypeOK' /\ DTypeOK
    BY DEF OwnerStep, IndInv, DInv
  <2>2. /\ pass' \in {"settle", "admit"} /\ visit' \subseteq Items
        /\ orphan' \subseteq Items \X AttemptNos
        /\ sent' \in [Operations -> Nat] /\ reads' \in [Operations -> [AttemptNos -> Nat]]
    BY <2>1 DEF DTypeOK, LoopUnchanged
  <2> QED
    BY <2>1, <2>2 DEF DTypeOK, Moves, Runs
<1>2. ASSUME NEW y \in Items \ {x} PROVE Apart(y)
  BY DEF Apart, Moves, LoopUnchanged, Calls
<1>3. ItemInv(x)'
  BY DEF ItemInv
<1>4. pass' = pass
  BY DEF LoopUnchanged
<1> QED
  BY <1>1, <1>2, <1>3, <1>4, OneEntry

(* Nobody comes to call by the step: what is left is the lines. *)
LEMMA CalmMoves ==
  ASSUME DInv, NEW x \in Items, OwnerStep(x[1]),
         x[2] = "reconcile" => NoClaim(x[1]) /\ NoUnknown(x[1]),
         Moves(x), LoopUnchanged, visit' \subseteq visit, VisitInv(x[1])',
         run'[x] # "invoke",
         \A l \in Lines(x)' : LineInv(x, l)',
         StepInv(x)'
  PROVE  DInv'
<1>1. Calm(x)
  BY DEF Calm, LoopUnchanged
<1>2. ASSUME NEW i \in AttemptNos PROVE CallInv(x, i)'
  <2>1. CallInv(x, i) /\ IndInv /\ Grows
    BY DEF DInv, ItemInv, OwnerStep
  <2> QED
    BY <1>1, <2>1, CalmCalls, CallStands
<1> QED
  BY <1>2, EntryMoves

(* A line that was there stays true under the same conditions. *)
LEMMA OldLine ==
  ASSUME DInv, NEW x \in Items, NEW l \in Lines(x), OwnerStep(x[1]),
         LoopUnchanged, run'[x] # "invoke",
         x[2] = "effect" /\ l.phase = "admitting" => NoClaim(x[1]),
         x[2] = "effect" => NoUnknown(x[1]) \/ (l.phase \in Spoken /\ l.disp = "unknown")
  PROVE  LineInv(x, l)'
<1>1. LineInv(x, l) /\ IndInv /\ OwnerInv(x[1]) /\ Grows
  BY DEF DInv, ItemInv, OwnerStep, Items
<1>2. Calm(x)
  BY DEF Calm, LoopUnchanged
<1>3. l.phase \in {"admitting", "admitted"} => Untouched(x, l)'
  BY <1>1, <1>2, CalmCalls DEF LineInv
<1> QED
  BY <1>1, <1>3, LineStands

(* The copies of a moved entry. *)
LEMMA WrittenLines ==
  ASSUME NEW x \in Items, NEW kept, NEW e, NEW s, Written(x, kept, e, s)
  PROVE  /\ Lines(x)' \subseteq {kept, e}
         /\ run'[x] \in {s, "idle"}
         /\ s # "idle" /\ run'[x] = s => mem'[x] = e /\ disk'[x] = e
         /\ (mem'[x] = e /\ disk'[x] = e) \/ (mem'[x] = kept /\ disk'[x] \in {kept, e})
BY DEF Written, Lines

(* An attempt's operation is not admissible, and the loop does not wait for   *)
(* it unless its dispatch is admitted.                                        *)
LEMMA VisitStands ==
  ASSUME DInv, NEW x \in Items, OwnerStep(x[1]), LoopUnchanged, visit' \subseteq visit,
         Moves(x),
         Admissible(x[1]) => Admissible(x[1])',
         x[2] = "effect" => mem[x].phase # "admitted"
  PROVE  VisitInv(x[1])'
<1> PICK o \in Operations : o = x[1]
  BY DEF Items
<1>1. VisitInv(o) /\ pass' = pass
  BY DEF DInv, LoopUnchanged
<1>2. CASE x[2] = "effect"
  <2>1. x = <<o, "effect">>
    BY <1>2 DEF Items
  <2> QED
    BY <1>1, <1>2, <2>1 DEF VisitInv
<1>3. CASE x[2] # "effect"
  <2>1. <<o, "effect">> \in Items \ {x}
    BY <1>3 DEF Items, Kinds
  <2>2. mem'[<<o, "effect">>] = mem[<<o, "effect">>]
    BY <2>1 DEF Moves
  <2> QED
    BY <1>1, <2>2 DEF VisitInv
<1> QED
  BY <1>2, <1>3

(* The visit of an operation is over. *)
LEMMA VisitOver ==
  ASSUME NEW x \in Items, LoopUnchanged,
         pass = "settle" \/ (x[2] = "effect" /\ x \notin visit')
  PROVE  VisitInv(x[1])'
<1>1. x[2] = "effect" => x = <<x[1], "effect">>
  BY DEF Items
<1> QED
  BY <1>1 DEF VisitInv, LoopUnchanged

(* The owner did nothing. *)
LEMMA OwnerIdle ==
  ASSUME DInv, UNCHANGED evars
  PROVE  /\ \A o \in Operations : OwnerStep(o) /\ NoClaim(o) /\ NoUnknown(o)
         /\ \A x \in Items : OwnerStep(x[1]) /\ NoClaim(x[1]) /\ NoUnknown(x[1])
         /\ \A o \in Operations : Admissible(o)' = Admissible(o)
<1>1. \A o \in Operations : OwnerStep(o) /\ NoClaim(o) /\ NoUnknown(o)
  BY OwnerStutters DEF DInv
<1>2. \A x \in Items : x[1] \in Operations
  BY DEF Items
<1>3. \A o \in Operations : Admissible(o)' = Admissible(o)
  BY DEF Admissible, evars
<1> QED
  BY <1>1, <1>2, <1>3

--------------------------------------------------------------------------------
(* Settle *)

(* A line that closes an entry claims nothing but what the owner holds. *)
LEMMA EndedLine ==
  ASSUME DInv, NEW x \in Items, NEW l, l.phase \in {"done", "refused", "stranded"},
         x[2] = "effect" =>
           \A k \in 1..Len(obs'[x[1]]) :
             obs'[x[1]][k].att \in DispatchAttempts(x[1])' /\ obs'[x[1]][k].disp = "unknown" =>
               l.phase \in Spoken /\ l.disp = "unknown"
  PROVE  LineInv(x, l)'
BY DEF LineInv

(* The owner holds no unknown of the dispatch of a line that has yet to hear. *)
LEMMA UnheardLine ==
  ASSUME DInv, NEW x \in Items, x[2] = "effect", mem[x].phase \notin Spoken, NoUnknown(x[1]),
         OwnerStep(x[1])
  PROVE  \A k \in 1..Len(obs'[x[1]]) :
           ~(obs'[x[1]][k].att \in DispatchAttempts(x[1])' /\ obs'[x[1]][k].disp = "unknown")
<1> PICK o \in Operations : o = x[1]
  BY DEF Items
<1>1. LineInv(x, mem[x]) /\ IndInv /\ Grows
  BY DEF DInv, ItemInv, Lines, OwnerStep
<1> SUFFICES ASSUME NEW k \in 1..Len(obs'[o]),
                    obs'[o][k].att \in DispatchAttempts(o)', obs'[o][k].disp = "unknown"
             PROVE  FALSE
  OBVIOUS
<1>2. k \in 1..Len(obs[o]) /\ att[o][obs[o][k].att].kind = "dispatch"
  BY DEF NoUnknown, DispatchAttempts
<1>3. obs[o][k].att \in DispatchAttempts(o) /\ obs[o][k].disp = "unknown"
  BY <1>1, <1>2, ObservedAttempt DEF DispatchAttempts, Grows
<1> QED
  BY <1>1, <1>2, <1>3 DEF LineInv

(* settleAdmission. *)
LEMMA SettleAdmissionKeeps ==
  ASSUME DInv, NEW o \in Operations, SettleAdmission(o)
  PROVE  DInv'
<1>0. <<o, "effect">> \in Items
  BY DEF Items, Kinds
<1> PICK x \in Items : x = <<o, "effect">> /\ x[1] = o /\ x[2] = "effect"
  BY <1>0
<1>1. PICK l \in JournalEntry : l = mem[x]
  BY DEF DInv, DTypeOK
<1>2. PICK ph \in {"done", "stranded"} :
        ph = IF Listed(o) /\ Admissible(o) THEN "done" ELSE "stranded"
  OBVIOUS
<1>3. PICK to \in JournalEntry : to = [l EXCEPT !.phase = ph] /\ to.phase = ph
  <2>1. [l EXCEPT !.phase = ph] \in JournalEntry
    BY DEF JournalEntry, Phases
  <2> QED
    BY <2>1 DEF JournalEntry
<1>4. /\ pass = "settle" /\ l.phase = "admitting" /\ visit' \subseteq visit
      /\ LoopUnchanged /\ UNCHANGED evars
      /\ Close(x, l, to) \/ (NoAnswer /\ LetGo(x))
  BY <1>1, <1>2, <1>3 DEF SettleAdmission, Visiting
<1>5. OwnerStep(o) /\ NoClaim(o) /\ NoUnknown(o)
  BY <1>4, OwnerIdle
<1>6. DTypeOK
  BY DEF DInv
<1>7. VisitInv(o)'
  BY <1>4, VisitOver
<1>8. LineInv(x, to)'
  <2>1. mem[x].phase \notin Spoken
    BY <1>1, <1>4 DEF Spoken
  <2>2. \A k \in 1..Len(obs'[x[1]]) :
          ~(obs'[x[1]][k].att \in DispatchAttempts(x[1])' /\ obs'[x[1]][k].disp = "unknown")
    BY <1>5, <2>1, UnheardLine
  <2>3. to.phase \in {"done", "refused", "stranded"}
    BY <1>3
  <2> QED
    BY <2>2, <2>3, EndedLine
<1>9. CASE Close(x, l, to)
  <2>1. Moves(x) /\ Written(x, l, to, "idle")
    BY <1>6, <1>9, CloseMoves
  <2>2. Lines(x)' \subseteq {l, to} /\ run'[x] = "idle" /\ l \in Lines(x)
    BY <1>1, <2>1, WrittenLines DEF Lines
  <2>3. LineInv(x, l)'
    BY <1>4, <1>5, <2>2, OldLine
  <2>4. StepInv(x)'
    BY <1>3, <1>4, <2>1 DEF StepInv, Written
  <2> QED
    BY <1>4, <1>5, <1>7, <1>8, <2>1, <2>2, <2>3, <2>4, CalmMoves
<1>10. CASE NoAnswer /\ LetGo(x)
  <2>1. Moves(x) /\ mem'[x] = mem[x] /\ disk'[x] = disk[x] /\ run'[x] = "idle"
    BY <1>6, <1>10, NoAnswerMoves
  <2>2. \A k \in Lines(x)' : k \in Lines(x)
    BY <2>1 DEF Lines
  <2>3. \A k \in Lines(x)' : LineInv(x, k)'
    BY <1>4, <1>5, <2>1, <2>2, OldLine
  <2>4. StepInv(x)'
    BY <2>1 DEF DInv, ItemInv, StepInv
  <2> QED
    BY <1>4, <1>5, <1>7, <2>1, <2>3, <2>4, CalmMoves
<1> QED
  BY <1>4, <1>9, <1>10

(* What settle vouches for by itself. *)
LEMMA SynthesizedLine ==
  ASSUME DInv, NEW x \in Items
  PROVE  /\ Synthesized(x) \in JournalEntry
         /\ Synthesized(x).phase = "observed" /\ Synthesized(x).att = mem[x].att
<1>1. PICK l \in JournalEntry : l = mem[x]
  BY DEF DInv, DTypeOK
<1>2. resv[x[1]].amount \in Nat
  BY DEF DInv, IndInv, ETypeOK, Items, Row
<1>3. ZeroUsage \in Usage
  BY DEF ZeroUsage, Usage
<1>4. PICK u \in Usage :
        u = [ZeroUsage EXCEPT !.unknown = resv[x[1]].amount, !.advisory = TRUE]
  BY <1>2 DEF ZeroUsage, Usage
<1>5. Unknown(x, l) = [l EXCEPT !.phase = "observed", !.disp = "unknown", !.usage = u]
  BY <1>4 DEF Unknown
<1>6. NotSent(l) = [l EXCEPT !.phase = "observed", !.disp = "not_sent", !.usage = ZeroUsage]
  BY DEF NotSent
<1>7. Synthesized(x) \in {Unknown(x, l), NotSent(l)}
  BY <1>1 DEF Synthesized
<1>8. "unknown" \in Dispositions /\ "not_sent" \in Dispositions
  BY DEF Dispositions
<1>9. Unknown(x, l) \in JournalEntry /\ Unknown(x, l).phase = "observed" /\ Unknown(x, l).att = l.att
  BY <1>5, <1>8 DEF JournalEntry, Phases
<1>10. NotSent(l) \in JournalEntry /\ NotSent(l).phase = "observed" /\ NotSent(l).att = l.att
  BY <1>3, <1>6, <1>8 DEF JournalEntry, Phases
<1> QED
  BY <1>1, <1>7, <1>9, <1>10

(* A line that has heard of its attempt: what it says of the owner holds if   *)
(* the line it comes from had yet to hear.                                    *)
LEMMA ObservedLine ==
  ASSUME DInv, NEW x \in Items, NEW e, e.phase = "observed", e.att = mem[x].att,
         mem[x].phase \in {"admitted", "claimed"}, OwnerStep(x[1]),
         x[2] = "effect" => NoUnknown(x[1])
  PROVE  LineInv(x, e)'
<1> PICK o \in Operations : o = x[1]
  BY DEF Items
<1>1. e.att \in AttemptNos /\ att[o][e.att].kind = KindOf(x)
  BY DEF DInv, ItemInv, Lines, LineInv
<1>2. att'[o][e.att].kind = KindOf(x)
  BY <1>1 DEF OwnerStep, Grows, KindOf
<1>3. x[2] = "effect" =>
        \A k \in 1..Len(obs'[o]) :
          ~(obs'[o][k].att \in DispatchAttempts(o)' /\ obs'[o][k].disp = "unknown")
  BY UnheardLine DEF Spoken
<1> QED
  BY <1>1, <1>2, <1>3 DEF LineInv, KindOf

(* The copies after a journal write that makes the entry observed. *)
LEMMA ObservedMove ==
  ASSUME DInv, NEW x \in Items, UNCHANGED evars, LoopUnchanged, visit' \subseteq visit,
         VisitInv(x[1])', mem[x].phase \in {"admitted", "claimed"}, NEW e \in JournalEntry,
         e.phase = "observed", e.att = mem[x].att,
         Advance(x, mem[x], e, "record")
  PROVE  DInv'
<1>1. PICK l \in JournalEntry : l = mem[x] /\ l \in Lines(x)
  BY DEF DInv, DTypeOK, Lines
<1>2. OwnerStep(x[1]) /\ NoClaim(x[1]) /\ NoUnknown(x[1])
  BY OwnerIdle
<1>3. Moves(x) /\ Written(x, l, e, "record")
  <2>1. Advance(x, l, e, "record") /\ "record" \in Runs /\ DTypeOK
    BY <1>1 DEF Runs, DInv
  <2> QED
    BY <2>1, AdvanceMoves
<1>4. Lines(x)' \subseteq {l, e} /\ run'[x] \in {"record", "idle"}
  BY <1>3, WrittenLines
<1>5. LineInv(x, e)'
  BY <1>2, ObservedLine
<1>6. LineInv(x, l)'
  BY <1>1, <1>2, <1>4, OldLine
<1>7. StepInv(x)'
  BY <1>1, <1>3 DEF StepInv, Written
<1>8. run'[x] # "invoke"
  BY <1>4
<1> QED
  BY <1>2, <1>3, <1>4, <1>5, <1>6, <1>7, <1>8, CalmMoves

(* settle, for an entry with an attempt. *)
LEMMA SettleEntryKeeps ==
  ASSUME DInv, NEW x \in Items, SettleEntry(x)
  PROVE  DInv'
<1>1. /\ pass = "settle" /\ visit' \subseteq visit /\ LoopUnchanged /\ UNCHANGED evars
  BY DEF SettleEntry, Visiting
<1>2. OwnerStep(x[1]) /\ NoClaim(x[1]) /\ NoUnknown(x[1])
  BY <1>1, OwnerIdle
<1>3. VisitInv(x[1])'
  BY <1>1, VisitOver
<1>4. PICK l \in JournalEntry : l = mem[x] /\ l \in Lines(x)
  BY DEF DInv, DTypeOK, Lines
<1>5. DTypeOK /\ StepInv(x)
  BY DEF DInv, ItemInv
<1>6. CASE mem[x].phase \in {"admitted", "claimed"} /\ Advance(x, mem[x], Synthesized(x), "record")
  <2>1. PICK e \in JournalEntry : e = Synthesized(x) /\ e.phase = "observed" /\ e.att = mem[x].att
    BY SynthesizedLine
  <2>2. Advance(x, mem[x], e, "record")
    BY <1>6, <2>1
  <2> QED
    BY <1>1, <1>3, <1>6, <2>1, <2>2, ObservedMove
<1>7. CASE /\ mem[x].phase \in {"observed", "recorded"}
           /\ Step(x, IF mem[x].phase = "observed" THEN "record" ELSE "deliver")
           /\ UNCHANGED <<mem, disk, held, faults>>
  <2>1. /\ run'[x] = IF mem[x].phase = "observed" THEN "record" ELSE "deliver"
        /\ Moves(x)
    BY <1>5, <1>7 DEF Step, DTypeOK, Moves, Runs
  <2>2. StepInv(x)'
    BY <1>5, <1>7, <2>1 DEF StepInv
  <2>3. \A k \in Lines(x)' : k \in Lines(x)
    BY <1>7 DEF Lines
  <2>4. run'[x] # "invoke"
    BY <1>7, <2>1
  <2>5. \A k \in Lines(x)' : LineInv(x, k)'
    BY <1>1, <1>2, <2>3, <2>4, OldLine
  <2> QED
    BY <1>1, <1>2, <1>3, <2>1, <2>2, <2>4, <2>5, CalmMoves
<1>8. CASE mem[x].phase = "admitting" /\ x[2] = "reconcile"
           /\ Close(x, mem[x], [mem[x] EXCEPT !.phase = "done"])
  <2>1. PICK e \in JournalEntry : e = [l EXCEPT !.phase = "done"] /\ e.phase = "done"
    <3>1. [l EXCEPT !.phase = "done"] \in JournalEntry
      BY DEF JournalEntry, Phases
    <3> QED
      BY <3>1 DEF JournalEntry
  <2>2. Close(x, l, e)
    BY <1>4, <1>8, <2>1
  <2>3. Moves(x) /\ Written(x, l, e, "idle")
    BY <1>5, <2>2, CloseMoves
  <2>4. Lines(x)' \subseteq {l, e} /\ run'[x] = "idle"
    BY <2>3, WrittenLines
  <2>5. LineInv(x, l)'
    BY <1>1, <1>2, <1>4, <2>4, OldLine
  <2>6. LineInv(x, e)'
    BY <1>8, <2>1 DEF LineInv
  <2>7. StepInv(x)'
    BY <1>4, <1>8, <2>1, <2>3 DEF StepInv, Written
  <2> QED
    BY <1>1, <1>2, <1>3, <2>3, <2>4, <2>5, <2>6, <2>7, CalmMoves
<1> QED
  BY <1>6, <1>7, <1>8 DEF SettleEntry

--------------------------------------------------------------------------------
(* Workers *)

(* The worker journals what the adapter answered. *)
LEMMA ReturnKeeps ==
  ASSUME DInv, NEW x \in Items, NEW d \in Dispositions, NEW u \in Usages, Return(x, d, u)
  PROVE  DInv'
<1>1. LoopUnchanged /\ UNCHANGED evars /\ visit' = visit /\ run[x] = "return"
  BY DEF Return
<1>2. mem[x].phase = "claimed" /\ DTypeOK
  BY <1>1 DEF DInv, ItemInv, StepInv
<1>3. PICK l \in JournalEntry : l = mem[x]
  BY <1>2 DEF DTypeOK
<1>4. PICK e \in JournalEntry :
        /\ e = [l EXCEPT !.phase = "observed", !.disp = d, !.usage = u]
        /\ e.phase = "observed" /\ e.att = l.att
  <2>1. u \in Usage
    BY EffectsAssumption
  <2>2. [l EXCEPT !.phase = "observed", !.disp = d, !.usage = u] \in JournalEntry
    BY <2>1 DEF JournalEntry, Phases
  <2> QED
    BY <2>2 DEF JournalEntry
<1>5. Advance(x, mem[x], e, "record")
  BY <1>3, <1>4 DEF Return
<1>6. Moves(x)
  <2>1. Advance(x, l, e, "record") /\ "record" \in Runs
    BY <1>3, <1>5 DEF Runs
  <2> QED
    BY <1>2, <2>1, AdvanceMoves
<1>7. VisitInv(x[1])'
  <2>1. OwnerStep(x[1]) /\ (Admissible(x[1]) => Admissible(x[1])')
    BY <1>1, OwnerIdle DEF Items
  <2> QED
    BY <1>1, <1>2, <1>6, <2>1, VisitStands
<1> QED
  BY <1>1, <1>2, <1>3, <1>4, <1>5, <1>7, ObservedMove

(* A line written after one that has heard, with the same observation, says   *)
(* of the owner's unknowns what that one says.                                *)
LEMMA HeardLine ==
  ASSUME DInv, NEW x \in Items, NEW e, e.phase \in {"done", "refused"},
         mem[x].phase \in Spoken, e.disp = mem[x].disp, UNCHANGED evars
  PROVE  LineInv(x, e)'
<1>1. LineInv(x, mem[x])
  BY DEF DInv, ItemInv, Lines
<1>2. att' = att /\ obs' = obs
  BY DEF evars
<1>3. x[2] = "effect" =>
        \A k \in 1..Len(obs'[x[1]]) :
          obs'[x[1]][k].att \in DispatchAttempts(x[1])' /\ obs'[x[1]][k].disp = "unknown" =>
            e.phase \in Spoken /\ e.disp = "unknown"
  BY <1>1, <1>2 DEF LineInv, DispatchAttempts, Spoken
<1> QED
  BY <1>3, EndedLine

(* An entry whose answer was heard ends. *)
LEMMA HeardCloses ==
  ASSUME DInv, NEW x \in Items, UNCHANGED evars, LoopUnchanged, visit' \subseteq visit,
         VisitInv(x[1])', mem[x].phase \in {"observed", "recorded"}, NEW e \in JournalEntry,
         e.phase \in {"done", "refused"}, e.disp = mem[x].disp,
         mem[x].phase = "observed" => e.phase = "refused",
         Close(x, mem[x], e)
  PROVE  DInv'
<1>1. PICK l \in JournalEntry : l = mem[x] /\ l \in Lines(x)
  BY DEF DInv, DTypeOK, Lines
<1>2. OwnerStep(x[1]) /\ NoClaim(x[1]) /\ NoUnknown(x[1])
  BY OwnerIdle
<1>3. Moves(x) /\ Written(x, l, e, "idle")
  <2>1. Close(x, l, e) /\ DTypeOK
    BY <1>1 DEF DInv
  <2> QED
    BY <2>1, CloseMoves
<1>4. Lines(x)' \subseteq {l, e} /\ run'[x] = "idle"
  BY <1>3, WrittenLines
<1>5. LineInv(x, e)'
  BY HeardLine DEF Spoken
<1>6. LineInv(x, l)'
  BY <1>1, <1>2, <1>4, OldLine
<1>7. StepInv(x)'
  BY <1>1, <1>3 DEF StepInv, Written
<1> QED
  BY <1>2, <1>3, <1>4, <1>5, <1>6, <1>7, CalmMoves

(* The entry is let go of as it was. *)
LEMMA Abandoned ==
  ASSUME DInv, NEW x \in Items, OwnerStep(x[1]),
         x[2] = "reconcile" => NoClaim(x[1]) /\ NoUnknown(x[1]),
         \A l \in Lines(x) :
           /\ x[2] = "effect" /\ l.phase = "admitting" => NoClaim(x[1])
           /\ x[2] = "effect" => NoUnknown(x[1]) \/ (l.phase \in Spoken /\ l.disp = "unknown"),
         LoopUnchanged, visit' \subseteq visit, VisitInv(x[1])',
         NoAnswer \/ UNCHANGED <<mem, disk, faults>>, LetGo(x)
  PROVE  DInv'
<1>1. DTypeOK /\ StepInv(x)
  BY DEF DInv, ItemInv
<1>2. Moves(x) /\ mem'[x] = mem[x] /\ disk'[x] = disk[x] /\ run'[x] = "idle"
  BY <1>1, NoAnswerMoves
<1>3. \A l \in Lines(x)' : l \in Lines(x)
  BY <1>2 DEF Lines
<1>4. \A l \in Lines(x)' : LineInv(x, l)'
  BY <1>2, <1>3, OldLine
<1>5. StepInv(x)'
  BY <1>1, <1>2 DEF StepInv
<1> QED
  BY <1>2, <1>4, <1>5, CalmMoves

(* deliver. *)
LEMMA DeliverKeeps ==
  ASSUME DInv, NEW x \in Items, Deliver(x)
  PROVE  DInv'
<1>1. LoopUnchanged /\ UNCHANGED evars /\ visit' = visit /\ run[x] = "deliver"
  BY DEF Deliver
<1>2. mem[x].phase = "recorded" /\ DTypeOK
  BY <1>1 DEF DInv, ItemInv, StepInv
<1>3. PICK l \in JournalEntry : l = mem[x]
  BY <1>2 DEF DTypeOK
<1>4. OwnerStep(x[1]) /\ NoClaim(x[1]) /\ NoUnknown(x[1])
      /\ (Admissible(x[1]) => Admissible(x[1])')
  BY <1>1, OwnerIdle DEF Items
<1>5. ASSUME Moves(x) PROVE VisitInv(x[1])'
  BY <1>1, <1>2, <1>4, <1>5, VisitStands
<1>6. ASSUME NEW ph \in {"done", "refused"}, NEW b \in BOOLEAN,
             Close(x, mem[x], [mem[x] EXCEPT !.phase = ph, !.fault = b])
      PROVE  DInv'
  <2>1. PICK e \in JournalEntry : /\ e = [l EXCEPT !.phase = ph, !.fault = b]
                                  /\ e.phase = ph /\ e.disp = l.disp
    <3>1. ph \in Phases
      BY DEF Phases
    <3>2. [l EXCEPT !.phase = ph, !.fault = b] \in JournalEntry
      BY <3>1 DEF JournalEntry
    <3> QED
      BY <3>2 DEF JournalEntry
  <2>2. Close(x, l, e)
    BY <1>3, <1>6, <2>1
  <2>3. VisitInv(x[1])'
    BY <1>2, <1>5, <2>2, CloseMoves
  <2> QED
    BY <1>1, <1>2, <1>3, <2>1, <2>2, <2>3, HeardCloses
<1>7. CASE (NoAnswer \/ UNCHANGED <<mem, disk, faults>>) /\ LetGo(x)
  <2>1. VisitInv(x[1])'
    BY <1>2, <1>5, <1>7, NoAnswerMoves
  <2> QED
    BY <1>1, <1>4, <1>7, <2>1, Abandoned
<1> QED
  BY <1>6, <1>7 DEF Deliver, Withheld

(* The lines of an entry that waits for its record agree on what was observed. *)
LEMMA RecordingLines ==
  ASSUME DInv, NEW x \in Items, run[x] = "record"
  PROVE  /\ mem[x].phase = "observed"
         /\ \A l \in Lines(x) : l.phase \in Spoken /\ l.disp = mem[x].disp
BY DEF DInv, ItemInv, StepInv, Lines, Spoken

(* A record seen from the entry's lines. *)
LEMMA RecordedRows ==
  ASSUME DInv, NEW x \in Items, run[x] = "record", OwnerRecords(x)
  PROVE  /\ OwnerStep(x[1]) /\ NoClaim(x[1]) /\ ~Admissible(x[1])
         /\ x[2] = "reconcile" => NoUnknown(x[1])
         /\ x[2] = "effect" => NoUnknown(x[1]) \/ mem[x].disp = "unknown"
         /\ mem[x].att \in AttemptNos /\ att'[x[1]][mem[x].att].kind = KindOf(x)
         /\ \E k \in 1..Len(obs'[x[1]]) :
              obs'[x[1]][k].att = mem[x].att /\ obs'[x[1]][k].disp = mem[x].disp
<1>1. PICK o \in Operations : o = x[1]
  BY DEF Items
<1>2. PICK i \in AttemptNos, d \in Dispositions :
        /\ i = mem[x].att /\ d = mem[x].disp /\ Recorded(o, i, d)
        /\ att[o][i].kind = KindOf(x)
  BY <1>1, OwnerRecordsIt
<1>3. IndInv /\ OwnerInv(o) /\ OwnerStep(o) /\ Grows
  BY <1>2 DEF DInv, Recorded, OwnerStep
<1>4. att'[o][i].kind = KindOf(x)
  BY <1>2, <1>3 DEF Grows, KindOf
<1>5. ASSUME d # "unknown" \/ x[2] = "reconcile"
      PROVE  NoUnknown(o)
  <2> SUFFICES ASSUME NEW k \in 1..Len(obs'[o]),
                      att'[o][obs'[o][k].att].kind = "dispatch", obs'[o][k].disp = "unknown"
               PROVE  k \in 1..Len(obs[o]) /\ att[o][obs[o][k].att].kind = "dispatch"
    BY DEF NoUnknown
  <2>1. k \in 1..Len(obs[o])
    <3> SUFFICES ASSUME k \notin 1..Len(obs[o]) PROVE FALSE
      OBVIOUS
    <3>1. obs'[o][k].att = i /\ d = "unknown"
      BY <1>2 DEF Recorded
    <3> QED
      BY <1>4, <1>5, <3>1 DEF KindOf
  <2>2. obs'[o][k] = obs[o][k] /\ obs[o][k].att \in AttemptNos
        /\ att[o][obs[o][k].att].kind # "none"
    BY <1>3, <2>1, ObservedAttempt DEF Grows, OwnerInv
  <2> QED
    BY <1>3, <2>1, <2>2 DEF Grows
<1> QED
  BY <1>1, <1>2, <1>3, <1>4, <1>5 DEF Recorded

(* record. *)
LEMMA RecordKeeps ==
  ASSUME DInv, NEW x \in Items, Record(x)
  PROVE  DInv'
<1>1. LoopUnchanged /\ visit' = visit /\ run[x] = "record"
  BY DEF Record
<1>2. mem[x].phase = "observed" /\ DTypeOK
  BY <1>1, RecordingLines DEF DInv
<1>3. PICK l \in JournalEntry : l = mem[x] /\ l \in Lines(x)
  BY <1>2 DEF DTypeOK, Lines
<1>4. ASSUME OwnerStep(x[1]), Admissible(x[1]) => Admissible(x[1])', Moves(x)
      PROVE  VisitInv(x[1])'
  BY <1>1, <1>2, <1>4, VisitStands
<1>5. CASE /\ OwnerRecords(x)
           /\ Advance(x, mem[x], [mem[x] EXCEPT !.phase = "recorded", !.fault = FALSE], "deliver")
  <2>1. PICK e \in JournalEntry :
          /\ e = [l EXCEPT !.phase = "recorded", !.fault = FALSE]
          /\ e.phase = "recorded" /\ e.att = l.att /\ e.disp = l.disp
    <3>1. [l EXCEPT !.phase = "recorded", !.fault = FALSE] \in JournalEntry
      BY DEF JournalEntry, Phases
    <3> QED
      BY <3>1 DEF JournalEntry
  <2>2. Advance(x, l, e, "deliver") /\ "deliver" \in Runs
    BY <1>3, <1>5, <2>1 DEF Runs
  <2>3. Moves(x) /\ Written(x, l, e, "deliver")
    BY <1>2, <2>2, AdvanceMoves
  <2>4. Lines(x)' \subseteq {l, e} /\ run'[x] \in {"deliver", "idle"} /\ run'[x] # "invoke"
    BY <2>3, WrittenLines
  <2>5. /\ OwnerStep(x[1]) /\ NoClaim(x[1]) /\ ~Admissible(x[1])
        /\ x[2] = "reconcile" => NoUnknown(x[1])
        /\ x[2] = "effect" => NoUnknown(x[1]) \/ l.disp = "unknown"
        /\ l.att \in AttemptNos /\ att'[x[1]][l.att].kind = KindOf(x)
        /\ \E k \in 1..Len(obs'[x[1]]) : obs'[x[1]][k].att = l.att /\ obs'[x[1]][k].disp = l.disp
    BY <1>1, <1>3, <1>5, RecordedRows
  <2>6. LineInv(x, l)'
    BY <1>1, <1>2, <1>3, <2>4, <2>5, OldLine DEF Spoken
  <2>7. LineInv(x, e)'
    <3>1. x[2] = "effect" =>
            \A k \in 1..Len(obs'[x[1]]) :
              obs'[x[1]][k].att \in DispatchAttempts(x[1])' /\ obs'[x[1]][k].disp = "unknown" =>
                e.phase \in Spoken /\ e.disp = "unknown"
      BY <2>1, <2>6 DEF LineInv, Spoken
    <3> QED
      BY <2>1, <2>5, <3>1 DEF LineInv, KindOf
  <2>8. StepInv(x)'
    BY <1>2, <1>3, <2>1, <2>3 DEF StepInv, Written
  <2>9. VisitInv(x[1])'
    BY <1>4, <2>3, <2>5
  <2> QED
    BY <1>1, <2>3, <2>4, <2>5, <2>6, <2>7, <2>8, <2>9, CalmMoves
<1>6. CASE (OwnerRecords(x) \/ UNCHANGED evars) /\ NoAnswer /\ LetGo(x)
  <2>1. /\ OwnerStep(x[1]) /\ NoClaim(x[1]) /\ (Admissible(x[1]) => Admissible(x[1])')
        /\ x[2] = "reconcile" => NoUnknown(x[1])
        /\ x[2] = "effect" => NoUnknown(x[1]) \/ mem[x].disp = "unknown"
    <3>1. CASE OwnerRecords(x)
      BY <1>1, <3>1, RecordedRows
    <3>2. CASE UNCHANGED evars
      BY <3>2, OwnerIdle DEF Items
    <3> QED
      BY <1>6, <3>1, <3>2
  <2>2. VisitInv(x[1])'
    BY <1>2, <1>4, <1>6, <2>1, NoAnswerMoves
  <2>3. ASSUME NEW k \in Lines(x)
        PROVE  /\ x[2] = "effect" /\ k.phase = "admitting" => NoClaim(x[1])
               /\ x[2] = "effect" => NoUnknown(x[1]) \/ (k.phase \in Spoken /\ k.disp = "unknown")
    BY <1>1, <2>1, RecordingLines
  <2> QED
    BY <1>1, <1>6, <2>1, <2>2, <2>3, Abandoned
<1>7. CASE /\ UNCHANGED evars
           /\ Close(x, mem[x], [mem[x] EXCEPT !.phase = "refused", !.fault = TRUE])
  <2>1. PICK e \in JournalEntry :
          /\ e = [l EXCEPT !.phase = "refused", !.fault = TRUE]
          /\ e.phase = "refused" /\ e.disp = l.disp
    <3>1. [l EXCEPT !.phase = "refused", !.fault = TRUE] \in JournalEntry
      BY DEF JournalEntry, Phases
    <3> QED
      BY <3>1 DEF JournalEntry
  <2>2. Close(x, l, e)
    BY <1>3, <1>7, <2>1
  <2>3. OwnerStep(x[1]) /\ (Admissible(x[1]) => Admissible(x[1])')
    BY <1>7, OwnerIdle DEF Items
  <2>4. VisitInv(x[1])'
    BY <1>2, <1>4, <2>2, <2>3, CloseMoves
  <2> QED
    BY <1>1, <1>2, <1>3, <1>7, <2>1, <2>2, <2>4, HeardCloses
<1> QED
  BY <1>5, <1>6, <1>7 DEF Record

--------------------------------------------------------------------------------
(* Admission and claim *)

(* A staged operation was never attempted, so nobody called for it or is      *)
(* about to.                                                                  *)
LEMMA NothingYet ==
  ASSUME DInv, NEW o \in Operations, Admissible(o), NEW x \in Items, x = <<o, "effect">>
  PROVE  /\ \A i \in AttemptNos : att[o][i].kind = "none"
         /\ \A i \in AttemptNos : Calls(x, i) = 0 /\ ~Poised(x, i)
         /\ obs[o] \in Seq(Observation) /\ \A k \in 1..Len(obs[o]) : FALSE
<1>1. count[o] = 0 /\ IndInv /\ OwnerInv(o)
  BY DEF DInv, IndInv, OperationInv, Admissible, Staged
<1>2. ASSUME NEW i \in AttemptNos PROVE att[o][i].kind = "none"
  <2>1. ~(i <= count[o])
    BY <1>1, EffectsAssumption DEF AttemptNos
  <2>2. att[o][i].state = "none"
    BY <1>1, <2>1 DEF IndInv, ETypeOK
  <2> QED
    BY <1>1, <2>2 DEF IndInv, AttemptInv
<1>3. ASSUME NEW i \in AttemptNos PROVE Calls(x, i) = 0 /\ ~Poised(x, i)
  <2>1. CallInv(x, i) /\ x[1] = o /\ x[2] = "effect"
    BY DEF DInv, ItemInv
  <2>2. Calls(x, i) \in Nat
    BY <2>1 DEF Calls, DInv, DTypeOK
  <2>3. Calls(x, i) # 1
    BY <1>2, <2>1 DEF CallInv, DispatchAttempts
  <2>4. ~Poised(x, i)
    BY <1>2, <2>1 DEF CallInv, KindOf
  <2> QED
    BY <2>1, <2>2, <2>3, <2>4 DEF CallInv
<1>4. \A k \in 1..Len(obs[o]) : FALSE
  BY <1>1, <1>2, ObservedAttempt DEF OwnerInv
<1>5. obs[o] \in Seq(Observation)
  BY <1>1 DEF IndInv, ETypeOK
<1> QED
  BY <1>2, <1>3, <1>4, <1>5

(* What the owner does in an admission, whether or not it is answered. *)
LEMMA AdmissionRows ==
  ASSUME DInv, NEW o \in Operations, Admissible(o), NEW policy,
         \/ Admit(o, policy)
         \/ UNCHANGED evars
         \/ \E to \in {"expired", "denied"} : AdmitRefuses(o, to)
  PROVE  /\ OwnerStep(o) /\ NoClaim(o) /\ NoUnknown(o)
         /\ \A i \in DispatchAttempts(o)' : ~att'[o][i].consumed
         /\ \A k \in 1..Len(obs'[o]) :
              ~(obs'[o][k].att \in DispatchAttempts(o)' /\ obs'[o][k].disp = "unknown")
<1>1. IndInv /\ \A p \in Operations : OwnerInv(p)
  BY DEF DInv
<1>2. PICK x \in Items : x = <<o, "effect">>
  <2>1. <<o, "effect">> \in Items
    BY DEF Items, Kinds
  <2> QED
    BY <2>1
<1>3. OwnerStep(o) /\ NoClaim(o) /\ NoUnknown(o)
  <2>1. CASE Admit(o, policy)
    BY <1>1, <2>1, OwnerAdmits
  <2>2. CASE UNCHANGED evars
    BY <2>2, OwnerIdle
  <2>3. CASE \E to \in {"expired", "denied"} : AdmitRefuses(o, to)
    BY <1>1, <2>3, OwnerStages
  <2> QED
    BY <2>1, <2>2, <2>3
<1>4. ASSUME NEW i \in AttemptNos, att'[o][i].kind = "dispatch" PROVE ~att'[o][i].consumed
  BY <1>2, <1>3, <1>4, NothingYet DEF NoClaim
<1>5. ASSUME NEW k \in 1..Len(obs'[o]), att'[o][obs'[o][k].att].kind = "dispatch",
             obs'[o][k].disp = "unknown"
      PROVE  FALSE
  BY <1>2, <1>3, <1>5, NothingYet DEF NoUnknown
<1> QED
  BY <1>3, <1>4, <1>5 DEF DispatchAttempts

(* admit: the admitting line, then the call of the owner and its line. *)
LEMMA AdmitEffectKeeps ==
  ASSUME DInv, NEW o \in Operations, NEW policy \in Policies, AdmitEffect(o, policy)
  PROVE  DInv'
<1>0. <<o, "effect">> \in Items
  BY DEF Items, Kinds
<1> PICK x \in Items : x = <<o, "effect">> /\ x[1] = o /\ x[2] = "effect"
  BY <1>0
<1>1. /\ x \in visit /\ pass = "admit" /\ ~Open(mem[x]) /\ visit' = visit \ {x} /\ LoopUnchanged
  BY DEF AdmitEffect, Visiting
<1>2. Admissible(o) /\ DTypeOK
  BY <1>1 DEF DInv, VisitInv, Open
<1>3. VisitInv(o)' /\ visit' \subseteq visit
  BY <1>1, VisitOver
<1>4. PICK b \in JournalEntry : b = Begun /\ b.phase = "admitting" /\ b.att = 0
  BY <1>2, BegunType
<1>5. PICK l \in JournalEntry : l = mem[x] /\ l \in Lines(x)
  BY <1>2 DEF DTypeOK, Lines
<1>6. PICK d \in JournalEntry : d = [b EXCEPT !.phase = "done"] /\ d.phase = "done"
  <2>1. [b EXCEPT !.phase = "done"] \in JournalEntry
    BY DEF JournalEntry, Phases
  <2> QED
    BY <2>1 DEF JournalEntry
<1>7. \A i \in AttemptNos : Calls(x, i) = 0 /\ ~Poised(x, i)
  BY <1>2, NothingYet
<1>8. ASSUME OwnerStep(o), NoClaim(o), NoUnknown(o), run'[x] # "invoke",
             \A i \in DispatchAttempts(o)' : ~att'[o][i].consumed,
             \A k \in 1..Len(obs'[o]) :
               ~(obs'[o][k].att \in DispatchAttempts(o)' /\ obs'[o][k].disp = "unknown")
      PROVE  /\ LineInv(x, b)' /\ LineInv(x, d)' /\ LineInv(x, l)'
             /\ \A e : Untouched(x, e)'
  <2>1. Calm(x)
    BY <1>1, <1>8 DEF Calm, LoopUnchanged
  <2>2. \A e : Untouched(x, e)'
    BY <1>7, <2>1, CalmCalls DEF Untouched
  <2>3. LineInv(x, b)'
    BY <1>4, <1>8, <2>2 DEF LineInv
  <2>4. LineInv(x, d)'
    BY <1>6, <1>8 DEF LineInv
  <2>5. LineInv(x, l)'
    BY <1>1, <1>5, <1>8, OldLine
  <2> QED
    BY <2>2, <2>3, <2>4, <2>5
<1>9. CASE PutFails(x, mem[x], Begun) /\ LetGo(x) /\ UNCHANGED evars
  <2>1. PutFails(x, l, b)
    BY <1>4, <1>5, <1>9
  <2>2. Moves(x) /\ mem'[x] = l /\ disk'[x] \in {l, b} /\ run'[x] = "idle"
    BY <1>2, <1>9, <2>1, PutFailsMoves
  <2>3. /\ OwnerStep(o) /\ NoClaim(o) /\ NoUnknown(o) /\ run'[x] # "invoke"
        /\ \A i \in DispatchAttempts(o)' : ~att'[o][i].consumed
        /\ \A k \in 1..Len(obs'[o]) :
             ~(obs'[o][k].att \in DispatchAttempts(o)' /\ obs'[o][k].disp = "unknown")
    BY <1>2, <1>9, <2>2, AdmissionRows
  <2>4. \A k \in Lines(x)' : LineInv(x, k)'
    BY <1>8, <2>2, <2>3 DEF Lines
  <2>5. StepInv(x)'
    BY <1>1, <1>5, <2>2 DEF StepInv, Open
  <2> QED
    BY <1>1, <1>3, <2>2, <2>3, <2>4, <2>5, CalmMoves
<1>10. CASE /\ Admit(o, policy)
            /\ Advance(x, Begun,
                 [Begun EXCEPT !.phase = "admitted", !.att = count[o] + 1], "claim")
  <2>1. PICK n \in AttemptNos : n = count[o] + 1 /\ att'[o][n].kind = "dispatch"
    BY <1>10, OwnerAdmits DEF DInv
  <2>2. PICK e \in JournalEntry : /\ e = [b EXCEPT !.phase = "admitted", !.att = n]
                                  /\ e.phase = "admitted" /\ e.att = n
    <3>1. n \in 0..MaxAttempts
      BY EffectsAssumption DEF AttemptNos
    <3>2. [b EXCEPT !.phase = "admitted", !.att = n] \in JournalEntry
      BY <3>1 DEF JournalEntry, Phases
    <3> QED
      BY <3>2 DEF JournalEntry
  <2>3. Advance(x, b, e, "claim") /\ "claim" \in Runs
    BY <1>4, <1>10, <2>1, <2>2 DEF Runs
  <2>4. Moves(x) /\ Written(x, b, e, "claim")
    BY <1>2, <2>3, AdvanceMoves
  <2>5. Lines(x)' \subseteq {b, e} /\ run'[x] \in {"claim", "idle"} /\ run'[x] # "invoke"
    BY <2>4, WrittenLines
  <2>6. /\ OwnerStep(o) /\ NoClaim(o) /\ NoUnknown(o)
        /\ \A i \in DispatchAttempts(o)' : ~att'[o][i].consumed
        /\ \A k \in 1..Len(obs'[o]) :
             ~(obs'[o][k].att \in DispatchAttempts(o)' /\ obs'[o][k].disp = "unknown")
    BY <1>2, <1>10, AdmissionRows
  <2>7. LineInv(x, b)' /\ Untouched(x, e)'
    BY <1>8, <2>5, <2>6
  <2>8. LineInv(x, e)'
    BY <2>1, <2>2, <2>6, <2>7 DEF LineInv, KindOf
  <2>9. StepInv(x)'
    BY <1>4, <2>2, <2>4 DEF StepInv, Written
  <2> QED
    BY <1>1, <1>3, <2>4, <2>5, <2>6, <2>7, <2>8, <2>9, CalmMoves
<1>11. CASE /\ Admit(o, policy) \/ UNCHANGED evars
            /\ Unanswered
            /\ mem' = [mem EXCEPT ![x] = Begun]
            /\ disk' = [disk EXCEPT ![x] = Begun]
            /\ LetGo(x)
  <2>1. mem' = [mem EXCEPT ![x] = b] /\ disk' = [disk EXCEPT ![x] = b]
    BY <1>4, <1>11
  <2>2. Moves(x) /\ mem'[x] = b /\ disk'[x] = b /\ run'[x] = "idle"
    BY <1>2, <1>11, <2>1, UnansweredMoves
  <2>3. /\ OwnerStep(o) /\ NoClaim(o) /\ NoUnknown(o) /\ run'[x] # "invoke"
        /\ \A i \in DispatchAttempts(o)' : ~att'[o][i].consumed
        /\ \A k \in 1..Len(obs'[o]) :
             ~(obs'[o][k].att \in DispatchAttempts(o)' /\ obs'[o][k].disp = "unknown")
    BY <1>2, <1>11, <2>2, AdmissionRows
  <2>4. \A k \in Lines(x)' : LineInv(x, k)'
    BY <1>8, <2>2, <2>3 DEF Lines
  <2>5. StepInv(x)'
    BY <1>4, <2>2 DEF StepInv
  <2> QED
    BY <1>1, <1>3, <2>2, <2>3, <2>4, <2>5, CalmMoves
<1>12. CASE /\ UNCHANGED evars \/ \E to \in {"expired", "denied"} : AdmitRefuses(o, to)
            /\ Close(x, Begun, [Begun EXCEPT !.phase = "done"])
  <2>1. Close(x, b, d)
    BY <1>4, <1>6, <1>12
  <2>2. Moves(x) /\ Written(x, b, d, "idle")
    BY <1>2, <2>1, CloseMoves
  <2>3. Lines(x)' \subseteq {b, d} /\ run'[x] = "idle" /\ run'[x] # "invoke"
    BY <2>2, WrittenLines
  <2>4. /\ OwnerStep(o) /\ NoClaim(o) /\ NoUnknown(o)
        /\ \A i \in DispatchAttempts(o)' : ~att'[o][i].consumed
        /\ \A k \in 1..Len(obs'[o]) :
             ~(obs'[o][k].att \in DispatchAttempts(o)' /\ obs'[o][k].disp = "unknown")
    BY <1>2, <1>12, AdmissionRows
  <2>5. \A k \in Lines(x)' : LineInv(x, k)'
    BY <1>8, <2>3, <2>4
  <2>6. StepInv(x)'
    BY <1>4, <1>6, <2>2 DEF StepInv, Written
  <2> QED
    BY <1>1, <1>3, <2>2, <2>3, <2>4, <2>5, <2>6, CalmMoves
<1> QED
  BY <1>9, <1>10, <1>11, <1>12 DEF AdmitEffect

(* An admitted line that is not spoken for: its claim was not consumed by     *)
(* anyone who could still call.                                               *)
LEMMA AdmittedEntry ==
  ASSUME DInv, NEW x \in Items, mem[x].phase = "admitted"
  PROVE  /\ mem[x].att \in AttemptNos /\ att[x[1]][mem[x].att].kind = KindOf(x)
         /\ Untouched(x, mem[x])
         /\ disk[x].phase # "admitting"
         /\ mem[x].phase \notin Spoken
BY DEF DInv, ItemInv, Lines, LineInv, StepInv, Spoken

(* The claim line is durable and the worker goes on to the adapter. *)
LEMMA ClaimedMoves ==
  ASSUME DInv, NEW x \in Items, NEW n \in AttemptNos, NEW e \in JournalEntry,
         OwnerStep(x[1]), NoUnknown(x[1]), x[2] = "reconcile" => NoClaim(x[1]),
         mem[x].phase = "admitted", mem[x].att = n, e.phase = "claimed", e.att = n,
         att'[x[1]][n].consumed, Moves(x), LoopUnchanged, visit' \subseteq visit,
         VisitInv(x[1])', mem'[x] = e, disk'[x] = e, run'[x] = "invoke"
  PROVE  DInv'
<1> PICK o \in Operations : o = x[1]
  BY DEF Items
<1>1. /\ att[o][n].kind = KindOf(x) /\ Untouched(x, mem[x]) /\ mem[x].phase \notin Spoken
  BY AdmittedEntry
<1>2. att'[o][n].kind = KindOf(x) /\ IndInv /\ Grows
  BY <1>1 DEF OwnerStep, Grows, KindOf, DInv
<1>3. LineInv(x, e)'
  <2>1. x[2] = "effect" =>
          \A k \in 1..Len(obs'[o]) :
            ~(obs'[o][k].att \in DispatchAttempts(o)' /\ obs'[o][k].disp = "unknown")
    BY <1>1, UnheardLine
  <2> QED
    BY <1>2, <2>1 DEF LineInv, KindOf
<1>4. ASSUME NEW i \in AttemptNos PROVE CallInv(x, i)'
  <2>1. CallInv(x, i) /\ Calls(x, i)' = Calls(x, i)
    BY DEF DInv, ItemInv, Calls, LoopUnchanged
  <2>2. CASE i = n
    <3>1. Calls(x, i) = 0 /\ ~Poised(x, i)
      BY <1>1, <2>2 DEF Untouched
    <3>2. <<x, i>> \notin orphan'
      BY <3>1 DEF Poised, LoopUnchanged
    <3> QED
      BY <1>2, <2>1, <2>2, <3>1, <3>2 DEF CallInv
  <2>3. CASE i # n
    <3>1. Poised(x, i)' => Poised(x, i)
      BY <2>3 DEF Poised, LoopUnchanged
    <3>2. ~(<<x, i>> \in orphan' /\ run'[x] = "invoke" /\ mem'[x].att = i)
      BY <2>3
    <3> QED
      BY <1>2, <2>1, <3>1, <3>2, CallStands
  <2> QED
    BY <2>2, <2>3
<1>5. StepInv(x)'
  BY DEF StepInv
<1>6. \A l \in Lines(x)' : LineInv(x, l)'
  BY <1>3 DEF Lines
<1> QED
  BY <1>4, <1>5, <1>6, EntryMoves

(* The claim of a dispatch and its line. *)
LEMMA ClaimEffectKeeps ==
  ASSUME DInv, NEW o \in Operations, NEW policy \in Policies, ClaimEffect(o, policy)
  PROVE  DInv'
<1>0. <<o, "effect">> \in Items
  BY DEF Items, Kinds
<1> PICK x \in Items : x = <<o, "effect">> /\ x[1] = o /\ x[2] = "effect"
  BY <1>0
<1>1. /\ run[x] = "claim" \/ Claimable(x)
      /\ visit' = visit \ {x} /\ LoopUnchanged
  BY DEF ClaimEffect
<1>2. mem[x].phase = "admitted" /\ DTypeOK
  BY <1>1 DEF Claimable, DInv, ItemInv, StepInv
<1>3. VisitInv(o)' /\ visit' \subseteq visit
  BY <1>1, VisitOver
<1>4. PICK l \in JournalEntry : l = mem[x] /\ l \in Lines(x)
  BY <1>2 DEF DTypeOK, Lines
<1>5. PICK n \in AttemptNos : n = l.att /\ att[o][n].kind = "dispatch"
  BY <1>2, <1>4, AdmittedEntry DEF KindOf
<1>6. PICK c \in JournalEntry : c = Claimed(l) /\ c.phase = "claimed" /\ c.att = n
  <2>1. [l EXCEPT !.phase = "claimed"] \in JournalEntry
    BY DEF JournalEntry, Phases
  <2> QED
    BY <1>5, <2>1 DEF JournalEntry, Claimed
<1>7. PICK f \in JournalEntry : f = [l EXCEPT !.fault = TRUE] /\ f.phase = "admitted" /\ f.att = n
  <2>1. [l EXCEPT !.fault = TRUE] \in JournalEntry
    BY DEF JournalEntry
  <2> QED
    BY <1>2, <1>4, <1>5, <2>1 DEF JournalEntry
<1>8. PICK s \in JournalEntry : s = NotSent(f) /\ s.phase = "observed" /\ s.att = n
  <2>1. ZeroUsage \in Usage
    BY DEF ZeroUsage, Usage
  <2>2. [f EXCEPT !.phase = "observed", !.disp = "not_sent", !.usage = ZeroUsage] \in JournalEntry
    BY <2>1 DEF JournalEntry, Phases, Dispositions
  <2> QED
    BY <1>7, <2>2 DEF JournalEntry, NotSent
<1>9. ASSUME Claim(o, l.att, policy) \/ UNCHANGED evars
      PROVE  OwnerStep(o) /\ NoUnknown(o) /\ (Claim(o, l.att, policy) => att'[o][n].consumed)
  <2>1. CASE Claim(o, l.att, policy)
    <3>1. Claim(o, n, policy) /\ IndInv /\ \A p \in Operations : OwnerInv(p)
      BY <1>5, <2>1 DEF DInv
    <3> QED
      BY <3>1, OwnerClaims
  <2>2. CASE UNCHANGED evars
    <3>1. OwnerStep(o) /\ NoUnknown(o)
      BY <2>2, OwnerIdle
    <3> QED
      BY <2>1, <3>1
  <2> QED
    BY <1>9, <2>1, <2>2
<1>10. ASSUME OwnerStep(o), NoUnknown(o), run'[x] # "invoke"
       PROVE  /\ LineInv(x, l)' /\ LineInv(x, f)' /\ LineInv(x, s)'
              /\ att'[o][n].consumed => LineInv(x, c)'
  <2>1. LineInv(x, l)'
    BY <1>1, <1>2, <1>4, <1>10, OldLine
  <2>2. Untouched(x, l)'
    BY <1>2, <1>4, <2>1 DEF LineInv
  <2>3. Untouched(x, f)'
    BY <2>2 DEF Untouched
  <2>4. att'[o][n].kind = "dispatch"
    BY <1>2, <1>4, <1>5, <2>1 DEF LineInv, KindOf
  <2>5. \A k \in 1..Len(obs'[o]) :
          ~(obs'[o][k].att \in DispatchAttempts(o)' /\ obs'[o][k].disp = "unknown")
    BY <1>2, <1>10, AdmittedEntry, UnheardLine
  <2>6. LineInv(x, f)'
    BY <1>7, <2>3, <2>4, <2>5 DEF LineInv, KindOf
  <2>7. LineInv(x, s)'
    BY <1>8, <2>4, <2>5 DEF LineInv, KindOf
  <2>8. att'[o][n].consumed => LineInv(x, c)'
    BY <1>6, <2>4, <2>5 DEF LineInv, KindOf
  <2> QED
    BY <2>1, <2>6, <2>7, <2>8
<1>11. CASE Claim(o, l.att, policy) /\ Put(x, Claimed(l)) /\ Step(x, "invoke")
            /\ held' = held \cup {x}
  <2>1. Put(x, c) /\ "invoke" \in Runs
    BY <1>6, <1>11 DEF Runs
  <2>2. Moves(x) /\ mem'[x] = c /\ disk'[x] = c /\ run'[x] = "invoke"
    BY <1>2, <1>11, <2>1, PutMoves
  <2>3. OwnerStep(o) /\ NoUnknown(o) /\ att'[o][n].consumed
    BY <1>9, <1>11
  <2> QED
    BY <1>1, <1>2, <1>3, <1>4, <1>5, <1>6, <2>2, <2>3, ClaimedMoves
<1>12. CASE Claim(o, l.att, policy) /\ PutFails(x, l, Claimed(l)) /\ LetGo(x)
  <2>1. PutFails(x, l, c)
    BY <1>6, <1>12
  <2>2. Moves(x) /\ mem'[x] = l /\ disk'[x] \in {l, c} /\ run'[x] = "idle"
    BY <1>2, <1>12, <2>1, PutFailsMoves
  <2>3. OwnerStep(o) /\ NoUnknown(o) /\ att'[o][n].consumed
    BY <1>9, <1>12
  <2>4. \A k \in Lines(x)' : LineInv(x, k)'
    BY <1>10, <2>2, <2>3 DEF Lines
  <2>5. StepInv(x)'
    BY <1>2, <1>4, <1>6, <2>2 DEF StepInv
  <2>6. run'[x] # "invoke"
    BY <2>2
  <2> QED
    BY <1>1, <1>3, <2>2, <2>3, <2>4, <2>5, <2>6, CalmMoves
<1>13. CASE (Claim(o, l.att, policy) \/ UNCHANGED evars) /\ NoAnswer /\ LetGo(x)
  <2>1. OwnerStep(o) /\ NoUnknown(o)
    BY <1>9, <1>13
  <2>2. \A k \in Lines(x) : k.phase # "admitting"
    BY <1>2, AdmittedEntry DEF Lines
  <2> QED
    BY <1>1, <1>3, <1>13, <2>1, <2>2, Abandoned
<1>14. CASE /\ Claim(o, l.att, policy) \/ UNCHANGED evars
            /\ \/ PutFails(x, l, [l EXCEPT !.fault = TRUE]) /\ LetGo(x)
               \/ Advance(x, [l EXCEPT !.fault = TRUE], NotSent([l EXCEPT !.fault = TRUE]), "record")
  <2>1. OwnerStep(o) /\ NoUnknown(o)
    BY <1>9, <1>14
  <2>2. (PutFails(x, l, f) /\ LetGo(x)) \/ Advance(x, f, s, "record")
    BY <1>7, <1>8, <1>14
  <2>3. CASE PutFails(x, l, f) /\ LetGo(x)
    <3>1. Moves(x) /\ mem'[x] = l /\ disk'[x] \in {l, f} /\ run'[x] = "idle"
      BY <1>2, <2>3, PutFailsMoves
    <3>2. run'[x] # "invoke" /\ StepInv(x)'
      BY <1>2, <1>4, <1>7, <3>1 DEF StepInv
    <3>3. \A k \in Lines(x)' : LineInv(x, k)'
      BY <1>10, <2>1, <3>1, <3>2 DEF Lines
    <3> QED
      BY <1>1, <1>3, <2>1, <3>1, <3>2, <3>3, CalmMoves
  <2>4. CASE Advance(x, f, s, "record")
    <3>1. Moves(x) /\ Written(x, f, s, "record")
      <4>1. "record" \in Runs
        BY DEF Runs
      <4> QED
        BY <1>2, <2>4, <4>1, AdvanceMoves
    <3>2. Lines(x)' \subseteq {f, s} /\ run'[x] \in {"record", "idle"} /\ run'[x] # "invoke"
      BY <3>1, WrittenLines
    <3>3. StepInv(x)'
      BY <1>7, <1>8, <3>1 DEF StepInv, Written
    <3>4. \A k \in Lines(x)' : LineInv(x, k)'
      BY <1>10, <2>1, <3>2
    <3> QED
      BY <1>1, <1>3, <2>1, <3>1, <3>2, <3>3, <3>4, CalmMoves
  <2> QED
    BY <2>2, <2>3, <2>4
<1> QED
  BY <1>4, <1>11, <1>12, <1>13, <1>14 DEF ClaimEffect

(* A line of a read that speaks of no attempt. *)
LEMMA SilentRead ==
  ASSUME NEW x \in Items, x[2] = "reconcile", NEW l,
         l.phase \in {"done", "refused", "stranded"} \/ (l.phase = "admitting" /\ l.att = 0)
  PROVE  LineInv(x, l)'
<1>1. 0 \notin AttemptNos
  BY EffectsAssumption DEF AttemptNos
<1> QED
  BY <1>1 DEF LineInv, Untouched

(* The preparation of a read and its line. *)
LEMMA PrepareReadKeeps ==
  ASSUME DInv, NEW o \in Operations, NEW policy \in Policies, PrepareRead(o, policy)
  PROVE  DInv'
<1>0. <<o, "reconcile">> \in Items
  BY DEF Items, Kinds
<1> PICK x \in Items : x = <<o, "reconcile">> /\ x[1] = o /\ x[2] = "reconcile"
  BY <1>0
<1>1. ~Open(mem[x]) /\ visit' = visit \ {x} /\ LoopUnchanged
  BY DEF PrepareRead
<1>2. DTypeOK /\ visit' \subseteq visit
  BY <1>1 DEF DInv
<1>3. PICK b \in JournalEntry : b = Begun /\ b.phase = "admitting" /\ b.att = 0
  BY <1>2, BegunType
<1>4. PICK l \in JournalEntry : l = mem[x] /\ l \in Lines(x)
  BY <1>2 DEF DTypeOK, Lines
<1>5. PICK d \in JournalEntry : d = [b EXCEPT !.phase = "done"] /\ d.phase = "done"
  <2>1. [b EXCEPT !.phase = "done"] \in JournalEntry
    BY DEF JournalEntry, Phases
  <2> QED
    BY <2>1 DEF JournalEntry
<1>6. ASSUME ReconciliationPrepare(o, policy) \/ UNCHANGED evars
      PROVE  OwnerStep(o) /\ NoClaim(o) /\ NoUnknown(o) /\ (Admissible(o) => Admissible(o)')
  <2>1. CASE ReconciliationPrepare(o, policy)
    BY <2>1, OwnerPrepares DEF DInv
  <2>2. CASE UNCHANGED evars
    BY <2>2, OwnerIdle
  <2> QED
    BY <1>6, <2>1, <2>2
<1>7. LineInv(x, b)' /\ LineInv(x, d)'
  BY <1>3, <1>5, SilentRead
<1>8. ASSUME OwnerStep(o), Admissible(o) => Admissible(o)', Moves(x)
      PROVE  VisitInv(o)'
  BY <1>1, <1>2, <1>8, VisitStands
<1>9. CASE PutFails(x, mem[x], Begun) /\ LetGo(x) /\ UNCHANGED evars
  <2>1. PutFails(x, l, b)
    BY <1>3, <1>4, <1>9
  <2>2. Moves(x) /\ mem'[x] = l /\ disk'[x] \in {l, b} /\ run'[x] = "idle"
    BY <1>2, <1>9, <2>1, PutFailsMoves
  <2>3. run'[x] # "invoke"
    BY <2>2
  <2>4. LineInv(x, l)'
    BY <1>1, <1>4, <1>6, <1>9, <2>3, OldLine
  <2>5. \A k \in Lines(x)' : LineInv(x, k)'
    BY <1>7, <2>2, <2>4 DEF Lines
  <2>6. StepInv(x)'
    BY <1>1, <1>4, <2>2 DEF StepInv, Open
  <2> QED
    BY <1>1, <1>2, <1>6, <1>8, <1>9, <2>2, <2>3, <2>5, <2>6, CalmMoves
<1>10. CASE /\ ReconciliationPrepare(o, policy)
            /\ Advance(x, Begun,
                 [Begun EXCEPT !.phase = "admitted", !.att = count[o] + 1], "claim")
  <2>1. PICK n \in AttemptNos : /\ n = count[o] + 1 /\ att[o][n].kind = "none"
                                /\ att'[o][n].kind = "reconciliation"
    BY <1>10, OwnerPrepares DEF DInv
  <2>2. PICK e \in JournalEntry : /\ e = [b EXCEPT !.phase = "admitted", !.att = n]
                                  /\ e.phase = "admitted" /\ e.att = n
    <3>1. n \in 0..MaxAttempts
      BY EffectsAssumption DEF AttemptNos
    <3>2. [b EXCEPT !.phase = "admitted", !.att = n] \in JournalEntry
      BY <3>1 DEF JournalEntry, Phases
    <3> QED
      BY <3>2 DEF JournalEntry
  <2>3. Advance(x, b, e, "claim") /\ "claim" \in Runs
    BY <1>3, <1>10, <2>1, <2>2 DEF Runs
  <2>4. Moves(x) /\ Written(x, b, e, "claim")
    BY <1>2, <2>3, AdvanceMoves
  <2>5. Lines(x)' \subseteq {b, e} /\ run'[x] \in {"claim", "idle"} /\ run'[x] # "invoke"
    BY <2>4, WrittenLines
  <2>6. Calls(x, n) = 0 /\ ~Poised(x, n)
    <3>1. CallInv(x, n) /\ AttemptInv(o, n)
      BY DEF DInv, ItemInv, IndInv
    <3>2. ~att[o][n].consumed
      BY <2>1, <3>1 DEF AttemptInv
    <3>3. Calls(x, n) \in Nat /\ Calls(x, n) # 1
      BY <1>2, <3>1, <3>2 DEF CallInv, Calls, DTypeOK
    <3> QED
      BY <2>1, <3>1, <3>3 DEF CallInv, KindOf
  <2>7. Untouched(x, e)'
    <3>1. Calm(x)
      BY <1>1, <2>5 DEF Calm, LoopUnchanged
    <3> QED
      BY <2>2, <2>6, <3>1, CalmCalls DEF Untouched
  <2>8. LineInv(x, e)'
    BY <2>1, <2>2, <2>7 DEF LineInv, KindOf
  <2>9. StepInv(x)'
    BY <1>3, <2>2, <2>4 DEF StepInv, Written
  <2> QED
    BY <1>1, <1>2, <1>6, <1>7, <1>8, <1>10, <2>4, <2>5, <2>8, <2>9, CalmMoves
<1>11. CASE UNCHANGED evars /\ Close(x, Begun, [Begun EXCEPT !.phase = "done"])
  <2>1. Close(x, b, d)
    BY <1>3, <1>5, <1>11
  <2>2. Moves(x) /\ Written(x, b, d, "idle")
    BY <1>2, <2>1, CloseMoves
  <2>3. Lines(x)' \subseteq {b, d} /\ run'[x] = "idle" /\ run'[x] # "invoke"
    BY <2>2, WrittenLines
  <2>4. StepInv(x)'
    BY <1>3, <1>5, <2>2 DEF StepInv, Written
  <2> QED
    BY <1>1, <1>2, <1>6, <1>7, <1>8, <1>11, <2>2, <2>3, <2>4, CalmMoves
<1>12. CASE /\ ReconciliationPrepare(o, policy)
            /\ Unanswered
            /\ mem' = [mem EXCEPT ![x] = [Begun EXCEPT !.phase = "done"]]
            /\ disk' = [disk EXCEPT ![x] = [Begun EXCEPT !.phase = "done"]]
            /\ LetGo(x)
  <2>1. mem' = [mem EXCEPT ![x] = d] /\ disk' = [disk EXCEPT ![x] = d]
    BY <1>3, <1>5, <1>12
  <2>2. Moves(x) /\ mem'[x] = d /\ disk'[x] = d /\ run'[x] = "idle"
    BY <1>2, <1>12, <2>1, UnansweredMoves
  <2>3. StepInv(x)' /\ run'[x] # "invoke"
    BY <1>5, <2>2 DEF StepInv
  <2>4. \A k \in Lines(x)' : LineInv(x, k)'
    BY <1>7, <2>2 DEF Lines
  <2> QED
    BY <1>1, <1>2, <1>6, <1>8, <1>12, <2>2, <2>3, <2>4, CalmMoves
<1> QED
  BY <1>9, <1>10, <1>11, <1>12 DEF PrepareRead

(* The claim of a read and its line. *)
LEMMA ClaimReadKeeps ==
  ASSUME DInv, NEW o \in Operations, NEW policy \in Policies, ClaimRead(o, policy)
  PROVE  DInv'
<1>0. <<o, "reconcile">> \in Items
  BY DEF Items, Kinds
<1> PICK x \in Items : x = <<o, "reconcile">> /\ x[1] = o /\ x[2] = "reconcile"
  BY <1>0
<1>1. run[x] = "claim" /\ visit' = visit /\ LoopUnchanged
  BY DEF ClaimRead
<1>2. mem[x].phase = "admitted" /\ DTypeOK /\ visit' \subseteq visit
  BY <1>1 DEF DInv, ItemInv, StepInv
<1>3. PICK l \in JournalEntry : l = mem[x] /\ l \in Lines(x)
  BY <1>2 DEF DTypeOK, Lines
<1>4. PICK n \in AttemptNos : n = l.att /\ att[o][n].kind = "reconciliation"
  BY <1>2, <1>3, AdmittedEntry DEF KindOf
<1>5. PICK c \in JournalEntry : c = Claimed(l) /\ c.phase = "claimed" /\ c.att = n
  <2>1. [l EXCEPT !.phase = "claimed"] \in JournalEntry
    BY DEF JournalEntry, Phases
  <2> QED
    BY <1>4, <2>1 DEF JournalEntry, Claimed
<1>6. PICK s \in JournalEntry : s = NotSent(l) /\ s.phase = "observed" /\ s.att = n
  <2>1. ZeroUsage \in Usage
    BY DEF ZeroUsage, Usage
  <2>2. [l EXCEPT !.phase = "observed", !.disp = "not_sent", !.usage = ZeroUsage] \in JournalEntry
    BY <2>1 DEF JournalEntry, Phases, Dispositions
  <2> QED
    BY <1>4, <2>2 DEF JournalEntry, NotSent
<1>7. PICK d \in JournalEntry : d = [l EXCEPT !.phase = "done", !.fault = TRUE] /\ d.phase = "done"
  <2>1. [l EXCEPT !.phase = "done", !.fault = TRUE] \in JournalEntry
    BY DEF JournalEntry, Phases
  <2> QED
    BY <2>1 DEF JournalEntry
<1>8. ASSUME Claim(o, l.att, policy) \/ UNCHANGED evars
      PROVE  /\ OwnerStep(o) /\ NoClaim(o) /\ NoUnknown(o) /\ (Admissible(o) => Admissible(o)')
             /\ Claim(o, l.att, policy) => att'[o][n].consumed
  <2>1. CASE Claim(o, l.att, policy)
    <3>1. Claim(o, n, policy) /\ IndInv /\ \A p \in Operations : OwnerInv(p)
      BY <1>4, <2>1 DEF DInv
    <3> QED
      BY <1>4, <3>1, OwnerClaims
  <2>2. CASE UNCHANGED evars
    <3>1. OwnerStep(o) /\ NoClaim(o) /\ NoUnknown(o) /\ (Admissible(o) => Admissible(o)')
      BY <2>2, OwnerIdle
    <3> QED
      BY <2>1, <3>1
  <2> QED
    BY <1>8, <2>1, <2>2
<1>9. ASSUME OwnerStep(o), run'[x] # "invoke"
      PROVE  /\ LineInv(x, l)' /\ LineInv(x, s)'
             /\ att'[o][n].consumed => LineInv(x, c)'
  <2>1. LineInv(x, l)'
    BY <1>1, <1>2, <1>3, <1>9, OldLine
  <2>2. att'[o][n].kind = "reconciliation"
    BY <1>2, <1>3, <1>4, <2>1 DEF LineInv, KindOf
  <2>3. LineInv(x, s)'
    BY <1>6, <2>2 DEF LineInv, KindOf
  <2>4. att'[o][n].consumed => LineInv(x, c)'
    BY <1>5, <2>2 DEF LineInv, KindOf
  <2> QED
    BY <2>1, <2>3, <2>4
<1>10. LineInv(x, d)'
  BY <1>7, SilentRead
<1>11. ASSUME OwnerStep(o), Admissible(o) => Admissible(o)', Moves(x)
       PROVE  VisitInv(o)'
  BY <1>1, <1>2, <1>11, VisitStands
<1>12. CASE Claim(o, l.att, policy) /\ Put(x, Claimed(l)) /\ Step(x, "invoke")
            /\ held' = held \cup {x}
  <2>1. Put(x, c) /\ "invoke" \in Runs
    BY <1>5, <1>12 DEF Runs
  <2>2. Moves(x) /\ mem'[x] = c /\ disk'[x] = c /\ run'[x] = "invoke"
    BY <1>2, <1>12, <2>1, PutMoves
  <2>3. OwnerStep(o) /\ NoClaim(o) /\ NoUnknown(o) /\ att'[o][n].consumed /\ VisitInv(o)'
    BY <1>8, <1>11, <1>12, <2>2
  <2> QED
    BY <1>1, <1>2, <1>3, <1>4, <1>5, <2>2, <2>3, ClaimedMoves
<1>13. CASE Claim(o, l.att, policy) /\ PutFails(x, l, Claimed(l)) /\ LetGo(x)
  <2>1. PutFails(x, l, c)
    BY <1>5, <1>13
  <2>2. Moves(x) /\ mem'[x] = l /\ disk'[x] \in {l, c} /\ run'[x] = "idle"
    BY <1>2, <1>13, <2>1, PutFailsMoves
  <2>3. OwnerStep(o) /\ NoClaim(o) /\ NoUnknown(o) /\ att'[o][n].consumed /\ VisitInv(o)'
    BY <1>8, <1>11, <1>13, <2>2
  <2>4. run'[x] # "invoke"
    BY <2>2
  <2>5. \A k \in Lines(x)' : LineInv(x, k)'
    BY <1>9, <2>2, <2>3, <2>4 DEF Lines
  <2>6. StepInv(x)'
    BY <1>2, <1>3, <1>5, <2>2 DEF StepInv
  <2> QED
    BY <1>1, <1>2, <2>2, <2>3, <2>4, <2>5, <2>6, CalmMoves
<1>14. CASE Claim(o, l.att, policy) /\ Advance(x, l, NotSent(l), "record")
  <2>1. Advance(x, l, s, "record") /\ "record" \in Runs
    BY <1>6, <1>14 DEF Runs
  <2>2. Moves(x) /\ Written(x, l, s, "record")
    BY <1>2, <2>1, AdvanceMoves
  <2>3. Lines(x)' \subseteq {l, s} /\ run'[x] \in {"record", "idle"} /\ run'[x] # "invoke"
    BY <2>2, WrittenLines
  <2>4. OwnerStep(o) /\ NoClaim(o) /\ NoUnknown(o) /\ VisitInv(o)'
    BY <1>8, <1>11, <1>14, <2>2
  <2>5. \A k \in Lines(x)' : LineInv(x, k)'
    BY <1>9, <2>3, <2>4
  <2>6. StepInv(x)'
    BY <1>2, <1>3, <1>6, <2>2 DEF StepInv, Written
  <2> QED
    BY <1>1, <1>2, <2>2, <2>3, <2>4, <2>5, <2>6, CalmMoves
<1>15. CASE /\ Claim(o, l.att, policy)
            /\ Unanswered
            /\ mem' = [mem EXCEPT ![x] = [l EXCEPT !.phase = "done", !.fault = TRUE]]
            /\ disk' = [disk EXCEPT ![x] = [l EXCEPT !.phase = "done", !.fault = TRUE]]
            /\ LetGo(x)
  <2>1. mem' = [mem EXCEPT ![x] = d] /\ disk' = [disk EXCEPT ![x] = d]
    BY <1>7, <1>15
  <2>2. Moves(x) /\ mem'[x] = d /\ disk'[x] = d /\ run'[x] = "idle"
    BY <1>2, <1>15, <2>1, UnansweredMoves
  <2>3. OwnerStep(o) /\ NoClaim(o) /\ NoUnknown(o) /\ VisitInv(o)'
    BY <1>8, <1>11, <1>15, <2>2
  <2>4. StepInv(x)' /\ run'[x] # "invoke"
    BY <1>7, <2>2 DEF StepInv
  <2>5. \A k \in Lines(x)' : LineInv(x, k)'
    BY <1>10, <2>2 DEF Lines
  <2> QED
    BY <1>1, <1>2, <2>2, <2>3, <2>4, <2>5, CalmMoves
<1>16. CASE UNCHANGED evars /\ Close(x, l, [l EXCEPT !.phase = "done", !.fault = TRUE])
  <2>1. Close(x, l, d)
    BY <1>7, <1>16
  <2>2. Moves(x) /\ Written(x, l, d, "idle")
    BY <1>2, <2>1, CloseMoves
  <2>3. Lines(x)' \subseteq {l, d} /\ run'[x] = "idle" /\ run'[x] # "invoke"
    BY <2>2, WrittenLines
  <2>4. OwnerStep(o) /\ NoClaim(o) /\ NoUnknown(o) /\ VisitInv(o)'
    BY <1>8, <1>11, <1>16, <2>2
  <2>5. \A k \in Lines(x)' : LineInv(x, k)'
    BY <1>9, <1>10, <2>3, <2>4
  <2>6. StepInv(x)'
    BY <1>2, <1>3, <1>7, <2>2 DEF StepInv, Written
  <2> QED
    BY <1>1, <1>2, <2>2, <2>3, <2>4, <2>5, <2>6, CalmMoves
<1> QED
  BY <1>3, <1>12, <1>13, <1>14, <1>15, <1>16 DEF ClaimRead

--------------------------------------------------------------------------------
(* Calls of the adapter, displacement and the rest of the loop *)

(* A call by somebody who was about to: it is the first for its attempt.      *)
LEMMA CallMade ==
  ASSUME DInv, NEW x \in Items, NEW i \in AttemptNos, Poised(x, i), Called(x, i),
         ~Poised(x, i)', \A j \in AttemptNos \ {i} : Poised(x, j)' => Poised(x, j),
         orphan' \subseteq orphan,
         \A y \in Items \ {x}, j \in AttemptNos : <<y, j>> \in orphan => <<y, j>> \in orphan',
         run' \in [Items -> Runs], run'[x] \in {run[x], "return"},
         run'[x] = "return" => mem[x].phase = "claimed",
         \A y \in Items \ {x} : run'[y] = run[y],
         UNCHANGED <<evars, mem, disk, held, pass, visit, faults>>
  PROVE  DInv'
<1>1. PICK o \in Operations : o = x[1]
  BY DEF Items
<1>2. OwnerStep(o) /\ NoClaim(o) /\ NoUnknown(o) /\ Grows
  BY OwnerIdle DEF OwnerStep
<1>3. IndInv /\ OwnerInv(o) /\ ItemInv(x) /\ DTypeOK /\ VisitInv(o)
  BY <1>1 DEF DInv
<1>4. /\ Calls(x, i) = 0 /\ att[o][i].kind = KindOf(x) /\ att[o][i].consumed
      /\ att' = att /\ obs' = obs /\ op' = op
  BY <1>1, <1>3 DEF ItemInv, CallInv, evars
<1>5. DTypeOK'
  <2>1. sent' \in [Operations -> Nat] /\ reads' \in [Operations -> [AttemptNos -> Nat]]
    BY <1>1, <1>3 DEF Called, DTypeOK
  <2>2. ETypeOK'
    BY <1>2 DEF OwnerStep, IndInv
  <2>3. orphan' \subseteq Items \X AttemptNos
    BY <1>3 DEF DTypeOK
  <2> QED
    BY <1>3, <2>1, <2>2, <2>3 DEF DTypeOK, Runs
<1>6. ASSUME NEW y \in Items \ {x} PROVE Apart(y)
  <2>1. \A j \in AttemptNos : Calls(y, j)' = Calls(y, j)
    <3>1. CASE x[2] = "effect"
      <4>1. y[2] = "effect" => y[1] # x[1] /\ y[1] \in Operations
        BY <3>1 DEF Items
      <4> QED
        BY <1>1, <1>3, <3>1, <4>1 DEF Calls, Called, DTypeOK
    <3>2. CASE x[2] = "reconcile"
      <4>1. y[2] # "effect" => y[1] # x[1] /\ y[1] \in Operations
        BY <3>2 DEF Items, Kinds
      <4> QED
        BY <1>1, <1>3, <3>2, <4>1 DEF Calls, Called, DTypeOK
    <3> QED
      BY <3>1, <3>2 DEF Items, Kinds
  <2> QED
    BY <2>1 DEF Apart
<1>7. x[2] = "effect" => \A j \in AttemptNos : Calls(x, j)' = 1 /\ ~Poised(x, j)'
  <2> SUFFICES ASSUME x[2] = "effect", NEW j \in AttemptNos
               PROVE  Calls(x, j)' = 1 /\ ~Poised(x, j)'
    OBVIOUS
  <2>1. sent[o] = 0 /\ sent'[o] = 1
    BY <1>1, <1>3, <1>4 DEF Calls, Called, DTypeOK
  <2>2. Poised(x, j) => j = i
    <3>1. Poised(x, j) => att[o][j].kind = "dispatch"
      BY <1>1, <1>3 DEF ItemInv, CallInv, KindOf
    <3> QED
      BY <1>3, <1>4, <3>1 DEF IndInv, OneDispatch, DispatchAttempts, KindOf
  <2> QED
    BY <1>1, <2>1, <2>2 DEF Calls
<1>8. x[2] # "effect" =>
        Calls(x, i)' = 1 /\ \A j \in AttemptNos \ {i} : Calls(x, j)' = Calls(x, j)
  <2> SUFFICES ASSUME x[2] = "reconcile"
               PROVE  Calls(x, i)' = 1 /\ \A j \in AttemptNos \ {i} : Calls(x, j)' = Calls(x, j)
    BY DEF Items, Kinds
  <2>1. reads[o][i] = 0 /\ reads' = [reads EXCEPT ![o][i] = @ + 1]
    BY <1>1, <1>4 DEF Calls, Called
  <2>2. reads'[o][i] = 1 /\ \A j \in AttemptNos \ {i} : reads'[o][j] = reads[o][j]
    BY <1>3, <2>1 DEF DTypeOK
  <2> QED
    BY <1>1, <2>2 DEF Calls
<1>9. ASSUME NEW j \in AttemptNos PROVE CallInv(x, j)'
  <2>1. CASE x[2] = "effect"
    <3>1. i \in DispatchAttempts(o)' /\ att'[o][i].consumed
      BY <1>4, <2>1 DEF DispatchAttempts, KindOf
    <3>2. Calls(x, j)' = 1 /\ ~Poised(x, j)'
      BY <1>7, <2>1
    <3>3. ~(<<x, j>> \in orphan' /\ run'[x] = "invoke" /\ mem'[x].att = j)
      BY <3>2 DEF Poised
    <3> QED
      BY <1>1, <2>1, <3>1, <3>2, <3>3 DEF CallInv
  <2>2. CASE x[2] # "effect" /\ j = i
    <3>1. ~(<<x, j>> \in orphan' /\ run'[x] = "invoke" /\ mem'[x].att = j)
      BY <2>2 DEF Poised
    <3> QED
      BY <1>1, <1>4, <1>8, <2>2, <3>1 DEF CallInv
  <2>3. CASE x[2] # "effect" /\ j # i
    <3>1. CallInv(x, j)
      BY <1>3 DEF ItemInv
    <3>2. ~(<<x, j>> \in orphan' /\ run'[x] = "invoke" /\ mem'[x].att = j)
      BY <3>1 DEF CallInv
    <3> QED
      BY <1>2, <1>3, <1>8, <2>3, <3>1, <3>2, CallStands
  <2> QED
    BY <2>1, <2>2, <2>3
<1>10. ASSUME NEW l \in Lines(x)' PROVE LineInv(x, l)'
  <2>1. l \in Lines(x) /\ LineInv(x, l)
    BY <1>3 DEF Lines, ItemInv
  <2>2. ASSUME l.phase \in {"admitting", "admitted"} PROVE Untouched(x, l)'
    <3>1. Untouched(x, l)
      BY <2>1, <2>2 DEF LineInv
    <3>2. x[2] # "effect" /\ l.att # i
      BY <3>1 DEF Untouched
    <3> QED
      BY <1>8, <3>1, <3>2 DEF Untouched
  <2> QED
    BY <1>1, <1>2, <1>3, <2>1, <2>2, LineStands
<1>11. StepInv(x)'
  BY <1>3 DEF ItemInv, StepInv
<1>12. ItemInv(x)'
  BY <1>9, <1>10, <1>11 DEF ItemInv
<1>13. VisitInv(o)'
  BY <1>3, <1>4 DEF VisitInv, Admissible
<1> QED
  BY <1>1, <1>2, <1>5, <1>6, <1>12, <1>13, OneEntry

(* The worker calls the adapter. *)
LEMMA InvokeKeeps ==
  ASSUME DInv, NEW x \in Items, Invoke(x)
  PROVE  DInv'
<1>1. ItemInv(x) /\ DTypeOK /\ run[x] = "invoke"
  BY DEF DInv, Invoke
<1>2. mem[x].phase = "claimed" /\ LineInv(x, mem[x])
  BY <1>1 DEF ItemInv, StepInv, Lines
<1>3. PICK i \in AttemptNos : i = mem[x].att
  BY <1>2 DEF LineInv
<1>4. /\ Called(x, i) /\ run' = [run EXCEPT ![x] = "return"] /\ orphan' = orphan
      /\ UNCHANGED <<evars, mem, disk, held, pass, visit, faults>>
  BY <1>3 DEF Invoke, Step
<1>5. /\ run' \in [Items -> Runs] /\ run'[x] = "return"
      /\ \A y \in Items \ {x} : run'[y] = run[y]
  BY <1>1, <1>4 DEF DTypeOK, Runs
<1>6. Poised(x, i) /\ <<x, i>> \notin orphan
  BY <1>1, <1>3 DEF Poised, ItemInv, CallInv
<1>7. \A j \in AttemptNos : Poised(x, j)' => Poised(x, j) /\ j # i
  BY <1>4, <1>5, <1>6 DEF Poised
<1> QED
  BY <1>2, <1>4, <1>5, <1>6, <1>7, CallMade

(* A displaced worker makes the call it was about to make. *)
LEMMA OrphanKeeps ==
  ASSUME DInv, NEW w \in orphan, OrphanInvokes(w)
  PROVE  DInv'
<1>1. DTypeOK
  BY DEF DInv
<1>2. PICK x \in Items, i \in AttemptNos : w = <<x, i>>
  BY <1>1 DEF DTypeOK
<1>3. /\ Called(x, i) /\ orphan' = orphan \ {<<x, i>>}
      /\ UNCHANGED <<evars, mem, disk, run, held, pass, visit, faults>>
  BY <1>2 DEF OrphanInvokes
<1>4. CallInv(x, i) /\ StepInv(x)
  BY DEF DInv, ItemInv
<1>5. Poised(x, i) /\ ~(run[x] = "invoke" /\ mem[x].att = i)
  BY <1>2, <1>4 DEF Poised, CallInv
<1>6. ~Poised(x, i)'
  BY <1>3, <1>5 DEF Poised
<1>7. \A j \in AttemptNos \ {i} : Poised(x, j)' => Poised(x, j)
  BY <1>3 DEF Poised
<1>8. \A y \in Items \ {x}, j \in AttemptNos : <<y, j>> \in orphan => <<y, j>> \in orphan'
  BY <1>3
<1>9. /\ run' \in [Items -> Runs] /\ run'[x] \in {run[x], "return"} /\ orphan' \subseteq orphan
      /\ run'[x] = "return" => mem[x].phase = "claimed"
      /\ \A y \in Items \ {x} : run'[y] = run[y]
  BY <1>1, <1>3, <1>4 DEF DTypeOK, Runs, StepInv
<1> QED
  BY <1>3, <1>5, <1>6, <1>7, <1>8, <1>9, CallMade

(* Steps that move no entry. *)
LEMMA EntriesStand ==
  ASSUME DInv, IndInv', Grows,
         \A p \in Operations : OwnerInv(p)' /\ NoClaim(p) /\ NoUnknown(p) /\ VisitInv(p)',
         UNCHANGED <<mem, disk, run, held, orphan, sent, reads, faults>>,
         pass' \in {"settle", "admit"}, visit' \subseteq Items
  PROVE  DInv'
<1>1. DTypeOK'
  <2>1. DTypeOK /\ ETypeOK'
    BY DEF DInv, IndInv
  <2> QED
    BY <2>1 DEF DTypeOK
<1>2. ASSUME NEW y \in Items PROVE ItemInv(y)'
  <2>1. Apart(y)
    BY DEF Apart, Calls
  <2>2. NoClaim(y[1]) /\ NoUnknown(y[1])
    BY DEF Items
  <2> QED
    BY <2>1, <2>2, ApartStands
<1> QED
  BY <1>1, <1>2 DEF DInv

(* Calls of the owner by others than the controller. *)
LEMMA CallersKeep ==
  ASSUME DInv, Callers
  PROVE  DInv'
<1>1. PICK o \in Operations :
        \/ \E policy \in {"allow", "review", "deny"} : Stage(o, policy)
        \/ Approve(o)
        \/ \E policy \in Policies : Reconcile(o, policy)
  BY DEF Callers
<1>2. UNCHANGED cvars /\ IndInv /\ (\A p \in Operations : OwnerInv(p)) /\ DTypeOK
  BY DEF Callers, DInv
<1>3. OwnerStep(o) /\ NoClaim(o) /\ NoUnknown(o)
  <2>1. CASE \E policy \in Policies : Reconcile(o, policy)
    BY <1>2, <2>1, OwnerPrepares
  <2>2. CASE \/ \E policy \in {"allow", "review", "deny"} : Stage(o, policy)
             \/ Approve(o)
    BY <1>2, <2>2, OwnerStages
  <2> QED
    BY <1>1, <2>1, <2>2
<1>4. Admissible(o) => Admissible(o)'
  BY <1>1 DEF Stage, Approve, Reconcile, AdmitRead, Admissible, Uncertain
<1>5. IndInv' /\ Grows /\ \A p \in Operations \ {o} : SameRows(p)
  BY <1>3 DEF OwnerStep
<1>6. ASSUME NEW p \in Operations
      PROVE  OwnerInv(p)' /\ NoClaim(p) /\ NoUnknown(p) /\ VisitInv(p)'
  <2>1. VisitInv(p) /\ OwnerInv(p)
    BY DEF DInv
  <2>2. CASE p = o
    <3>1. VisitInv(p)'
      BY <1>2, <1>4, <2>1, <2>2 DEF VisitInv, cvars
    <3> QED
      BY <1>3, <2>2, <3>1 DEF OwnerStep
  <2>3. CASE p # o
    <3>1. SameRows(p)
      BY <1>5, <2>3
    <3>2. VisitInv(p)'
      BY <1>2, <2>1, <3>1 DEF VisitInv, cvars, SameRows, Admissible
    <3>3. OwnerInv(p)'
      BY <2>1, <3>1 DEF OwnerInv, SameRows
    <3> QED
      BY <1>2, <3>1, <3>2, <3>3, SameRowsQuiet
  <2> QED
    BY <2>2, <2>3
<1>7. /\ UNCHANGED <<mem, disk, run, held, orphan, sent, reads, faults>>
      /\ pass' \in {"settle", "admit"} /\ visit' \subseteq Items
  BY <1>2 DEF cvars, DTypeOK
<1> QED
  BY <1>5, <1>6, <1>7, EntriesStand

(* The loop turns to its next part, passes over an entry, or nothing happens. *)
LEMMA LoopTurns ==
  ASSUME DInv, UNCHANGED <<evars, mem, disk, run, held, orphan, sent, reads, faults>>,
         \/ pass' \in {"settle", "admit"} /\ visit' = ToVisit(pass')
         \/ pass' = pass /\ visit' \subseteq visit
  PROVE  DInv'
<1>1. IndInv'
  BY NextInd DEF DInv
<1>2. Grows
  <2>1. att' = att /\ obs' = obs
    BY DEF evars
  <2>2. \A p \in Operations : obs[p] \in Seq(Observation)
    BY DEF DInv, IndInv, ETypeOK
  <2>3. \A p \in Operations : Len(obs[p]) <= Len(obs[p])
    BY <2>2
  <2> QED
    BY <2>1, <2>3 DEF Grows
<1>3. \A p \in Operations : OwnerStep(p) /\ NoClaim(p) /\ NoUnknown(p)
  BY OwnerIdle
<1>4. pass' \in {"settle", "admit"} /\ visit' \subseteq Items
  BY DEF DInv, DTypeOK, ToVisit
<1>5. ASSUME NEW p \in Operations PROVE VisitInv(p)'
  <2>1. VisitInv(p) /\ op' = op /\ <<p, "effect">> \in Items
    BY DEF DInv, evars, Items, Kinds
  <2>2. CASE pass' = pass /\ visit' \subseteq visit
    BY <2>1, <2>2 DEF VisitInv, Admissible
  <2>3. CASE visit' = ToVisit(pass')
    <3> SUFFICES ASSUME pass' = "admit", <<p, "effect">> \in visit'
                 PROVE  Admissible(p) \/ mem[<<p, "effect">>].phase = "admitted"
      BY <2>1 DEF VisitInv, Admissible
    <3>1. PICK x \in Items : x = <<p, "effect">> /\ x[1] = p /\ x[2] = "effect"
      BY <2>1
    <3>2. Claimable(x) \/ Admissible(p)
      BY <2>3, <3>1 DEF ToVisit
    <3> QED
      BY <3>1, <3>2 DEF Claimable
  <2> QED
    BY <2>2, <2>3
<1> QED
  BY <1>1, <1>2, <1>3, <1>4, <1>5, EntriesStand DEF OwnerStep

(* A successor finds on disk what the displaced controller left, and the      *)
(* calls that controller's workers can still make are the ones they could.    *)
LEMMA TakeoverKeeps ==
  ASSUME DInv, Takeover
  PROVE  DInv'
<1>1. /\ NextGeneration /\ mem' = disk /\ disk' = disk /\ run' = [x \in Items |-> "idle"]
      /\ pass' = "settle" /\ visit' = {x \in Items : Open(disk[x])} /\ held' = {}
      /\ orphan' = orphan \cup {<<x, mem[x].att>> : x \in {y \in Items : run[y] = "invoke"}}
      /\ UNCHANGED <<sent, reads, faults>>
  BY DEF Takeover
<1>2. IndInv /\ DTypeOK /\ \A p \in Operations : OwnerInv(p)
  BY DEF DInv
<1>3. IndInv'
  BY <1>1, <1>2, NextGenerationStep
<1>4. \A p \in Operations : OwnerStep(p) /\ NoClaim(p) /\ NoUnknown(p)
  BY <1>1, <1>2, OwnerGeneration
<1>5. ASSUME NEW x \in Items, run[x] = "invoke" PROVE mem[x].att \in AttemptNos
  <2>1. mem[x].phase = "claimed" /\ LineInv(x, mem[x])
    BY <1>5 DEF DInv, ItemInv, StepInv, Lines
  <2> QED
    BY <2>1 DEF LineInv
<1>6. DTypeOK'
  <2>1. orphan' \subseteq Items \X AttemptNos
    BY <1>1, <1>2, <1>5 DEF DTypeOK
  <2>2. ETypeOK'
    BY <1>3 DEF IndInv
  <2> QED
    BY <1>1, <1>2, <2>1, <2>2 DEF DTypeOK
<1>7. ASSUME NEW p \in Operations PROVE OwnerInv(p)' /\ VisitInv(p)'
  BY <1>1, <1>4 DEF OwnerStep, VisitInv
<1>8. ASSUME NEW x \in Items PROVE ItemInv(x)'
  <2>1. /\ ItemInv(x) /\ run'[x] = "idle" /\ x[1] \in Operations
        /\ Grows /\ NoClaim(x[1]) /\ NoUnknown(x[1])
    BY <1>1, <1>4 DEF DInv, Items, OwnerStep
  <2>2. ASSUME NEW i \in AttemptNos
        PROVE  Calls(x, i)' = Calls(x, i) /\ (Poised(x, i)' => Poised(x, i))
    BY <1>1, <2>1 DEF Calls, Poised
  <2>3. ASSUME NEW i \in AttemptNos PROVE CallInv(x, i)'
    <3>1. CallInv(x, i)
      BY <2>1 DEF ItemInv
    <3> QED
      BY <1>2, <2>1, <2>2, <3>1, CallStands
  <2>4. ASSUME NEW l \in Lines(x)' PROVE LineInv(x, l)'
    <3>1. LineInv(x, l)
      BY <1>1, <2>1 DEF Lines, ItemInv
    <3>2. l.phase \in {"admitting", "admitted"} => Untouched(x, l)'
      BY <2>2, <3>1 DEF LineInv, Untouched
    <3> QED
      BY <1>2, <2>1, <3>1, <3>2, LineStands
  <2>5. StepInv(x)'
    BY <1>1, <2>1 DEF StepInv
  <2> QED
    BY <2>3, <2>4, <2>5 DEF ItemInv
<1> QED
  BY <1>3, <1>6, <1>7, <1>8 DEF DInv

--------------------------------------------------------------------------------
(* The invariant *)

(* The invariant holds initially. *)
LEMMA InitDInv == DInit => DInv
<1> SUFFICES ASSUME DInit PROVE DInv
  OBVIOUS
<1>1. EInit
  BY DEF DInit
<1>2. IndInv /\ ETypeOK
  BY <1>1, InitInd DEF IndInv
<1>3. Entry0 \in JournalEntry /\ Entry0.phase = "none"
  <2>1. ZeroUsage \in Usage
    BY DEF ZeroUsage, Usage
  <2>2. 0 \in 0..MaxAttempts /\ 0 \in 0..MaxGen
    BY EffectsAssumption
  <2> QED
    BY <2>1, <2>2 DEF Entry0, JournalEntry, Phases, Dispositions
<1>4. DTypeOK
  BY <1>2, <1>3, DispatchAssumption DEF DInit, DTypeOK
<1>5. /\ \A o \in Operations : obs[o] = <<>> /\ count[o] = 0
      /\ \A x \in Items : x[1] \in Operations
  BY <1>1 DEF EInit, Items
<1>6. \A o \in Operations : OwnerInv(o) /\ VisitInv(o)
  BY <1>5 DEF OwnerInv, VisitInv, DInit
<1>7. ASSUME NEW x \in Items PROVE ItemInv(x)
  <2>1. mem[x] = Entry0 /\ disk[x] = Entry0 /\ run[x] = "idle" /\ orphan = {}
    BY DEF DInit
  <2>2. \A i \in AttemptNos : Calls(x, i) = 0 /\ ~Poised(x, i)
    BY <1>5, <2>1 DEF DInit, Calls, Poised
  <2>3. \A i \in AttemptNos : CallInv(x, i)
    BY <2>1, <2>2 DEF CallInv
  <2>4. LineInv(x, Entry0)
    BY <1>3, <1>5 DEF LineInv
  <2>5. StepInv(x)
    BY <1>3, <2>1 DEF StepInv
  <2> QED
    BY <2>1, <2>3, <2>4, <2>5 DEF ItemInv, Lines
<1> QED
  BY <1>2, <1>4, <1>6, <1>7 DEF DInv

(* Every step keeps the invariant. *)
LEMMA NextDInv == DInv /\ [DNext]_dvars => DInv'
<1> SUFFICES ASSUME DInv, [DNext]_dvars PROVE DInv'
  OBVIOUS
<1>1. CASE Callers
  BY <1>1, CallersKeep
<1>2. CASE NextPart
  BY <1>2, LoopTurns DEF NextPart
<1>3. CASE \E x \in Items : Skip(x) \/ SettleEntry(x)
  <2>1. PICK x \in Items : Skip(x) \/ SettleEntry(x)
    BY <1>3
  <2>2. CASE Skip(x)
    BY <2>2, LoopTurns DEF Skip
  <2> QED
    BY <2>1, <2>2, SettleEntryKeeps
<1>4. CASE \E o \in Operations : SettleAdmission(o) \/ Admissions(o)
  BY <1>4, SettleAdmissionKeeps, AdmitEffectKeeps, ClaimEffectKeeps, PrepareReadKeeps,
     ClaimReadKeeps DEF Admissions
<1>5. CASE \E x \in Items : Work(x)
  BY <1>5, InvokeKeeps, ReturnKeeps, RecordKeeps, DeliverKeeps DEF Work
<1>6. CASE Takeover
  BY <1>6, TakeoverKeeps
<1>7. CASE \E w \in orphan : OrphanInvokes(w)
  BY <1>7, OrphanKeeps
<1>8. CASE UNCHANGED dvars
  BY <1>8, LoopTurns DEF dvars, cvars
<1> QED
  BY <1>1, <1>2, <1>3, <1>4, <1>5, <1>6, <1>7, <1>8 DEF DNext, Loop

(* DInv is an invariant of controllers and owner together. *)
LEMMA DispatchInvariant == DSpec => []DInv
BY InitDInv, NextDInv, PTL DEF DSpec

(* Whatever is lost, fails or takes over, the journal, the loop, the workers  *)
(* and the owner's rows keep their types (journal.go, loop.go, busy).         *)
THEOREM DispatchTypes == DSpec => []DTypeOK
<1>1. DInv => DTypeOK
  BY DEF DInv
<1> QED
  BY <1>1, DispatchInvariant, PTL

(* Every read attempt reaches its adapter at most once, by this controller or *)
(* by the worker of one it displaced, and only under a consumed claim         *)
(* (performReconcile).                                                        *)
THEOREM ReadsHappenOnce == DSpec => []ReadsOnce
<1>1. DInv => ReadsOnce
  <2> SUFFICES ASSUME DInv, NEW o \in Operations, NEW i \in AttemptNos
               PROVE  reads[o][i] <= 1 /\ (reads[o][i] = 1 => att[o][i].consumed)
    BY DEF ReadsOnce
  <2>1. <<o, "reconcile">> \in Items
    BY DEF Items, Kinds
  <2>2. CallInv(<<o, "reconcile">>, i)
    BY <2>1 DEF DInv, ItemInv
  <2> QED
    BY <2>2 DEF CallInv, Calls
<1> QED
  BY <1>1, DispatchInvariant, PTL

(* The line a successor finds last bounds what may have happened, across lost *)
(* answers, failed journal writes and any number of takeovers (journal.go's   *)
(* phase table).                                                              *)
THEOREM PhasesAreBounds == DSpec => []PhaseBounds
<1>1. DInv => PhaseBounds
  <2> SUFFICES ASSUME DInv, NEW x \in Items
               PROVE  LET e == disk[x]
                          o == x[1]
                      IN /\ e.phase \in {"admitting", "admitted"} => Uncalled(x, e.att)
                         /\ e.phase = "admitting" /\ x[2] = "effect" =>
                              \A i \in DispatchAttempts(o) : ~att[o][i].consumed
                         /\ e.phase = "claimed" => att[o][e.att].consumed
                         /\ e.phase = "recorded" =>
                              \E k \in ObservedBy(o, e.att) : obs[o][k].disp = e.disp
    BY DEF PhaseBounds
  <2>1. PICK l \in JournalEntry : l = disk[x] /\ LineInv(x, l)
    BY DEF DInv, DTypeOK, ItemInv, Lines
  <2>2. ASSUME l.phase \in {"admitting", "admitted"} PROVE Uncalled(x, l.att)
    <3>1. Untouched(x, l)
      BY <2>1, <2>2 DEF LineInv
    <3>2. 1 \in AttemptNos /\ (l.att = 0 \/ l.att \in AttemptNos) /\ 0 \notin AttemptNos
      BY EffectsAssumption DEF JournalEntry, AttemptNos
    <3>3. x[2] = "effect" => sent[x[1]] = 0
      BY <3>1, <3>2 DEF Untouched, Calls
    <3>4. x[2] # "effect" => (l.att # 0 => reads[x[1]][l.att] = 0)
      BY <3>1, <3>2 DEF Untouched, Calls
    <3>5. <<x, l.att>> \notin orphan
      <4>1. CASE l.att = 0
        BY <3>2, <4>1 DEF DInv, DTypeOK
      <4>2. CASE l.att \in AttemptNos
        BY <3>1, <4>2 DEF Untouched, Poised
      <4> QED
        BY <3>2, <4>1, <4>2
    <3> QED
      BY <3>3, <3>4, <3>5 DEF Uncalled
  <2>3. l.phase = "recorded" => \E k \in ObservedBy(x[1], l.att) : obs[x[1]][k].disp = l.disp
    BY <2>1 DEF LineInv, ObservedBy
  <2> QED
    BY <2>1, <2>2, <2>3 DEF LineInv
<1> QED
  BY <1>1, DispatchInvariant, PTL

--------------------------------------------------------------------------------
(* The refinement *)

(* The provider is called at most once, and not for what is given up. *)
UnsentUncalled ==
  \A o \in Operations : sent[o] \in {0, 1} /\ (Verdict[o] = "unsent" => sent[o] = 0)

(* An operation is called once at most, and never if it was given up as unsent. *)
LEMMA CallsBounded == DInv => UnsentUncalled
<1> SUFFICES ASSUME DInv, NEW o \in Operations
             PROVE  sent[o] \in {0, 1} /\ (Verdict[o] = "unsent" => sent[o] = 0)
  BY DEF UnsentUncalled
<1>1. <<o, "effect">> \in Items /\ 1 \in AttemptNos
  BY EffectsAssumption DEF Items, Kinds, AttemptNos
<1>2. CallInv(<<o, "effect">>, 1) /\ sent[o] \in Nat
  BY <1>1 DEF DInv, ItemInv, DTypeOK
<1>3. sent[o] \in {0, 1}
  BY <1>2 DEF CallInv, Calls
<1>4. ASSUME sent[o] = 1 PROVE Verdict[o] # "unsent"
  <2>1. PICK j \in DispatchAttempts(o) : att[o][j].consumed
    BY <1>2, <1>4 DEF CallInv, Calls
  <2>2. resv[o].state # "released"
    BY <2>1 DEF DInv, IndInv, ReleasedNeverClaimed
  <2>3. j \in AttemptNos /\ att[o][j].kind # "none"
    BY <2>1 DEF DispatchAttempts
  <2>4. count[o] # 0
    BY <2>3, AttemptCounted DEF DInv
  <2>5. op[o] \notin {"denied", "expired"}
    BY <2>4 DEF DInv, OwnerInv
  <2> QED
    BY <2>2, <2>5, VerdictAt
<1> QED
  BY <1>3, <1>4

(* A step is a call, or is about the rows of one operation. *)
LEMMA OwnerMovesOne ==
  ASSUME DInv, [DNext]_dvars
  PROVE  \/ UNCHANGED <<op, resv, sent>>
         \/ UNCHANGED sent /\ \E o \in Operations : OwnerStep(o)
         \/ UNCHANGED <<op, resv>> /\ \E x \in Items : \E i : Called(x, i)
<1>1. IndInv /\ \A p \in Operations : OwnerInv(p)
  BY DEF DInv
<1>2. ASSUME UNCHANGED evars PROVE UNCHANGED <<op, resv>>
  BY <1>2 DEF evars
<1>3. CASE Callers
  <2>1. PICK o \in Operations :
          \/ \E policy \in {"allow", "review", "deny"} : Stage(o, policy)
          \/ Approve(o)
          \/ \E policy \in Policies : Reconcile(o, policy)
    BY <1>3 DEF Callers
  <2>2. OwnerStep(o)
    BY <1>1, <2>1, OwnerPrepares, OwnerStages
  <2> QED
    BY <1>3, <2>2 DEF Callers, cvars
<1>4. CASE NextPart \/ \E x \in Items : Skip(x) \/ SettleEntry(x)
  BY <1>2, <1>4 DEF NextPart, Skip, SettleEntry, LoopUnchanged
<1>5. ASSUME NEW o \in Operations, NEW policy \in Policies, AdmitEffect(o, policy)
      PROVE  UNCHANGED sent /\ (UNCHANGED evars \/ OwnerStep(o))
  <2>1. UNCHANGED evars \/ Admit(o, policy) \/ \E to \in {"expired", "denied"} : AdmitRefuses(o, to)
    BY <1>5 DEF AdmitEffect
  <2>2. UNCHANGED evars \/ OwnerStep(o)
    BY <1>1, <2>1, OwnerAdmits, OwnerStages
  <2> QED
    BY <1>5, <2>2 DEF AdmitEffect, LoopUnchanged
<1>6. ASSUME NEW o \in Operations, NEW policy \in Policies,
             ClaimEffect(o, policy) \/ ClaimRead(o, policy)
      PROVE  UNCHANGED sent /\ (UNCHANGED evars \/ OwnerStep(o))
  <2>1. <<o, "effect">> \in Items /\ <<o, "reconcile">> \in Items
    BY DEF Items, Kinds
  <2>2. ASSUME NEW x \in Items, mem[x].phase = "admitted", Claim(o, mem[x].att, policy)
        PROVE  OwnerStep(o)
    <3>1. PICK n \in AttemptNos : n = mem[x].att
      BY <2>2, AdmittedEntry
    <3>2. Claim(o, n, policy)
      BY <2>2, <3>1
    <3> QED
      BY <1>1, <3>2, OwnerClaims
  <2>3. CASE ClaimEffect(o, policy)
    <3>1. PICK x \in Items : x = <<o, "effect">>
      BY <2>1
    <3>2. mem[x].phase = "admitted"
      BY <2>3, <3>1 DEF ClaimEffect, Claimable, DInv, ItemInv, StepInv
    <3>3. UNCHANGED evars \/ Claim(o, mem[x].att, policy)
      BY <2>3, <3>1 DEF ClaimEffect
    <3> QED
      BY <2>2, <2>3, <3>2, <3>3 DEF ClaimEffect, LoopUnchanged
  <2>4. CASE ClaimRead(o, policy)
    <3>1. PICK x \in Items : x = <<o, "reconcile">>
      BY <2>1
    <3>2. mem[x].phase = "admitted"
      BY <2>4, <3>1 DEF ClaimRead, DInv, ItemInv, StepInv
    <3>3. UNCHANGED evars \/ Claim(o, mem[x].att, policy)
      BY <2>4, <3>1 DEF ClaimRead
    <3> QED
      BY <2>2, <2>4, <3>2, <3>3 DEF ClaimRead, LoopUnchanged
  <2> QED
    BY <1>6, <2>3, <2>4
<1>7. ASSUME NEW o \in Operations, NEW policy \in Policies, PrepareRead(o, policy)
      PROVE  UNCHANGED sent /\ (UNCHANGED evars \/ OwnerStep(o))
  <2>1. UNCHANGED evars \/ ReconciliationPrepare(o, policy)
    BY <1>7 DEF PrepareRead
  <2> QED
    BY <1>1, <1>7, <2>1, OwnerPrepares DEF PrepareRead, LoopUnchanged
<1>8. CASE \E o \in Operations : SettleAdmission(o) \/ Admissions(o)
  <2>1. PICK o \in Operations : SettleAdmission(o) \/ Admissions(o)
    BY <1>8
  <2>2. CASE SettleAdmission(o)
    BY <1>2, <2>2 DEF SettleAdmission, LoopUnchanged
  <2>3. CASE Admissions(o)
    <3>1. UNCHANGED sent /\ (UNCHANGED evars \/ OwnerStep(o))
      BY <1>5, <1>6, <1>7, <2>3 DEF Admissions
    <3> QED
      BY <1>2, <3>1
  <2> QED
    BY <2>1, <2>2, <2>3
<1>9. CASE \E x \in Items : Work(x)
  <2>1. PICK x \in Items : Work(x)
    BY <1>9
  <2>2. CASE Invoke(x)
    BY <1>2, <2>2 DEF Invoke
  <2>3. CASE (\E d \in Dispositions, u \in Usages : Return(x, d, u)) \/ Deliver(x)
    BY <1>2, <2>3 DEF Return, Deliver, LoopUnchanged
  <2>4. CASE Record(x)
    <3>1. run[x] = "record" /\ sent' = sent /\ (OwnerRecords(x) \/ UNCHANGED evars)
      BY <2>4 DEF Record, LoopUnchanged
    <3>2. OwnerRecords(x) => OwnerStep(x[1]) /\ x[1] \in Operations
      BY <3>1, RecordedRows DEF Items
    <3> QED
      BY <1>2, <3>1, <3>2
  <2> QED
    BY <2>1, <2>2, <2>3, <2>4 DEF Work
<1>10. CASE Takeover
  BY <1>10 DEF Takeover, NextGeneration
<1>11. CASE \E w \in orphan : OrphanInvokes(w)
  <2>1. PICK w \in orphan : OrphanInvokes(w)
    BY <1>11
  <2>2. PICK x \in Items, i \in AttemptNos : w = <<x, i>>
    BY DEF DInv, DTypeOK
  <2>3. Called(x, i) /\ UNCHANGED evars
    BY <2>1, <2>2 DEF OrphanInvokes
  <2> QED
    BY <1>2, <2>3
<1>12. CASE UNCHANGED dvars
  BY <1>12 DEF dvars, cvars, evars
<1> QED
  BY <1>3, <1>4, <1>8, <1>9, <1>10, <1>11, <1>12 DEF DNext, Loop

(* A call, seen by OneShot. *)
LEMMA CallSends ==
  ASSUME DInv, UnsentUncalled, UnsentUncalled', UNCHANGED <<op, resv>>,
         NEW x \in Items, NEW i, Called(x, i)
  PROVE  [Promise!Next]_<<sent, Verdict>>
<1>1. Verdict' = Verdict
  BY DEF Verdict
<1>2. PICK o \in Operations : o = x[1]
  BY DEF Items
<1>3. sent \in [Operations -> Nat]
  BY DEF DInv, DTypeOK
<1>4. CASE x[2] = "effect"
  <2>1. sent' = [sent EXCEPT ![o] = @ + 1]
    BY <1>2, <1>4 DEF Called
  <2>2. sent'[o] = sent[o] + 1 /\ sent[o] \in {0, 1} /\ sent'[o] \in {0, 1}
    BY <1>3, <2>1 DEF UnsentUncalled
  <2>3. sent[o] = 0 /\ sent'[o] = 1
    BY <2>2
  <2>4. Verdict[o] # "unsent"
    BY <1>1, <2>3 DEF UnsentUncalled
  <2>5. sent' = [sent EXCEPT ![o] = 1]
    BY <1>3, <2>1, <2>3
  <2>6. Promise!Send(o)
    BY <1>1, <2>3, <2>4, <2>5 DEF Promise!Send
  <2> QED
    BY <2>6 DEF Promise!Next
<1>5. CASE x[2] # "effect"
  BY <1>1, <1>5 DEF Called
<1> QED
  BY <1>4, <1>5

(* A step of the owner, seen by OneShot. *)
LEMMA OwnerConcludes ==
  ASSUME DInv, UnsentUncalled', UNCHANGED sent, NEW o \in Operations, OwnerStep(o)
  PROVE  [Promise!Next]_<<sent, Verdict>>
<1>1. ASSUME NEW p \in Operations \ {o} PROVE Verdict'[p] = Verdict[p]
  BY VerdictAt DEF OwnerStep, SameRows
<1>2. /\ Verdict = [p \in Operations |-> Verdict[p]]
      /\ Verdict' = [p \in Operations |-> Verdict'[p]]
  BY DEF Verdict
<1>3. CASE Verdict'[o] = Verdict[o]
  <2>1. Verdict' = Verdict
    <3>1. \A p \in Operations : Verdict'[p] = Verdict[p]
      BY <1>1, <1>3
    <3> QED
      BY <1>2, <3>1
  <2> QED
    BY <2>1
<1>4. CASE Verdict'[o] # Verdict[o]
  <2>1. Verdict[o] = "open"
    BY <1>4 DEF OwnerStep
  <2>2. PICK v \in Promise!Verdicts \ {"open"} : v = Verdict'[o]
    BY <1>4, <2>1, VerdictAt DEF Promise!Verdicts
  <2>3. Verdict' = [Verdict EXCEPT ![o] = v]
    BY <1>1, <1>2, <2>2
  <2>4. v = "unsent" => sent[o] = 0
    BY <2>2 DEF UnsentUncalled
  <2>5. Promise!Conclude(o, v)
    BY <2>1, <2>3, <2>4 DEF Promise!Conclude
  <2> QED
    BY <2>5 DEF Promise!Next
<1> QED
  BY <1>3, <1>4

(* Controllers and the effects owner together implement OneShot, whatever is  *)
(* lost, fails or takes over: the provider is called at most once for an      *)
(* operation, by whatever lifetime, never once it was given up as unsent, and *)
(* no conclusion is revised (perform.go, "There is no path from here back to  *)
(* Invoke").                                                                  *)
THEOREM DispatchIsOneShot == DSpec => ImplementsOneShot
<1>1. DInit => Promise!Init
  <2> SUFFICES ASSUME DInit PROVE Promise!Init
    OBVIOUS
  <2>1. /\ sent = [o \in Operations |-> 0]
        /\ \A o \in Operations : op[o] = "absent" /\ resv[o].state = "none"
    <3>1. \A c \in Costs : Unreserved(c).state = "none"
      BY DEF Unreserved
    <3>2. \A o \in Operations : \E c \in Costs : resv[o] = Unreserved(c)
      BY DEF DInit, EInit
    <3> QED
      BY <3>1, <3>2 DEF DInit, EInit
  <2>2. Verdict = [o \in Operations |-> "open"]
    BY <2>1 DEF Verdict
  <2> QED
    BY <2>1, <2>2 DEF Promise!Init
<1>2. DInv /\ UnsentUncalled /\ UnsentUncalled' /\ [DNext]_dvars =>
        [Promise!Next]_<<sent, Verdict>>
  <2> SUFFICES ASSUME DInv, UnsentUncalled, UnsentUncalled', [DNext]_dvars
               PROVE  [Promise!Next]_<<sent, Verdict>>
    OBVIOUS
  <2>1. CASE UNCHANGED <<op, resv, sent>>
    BY <2>1 DEF Verdict
  <2>2. CASE UNCHANGED sent /\ \E o \in Operations : OwnerStep(o)
    BY <2>2, OwnerConcludes
  <2>3. CASE UNCHANGED <<op, resv>> /\ \E x \in Items : \E i : Called(x, i)
    BY <2>3, CallSends
  <2> QED
    BY <2>1, <2>2, <2>3, OwnerMovesOne
<1> QED
  BY <1>1, <1>2, CallsBounded, DispatchInvariant, PTL
  DEF DSpec, ImplementsOneShot, Promise!Spec

================================================================================
