-------------------------------- MODULE Dispatch -------------------------------
(***************************************************************************)
(* The controller (internal/controller) that drives the effects owner: a   *)
(* scheduler loop that settles and admits, one worker per provider call,   *)
(* and the write-ahead dispatch journal that tells a successor what may    *)
(* have happened.  The owner's transactions are the actions of Effects.    *)
(*                                                                         *)
(* A call of the owner and the journal line that follows it are one step:  *)
(* ending between the two is the same as failing to write the line.        *)
(***************************************************************************)
EXTENDS Effects

CONSTANT MaxFaults   \* bound: lost answers and failed journal writes

ASSUME DispatchAssumption == MaxFaults \in Nat

VARIABLES
  mem,     \* the running controller's journal entries
  disk,    \* what a successor loads from the journal file
  run,     \* the step the loop or a worker is about to take for an entry
  held,    \* entries a worker owns (Controller.busy)
  pass,    \* the part of the tick the loop is in
  visit,   \* entries the loop has yet to look at in this part
  orphan,  \* calls a displaced controller's worker can still make
  sent,    \* history: Adapter.Invoke calls per operation
  reads,   \* history: Adapter.Reconcile calls per attempt
  faults   \* injected failures so far

cvars == <<mem, disk, run, held, pass, visit, orphan, sent, reads, faults>>

dvars == <<evars, cvars>>

Kinds == {"effect", "reconcile"}

Items == Operations \X Kinds

Phases == {"none", "admitting", "admitted", "claimed", "observed", "recorded",
           "done", "refused", "stranded"}

(* att is the attempt, fault a refusal of the claim, disp and usage the     *)
(* journaled observation.                                                   *)
Entry0 == [phase |-> "none", att |-> 0, gen |-> 0, fault |-> FALSE,
           disp |-> "unknown", usage |-> ZeroUsage]

JournalEntry == [phase : Phases, att : 0..MaxAttempts, gen : 0..MaxGen,
                 fault : BOOLEAN, disp : Dispositions, usage : Usage]

Open(e) == e.phase \notin {"none", "done", "refused", "stranded"}

DInit ==
  /\ EInit
  /\ mem = [x \in Items |-> Entry0]
  /\ disk = [x \in Items |-> Entry0]
  /\ run = [x \in Items |-> "idle"]
  /\ held = {}
  /\ pass = "settle"
  /\ visit = {}
  /\ orphan = {}
  /\ sent = [o \in Operations |-> 0]
  /\ reads = [o \in Operations |-> [i \in AttemptNos |-> 0]]
  /\ faults = 0

--------------------------------------------------------------------------------
(* Journal writes and lost answers *)

(* put: the line is synced before the entry is used. *)
Put(x, e) ==
  /\ mem' = [mem EXCEPT ![x] = e]
  /\ disk' = [disk EXCEPT ![x] = e]
  /\ UNCHANGED faults

(* put reports an error: the line may or may not be found again.  kept is   *)
(* the entry whose line was synced last.                                    *)
PutFails(x, kept, e) ==
  /\ faults < MaxFaults
  /\ faults' = faults + 1
  /\ mem' = [mem EXCEPT ![x] = kept]
  /\ \E line \in {kept, e} : disk' = [disk EXCEPT ![x] = line]

(* A call fails without a fault; the caller cannot tell whether it committed. *)
Unanswered ==
  /\ faults < MaxFaults
  /\ faults' = faults + 1

NoAnswer == Unanswered /\ UNCHANGED <<mem, disk>>

Step(x, s) == run' = [run EXCEPT ![x] = s]

(* The loop or the worker lets go of the entry. *)
LetGo(x) == Step(x, "idle") /\ held' = held \ {x}

(* The entry reaches phase e.phase and goes on with s, or the line fails and *)
(* the entry is left for the next settle pass.                               *)
Advance(x, kept, e, s) ==
  \/ Put(x, e) /\ Step(x, s) /\ UNCHANGED held
  \/ PutFails(x, kept, e) /\ LetGo(x)

(* The entry's last line, or a failure to write it. *)
Close(x, kept, e) ==
  /\ Put(x, e) \/ PutFails(x, kept, e)
  /\ LetGo(x)

--------------------------------------------------------------------------------
(* The loop *)

LoopIdle == \A x \in Items : run[x] = "idle" \/ x \in held

Visiting(x, part) == pass = part /\ x \in visit /\ LoopIdle

(* _effects.pending. *)
Listed(o) == op[o] \in {"prepared", "ready", "executing"} \cup Uncertain

(* An admitted entry of this lifetime that waits for a conclusive claim. *)
Claimable(x) ==
  /\ x[2] = "effect"
  /\ mem[x].phase = "admitted"
  /\ ~mem[x].fault
  /\ mem[x].gen = gen

ToVisitForgetsRecorded(part) ==
  IF part = "settle" THEN {x \in Items : Open(mem[x]) /\ mem[x].phase # "recorded"}
  ELSE {x \in Items : \/ Claimable(x)
                      \/ /\ ~Open(mem[x])
                         /\ Listed(x[1])
                         /\ IF x[2] = "effect" THEN Admissible(x[1])
                            ELSE op[x[1]] \in Uncertain}

(* What a tick goes through: open entries in settle, then uncertain          *)
(* operations without an outstanding read, claims to resume and staged       *)
(* operations.  Backoff and the worker pool only postpone a visit.           *)
ToVisit(part) ==
  IF part = "settle" THEN {x \in Items : Open(mem[x])}
  ELSE {x \in Items : \/ Claimable(x)
                      \/ /\ ~Open(mem[x])
                         /\ Listed(x[1])
                         /\ IF x[2] = "effect" THEN Admissible(x[1])
                            ELSE op[x[1]] \in Uncertain}

NextPart ==
  /\ LoopIdle
  /\ visit = {}
  /\ pass' = IF pass = "settle" THEN "admit" ELSE "settle"
  /\ visit' = ToVisit(pass')
  /\ UNCHANGED <<evars, mem, disk, run, held, orphan, sent, reads, faults>>

(* Another step or worker got there first. *)
Skip(x) ==
  /\ x \in visit
  /\ LoopIdle
  /\ x \in held \/ (pass = "settle" /\ (~Open(mem[x]) \/ Claimable(x)))
  /\ visit' = visit \ {x}
  /\ UNCHANGED <<evars, mem, disk, run, held, pass, orphan, sent, reads, faults>>

LoopUnchanged == UNCHANGED <<pass, orphan, sent, reads>>

Begun == [Entry0 EXCEPT !.phase = "admitting", !.gen = gen]

(* admit: journal the intent, admit, journal the attempt; claim follows.    *)
AdmitEffect(o, policy) ==
  LET x == <<o, "effect">>
  IN /\ Visiting(x, "admit")
     /\ ~Open(mem[x])
     /\ visit' = visit \ {x}
     /\ LoopUnchanged
     /\ \/ /\ PutFails(x, mem[x], Begun)
           /\ LetGo(x)
           /\ UNCHANGED evars
        \/ /\ Admit(o, policy)
           /\ Advance(x, Begun,
                [Begun EXCEPT !.phase = "admitted", !.att = count[o] + 1], "claim")
        \/ /\ Admit(o, policy) \/ UNCHANGED evars
           /\ Unanswered
           /\ mem' = [mem EXCEPT ![x] = Begun]
           /\ disk' = [disk EXCEPT ![x] = Begun]
           /\ LetGo(x)
        \/ /\ UNCHANGED evars \/ \E to \in {"expired", "denied"} : AdmitRefuses(o, to)
           /\ Close(x, Begun, [Begun EXCEPT !.phase = "done"])

NotSent(e) == [e EXCEPT !.phase = "observed", !.disp = "not_sent", !.usage = ZeroUsage]

ClaimedLate(e) == e

(* The write-ahead line: once it is durable the adapter may be called. *)
Claimed(e) == [e EXCEPT !.phase = "claimed"]

(* claim, from admit or resumed.  A conclusive failure before the adapter is *)
(* called -- the claim refused, or won too late or without an adapter -- is  *)
(* journaled as a fault and observed as not sent.                            *)
ClaimEffect(o, policy) ==
  LET x == <<o, "effect">>
      e == mem[x]
      faulted == [e EXCEPT !.fault = TRUE]
  IN /\ run[x] = "claim" \/ (Visiting(x, "admit") /\ Claimable(x))
     /\ visit' = visit \ {x}
     /\ LoopUnchanged
     /\ \/ /\ Claim(o, e.att, policy)
           /\ \/ /\ Put(x, Claimed(e))
                 /\ Step(x, "invoke")
                 /\ held' = held \cup {x}
              \/ PutFails(x, e, Claimed(e)) /\ LetGo(x)
        \/ /\ Claim(o, e.att, policy) \/ UNCHANGED evars
           /\ NoAnswer
           /\ LetGo(x)
        \/ /\ Claim(o, e.att, policy) \/ UNCHANGED evars
           /\ \/ PutFails(x, e, faulted) /\ LetGo(x)
              \/ Advance(x, faulted, NotSent(faulted), "record")

(* admitReconciliation, up to the prepared read: any error ends the entry.  *)
PrepareRead(o, policy) ==
  LET x == <<o, "reconcile">>
  IN /\ Visiting(x, "admit")
     /\ ~Open(mem[x])
     /\ visit' = visit \ {x}
     /\ LoopUnchanged
     /\ \/ /\ PutFails(x, mem[x], Begun)
           /\ LetGo(x)
           /\ UNCHANGED evars
        \/ /\ ReconciliationPrepare(o, policy)
           /\ Advance(x, Begun,
                [Begun EXCEPT !.phase = "admitted", !.att = count[o] + 1], "claim")
        \/ /\ UNCHANGED evars
           /\ Close(x, Begun, [Begun EXCEPT !.phase = "done"])
        \/ /\ ReconciliationPrepare(o, policy)
           /\ Unanswered
           /\ mem' = [mem EXCEPT ![x] = [Begun EXCEPT !.phase = "done"]]
           /\ disk' = [disk EXCEPT ![x] = [Begun EXCEPT !.phase = "done"]]
           /\ LetGo(x)

(* The claim of a read: any error ends the entry. *)
ClaimRead(o, policy) ==
  LET x == <<o, "reconcile">>
      e == mem[x]
      ended == [e EXCEPT !.phase = "done", !.fault = TRUE]
  IN /\ run[x] = "claim"
     /\ LoopUnchanged
     /\ UNCHANGED visit
     /\ \/ /\ Claim(o, e.att, policy)
           /\ \/ /\ Put(x, Claimed(e))
                 /\ Step(x, "invoke")
                 /\ held' = held \cup {x}
              \/ PutFails(x, e, Claimed(e)) /\ LetGo(x)
              \/ Advance(x, e, NotSent(e), "record")
              \/ /\ Unanswered
                 /\ mem' = [mem EXCEPT ![x] = ended]
                 /\ disk' = [disk EXCEPT ![x] = ended]
                 /\ LetGo(x)
        \/ /\ UNCHANGED evars
           /\ Close(x, e, ended)

--------------------------------------------------------------------------------
(* Settle *)

(* settleAdmission: an unanswered admission is undone if the operation is    *)
(* still listed as staged; otherwise its attempt cannot be named.            *)
SettleAdmission(o) ==
  LET x == <<o, "effect">>
      staged == Listed(o) /\ Admissible(o)
      to == [mem[x] EXCEPT !.phase = IF staged THEN "done" ELSE "stranded"]
  IN /\ Visiting(x, "settle")
     /\ x \notin held
     /\ mem[x].phase = "admitting"
     /\ visit' = visit \ {x}
     /\ Close(x, mem[x], to) \/ (NoAnswer /\ LetGo(x))
     /\ LoopUnchanged
     /\ UNCHANGED evars

(* What the controller can vouch for by itself: all it cannot rule out is    *)
(* an unknown charge.                                                        *)
Unknown(x, e) ==
  [e EXCEPT !.phase = "observed", !.disp = "unknown",
            !.usage = [ZeroUsage EXCEPT !.unknown = resv[x[1]].amount, !.advisory = TRUE]]

(* settleEffect, settleReconcileEntry: an unclaimed dispatch was not sent;    *)
(* a claimed one, and any read, may have been.                                *)
Synthesized(x) ==
  IF x[2] = "effect" /\ mem[x].phase = "admitted" THEN NotSent(mem[x])
  ELSE Unknown(x, mem[x])

SettleEntry(x) ==
  LET e == mem[x]
  IN /\ Visiting(x, "settle")
     /\ x \notin held
     /\ ~Claimable(x)
     /\ visit' = visit \ {x}
     /\ LoopUnchanged
     /\ UNCHANGED evars
     /\ \/ /\ e.phase \in {"admitted", "claimed"}
           /\ Advance(x, e, Synthesized(x), "record")
        \/ /\ e.phase \in {"observed", "recorded"}
           /\ Step(x, IF e.phase = "observed" THEN "record" ELSE "deliver")
           /\ UNCHANGED <<mem, disk, held, faults>>
        \/ /\ e.phase = "admitting"
           /\ x[2] = "reconcile"
           /\ Close(x, e, [e EXCEPT !.phase = "done"])

--------------------------------------------------------------------------------
(* Workers *)

Called(x, i) ==
  /\ sent' = IF x[2] = "effect" THEN [sent EXCEPT ![x[1]] = @ + 1] ELSE sent
  /\ reads' = IF x[2] = "reconcile" THEN [reads EXCEPT ![x[1]][i] = @ + 1] ELSE reads

(* The adapter is called. *)
Invoke(x) ==
  /\ run[x] = "invoke"
  /\ Called(x, mem[x].att)
  /\ Step(x, "return")
  /\ UNCHANGED <<evars, mem, disk, held, pass, visit, orphan, faults>>

(* The adapter returns, by its deadline; an error, a panic or an invalid     *)
(* answer reads as unknown.                                                  *)
Return(x, d, u) ==
  /\ run[x] = "return"
  /\ Advance(x, mem[x],
       [mem[x] EXCEPT !.phase = "observed", !.disp = d, !.usage = u], "record")
  /\ LoopUnchanged
  /\ UNCHANGED <<evars, visit>>

(* Repeating what an attempt already carries writes nothing. *)
RecordReplays(o, i, d) ==
  /\ ObservedBy(o, i) # {}
  /\ Prior(o, i).disp = d
  /\ UNCHANGED evars

(* _effects.record or _effects.reconciliation.record with the journaled      *)
(* observation.                                                              *)
OwnerRecords(x) ==
  LET e == mem[x]
  IN \/ RecordReplays(x[1], e.att, e.disp)
     \/ RecordDispute(x[1], e.att, e.disp)
     \/ IF x[2] = "effect"
        THEN RecordFresh(x[1], e.att, e.disp, e.usage)
             \/ RecordCorrection(x[1], e.att, e.disp, e.usage)
        ELSE ReconciliationRecord(x[1], e.att, e.disp, e.usage)

(* record, settleReconcile.  The owner refuses what its state or the usage    *)
(* report does not allow; the evidence then stays in the journal.             *)
Record(x) ==
  LET e == mem[x]
  IN /\ run[x] = "record"
     /\ LoopUnchanged
     /\ UNCHANGED visit
     /\ \/ /\ OwnerRecords(x)
           /\ Advance(x, e, [e EXCEPT !.phase = "recorded", !.fault = FALSE], "deliver")
        \/ /\ OwnerRecords(x) \/ UNCHANGED evars
           /\ NoAnswer
           /\ LetGo(x)
        \/ /\ UNCHANGED evars
           /\ Close(x, e, [e EXCEPT !.phase = "refused", !.fault = TRUE])

(* publish: there is no blob store, or the bytes or their metadata cannot be  *)
(* published for now.  The owner callback is withheld and the recorded entry  *)
(* stays open for another settle pass.                                        *)
Withheld(x) == UNCHANGED <<mem, disk, faults>> /\ LetGo(x)

(* deliver, finishReconcile: outputs are published and the waiting owner is   *)
(* told, which ends the entry, refuses it for good or is repeated later.  An  *)
(* inconclusive read tells nobody.                                            *)
Deliver(x) ==
  LET e == mem[x]
      told == x[2] = "effect" \/ e.disp \in {"succeeded", "failed"}
  IN /\ run[x] = "deliver"
     /\ \/ Close(x, e, [e EXCEPT !.phase = "done", !.fault = FALSE])
        \/ told /\ Close(x, e, [e EXCEPT !.phase = "refused", !.fault = TRUE])
        \/ told /\ NoAnswer /\ LetGo(x)
        \/ told /\ Withheld(x)
     /\ LoopUnchanged
     /\ UNCHANGED <<evars, visit>>

--------------------------------------------------------------------------------
(* Displacement and restart *)

TakeoverResumes ==
  /\ NextGeneration
  /\ mem' = disk
  /\ run' = [x \in Items |-> IF disk[x].phase = "claimed" THEN "invoke" ELSE "idle"]
  /\ held' = {x \in Items : disk[x].phase = "claimed"}
  /\ pass' = "settle"
  /\ visit' = {x \in Items : Open(disk[x])}
  /\ UNCHANGED <<disk, orphan, sent, reads, faults>>

(* The process ends, or loses ownership, and a successor loads the journal   *)
(* under the next generation.  A worker that had yet to call its adapter may *)
(* still do so; all it writes is refused.                                    *)
Takeover ==
  /\ NextGeneration
  /\ mem' = disk
  /\ run' = [x \in Items |-> "idle"]
  /\ held' = {}
  /\ pass' = "settle"
  /\ visit' = {x \in Items : Open(disk[x])}
  /\ orphan' = orphan \cup {<<x, mem[x].att>> : x \in {y \in Items : run[y] = "invoke"}}
  /\ UNCHANGED <<disk, sent, reads, faults>>

OrphanInvokes(w) ==
  /\ w \in orphan
  /\ orphan' = orphan \ {w}
  /\ Called(w[1], w[2])
  /\ UNCHANGED <<evars, mem, disk, run, held, pass, visit, faults>>

--------------------------------------------------------------------------------

(* Callers other than the controller: staging, review and operation.reconcile. *)
Callers ==
  /\ \E o \in Operations :
       \/ \E policy \in {"allow", "review", "deny"} : Stage(o, policy)
       \/ Approve(o)
       \/ \E policy \in Policies : Reconcile(o, policy)
  /\ UNCHANGED cvars

Admissions(o) ==
  \E policy \in Policies :
    AdmitEffect(o, policy) \/ ClaimEffect(o, policy)
      \/ PrepareRead(o, policy) \/ ClaimRead(o, policy)

Loop ==
  \/ NextPart
  \/ \E x \in Items : Skip(x) \/ SettleEntry(x)
  \/ \E o \in Operations : SettleAdmission(o) \/ Admissions(o)

Work(x) ==
  \/ Invoke(x)
  \/ \E d \in Dispositions, u \in Usages : Return(x, d, u)
  \/ Record(x)
  \/ Deliver(x)

DNext ==
  \/ Callers
  \/ Loop
  \/ \E x \in Items : Work(x)
  \/ Takeover
  \/ \E w \in orphan : OrphanInvokes(w)

(* The loop ticks for ever and workers run to their end; nothing makes the   *)
(* environment fail, stage or review.                                        *)
DSpec ==
  /\ DInit
  /\ [][DNext]_dvars
  /\ WF_dvars(Loop)
  /\ \A x \in Items : WF_dvars(Work(x))

--------------------------------------------------------------------------------
(* Properties *)

(* The journal and the loop keep their types, and the effects owner its.     *)
DTypeOK ==
  /\ ETypeOK
  /\ mem \in [Items -> JournalEntry]
  /\ disk \in [Items -> JournalEntry]
  /\ run \in [Items -> {"idle", "claim", "invoke", "return", "record", "deliver"}]
  /\ held \subseteq Items
  /\ pass \in {"settle", "admit"}
  /\ visit \subseteq Items
  /\ orphan \subseteq Items \X AttemptNos
  /\ sent \in [Operations -> Nat]
  /\ reads \in [Operations -> [AttemptNos -> Nat]]
  /\ faults \in 0..MaxFaults

(* performReconcile: a read attempt reaches its adapter at most once, and     *)
(* only after its claim was consumed.                                         *)
ReadsOnce ==
  \A o \in Operations, i \in AttemptNos :
    /\ reads[o][i] <= 1
    /\ reads[o][i] = 1 => att[o][i].consumed

Uncalled(x, i) ==
  /\ IF x[2] = "effect" THEN sent[x[1]] = 0 ELSE i # 0 => reads[x[1]][i] = 0
  /\ <<x, i>> \notin orphan

(* journal.go's phase table: whatever line a successor finds last bounds      *)
(* what may have happened, across lost answers, failed writes and crashes.    *)
(* Up to "admitted" the adapter was never called; "claimed" means the claim   *)
(* committed; "recorded" means the owner holds this observation.              *)
PhaseBounds ==
  \A x \in Items :
    LET e == disk[x]
        o == x[1]
    IN /\ e.phase \in {"admitting", "admitted"} => Uncalled(x, e.att)
       /\ e.phase = "admitting" /\ x[2] = "effect" =>
            \A i \in DispatchAttempts(o) : ~att[o][i].consumed
       /\ e.phase = "claimed" => att[o][e.att].consumed
       /\ e.phase = "recorded" => \E k \in ObservedBy(o, e.att) : obs[o][k].disp = e.disp

(* What is durably concluded about each operation. *)
Verdict ==
  [o \in Operations |->
     IF op[o] \in {"denied", "expired"} \/ resv[o].state = "released" THEN "unsent"
     ELSE IF op[o] \in {"succeeded", "failed"} THEN op[o]
     ELSE "open"]

Promise == INSTANCE OneShot WITH verdict <- Verdict

(* perform.go, "There is no path from here back to Invoke": every run of      *)
(* controllers implements OneShot.  The provider is called at most once per   *)
(* operation, never after the reservation was released as unsent, and no      *)
(* conclusion is revised.                                                     *)
ImplementsOneShot == Promise!Spec

Delivered(x) == Deliver(x) /\ ~Open(mem'[x])

(* journal.go, "delivered until it reaches done": every journaled unit of     *)
(* work is eventually concluded, whatever was lost on the way, unless its     *)
(* outputs are withheld each time its delivery is tried.                      *)
EntriesConclude ==
  \A x \in Items :
    SF_dvars(Delivered(x)) => (Open(mem[x]) ~> ~Open(mem[x]))

(* _effects.pending "lists the operations the controller must act on: staged  *)
(* operations awaiting admission": the controller eventually tries to admit   *)
(* an operation whose review was approved.                                    *)
ReviewedIsTried ==
  \A o \in Operations :
    (op[o] = "awaiting_review" /\ approved[o]) ~>
      (op[o] # "awaiting_review" \/ Open(mem[<<o, "effect">>]))

================================================================================
