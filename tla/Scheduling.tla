------------------------------ MODULE Scheduling ------------------------------
(***************************************************************************)
(* internal/scheduling: schedules and responsibilities, the durable wakes  *)
(* that fire them and the occurrences those wakes decide, driven by the    *)
(* controller's wake loop (internal/controller/tick.go) and changed        *)
(* meanwhile by pause, resume and staged configuration changes.            *)
(*                                                                         *)
(* Every operation is one transaction.  What interleaves is: a change      *)
(* staged at one version and applied at another; the list of due wakes the *)
(* controller read and the wakes it admits from it one transaction at a    *)
(* time; a controller that stops in the middle of its list.                *)
(*                                                                         *)
(* Time is a counter that only moves forward (deps.Clock).  A cron         *)
(* expression in its zone is the set of its instants, which may have gaps  *)
(* and may end.  An occurrence key is (version, instant); a wake is        *)
(* identified by its key, which is unique per source.                      *)
(***************************************************************************)
EXTENDS Integers, FiniteSets, FiniteSetsExt, SequencesExt

CONSTANTS Schedules,         \* schedule identities
          Responsibilities,  \* responsibility identities
          Expressions,       \* the cron expressions a schedule may have
          CatchUp,           \* catch_up_seconds
          MinInterval,       \* a responsibility's minimum reconsideration interval
          CycleBudget,       \* aggregate limit / per-cycle limit, in cycles
          Horizon,           \* how far nextAfter looks (cronHorizonYears, 4)
          MaxInstants,       \* cronMaxInstants (1000 in the code)
          MaxScan,           \* cronMaxScanDays (3660 in the code)
          Batch,             \* cfg.MaxDispatch, the limit of the due list
          MaxTime, MaxChanges, MaxDrafts, MaxFaults    \* bounds of the model

ASSUME SchedulingAssumption ==
  /\ Schedules \cap Responsibilities = {}
  /\ Expressions \subseteq SUBSET Nat /\ Expressions # {}
  /\ {CatchUp, CycleBudget, Horizon, MaxScan,
      MaxTime, MaxChanges, MaxDrafts, MaxFaults} \subseteq Nat
  /\ {MinInterval, MaxInstants, Batch} \subseteq Nat \ {0}

VARIABLES now,      \* the clock
          src,      \* scheduling_schedules and scheduling_responsibilities
          wakes,    \* scheduling_wakes
          occ,      \* scheduling_occurrences
          cycles,   \* scheduling_cycles, counted per responsibility
          drafts,   \* staged changes not applied yet
          listed,   \* the due wakes the controller's loop still has to admit
          since,    \* history: when a schedule's wake set was last rebuilt
          faults    \* peer faults and controller stops so far

vars == <<now, src, wakes, occ, cycles, drafts, listed, since, faults>>

Sources == Schedules \cup Responsibilities
Never == -1   \* a next_wake that is NULL

\* A definition as a change carries it; a responsibility has no cron fields.
Definitions(s) ==
  [paused : BOOLEAN,
   expr : IF s \in Schedules THEN Expressions ELSE {{}},
   coalesce : IF s \in Schedules THEN BOOLEAN ELSE {FALSE}]

Absent(s) == [state |-> "absent", version |-> 0, next |-> Never,
              def |-> CHOOSE d \in Definitions(s) : d.paused]

Init ==
  /\ now = 0
  /\ src = [s \in Sources |-> Absent(s)]
  /\ wakes = {} /\ occ = {}
  /\ cycles = [r \in Responsibilities |-> 0]
  /\ drafts = {} /\ listed = <<>>
  /\ since = [s \in Schedules |-> 0]
  /\ faults = 0

Live(s) == src[s].state = "live"
Active(s) == Live(s) /\ ~src[s].def.paused
\* The bound on the changes made to all sources together: each is one version.
CanChange == SumFunction([s \in Sources |-> src[s].version]) < MaxChanges

Pending(s) == {w \in wakes : w.src = s /\ ~w.admitted}

-------------------------------------------------------------------------------
\* Cron instants.

Instants(e, lo, hi) == {t \in lo..hi : t \in e}

\* nextAfter: the earliest instant strictly after t, if the horizon holds one.
NextAfter(e, t) ==
  LET later == Instants(e, t + 1, t + Horizon)
  IN IF later = {} THEN Never ELSE Min(later)

\* instantsBetween, walking from one instant, reaches another: the entries it
\* returns and the days it walks are capped.
Enumerated(e, from, t) ==
  Cardinality(Instants(e, from, t)) <= MaxInstants /\ t - from <= MaxScan

\* Mutant: the enumeration ends before its last instant.
MissedBefore(e, from, to) == {t \in Instants(e, from + 1, to - 1) : Enumerated(e, from, t)}

\* What instantsBetween returns of [from, to]; admission drops the pinned
\* instant itself.
Missed(e, from, to) == {t \in Instants(e, from, to) : Enumerated(e, from, t)} \ {from}

\* The newest missed instant inside the catch-up window, under coalesce.
Coalesced(d, missed, at) ==
  LET inside == {t \in missed : at - t <= CatchUp}
  IN IF d.coalesce /\ inside # {} THEN {Max(inside)} ELSE {}

\* When a source whose wake set is rebuilt at time t first wakes: for a
\* schedule whose expression has no instant within the horizon, Never.
FirstWake(s, d, t) ==
  IF s \in Schedules THEN NextAfter(d.expr, t) ELSE t + MinInterval

Wake(s, v, t) == [src |-> s, ver |-> v, due |-> t, admitted |-> FALSE]
Occurrence(s, v, t, st) == [src |-> s, ver |-> v, at |-> t, state |-> st]

-------------------------------------------------------------------------------
\* Staging.  A staged change pins the version it was staged at; `saw` remembers
\* (as history) whether the source was paused then.  The definition it carries
\* is read only when the change is applied, and is chosen there.

CanStage(s, action) ==
  CASE action = "create"  -> src[s].state = "absent" /\ \A d \in drafts : d.src # s
    [] action = "update"  -> Live(s)
    [] action = "archive" -> src[s].state # "absent"

Stage(s, action) ==
  /\ Cardinality(drafts) < MaxDrafts /\ CanChange
  /\ CanStage(s, action)
  /\ drafts' = drafts \cup {[src |-> s, action |-> action,
                             expected |-> src[s].version, saw |-> src[s].def.paused]}
  /\ UNCHANGED <<now, src, wakes, occ, cycles, listed, since, faults>>

Since(s) == [q \in Schedules |-> IF q = s THEN now ELSE since[q]]

\* A rebuilt wake set: pending wakes dropped, one armed unless the definition
\* is paused or its expression has no instant ahead.
Rebuild(s, def, v) ==
  LET next == IF def.paused THEN Never ELSE FirstWake(s, def, now)
  IN /\ src' = [src EXCEPT ![s] = [state |-> "live", version |-> v, next |-> next, def |-> def]]
     /\ wakes' = (wakes \ Pending(s)) \cup {Wake(s, v, t) : t \in {next} \ {Never}}
     /\ since' = Since(s)

\* A create or an update is applied only at the version it was staged at, and
\* never to an archived source.
ApplyDefinition(d, def) ==
  /\ d.action # "archive"
  /\ src[d.src].state # "archived"
  /\ src[d.src].version = d.expected
  /\ CanChange
  /\ Rebuild(d.src, def, d.expected + 1)

ApplyArchive(d) ==
  /\ d.action = "archive"
  /\ src[d.src].version = d.expected
  /\ CanChange
  /\ src' = [src EXCEPT ![d.src].state = "archived", ![d.src].version = @ + 1,
                        ![d.src].next = Never]
  /\ wakes' = wakes \ Pending(d.src)
  /\ UNCHANGED since

Activate ==
  /\ \E d \in drafts :
       /\ ApplyArchive(d) \/ \E def \in Definitions(d.src) : ApplyDefinition(d, def)
       /\ drafts' = drafts \ {d}
  /\ UNCHANGED <<now, occ, cycles, listed, faults>>

\* A stale change is refused and its bundle rolled back.
Refuse ==
  /\ \E d \in drafts : /\ src[d.src].version # d.expected
                       /\ drafts' = drafts \ {d}
  /\ UNCHANGED <<now, src, wakes, occ, cycles, listed, since, faults>>

-------------------------------------------------------------------------------
\* Pause and resume, immediate and behind the row's own version.

\* Mutant: a pause that keeps the version.
PausedRowOnly(row) == [row EXCEPT !.def.paused = TRUE]

PausedRow(row) == [row EXCEPT !.def.paused = TRUE, !.version = @ + 1]

Pause(s) ==
  /\ Live(s) /\ CanChange
  /\ src' = [src EXCEPT ![s] = PausedRow(@)]
  /\ UNCHANGED <<now, wakes, occ, cycles, drafts, listed, since, faults>>

\* Mutant: resume arms whether or not a wake is pending.
ArmedAnyway(s) == {FirstWake(s, src[s].def, now)}

\* What resume arms: nothing while a wake is still pending.
ArmedByResume(s) == IF Pending(s) # {} THEN {} ELSE {FirstWake(s, src[s].def, now)}

\* Refused when a wake has to be armed and the expression has no instant ahead.
Resume(s) ==
  /\ Live(s) /\ CanChange
  /\ LET armed == ArmedByResume(s)
         v == src[s].version + 1
     IN /\ Never \notin armed
        /\ src' = [src EXCEPT ![s].def.paused = FALSE, ![s].version = v,
                              ![s].next = IF armed = {} THEN @ ELSE Max(armed)]
        /\ wakes' = wakes \cup {Wake(s, v, t) : t \in armed}
        /\ since' = IF armed = {} THEN since ELSE Since(s)
  /\ UNCHANGED <<now, occ, cycles, drafts, listed, faults>>

-------------------------------------------------------------------------------
\* The controller's wake loop.

Due == {w \in wakes : ~w.admitted /\ w.due <= now}

\* The oldest Batch due wakes; wakes due at one instant come in the order they
\* were created, which the model leaves open.
Listings ==
  {SubSeq(q, 1, Min({Batch, Len(q)})) :
     q \in {p \in SetToSeqs(Due) : \A i, j \in DOMAIN p : i < j => p[i].due <= p[j].due}}

ListDue ==
  /\ listed = <<>> /\ Due # {}
  /\ listed' \in Listings
  /\ UNCHANGED <<now, src, wakes, occ, cycles, drafts, since, faults>>

\* The aggregate fence counts recorded cycles.
OverBudget(s) == s \in Responsibilities /\ cycles[s] + 1 > CycleBudget

\* The key already has its occurrence.
Decided(w) == \E o \in occ : o.src = w.src /\ o.ver = w.ver /\ o.at = w.due

Admissible(w) == w \in Due /\ Active(w.src) /\ ~Decided(w) /\ ~OverBudget(w.src)

\* Mutant: the loop ends at a wake that was not admitted.
OnwardUnlessSkipped == IF Admissible(Head(listed)) THEN Tail(listed) ELSE <<>>

\* What is left of the list after its first wake was delivered, whatever came
\* of it: the loop goes on.
Onward == Tail(listed)

\* fenceWakeAdmission
Fenced(w) == (wakes \ {w}) \cup {[w EXCEPT !.admitted = TRUE]}

\* wakeAdmit skips or refuses: the wake is gone or admitted, its source is
\* paused, its occurrence is decided (the wake is consumed), or the
\* responsibility's aggregate limit is reached.
SkipWake ==
  /\ listed # <<>> /\ ~Admissible(Head(listed))
  /\ LET w == Head(listed)
     IN wakes' = IF w \in Due /\ Active(w.src) /\ Decided(w) THEN Fenced(w) ELSE wakes
  /\ listed' = Onward
  /\ UNCHANGED <<now, src, occ, cycles, drafts, since, faults>>

\* A peer (tasks, execution) refuses the task: the transaction rolls back and
\* the wake stays due.
PeerFault ==
  /\ listed # <<>> /\ Admissible(Head(listed)) /\ faults < MaxFaults
  /\ listed' = Onward /\ faults' = faults + 1
  /\ UNCHANGED <<now, src, wakes, occ, cycles, drafts, since>>

\* The controller stops admitting, or ends; a later tick reads the list again.
Stop ==
  /\ listed # <<>> /\ faults < MaxFaults
  /\ listed' = <<>> /\ faults' = faults + 1
  /\ UNCHANGED <<now, src, wakes, occ, cycles, drafts, since>>

\* The occurrences a schedule's wake decides: the pinned instant and the
\* coalesced one admitted, every other missed instant skipped.
Decisions(w, d) ==
  LET missed == Missed(d.expr, w.due, now)
      extra == Coalesced(d, missed, now)
  IN {Occurrence(w.src, w.ver, t, "admitted") : t \in {w.due} \cup extra}
       \cup {Occurrence(w.src, w.ver, t, "skipped") : t \in missed \ extra}

\* The next wake is armed when no other is pending and there is an instant
\* ahead; without one the schedule waits for a resume or an update.
AdmitSchedule ==
  /\ listed # <<>>
  /\ LET w == Head(listed)
         s == w.src
         next == NextAfter(src[s].def.expr, now)
         armed == IF Pending(s) = {w} THEN {next} \ {Never} ELSE {}
     IN /\ s \in Schedules /\ Admissible(w)
        /\ occ' = occ \cup Decisions(w, src[s].def)
        /\ wakes' = Fenced(w)
                      \cup {Wake(s, src[s].version, t) : t \in armed}
        /\ src' = [src EXCEPT ![s].next = IF Pending(s) = {w} THEN next ELSE @]
  /\ listed' = Onward
  /\ UNCHANGED <<now, cycles, drafts, since, faults>>

\* A responsibility's wake admits one cycle and arms nothing.
AdmitResponsibility ==
  /\ listed # <<>>
  /\ LET w == Head(listed)
     IN /\ w.src \in Responsibilities /\ Admissible(w)
        /\ occ' = occ \cup {Occurrence(w.src, w.ver, w.due, "admitted")}
        /\ wakes' = Fenced(w)
  /\ listed' = Onward
  /\ UNCHANGED <<now, src, cycles, drafts, since, faults>>

\* cycle.record at the current version: a stale one, and a repeat, change
\* nothing.  The caller chooses the next wake, which keeps the minimum interval
\* from the current one.
RecordCycle(r, next) ==
  /\ Live(r) /\ CanChange
  /\ src[r].next # Never => next - src[r].next >= MinInterval
  /\ ~OverBudget(r)
  /\ cycles' = [cycles EXCEPT ![r] = @ + 1]
  /\ src' = [src EXCEPT ![r].version = @ + 1, ![r].next = next]
  /\ wakes' = (wakes \ Pending(r)) \cup {Wake(r, src[r].version + 1, next)}
  /\ UNCHANGED <<now, occ, drafts, listed, since, faults>>

Advance ==
  /\ now < MaxTime
  /\ now' = now + 1
  /\ UNCHANGED <<src, wakes, occ, cycles, drafts, listed, since, faults>>

Next ==
  \/ \E s \in Sources :
       \/ \E action \in {"create", "update", "archive"} : Stage(s, action)
       \/ Pause(s)
       \/ Resume(s)
  \/ Activate
  \/ Refuse
  \/ ListDue
  \/ SkipWake
  \/ PeerFault
  \/ Stop
  \/ AdmitSchedule
  \/ AdmitResponsibility
  \/ \E r \in Responsibilities, next \in 0..MaxTime + MinInterval : RecordCycle(r, next)
  \/ Advance

\* The controller ticks for as long as it runs, and each tick reads the due
\* list and delivers it to its end (controller.go's loop, tick.go).
Loop == SkipWake \/ AdmitSchedule \/ AdmitResponsibility

Spec == Init /\ [][Next]_vars /\ WF_vars(ListDue) /\ WF_vars(Loop)

-------------------------------------------------------------------------------
\* Properties.

\* Instant t fell to the caps: the wake before it was admitted so late that the
\* enumeration ended short of t.
LostToCap(s, t) ==
  \E w \in wakes :
    /\ w.src = s /\ since[s] < w.due /\ w.due < t
    /\ \A x \in wakes : x.src = s /\ x.due < t => x.due <= w.due
    /\ ~Enumerated(src[s].def.expr, w.due, t)

\* Every cron instant of a schedule is decided exactly once: since the wake set
\* was last rebuilt, an instant that has passed either has its one occurrence
\* or lies at or after the wake still pending, never both, and neither only
\* when that one outage ran past what an admission enumerates; and no instant
\* is decided under two versions (the occurrence key holds the version, so the
\* unique index does not exclude it).  admitScheduleWake's enumeration of missed
\* instants against the arming of the next wake.
InstantsOnce ==
  /\ \A o, p \in occ : o.src = p.src /\ o.src \in Schedules /\ o.at = p.at => o = p
  /\ \A s \in Schedules : Live(s) /\ src[s].next # Never =>
       \A t \in Instants(src[s].def.expr, since[s] + 1, now) :
         LET decided == \E o \in occ : o.src = s /\ o.at = t
             behind == \A w \in Pending(s) : w.due > t
         IN (decided => behind) /\ (behind => decided \/ LostToCap(s, t))

\* The row's next_wake, which update, resume, admission, archive and
\* cycle.record each maintain beside the wakes table, tells the truth: a source
\* has at most one pending wake, due when the row says; and a source that is
\* neither paused nor archived has one, unless it is a responsibility whose
\* cycle for that very wake was admitted, or a schedule whose row says it has
\* none because, at some time since its wake set was rebuilt, its expression
\* had no instant within the horizon.
NextWakeTrue ==
  \A s \in Sources :
    /\ \A w, x \in Pending(s) : w = x
    /\ \A w \in Pending(s) : Live(s) /\ w.due = src[s].next
    /\ Active(s) /\ Pending(s) = {} =>
         \/ s \in Responsibilities /\ \E o \in occ : o.src = s /\ o.at = src[s].next
         \/ /\ s \in Schedules /\ src[s].next = Never
            /\ \E t \in since[s]..now : NextAfter(src[s].def.expr, t) = Never

\* A pause is undone by a resume or by a change staged while the source was
\* already paused; a change staged before the pause never undoes it when it is
\* applied afterwards.  schedulePause and responsibilityPause bump the version
\* activateScheduleChange fences on.
PauseStands ==
  [][\A s \in Sources : src[s].def.paused /\ Live(s) /\ ~src'[s].def.paused =>
       \/ Resume(s)
       \/ \E d \in drafts \ drafts' : d.src = s /\ d.saw]_vars

\* A due wake of an active schedule does not stay due: it is admitted, or the
\* schedule is paused, changed or archived.  The wake loop's promise that a
\* refused or skipped wake does not keep the others waiting.
DueIsDecided ==
  \A s \in Schedules :
    Active(s) /\ Pending(s) \cap Due # {} ~> ~Active(s) \/ Pending(s) \cap Due = {}

\* When a coalescing schedule's wake is admitted late, the newest missed instant
\* inside the catch-up window is admitted with it.
CatchUpRuns ==
  [][\A w \in Due : w.src \in Schedules /\ [w EXCEPT !.admitted = TRUE] \in wakes' =>
       LET d == src[w.src].def
       IN \A t \in Coalesced(d, Instants(d.expr, w.due + 1, now), now) :
            \E o \in occ' : o.src = w.src /\ o.at = t /\ o.state = "admitted"]_vars

===============================================================================
