---------------------------- MODULE SchedulingProofs ----------------------------
(***************************************************************************)
(* Proofs about schedules and responsibilities, for any number of them,    *)
(* any cron expressions, caps, clock, budgets and faults: a row's          *)
(* next_wake and the wakes table agree, a pause is not undone by a change  *)
(* staged before it, and every instant is decided exactly once, but for    *)
(* those an outage lost to the caps of one admission's enumeration.        *)
(***************************************************************************)
EXTENDS Scheduling, FiniteSetTheorems, WellFoundedInduction, TLAPS

Definition == [paused : BOOLEAN, expr : SUBSET Nat, coalesce : BOOLEAN]

SourceRow == [state : {"absent", "live", "archived"}, version : Nat,
              next : Nat \cup {Never}, def : Definition]

WakeRow == [src : Sources, ver : Nat, due : Nat, admitted : BOOLEAN]

OccurrenceRow == [src : Sources, ver : Nat, at : Nat, state : {"admitted", "skipped"}]

DraftRow == [src : Sources, action : {"create", "update", "archive"},
             expected : Nat, saw : BOOLEAN]

\* The types, as far as the argument needs them.  A listed wake is looked up
\* again before it is admitted, so nothing is asked of the list.
RowsOK ==
  /\ now \in 0..MaxTime
  /\ src \in [Sources -> SourceRow]
  /\ wakes \subseteq WakeRow
  /\ occ \subseteq OccurrenceRow
  /\ drafts \subseteq DraftRow
  /\ since \in [Schedules -> Nat]

\* A draft staged at the current version saw the current pause.
DraftInv ==
  \A d \in drafts :
    /\ d.expected <= src[d.src].version
    /\ d.expected = src[d.src].version => d.saw = src[d.src].def.paused

\* Every occurrence and every admitted wake is of an instant that has come, and
\* so is every rebuild.
Past ==
  /\ \A o \in occ : o.at <= now
  /\ \A w \in wakes : w.admitted => w.due <= now
  /\ \A s \in Schedules : since[s] <= now

Of(s) == {o \in occ : o.src = s}
Mine(s) == {w \in wakes : w.src = s}

\* What is true of one schedule: the pending wake is ahead of the last rebuild,
\* of every admitted wake and of everything that is decided, and everything
\* behind it is decided or was lost to the caps.
ScheduleInv(s) ==
  /\ Live(s) /\ src[s].next # Never => Pending(s) # {}
  /\ \A w \in Pending(s) :
       /\ since[s] < w.due
       /\ \A x \in Mine(s) : x.admitted => x.due < w.due
       /\ \A o \in Of(s) : o.at < w.due
       /\ \A t \in Instants(src[s].def.expr, since[s] + 1, w.due - 1) :
            (\E o \in Of(s) : o.at = t) \/ LostToCap(s, t)
  /\ \A o, p \in Of(s) : o.at = p.at => o = p

\* An expression had no instant ahead, at some time since the last rebuild.
NoneAhead(s) ==
  /\ s \in Schedules /\ src[s].next = Never
  /\ \E t \in since[s]..now : NextAfter(src[s].def.expr, t) = Never

\* NextWakeTrue for one source, and the above for a schedule.
SourceInv(s) ==
  /\ \A w, x \in Pending(s) : w = x
  /\ \A w \in Pending(s) : Live(s) /\ w.due = src[s].next
  /\ Active(s) /\ Pending(s) = {} =>
       (s \in Responsibilities /\ \E o \in Of(s) : o.at = src[s].next) \/ NoneAhead(s)
  /\ s \in Schedules => ScheduleInv(s)

CInv ==
  /\ RowsOK
  /\ DraftInv
  /\ Past
  /\ \A s \in Sources : SourceInv(s)

---------------------------------------------------------------------------------
(* Cron instants                                                               *)

(* A set of naturals that is not empty has a least element. *)
LEMMA LeastNatural ==
  ASSUME NEW T \in SUBSET Nat, T # {}
  PROVE  \E x \in T : \A y \in T : x <= y
<1> DEFINE R == OpToRel(<, Nat)
<1>1. IsWellFoundedOn(R, Nat)
  BY NatLessThanWellFounded
<1>2. \A x, y \in Nat : y < x => <<y, x>> \in R
  BY DEF OpToRel
<1> HIDE DEF R
<1>3. PICK x \in T : \A y \in T : ~(<<y, x>> \in R)
  BY <1>1, WFMin
<1>4. ASSUME NEW y \in T
      PROVE  x <= y
  <2>1. x \in Nat /\ y \in Nat /\ ~(<<y, x>> \in R)
    BY <1>3
  <2>2. ~(y < x)
    BY <1>2, <2>1
  <2> QED
    BY <2>1, <2>2
<1> QED
  BY <1>4

(* A bounded set of naturals that is not empty has its maximum. *)
LEMMA MaxIsMember ==
  ASSUME NEW n \in Nat, NEW S \in SUBSET (0..n), S # {}
  PROVE  Max(S) \in S
<1> DEFINE T == {n - x : x \in S}
<1>1. T \in SUBSET Nat /\ T # {}
  <2>1. \A x \in S : n - x \in Nat
    OBVIOUS
  <2>2. PICK x \in S : TRUE
    OBVIOUS
  <2>3. n - x \in T
    OBVIOUS
  <2> QED
    BY <2>1, <2>3
<1>2. PICK z \in T : \A y \in T : z <= y
  BY <1>1, LeastNatural
<1>3. PICK x \in S : z = n - x
  OBVIOUS
<1>4. \A y \in S : x >= y
  BY <1>2, <1>3
<1> QED
  BY <1>4 DEF Max

\* nextAfter: the first instant after t, with none in between, or none at all.
LEMMA NextAfterIs ==
  ASSUME NEW e \in SUBSET Nat, NEW t \in Nat
  PROVE  \/ NextAfter(e, t) = Never
         \/ /\ NextAfter(e, t) \in Nat /\ NextAfter(e, t) > t
            /\ \A u \in Nat : u > t /\ u < NextAfter(e, t) => u \notin e
<1> DEFINE later == Instants(e, t + 1, t + Horizon)
<1>1. \A u : u \in later <=> u \in e /\ u \in Nat /\ u > t /\ u <= t + Horizon
  BY SchedulingAssumption DEF Instants
<1>2. NextAfter(e, t) = IF later = {} THEN Never ELSE Min(later)
  BY DEF NextAfter
<1> HIDE DEF later
<1>3. CASE later # {}
  <2>1. later \in SUBSET Nat
    BY <1>1
  <2>2. PICK x \in later : \A y \in later : x <= y
    BY <1>3, <2>1, LeastNatural
  <2>3. \A y \in later : (\A z \in later : y <= z) => y = x
    BY <2>1, <2>2
  <2>4. Min(later) = x
    BY <2>2, <2>3 DEF Min
  <2>5. x \in Nat /\ x > t /\ x <= t + Horizon
    BY <1>1, <2>2
  <2>6. ASSUME NEW u \in Nat, u > t, u < x, u \in e
        PROVE  FALSE
    <3>1. u <= t + Horizon
      BY <2>5, <2>6, SchedulingAssumption
    <3>2. u \in later
      BY <1>1, <2>6, <3>1
    <3> QED
      BY <2>2, <2>5, <2>6, <3>2
  <2> QED
    BY <1>2, <1>3, <2>4, <2>5, <2>6
<1> QED
  BY <1>2, <1>3

---------------------------------------------------------------------------------
(* Rows                                                                        *)

(* One field of a source's row is set. *)
LEMMA SourceRowFields ==
  ASSUME NEW r \in SourceRow
  PROVE  /\ \A x \in Nat \cup {Never} : [r EXCEPT !.next = x] \in SourceRow
         /\ \A x \in Nat : [r EXCEPT !.version = x] \in SourceRow
         /\ \A x \in {"absent", "live", "archived"} : [r EXCEPT !.state = x] \in SourceRow
         /\ \A x \in Definition : [r EXCEPT !.def = x] \in SourceRow
         /\ \A x \in BOOLEAN : [r.def EXCEPT !.paused = x] \in Definition
<1>1. r.def \in Definition
  BY DEF SourceRow
<1>2. \A x \in BOOLEAN : [r.def EXCEPT !.paused = x] \in Definition
  BY <1>1 DEF Definition
<1> QED
  BY <1>2 DEF SourceRow

(* A definition that can be staged. *)
LEMMA DefinitionRow ==
  ASSUME NEW s \in Sources
  PROVE  Definitions(s) \subseteq Definition
<1>1. CASE s \in Schedules
  BY <1>1, SchedulingAssumption DEF Definitions, Definition
<1>2. CASE s \notin Schedules
  <2>1. Definitions(s) = [paused : BOOLEAN, expr : {{}}, coalesce : {FALSE}]
    BY <1>2 DEF Definitions
  <2>2. {FALSE} \subseteq BOOLEAN /\ {{}} \subseteq SUBSET Nat
    OBVIOUS
  <2>3. [paused : BOOLEAN, expr : {{}}, coalesce : {FALSE}] \subseteq Definition
    BY <2>2, Zenon DEF Definition
  <2> QED
    BY <1>2, <2>1, <2>3
<1> QED
  BY <1>1, <1>2

\* When a source whose wake set is rebuilt first wakes: a schedule after t, with
\* no instant in between, or never; a responsibility always.
LEMMA FirstWakeIs ==
  ASSUME NEW s \in Sources, NEW d \in Definition, NEW t \in Nat
  PROVE  LET f == FirstWake(s, d, t)
         IN /\ f \in Nat \cup {Never}
            /\ s \notin Schedules => f # Never
            /\ s \in Schedules => f = NextAfter(d.expr, t)
            /\ f # Never /\ s \in Schedules =>
                 f > t /\ \A u \in Nat : u > t /\ u < f => u \notin d.expr
<1>1. d.expr \in SUBSET Nat
  BY DEF Definition
<1>2. CASE s \in Schedules
  <2>1. FirstWake(s, d, t) = NextAfter(d.expr, t)
    BY <1>2 DEF FirstWake
  <2> QED
    BY <1>1, <1>2, <2>1, NextAfterIs
<1>3. CASE s \notin Schedules
  <2>1. FirstWake(s, d, t) = t + MinInterval
    BY <1>3 DEF FirstWake
  <2> QED
    BY <1>3, <2>1, SchedulingAssumption DEF Never
<1> QED
  BY <1>2, <1>3

(* The row of a source that was never configured. *)
LEMMA AbsentRow ==
  ASSUME NEW s \in Sources
  PROVE  /\ Absent(s) \in SourceRow /\ Absent(s).state = "absent"
         /\ Absent(s).version = 0
<1> DEFINE d == CHOOSE d \in Definitions(s) : d.paused
<1>1. \E e \in Definitions(s) : e.paused
  <2>1. PICK p \in (IF s \in Schedules THEN Expressions ELSE {{}}) : TRUE
    BY SchedulingAssumption
  <2> DEFINE e == [paused |-> TRUE, expr |-> p, coalesce |-> FALSE]
  <2>2. e \in Definitions(s)
    BY <2>1 DEF Definitions
  <2>3. e.paused
    OBVIOUS
  <2> QED
    BY <2>2, <2>3
<1>2. d \in Definitions(s)
  BY <1>1
<1>3. Absent(s) = [state |-> "absent", version |-> 0, next |-> Never, def |-> d]
  BY DEF Absent
<1> HIDE DEF d
<1> QED
  BY <1>2, <1>3, DefinitionRow DEF SourceRow

---------------------------------------------------------------------------------
(* The wakes table                                                             *)

\* A rebuilt wake set.
LEMMA Rearmed ==
  ASSUME NEW s, NEW A, wakes' = (wakes \ Pending(s)) \cup A,
         \A w \in A : w.src = s /\ ~w.admitted
  PROVE  /\ Pending(s)' = A
         /\ \A q : q # s => Mine(q)' = Mine(q)
         /\ \A w \in wakes' : w.admitted => w \in wakes
BY DEF Pending, Mine

\* A wake armed beside the others.
LEMMA AddedWake ==
  ASSUME NEW s, NEW A, wakes' = wakes \cup A, \A w \in A : w.src = s /\ ~w.admitted
  PROVE  /\ Pending(s)' = Pending(s) \cup A
         /\ \A q : q # s => Mine(q)' = Mine(q)
         /\ \A w \in wakes' : w.admitted => w \in wakes
BY DEF Pending, Mine

\* A consumed wake.
LEMMA FencedWake ==
  ASSUME CInv, NEW s, NEW w \in Pending(s), NEW A, wakes' = Fenced(w) \cup A,
         \A x \in A : x.src = s /\ ~x.admitted, A \subseteq WakeRow
  PROVE  /\ Pending(s)' = (Pending(s) \ {w}) \cup A
         /\ \A q : q # s => Mine(q)' = Mine(q)
         /\ wakes' \subseteq WakeRow
         /\ \A x \in wakes' : x.admitted => x \in wakes \/ x.due = w.due
<1> DEFINE done == [w EXCEPT !.admitted = TRUE]
<1>1. w \in wakes /\ w.src = s /\ ~w.admitted /\ wakes \subseteq WakeRow
  BY DEF Pending, CInv, RowsOK
<1>2. done \in WakeRow
  BY <1>1 DEF WakeRow
<1>3. done.src = s /\ done.admitted = TRUE /\ done.due = w.due
  BY <1>1 DEF WakeRow
<1>4. wakes' = ((wakes \ {w}) \cup {done}) \cup A
  BY DEF Fenced
<1> HIDE DEF done
<1>5. /\ Pending(s)' = (Pending(s) \ {w}) \cup A
      /\ \A q : q # s => Mine(q)' = Mine(q)
  BY <1>1, <1>3, <1>4 DEF Pending, Mine
<1>6. wakes' \subseteq WakeRow /\ \A x \in wakes' : x.admitted => x \in wakes \/ x.due = w.due
  BY <1>1, <1>2, <1>3, <1>4
<1> QED
  BY <1>5, <1>6

\* What it leaves its source.
LEMMA FencedMine ==
  ASSUME CInv, NEW s, NEW w \in Pending(s), NEW A, wakes' = Fenced(w) \cup A,
         \A x \in A : x.src = s
  PROVE  \E done : Mine(s)' = (Mine(s) \ {w}) \cup {done} \cup A /\ done.due = w.due
<1> DEFINE done == [w EXCEPT !.admitted = TRUE]
<1>1. w \in wakes /\ w.src = s /\ w \in WakeRow
  BY DEF Pending, CInv, RowsOK
<1>2. done.src = s /\ done.due = w.due
  BY <1>1 DEF WakeRow
<1>3. wakes' = ((wakes \ {w}) \cup {done}) \cup A
  BY DEF Fenced
<1> HIDE DEF done
<1>4. Mine(s)' = (Mine(s) \ {w}) \cup {done} \cup A
  BY <1>1, <1>2, <1>3 DEF Mine
<1> QED
  BY <1>2, <1>4

(* The row a rebuilt wake set gets. *)
LEMMA WakeIs ==
  ASSUME NEW s \in Sources, NEW v \in Nat, NEW t \in Nat
  PROVE  /\ Wake(s, v, t) \in WakeRow
         /\ Wake(s, v, t).src = s /\ Wake(s, v, t).due = t /\ ~Wake(s, v, t).admitted
BY DEF Wake, WakeRow

---------------------------------------------------------------------------------
(* What a step may do, and what that keeps                                      *)

\* A source whose wakes and occurrences stay, and that does not become active.
LEMMA SourceKept ==
  ASSUME CInv, NEW s \in Sources,
         src'[s].state = src[s].state, src'[s].next = src[s].next,
         src'[s].def.expr = src[s].def.expr,
         Active(s)' => Active(s) \/ Pending(s) # {},
         Mine(s)' = Mine(s), Of(s)' = Of(s), now' \in {now, now + 1},
         s \in Schedules => since'[s] = since[s]
  PROVE  SourceInv(s)'
<1>1. Live(s)' = Live(s)
  BY DEF Live
<1>2. Pending(s)' = Pending(s)
  BY DEF Pending, Mine
<1>3. SourceInv(s)
  BY DEF CInv
<1>4. NoneAhead(s) => NoneAhead(s)'
  <2>1. now \in Nat /\ (s \in Schedules => since[s] \in Nat)
    BY SchedulingAssumption DEF CInv, RowsOK
  <2>2. s \in Schedules => since[s]..now \subseteq since'[s]..now'
    BY <2>1
  <2> QED
    BY <2>2 DEF NoneAhead
<1>5. ASSUME s \in Schedules
      PROVE  ScheduleInv(s)'
  <2>1. \A t : LostToCap(s, t) => LostToCap(s, t)'
    BY <1>5 DEF LostToCap, Mine
  <2>2. ScheduleInv(s)
    BY <1>3, <1>5 DEF SourceInv
  <2>3. src'[s].def.expr = src[s].def.expr /\ since'[s] = since[s] /\ src'[s].next = src[s].next
    BY <1>5
  <2> QED
    BY <1>1, <1>2, <2>1, <2>2, <2>3 DEF ScheduleInv
<1> QED
  BY <1>1, <1>2, <1>3, <1>4, <1>5 DEF SourceInv

\* A source that has just been given its only wake, a schedule's after now.
LEMMA JustArmed ==
  ASSUME CInv, RowsOK', Past', now' = now, NEW s \in Sources, Of(s)' = Of(s),
         NEW w, Pending(s)' = {w},
         src'[s].state = "live", src'[s].def \in Definition,
         w.due = src'[s].next, w.due # Never,
         s \in Schedules =>
           w.due = FirstWake(s, src'[s].def, now) /\ since'[s] = now
  PROVE  SourceInv(s)'
<1>1. now \in Nat
  BY SchedulingAssumption DEF CInv, RowsOK
<1>2. Live(s)'
  BY DEF Live
<1>3. ASSUME s \in Schedules
      PROVE  ScheduleInv(s)'
  <2>1. w.due \in Nat /\ w.due > now
    BY <1>1, <1>3, FirstWakeIs
  <2>2. \A u \in Nat : u > now /\ u < w.due => u \notin src'[s].def.expr
    BY <1>1, <1>3, FirstWakeIs
  <2>3. Instants(src'[s].def.expr, since'[s] + 1, w.due - 1) = {}
    BY <1>1, <1>3, <2>1, <2>2 DEF Instants
  <2>4. \A o \in Of(s) : o.at \in Nat /\ o.at <= now
    BY <1>1 DEF Of, CInv, Past, RowsOK, OccurrenceRow
  <2>5. \A o \in Of(s) : o.at < w.due
    BY <1>1, <2>1, <2>4
  <2>6. \A o, p \in Of(s) : o.at = p.at => o = p
    BY <1>3 DEF CInv, SourceInv, ScheduleInv
  <2>7. \A x \in Mine(s)' : x.admitted => x.due < w.due
    BY <1>1, <2>1 DEF Mine, Past, RowsOK, WakeRow
  <2> QED
    BY <1>3, <2>1, <2>3, <2>5, <2>6, <2>7 DEF ScheduleInv
<1> QED
  BY <1>2, <1>3 DEF SourceInv

\* A source that has just lost its wake and waits for none.
LEMMA JustDisarmed ==
  ASSUME CInv, NEW s \in Sources, Of(s)' = Of(s), Pending(s)' = {},
         ~Active(s)' \/ NoneAhead(s)', src'[s].next = Never
  PROVE  SourceInv(s)'
<1>1. s \in Schedules => \A o, p \in Of(s) : o.at = p.at => o = p
  BY DEF CInv, SourceInv, ScheduleInv
<1> QED
  BY <1>1 DEF SourceInv, ScheduleInv

\* A step of one source.
LEMMA OneSourceStep ==
  ASSUME CInv, RowsOK', DraftInv', Past', now' = now, NEW s \in Sources, SourceInv(s)',
         \A q \in Sources \ {s} :
           /\ src'[q] = src[q] /\ Mine(q)' = Mine(q) /\ Of(q)' = Of(q)
           /\ q \in Schedules => since'[q] = since[q]
  PROVE  CInv'
<1>1. ASSUME NEW q \in Sources, q # s
      PROVE  SourceInv(q)'
  <2>1. Active(q)' => Active(q)
    BY <1>1 DEF Active, Live
  <2> QED
    BY <1>1, <2>1, SourceKept
<1> QED
  BY <1>1 DEF CInv

\* A step of none.
LEMMA QuietStep ==
  ASSUME CInv, RowsOK', DraftInv', Past', now' \in {now, now + 1},
         UNCHANGED <<src, wakes, occ, since>>
  PROVE  CInv'
<1>1. ASSUME NEW q \in Sources
      PROVE  SourceInv(q)'
  <2>1. Mine(q)' = Mine(q) /\ Of(q)' = Of(q) /\ (Active(q)' => Active(q))
    BY DEF Mine, Of, Active, Live
  <2> QED
    BY <2>1, SourceKept
<1> QED
  BY <1>1 DEF CInv

\* Only a version that moves on changes a pause.
LEMMA DraftsKept ==
  ASSUME CInv, RowsOK', drafts' \subseteq drafts,
         \A q \in Sources :
           \/ src'[q].version > src[q].version
           \/ /\ src'[q].version = src[q].version
              /\ src'[q].def.paused = src[q].def.paused
  PROVE  DraftInv'
<1> SUFFICES ASSUME NEW d \in drafts'
             PROVE  /\ d.expected <= src'[d.src].version
                    /\ d.expected = src'[d.src].version => d.saw = src'[d.src].def.paused
  BY DEF DraftInv
<1>1. d \in drafts /\ d.src \in Sources /\ d.expected \in Nat
  BY DEF CInv, RowsOK, DraftRow
<1>2. src[d.src].version \in Nat /\ src'[d.src].version \in Nat
  BY <1>1 DEF CInv, RowsOK, SourceRow
<1> QED
  BY <1>1, <1>2 DEF CInv, DraftInv

(* The types of one source's row. *)
LEMMA RowFacts ==
  ASSUME CInv, NEW s \in Sources
  PROVE  /\ src[s] \in SourceRow /\ src[s].version \in Nat /\ src[s].def \in Definition
         /\ src[s].next \in Nat \cup {Never}
         /\ now \in Nat /\ now \in 0..MaxTime
BY SchedulingAssumption DEF CInv, RowsOK, SourceRow

\* One source's row replaced.
LEMMA OneRow ==
  ASSUME CInv, NEW s \in Sources, NEW row \in SourceRow, src' = [src EXCEPT ![s] = row]
  PROVE  /\ src' \in [Sources -> SourceRow]
         /\ src'[s] = row
         /\ \A q \in Sources \ {s} : src'[q] = src[q]
BY DEF CInv, RowsOK

---------------------------------------------------------------------------------
(* Steps                                                                        *)

\* Stage.
LEMMA StageKeeps ==
  ASSUME CInv, NEW s \in Sources, NEW action \in {"create", "update", "archive"},
         Stage(s, action)
  PROVE  CInv'
<1> DEFINE saw == src[s].def.paused
           d == [src |-> s, action |-> action, expected |-> src[s].version, saw |-> saw]
<1>1. /\ drafts' = drafts \cup {d}
      /\ UNCHANGED <<now, src, wakes, occ, cycles, listed, since, faults>>
  BY DEF Stage
<1>2. src[s].version \in Nat
  BY RowFacts
<1>3. saw \in BOOLEAN
  BY RowFacts DEF Definition
<1> HIDE DEF saw
<1>4. d \in DraftRow
  BY <1>2, <1>3 DEF DraftRow
<1>5. d.src = s /\ d.expected = src[s].version /\ d.saw = saw
  OBVIOUS
<1> HIDE DEF d
<1>6. RowsOK'
  BY <1>1, <1>4 DEF CInv, RowsOK
<1>7. DraftInv'
  BY <1>1, <1>2, <1>5 DEF CInv, DraftInv, saw
<1>8. Past'
  BY <1>1 DEF CInv, Past
<1> QED
  BY <1>1, <1>6, <1>7, <1>8, QuietStep

\* Refuse, ListDue, PeerFault and Stop change no source, wake or occurrence.
LEMMA ListKeeps ==
  ASSUME CInv, Refuse \/ ListDue \/ PeerFault \/ Stop
  PROVE  CInv'
<1>1. UNCHANGED <<now, src, wakes, occ, since>> /\ drafts' \subseteq drafts
  BY DEF Refuse, ListDue, PeerFault, Stop
<1>2. RowsOK'
  BY <1>1 DEF CInv, RowsOK
<1>3. DraftInv' /\ Past'
  BY <1>1 DEF CInv, DraftInv, Past
<1> QED
  BY <1>1, <1>2, <1>3, QuietStep

\* Advance.
LEMMA AdvanceKeeps ==
  ASSUME CInv, Advance
  PROVE  CInv'
<1>1. /\ now' = now + 1 /\ now < MaxTime /\ now \in 0..MaxTime
      /\ UNCHANGED <<src, wakes, occ, drafts, since>>
  BY DEF Advance, CInv, RowsOK
<1>2. RowsOK'
  BY <1>1, SchedulingAssumption DEF CInv, RowsOK
<1>3. DraftInv'
  BY <1>1 DEF CInv, DraftInv
<1>4. Past'
  <2>1. /\ \A o \in occ : o.at \in Nat
        /\ \A w \in wakes : w.due \in Nat
        /\ \A s \in Schedules : since[s] \in Nat
    BY DEF CInv, RowsOK, OccurrenceRow, WakeRow
  <2> QED
    BY <1>1, <2>1, SchedulingAssumption DEF CInv, Past
<1> QED
  BY <1>1, <1>2, <1>3, <1>4, QuietStep

\* Pause: the wake stays, the version moves on.
LEMMA PauseKeeps ==
  ASSUME CInv, NEW s \in Sources, Pause(s)
  PROVE  CInv'
<1> DEFINE def == [src[s].def EXCEPT !.paused = TRUE]
           row == PausedRow(src[s])
<1>1. /\ src[s] \in SourceRow /\ src[s].version \in Nat /\ src[s].def \in Definition
  BY RowFacts
<1>2. /\ src' = [src EXCEPT ![s] = row] /\ Live(s)
      /\ UNCHANGED <<now, wakes, occ, cycles, drafts, listed, since, faults>>
  BY DEF Pause
<1>3. row = [src[s] EXCEPT !.def = def, !.version = src[s].version + 1]
  BY <1>1 DEF PausedRow, SourceRow
<1>4. def \in Definition /\ def.paused = TRUE /\ def.expr = src[s].def.expr
  BY <1>1 DEF Definition
<1> HIDE DEF def
<1>5. row \in SourceRow
  <2> DEFINE u == [src[s] EXCEPT !.def = def]
  <2>1. src[s].version + 1 \in Nat
    BY <1>1
  <2>2. u \in SourceRow
    BY <1>1, <1>4, SourceRowFields
  <2>3. row = [u EXCEPT !.version = src[s].version + 1]
    BY <1>1, <1>3 DEF SourceRow
  <2> HIDE DEF u, row
  <2> QED
    BY <2>1, <2>2, <2>3, SourceRowFields
<1>6. /\ row.def = def /\ row.version = src[s].version + 1
      /\ row.state = src[s].state /\ row.next = src[s].next
  BY <1>1, <1>3 DEF SourceRow
<1> HIDE DEF row
<1>7. /\ src' \in [Sources -> SourceRow] /\ src'[s] = row
      /\ \A q \in Sources \ {s} : src'[q] = src[q]
  BY <1>1, <1>2, <1>4, <1>5, <1>6, OneRow
<1>8. RowsOK'
  BY <1>2, <1>7 DEF CInv, RowsOK
<1>9. DraftInv'
  <2>1. ASSUME NEW q \in Sources
        PROVE  \/ src'[q].version > src[q].version
               \/ /\ src'[q].version = src[q].version
                  /\ src'[q].def.paused = src[q].def.paused
    BY <1>1, <1>6, <1>7
  <2> QED
    BY <1>2, <1>8, <2>1, DraftsKept
<1>10. Past'
  BY <1>2 DEF CInv, Past
<1>11. \A q \in Sources : Mine(q)' = Mine(q) /\ Of(q)' = Of(q)
  BY <1>2 DEF Mine, Of
<1>12. SourceInv(s)'
  <2>1. ~Active(s)'
    BY <1>4, <1>6, <1>7 DEF Active
  <2> QED
    BY <1>2, <1>4, <1>6, <1>7, <1>11, <2>1, SourceKept
<1> QED
  BY <1>2, <1>7, <1>8, <1>9, <1>10, <1>11, <1>12, OneSourceStep

\* Resume: armed again unless a wake is still pending.
LEMMA ResumeKeeps ==
  ASSUME CInv, NEW s \in Sources, Resume(s)
  PROVE  CInv'
<1> DEFINE def == [src[s].def EXCEPT !.paused = FALSE]
           armed == ArmedByResume(s)
           n == IF armed = {} THEN src[s].next ELSE Max(armed)
           v == src[s].version + 1
           row == [src[s] EXCEPT !.def = def, !.version = v, !.next = n]
           A == {Wake(s, v, t) : t \in armed}
           f == FirstWake(s, src[s].def, now)
<1>1. /\ src[s] \in SourceRow /\ src[s].version \in Nat /\ src[s].def \in Definition
      /\ src[s].next \in Nat \cup {Never} /\ now \in Nat
  BY RowFacts
<1>2. /\ src' = [src EXCEPT ![s] = row] /\ Live(s)
      /\ wakes' = wakes \cup A
      /\ since' = (IF armed = {} THEN since ELSE Since(s))
      /\ Never \notin armed
      /\ UNCHANGED <<now, occ, cycles, drafts, listed, faults>>
  BY <1>1 DEF Resume, SourceRow
<1>3. f \in Nat \cup {Never}
  BY <1>1, FirstWakeIs
<1>4. /\ Pending(s) # {} => armed = {} /\ n = src[s].next
      /\ Pending(s) = {} => armed = {f} /\ n = f /\ f \in Nat /\ f # Never
  <2>1. armed = IF Pending(s) # {} THEN {} ELSE {f}
    BY DEF ArmedByResume
  <2>2. Pending(s) = {} => f \in Nat /\ f # Never
    BY <1>2, <1>3, <2>1
  <2>3. f \in Nat => Max({f}) = f
    BY DEF Max
  <2> QED
    BY <2>1, <2>2, <2>3
<1>5. v \in Nat /\ n \in Nat \cup {Never}
  BY <1>1, <1>3, <1>4
<1>6. def \in Definition /\ def.expr = src[s].def.expr
  BY <1>1 DEF Definition
<1>7. \A t \in armed : t \in Nat
  BY <1>3, <1>4
<1>8. FirstWake(s, def, now) = f
  BY <1>6 DEF FirstWake
<1> HIDE DEF def, armed, n, v, f
<1>9. row \in SourceRow
  BY <1>1, <1>5, <1>6, SourceRowFields
<1>10. row.def = def /\ row.version = v /\ row.next = n /\ row.state = src[s].state
  BY <1>1 DEF SourceRow
<1> HIDE DEF row
<1>11. /\ src' \in [Sources -> SourceRow] /\ src'[s] = row
       /\ \A q \in Sources \ {s} : src'[q] = src[q]
  BY <1>1, <1>2, <1>6, <1>9, <1>10, OneRow
<1>12. A \subseteq WakeRow /\ \A w \in A : w.src = s /\ ~w.admitted
  BY <1>5, <1>7, WakeIs
<1>13. since' \in [Schedules -> Nat] /\ \A q \in Schedules : q # s => since'[q] = since[q]
  BY <1>1, <1>2 DEF Since, CInv, RowsOK
<1>14. RowsOK'
  BY <1>2, <1>11, <1>12, <1>13 DEF CInv, RowsOK
<1>15. DraftInv'
  <2>1. ASSUME NEW q \in Sources
        PROVE  \/ src'[q].version > src[q].version
               \/ /\ src'[q].version = src[q].version
                  /\ src'[q].def.paused = src[q].def.paused
    BY <1>1, <1>10, <1>11 DEF v
  <2> QED
    BY <1>2, <1>14, <2>1, DraftsKept
<1>16. Past'
  <2>1. \A q \in Schedules : since'[q] <= now
    BY <1>1, <1>2 DEF Since, CInv, RowsOK, Past
  <2>2. \A w \in wakes' : w.admitted => w \in wakes
    BY <1>2, <1>12
  <2> QED
    BY <1>2, <2>1, <2>2 DEF CInv, Past
<1>17. \A q \in Sources : Of(q)' = Of(q)
  BY <1>2 DEF Of
<1>18. Pending(s)' = Pending(s) \cup A /\ \A q : q # s => Mine(q)' = Mine(q)
  BY <1>2, <1>12, AddedWake
<1>19. SourceInv(s)'
  <2>1. CASE Pending(s) # {}
    <3>1. Mine(s)' = Mine(s)
      BY <1>2, <1>4, <2>1 DEF Mine
    <3>2. since' = since /\ src'[s].next = src[s].next
      BY <1>2, <1>4, <1>10, <1>11, <2>1
    <3> QED
      BY <1>2, <1>6, <1>10, <1>11, <1>17, <2>1, <3>1, <3>2, SourceKept
  <2>2. CASE Pending(s) = {}
    <3>1. Pending(s)' = {Wake(s, v, f)}
      BY <1>4, <1>18, <2>2
    <3>2. Wake(s, v, f).due = f
      BY DEF Wake
    <3>3. s \in Schedules => since'[s] = now
      BY <1>2, <1>4, <2>2 DEF Since
    <3>4. src'[s].state = "live" /\ src'[s].next = f /\ src'[s].def = def
      BY <1>2, <1>4, <1>10, <1>11, <2>2 DEF Live
    <3> QED
      BY <1>1, <1>2, <1>4, <1>6, <1>8, <1>14, <1>16, <1>17, <2>2, <3>1, <3>2, <3>3, <3>4, JustArmed
  <2> QED
    BY <2>1, <2>2
<1> QED
  BY <1>2, <1>11, <1>13, <1>14, <1>15, <1>16, <1>17, <1>18, <1>19, OneSourceStep

\* Activate: an applied definition rebuilds the wake set, an archive drops it.
LEMMA ActivateKeeps ==
  ASSUME CInv, Activate
  PROVE  CInv'
<1>1. PICK d \in drafts :
        /\ ApplyArchive(d) \/ \E def \in Definitions(d.src) : ApplyDefinition(d, def)
        /\ drafts' = drafts \ {d}
  BY DEF Activate
<1>2. UNCHANGED <<now, occ, cycles, listed, faults>>
  BY DEF Activate
<1> DEFINE s == d.src
<1>3. s \in Sources /\ d.expected \in Nat
  BY DEF CInv, RowsOK, DraftRow
<1>4. /\ src[s] \in SourceRow /\ src[s].version \in Nat /\ src[s].def \in Definition
      /\ now \in Nat
  BY <1>3, RowFacts
<1>5. \A q \in Sources : Of(q)' = Of(q)
  BY <1>2 DEF Of
<1>6. CASE ApplyArchive(d)
  <2> DEFINE row == [src[s] EXCEPT !.state = "archived", !.version = @ + 1, !.next = Never]
  <2>1. /\ src' = [src EXCEPT ![s] = row] /\ wakes' = wakes \ Pending(s) /\ since' = since
    BY <1>4, <1>6 DEF ApplyArchive, SourceRow
  <2>2. row \in SourceRow
    <3> DEFINE v == src[s].version + 1
               u == [src[s] EXCEPT !.state = "archived"]
    <3>1. v \in Nat
      BY <1>4
    <3>2. u \in SourceRow /\ row = [u EXCEPT !.version = v, !.next = Never]
      BY <1>4, SourceRowFields DEF SourceRow
    <3> HIDE DEF u, v, row
    <3> QED
      BY <3>1, <3>2, SourceRowFields
  <2>3. /\ row.state = "archived" /\ row.version = src[s].version + 1 /\ row.next = Never
        /\ row.def = src[s].def
    BY <1>4 DEF SourceRow
  <2> HIDE DEF row
  <2>4. /\ src' \in [Sources -> SourceRow] /\ src'[s] = row
        /\ \A q \in Sources \ {s} : src'[q] = src[q]
    BY <1>3, <1>4, <2>1, <2>2, <2>3, OneRow
  <2>5. RowsOK'
    BY <1>1, <1>2, <2>1, <2>4 DEF CInv, RowsOK
  <2>6. DraftInv'
    <3>1. ASSUME NEW q \in Sources
          PROVE  \/ src'[q].version > src[q].version
                 \/ /\ src'[q].version = src[q].version
                    /\ src'[q].def.paused = src[q].def.paused
      BY <1>4, <2>3, <2>4
    <3> QED
      BY <1>1, <2>5, <3>1, DraftsKept
  <2>7. Pending(s)' = {} /\ \A q : q # s => Mine(q)' = Mine(q)
    BY <2>1 DEF Pending, Mine
  <2>9. Past'
    BY <1>2, <2>1 DEF CInv, Past
  <2>8. SourceInv(s)'
    <3>1. ~Active(s)' /\ src'[s].next = Never
      BY <2>3, <2>4 DEF Active, Live
    <3> QED
      BY <1>3, <1>5, <2>7, <3>1, JustDisarmed
  <2> QED
    BY <1>2, <1>3, <1>5, <2>1, <2>4, <2>5, <2>6, <2>7, <2>8, <2>9, OneSourceStep
<1>7. ASSUME NEW def \in Definitions(s), ApplyDefinition(d, def)
      PROVE  CInv'
  <2> DEFINE v == d.expected + 1
             n == IF def.paused THEN Never ELSE FirstWake(s, def, now)
             row == [state |-> "live", version |-> v, next |-> n, def |-> def]
             A == {Wake(s, v, t) : t \in {n} \ {Never}}
  <2>1. /\ src' = [src EXCEPT ![s] = row]
        /\ wakes' = (wakes \ Pending(s)) \cup A
        /\ since' = Since(s)
        /\ src[s].version = d.expected
    BY <1>7 DEF ApplyDefinition, Rebuild
  <2>2. def \in Definition
    BY <1>3, <1>7, DefinitionRow
  <2>3. FirstWake(s, def, now) \in Nat \cup {Never}
    BY <1>3, <1>4, <2>2, FirstWakeIs
  <2>4. v \in Nat /\ n \in Nat \cup {Never} /\ v = src[s].version + 1
    BY <1>3, <2>1, <2>3
  <2>5. /\ def.paused => n = Never
        /\ ~def.paused => n = FirstWake(s, def, now)
        /\ n # Never => n \in Nat
    BY <2>3
  <2> HIDE DEF v, n
  <2>6. row \in SourceRow
    BY <2>2, <2>4 DEF SourceRow
  <2>7. row.state = "live" /\ row.version = v /\ row.next = n /\ row.def = def
    OBVIOUS
  <2> HIDE DEF row
  <2>8. /\ src' \in [Sources -> SourceRow] /\ src'[s] = row
        /\ \A q \in Sources \ {s} : src'[q] = src[q]
    BY <1>3, <2>1, <2>2, <2>6, <2>7, OneRow
  <2>9. A \subseteq WakeRow /\ \A w \in A : w.src = s /\ ~w.admitted
    <3>1. \A t \in {n} \ {Never} : t \in Nat
      BY <2>5
    <3> QED
      BY <1>3, <2>4, <3>1, WakeIs
  <2>10. /\ since' \in [Schedules -> Nat] /\ \A q \in Schedules : q # s => since'[q] = since[q]
         /\ s \in Schedules => since'[s] = now
    BY <1>4, <2>1 DEF Since, CInv, RowsOK
  <2>11. RowsOK'
    BY <1>1, <1>2, <2>1, <2>8, <2>9, <2>10 DEF CInv, RowsOK
  <2>12. DraftInv'
    <3>1. ASSUME NEW q \in Sources
          PROVE  \/ src'[q].version > src[q].version
                 \/ /\ src'[q].version = src[q].version
                    /\ src'[q].def.paused = src[q].def.paused
      BY <1>4, <2>4, <2>7, <2>8
    <3> QED
      BY <1>1, <2>11, <3>1, DraftsKept
  <2>13. /\ Pending(s)' = A /\ \A q : q # s => Mine(q)' = Mine(q)
         /\ \A w \in wakes' : w.admitted => w \in wakes
    BY <2>1, <2>9, Rearmed
  <2>14. Past'
    <3>1. \A q \in Schedules : since'[q] <= now
      BY <1>4, <2>10 DEF CInv, RowsOK, Past
    <3> QED
      BY <1>2, <2>13, <3>1 DEF CInv, Past
  <2>15. SourceInv(s)'
    <3>1. CASE def.paused
      <4>1. Pending(s)' = {}
        BY <2>5, <2>13, <3>1
      <4>2. ~Active(s)' /\ src'[s].next = Never
        BY <2>5, <2>7, <2>8, <3>1 DEF Active
      <4> QED
        BY <1>3, <1>5, <4>1, <4>2, JustDisarmed
    <3>2. CASE ~def.paused /\ n = Never
      <4>1. Pending(s)' = {} /\ src'[s].next = Never
        BY <2>7, <2>8, <2>13, <3>2
      <4>2. s \in Schedules /\ NextAfter(def.expr, now) = Never
        BY <1>3, <1>4, <2>2, <2>5, <3>2, FirstWakeIs
      <4>3. NoneAhead(s)'
        BY <1>2, <1>4, <2>7, <2>8, <2>10, <4>1, <4>2 DEF NoneAhead
      <4> QED
        BY <1>3, <1>5, <4>1, <4>3, JustDisarmed
    <3>3. CASE ~def.paused /\ n # Never
      <4>1. Pending(s)' = {Wake(s, v, n)}
        BY <2>13, <3>3
      <4>2. Wake(s, v, n).due = n
        BY DEF Wake
      <4>3. src'[s].state = "live" /\ src'[s].next = n /\ src'[s].def = def
        BY <2>7, <2>8
      <4> QED
        BY <1>2, <1>3, <1>5, <2>2, <2>5, <2>10, <2>11, <2>14, <3>3, <4>1, <4>2, <4>3, JustArmed
    <3> QED
      BY <3>1, <3>2, <3>3
  <2> QED
    BY <1>2, <1>3, <1>5, <2>8, <2>10, <2>11, <2>12, <2>13, <2>14, <2>15, OneSourceStep
<1> QED
  BY <1>1, <1>6, <1>7

\* RecordCycle.
LEMMA RecordCycleKeeps ==
  ASSUME CInv, NEW s \in Responsibilities, NEW n \in 0..MaxTime + MinInterval,
         RecordCycle(s, n)
  PROVE  CInv'
<1> DEFINE v == src[s].version + 1
           row == [src[s] EXCEPT !.version = v, !.next = n]
<1>1. s \in Sources /\ s \notin Schedules
  BY SchedulingAssumption DEF Sources
<1>2. /\ src[s] \in SourceRow /\ src[s].version \in Nat /\ src[s].def \in Definition
      /\ now \in Nat
  BY <1>1, RowFacts
<1>3. /\ src' = [src EXCEPT ![s] = row] /\ Live(s)
      /\ wakes' = (wakes \ Pending(s)) \cup {Wake(s, v, n)}
      /\ UNCHANGED <<now, occ, drafts, listed, since, faults>>
  BY DEF RecordCycle
<1>4. n \in Nat /\ n # Never /\ v \in Nat /\ v > src[s].version
  BY <1>2, SchedulingAssumption DEF Never
<1> HIDE DEF v
<1>5. row \in SourceRow
  BY <1>2, <1>4, SourceRowFields
<1>6. row.def = src[s].def /\ row.version = v /\ row.next = n /\ row.state = src[s].state
  BY <1>2 DEF SourceRow
<1> HIDE DEF row
<1>7. /\ src' \in [Sources -> SourceRow] /\ src'[s] = row
      /\ \A q \in Sources \ {s} : src'[q] = src[q]
  BY <1>1, <1>3, <1>5, OneRow
<1>8. /\ Wake(s, v, n) \in WakeRow /\ Wake(s, v, n).src = s /\ Wake(s, v, n).due = n
      /\ ~Wake(s, v, n).admitted
  BY <1>1, <1>4, WakeIs
<1>9. RowsOK'
  BY <1>3, <1>7, <1>8 DEF CInv, RowsOK
<1>10. DraftInv'
  <2>1. ASSUME NEW q \in Sources
        PROVE  \/ src'[q].version > src[q].version
               \/ /\ src'[q].version = src[q].version
                  /\ src'[q].def.paused = src[q].def.paused
    BY <1>4, <1>6, <1>7
  <2> QED
    BY <1>3, <1>9, <2>1, DraftsKept
<1>11. \A q \in Sources : Of(q)' = Of(q)
  BY <1>3 DEF Of
<1>12. /\ Pending(s)' = {Wake(s, v, n)} /\ \A q : q # s => Mine(q)' = Mine(q)
       /\ \A w \in wakes' : w.admitted => w \in wakes
  <2> DEFINE A == {Wake(s, v, n)}
  <2>1. wakes' = (wakes \ Pending(s)) \cup A /\ \A w \in A : w.src = s /\ ~w.admitted
    BY <1>3, <1>8
  <2> HIDE DEF A
  <2>2. /\ Pending(s)' = A /\ \A q : q # s => Mine(q)' = Mine(q)
        /\ \A w \in wakes' : w.admitted => w \in wakes
    BY <2>1, Rearmed
  <2> QED
    BY <2>2 DEF A
<1>13. Past'
  BY <1>3, <1>12 DEF CInv, Past
<1>14. SourceInv(s)'
  <2>1. src'[s].state = "live" /\ src'[s].next = n /\ src'[s].def \in Definition
    BY <1>2, <1>3, <1>6, <1>7 DEF Live
  <2> QED
    BY <1>1, <1>3, <1>4, <1>8, <1>9, <1>11, <1>12, <1>13, <2>1, JustArmed
<1> QED
  BY <1>1, <1>3, <1>7, <1>9, <1>10, <1>11, <1>12, <1>14, <1>13, OneSourceStep

\* A due wake is the pending wake of its source.
LEMMA DueWake ==
  ASSUME CInv, NEW w \in Due
  PROVE  /\ w.src \in Sources /\ w.ver \in Nat /\ w.due \in Nat /\ w.due <= now
         /\ Pending(w.src) = {w} /\ Live(w.src) /\ w.due = src[w.src].next
<1>1. w \in wakes /\ w \in WakeRow /\ ~w.admitted /\ w.due <= now
  BY DEF Due, CInv, RowsOK
<1>2. w.src \in Sources /\ w.ver \in Nat /\ w.due \in Nat
  BY <1>1 DEF WakeRow
<1>3. w \in Pending(w.src)
  BY <1>1 DEF Pending
<1>4. SourceInv(w.src)
  BY <1>2 DEF CInv
<1> QED
  BY <1>1, <1>2, <1>3, <1>4 DEF SourceInv

\* The wake of a responsibility is consumed with an occurrence of its instant.
LEMMA ConsumedInv ==
  ASSUME CInv, NEW w \in Due, w.src \in Responsibilities, wakes' = Fenced(w),
         UNCHANGED <<now, src, drafts, since>>, occ \subseteq occ',
         occ' \subseteq OccurrenceRow, \A o \in occ' \ occ : o.src = w.src /\ o.at = w.due,
         \E o \in occ' : o.src = w.src /\ o.at = w.due
  PROVE  CInv'
<1> DEFINE s == w.src
<1>1. /\ s \in Sources /\ Pending(s) = {w} /\ s \notin Schedules /\ w.due = src[s].next
      /\ w.due \in Nat /\ w.due <= now
  BY DueWake, SchedulingAssumption
<1>2. /\ Pending(s)' = {} /\ wakes' \subseteq WakeRow
      /\ \A q : q # s => Mine(q)' = Mine(q)
      /\ \A x \in wakes' : x.admitted => x \in wakes \/ x.due = w.due
  <2> DEFINE A == {}
  <2>1. wakes' = Fenced(w) \cup A /\ A \subseteq WakeRow /\ w \in Pending(s)
    BY <1>1
  <2>2. \A x \in A : x.src = s /\ ~x.admitted
    OBVIOUS
  <2> HIDE DEF A
  <2>3. /\ Pending(s)' = (Pending(s) \ {w}) \cup A /\ wakes' \subseteq WakeRow
        /\ \A q : q # s => Mine(q)' = Mine(q)
        /\ \A x \in wakes' : x.admitted => x \in wakes \/ x.due = w.due
    BY <2>1, <2>2, FencedWake
  <2> QED
    BY <1>1, <2>3 DEF A
<1>3. RowsOK'
  BY <1>2 DEF CInv, RowsOK
<1>4. DraftInv'
  BY DEF CInv, DraftInv
<1>5. Past'
  BY <1>1, <1>2 DEF CInv, Past
<1>6. \A q \in Sources : q # s => Of(q)' = Of(q)
  BY DEF Of
<1>7. SourceInv(s)'
  <2>1. \E o \in Of(s)' : o.at = src'[s].next
    BY <1>1 DEF Of
  <2> QED
    BY <1>1, <1>2, <2>1 DEF SourceInv
<1> QED
  BY <1>1, <1>2, <1>3, <1>4, <1>5, <1>6, <1>7, OneSourceStep

\* SkipWake: a wake whose occurrence is decided is a responsibility's, for a
\* schedule's pending wake is ahead of everything decided.
LEMMA SkipWakeKeeps ==
  ASSUME CInv, SkipWake
  PROVE  CInv'
<1> DEFINE w == Head(listed)
<1>1. /\ UNCHANGED <<now, src, occ, cycles, drafts, since, faults>>
      /\ wakes' = IF w \in Due /\ Active(w.src) /\ Decided(w) THEN Fenced(w) ELSE wakes
  BY DEF SkipWake
<1> HIDE DEF w
<1>2. CASE w \in Due /\ Decided(w) /\ wakes' = Fenced(w)
  <2>1. PICK o \in occ : o.src = w.src /\ o.at = w.due
    BY <1>2 DEF Decided
  <2>2. w.src \in Responsibilities
    <3>1. w.src \in Sources /\ w \in Pending(w.src) /\ w.due \in Nat
      BY <1>2, DueWake
    <3>2. CASE w.src \in Schedules
      <4>1. ScheduleInv(w.src) /\ o \in Of(w.src)
        BY <2>1, <3>1, <3>2 DEF CInv, SourceInv, Of
      <4>2. o.at < w.due
        BY <3>1, <4>1 DEF ScheduleInv
      <4> QED
        BY <2>1, <3>1, <4>2
    <3> QED
      BY <3>1, <3>2 DEF Sources
  <2>3. occ' \subseteq OccurrenceRow /\ occ' = occ
    BY <1>1 DEF CInv, RowsOK
  <2> QED
    BY <1>1, <1>2, <2>1, <2>2, <2>3, ConsumedInv
<1>3. CASE wakes' = wakes
  <2>1. RowsOK'
    BY <1>1, <1>3 DEF CInv, RowsOK
  <2>2. DraftInv' /\ Past'
    BY <1>1, <1>3 DEF CInv, DraftInv, Past
  <2> QED
    BY <1>1, <1>3, <2>1, <2>2, QuietStep
<1> QED
  BY <1>1, <1>2, <1>3

\* AdmitResponsibility.
LEMMA AdmitResponsibilityKeeps ==
  ASSUME CInv, AdmitResponsibility
  PROVE  CInv'
<1> DEFINE w == Head(listed)
           o == Occurrence(w.src, w.ver, w.due, "admitted")
<1>1. /\ w.src \in Responsibilities /\ w \in Due /\ occ' = occ \cup {o} /\ wakes' = Fenced(w)
      /\ UNCHANGED <<now, src, cycles, drafts, since, faults>>
  BY DEF AdmitResponsibility, Admissible
<1> HIDE DEF w
<1>2. o \in OccurrenceRow /\ o.src = w.src /\ o.at = w.due
  BY <1>1, DueWake DEF Occurrence, OccurrenceRow
<1> HIDE DEF o
<1>3. occ' \subseteq OccurrenceRow
  BY <1>1, <1>2 DEF CInv, RowsOK
<1> QED
  BY <1>1, <1>2, <1>3, ConsumedInv

\* What an admitted schedule wake decides: instants from the pinned one to now,
\* each once, and all of them but those its enumeration ends short of.
LEMMA DecisionsAre ==
  ASSUME CInv, NEW w \in Due, w.src \in Schedules
  PROVE  LET d == src[w.src].def
             D == Decisions(w, d)
         IN /\ D \subseteq OccurrenceRow
            /\ \A o \in D : o.src = w.src /\ o.at >= w.due /\ o.at <= now
            /\ \A o, p \in D : o.at = p.at => o = p
            /\ \E o \in D : o.at = w.due
            /\ \A t \in Instants(d.expr, w.due, now) :
                 (\E o \in D : o.at = t) \/ ~Enumerated(d.expr, w.due, t)
<1> DEFINE d == src[w.src].def
           missed == Missed(d.expr, w.due, now)
           inside == {t \in missed : now - t <= CatchUp}
           extra == Coalesced(d, missed, now)
           yes == {w.due} \cup extra
           no == missed \ extra
           Y == {Occurrence(w.src, w.ver, t, "admitted") : t \in yes}
           N == {Occurrence(w.src, w.ver, t, "skipped") : t \in no}
<1>1. /\ w.src \in Sources /\ w.ver \in Nat /\ w.due \in Nat /\ w.due <= now
  BY DueWake
<1>2. now \in Nat /\ now \in 0..MaxTime
  BY <1>1, RowFacts
<1>3. \A t \in missed : t \in Nat /\ t >= w.due /\ t <= now /\ t # w.due
  BY <1>1, <1>2 DEF Missed, Instants
<1>4. extra \subseteq missed
  <2>1. extra = {} \/ (inside # {} /\ extra = {Max(inside)})
    BY DEF Coalesced
  <2>2. inside \in SUBSET (0..now)
    BY <1>2, <1>3
  <2>3. inside # {} => Max(inside) \in inside
    BY <1>2, <2>2, MaxIsMember
  <2> QED
    BY <2>1, <2>3
<1>5. Decisions(w, d) = Y \cup N
  BY DEF Decisions
<1>6. \A t \in Instants(d.expr, w.due, now) :
        t = w.due \/ t \in missed \/ ~Enumerated(d.expr, w.due, t)
  BY DEF Missed
<1> HIDE DEF d, missed, inside, extra
<1>7. \A t \in yes \cup no : t \in Nat /\ t >= w.due /\ t <= now
  BY <1>1, <1>2, <1>3, <1>4
<1>8. yes \cap no = {}
  BY <1>3
<1> HIDE DEF yes, no
<1>9. \A t \in Nat : \A st \in {"admitted", "skipped"} :
        /\ Occurrence(w.src, w.ver, t, st) \in OccurrenceRow
        /\ Occurrence(w.src, w.ver, t, st).src = w.src
        /\ Occurrence(w.src, w.ver, t, st).at = t
  BY <1>1 DEF Occurrence, OccurrenceRow
<1>10. \A o \in Y : \E t \in yes : o = Occurrence(w.src, w.ver, t, "admitted") /\ o.at = t
  BY <1>7, <1>9
<1>11. \A o \in N : \E t \in no : o = Occurrence(w.src, w.ver, t, "skipped") /\ o.at = t
  BY <1>7, <1>9
<1>12. Y \cup N \subseteq OccurrenceRow
  BY <1>7, <1>9
<1>13. \A o \in Y \cup N : o.src = w.src /\ o.at >= w.due /\ o.at <= now
  BY <1>7, <1>9
<1>14. \A o, p \in Y \cup N : o.at = p.at => o = p
  BY <1>8, <1>10, <1>11
<1>15. ASSUME NEW t \in Instants(d.expr, w.due, now), Enumerated(d.expr, w.due, t)
       PROVE  \E o \in Y \cup N : o.at = t
  <2>1. t \in yes \/ t \in no
    BY <1>6, <1>15 DEF yes, no
  <2>2. CASE t \in yes
    BY <1>7, <1>9, <2>2
  <2>3. CASE t \in no
    BY <1>7, <1>9, <2>3
  <2> QED
    BY <2>1, <2>2, <2>3
<1>16. \E o \in Y \cup N : o.at = w.due
  <2>1. w.due \in yes
    BY DEF yes
  <2> QED
    BY <1>7, <1>9, <2>1
<1> QED
  BY <1>5, <1>12, <1>13, <1>14, <1>15, <1>16 DEF d

\* AdmitSchedule: the wake decides what it missed, and the next one is armed if
\* the expression has an instant ahead.
LEMMA AdmitScheduleKeeps ==
  ASSUME CInv, AdmitSchedule
  PROVE  CInv'
<1>0. PICK w, s : w = Head(listed) /\ s = w.src
  OBVIOUS
<1> DEFINE e == src[s].def.expr
           n == NextAfter(e, now)
           A == {Wake(s, src[s].version, t) : t \in {n} \ {Never}}
           D == Decisions(w, src[s].def)
           row == [src[s] EXCEPT !.next = n]
<1>1. /\ s \in Schedules /\ w \in Due
      /\ occ' = occ \cup D
      /\ Pending(s) = {w} => wakes' = Fenced(w) \cup A /\ src' = [src EXCEPT ![s] = row]
      /\ UNCHANGED <<now, cycles, drafts, since, faults>>
  <2>1. s \in Schedules /\ w \in Due /\ s \in Sources
    BY <1>0 DEF AdmitSchedule, Admissible, Sources
  <2>2. src[s] \in SourceRow
    BY <2>1, RowFacts
  <2> QED
    BY <1>0, <2>1, <2>2 DEF AdmitSchedule
<1>2. /\ s \in Sources /\ w.ver \in Nat /\ w.due \in Nat /\ w.due <= now
      /\ Pending(s) = {w} /\ Live(s) /\ w.due = src[s].next
  BY <1>0, <1>1, DueWake
<1>3. /\ src[s] \in SourceRow /\ src[s].version \in Nat /\ src[s].def \in Definition
      /\ now \in Nat /\ e \in SUBSET Nat
  BY <1>1, <1>2, RowFacts DEF Definition
<1>4. /\ D \subseteq OccurrenceRow
      /\ \A o \in D : o.src = s /\ o.at >= w.due /\ o.at <= now
      /\ \A o, q \in D : o.at = q.at => o = q
      /\ \E o \in D : o.at = w.due
      /\ \A t \in Instants(e, w.due, now) : (\E o \in D : o.at = t) \/ ~Enumerated(e, w.due, t)
  BY <1>0, <1>1, DecisionsAre
<1>5. /\ n \in Nat \cup {Never}
      /\ n # Never => n \in Nat /\ n > now /\ \A u \in Nat : u > now /\ u < n => u \notin e
      /\ n = NextAfter(e, now)
  BY <1>3, NextAfterIs
<1>6. wakes' = Fenced(w) \cup A /\ src' = [src EXCEPT ![s] = row]
  BY <1>1, <1>2
<1> HIDE DEF n, D
<1>7. row \in SourceRow /\ row.next = n
  BY <1>3, <1>5, SourceRowFields DEF SourceRow
<1>8. row.def = src[s].def /\ row.version = src[s].version /\ row.state = src[s].state
  BY <1>3 DEF SourceRow
<1> HIDE DEF row
<1>9. /\ src' \in [Sources -> SourceRow] /\ src'[s] = row
      /\ \A q \in Sources \ {s} : src'[q] = src[q]
  BY <1>2, <1>6, <1>7, OneRow
<1>10. /\ A \subseteq WakeRow
       /\ \A x \in A : x.src = s /\ ~x.admitted /\ x.due = n /\ n # Never
       /\ \A x, y \in A : x = y
       /\ n # Never => A # {}
  BY <1>2, <1>3, <1>5, WakeIs
<1> HIDE DEF A
<1>11. /\ Pending(s)' = A /\ wakes' \subseteq WakeRow
       /\ \E done : Mine(s)' = (Mine(s) \ {w}) \cup {done} \cup A /\ done.due = w.due
       /\ \A q : q # s => Mine(q)' = Mine(q)
       /\ \A x \in wakes' : x.admitted => x \in wakes \/ x.due = w.due
  <2>1. w \in Pending(s) /\ \A y \in A : y.src = s /\ ~y.admitted
    BY <1>2, <1>10
  <2>2. wakes' = Fenced(w) \cup A /\ A \subseteq WakeRow
    BY <1>6, <1>10
  <2>3. /\ Pending(s)' = (Pending(s) \ {w}) \cup A /\ wakes' \subseteq WakeRow
        /\ \A q : q # s => Mine(q)' = Mine(q)
        /\ \A x \in wakes' : x.admitted => x \in wakes \/ x.due = w.due
    BY <2>1, <2>2, FencedWake
  <2>4. \E done : Mine(s)' = (Mine(s) \ {w}) \cup {done} \cup A /\ done.due = w.due
    BY <2>1, <2>2, FencedMine
  <2> QED
    BY <1>2, <2>3, <2>4
<1>11a. PICK done : Mine(s)' = (Mine(s) \ {w}) \cup {done} \cup A /\ done.due = w.due
  BY <1>11
<1>12. RowsOK'
  <2>1. occ' \subseteq OccurrenceRow
    BY <1>1, <1>4 DEF CInv, RowsOK
  <2> QED
    BY <1>1, <1>9, <1>11, <2>1 DEF CInv, RowsOK
<1>13. DraftInv'
  <2>1. ASSUME NEW q \in Sources
        PROVE  \/ src'[q].version > src[q].version
               \/ /\ src'[q].version = src[q].version
                  /\ src'[q].def.paused = src[q].def.paused
    BY <1>8, <1>9
  <2> QED
    BY <1>1, <1>12, <2>1, DraftsKept
<1>14. Past'
  BY <1>1, <1>2, <1>4, <1>11 DEF CInv, Past
<1>15. /\ Of(s)' = Of(s) \cup D
       /\ \A q \in Sources : q # s => Of(q)' = Of(q)
  BY <1>1, <1>4 DEF Of
<1>16. /\ src'[s].def.expr = e /\ since'[s] = since[s] /\ since[s] \in Nat
       /\ since[s] <= now /\ src'[s].next = n
  BY <1>1, <1>7, <1>8, <1>9 DEF CInv, RowsOK, Past
<1>17. ScheduleInv(s)
  BY <1>1, <1>2 DEF CInv, SourceInv
<1>18. \A x \in Mine(s) \ {w} : x.admitted /\ x.due < w.due /\ x.due \in Nat
  <2>1. ASSUME NEW x \in Mine(s) \ {w}
        PROVE  x.admitted /\ x.due \in Nat
    <3>1. x \in WakeRow /\ x.src = s /\ x \in wakes /\ x \notin Pending(s)
      BY <1>2, <2>1 DEF Mine, CInv, RowsOK
    <3> QED
      BY <3>1 DEF Pending, WakeRow
  <2> QED
    BY <1>2, <1>17, <2>1 DEF ScheduleInv
<1>19. /\ \A o \in Of(s)' : o.at \in Nat /\ o.at <= now
       /\ \A o, q \in Of(s)' : o.at = q.at => o = q
  <2>1. /\ \A o \in Of(s) : o.at < w.due /\ o.at \in Nat
        /\ \A o, q \in Of(s) : o.at = q.at => o = q
    BY <1>2, <1>17 DEF ScheduleInv, Of, CInv, RowsOK, OccurrenceRow
  <2>2. \A o \in D : o.at \in Nat
    BY <1>4 DEF OccurrenceRow
  <2> QED
    BY <1>2, <1>3, <1>4, <1>15, <2>1, <2>2
<1>20. ASSUME NEW t \in Instants(e, since[s] + 1, now)
       PROVE  (\E o \in Of(s)' : o.at = t) \/ LostToCap(s, t)'
  <2>1. t \in Nat /\ t \in e /\ t <= now /\ t > since[s]
    BY <1>3, <1>16 DEF Instants
  <2>2. \A x \in A : ~(x.due < t)
    BY <1>3, <1>5, <1>10, <2>1
  <2>3. CASE t < w.due
    <3>1. t \in Instants(e, since[s] + 1, w.due - 1)
      BY <1>2, <1>16, <2>1, <2>3 DEF Instants
    <3>2. (\E o \in Of(s) : o.at = t) \/ LostToCap(s, t)
      BY <1>2, <1>17, <3>1 DEF ScheduleInv
    <3>3. ASSUME LostToCap(s, t)
          PROVE  LostToCap(s, t)'
      <4>1. PICK y \in Mine(s) :
              /\ since[s] < y.due /\ y.due < t
              /\ \A x \in Mine(s) : x.due < t => x.due <= y.due
              /\ ~Enumerated(e, y.due, t)
        BY <3>3 DEF LostToCap, Mine
      <4>2. y \in Mine(s)'
        BY <1>2, <1>11, <1>11a, <2>1, <2>3, <4>1
      <4>3. \A x \in Mine(s)' : x.due < t => x.due <= y.due
        BY <1>2, <1>11, <1>11a, <2>1, <2>2, <2>3, <4>1
      <4> QED
        BY <1>16, <4>1, <4>2, <4>3 DEF LostToCap, Mine
    <3> QED
      BY <1>15, <3>2, <3>3
  <2>4. CASE t >= w.due
    <3>1. t \in Instants(e, w.due, now)
      BY <1>2, <1>3, <2>1, <2>4 DEF Instants
    <3>2. ASSUME ~Enumerated(e, w.due, t), t # w.due
          PROVE  LostToCap(s, t)'
      <4>1. done \in Mine(s)' /\ since[s] < done.due /\ done.due < t
        BY <1>2, <1>11, <1>11a, <1>17, <2>1, <2>4, <3>2 DEF ScheduleInv
      <4>2. \A x \in Mine(s)' : x.due < t => x.due <= done.due
        BY <1>2, <1>11, <1>11a, <1>18, <2>2
      <4> QED
        BY <1>11, <1>11a, <1>16, <3>2, <4>1, <4>2 DEF LostToCap, Mine
    <3> QED
      BY <1>4, <1>15, <3>1, <3>2
  <2> QED
    BY <1>2, <2>1, <2>3, <2>4
<1>21. ScheduleInv(s)'
  <2>1. ASSUME NEW y \in Pending(s)'
        PROVE  /\ since'[s] < y.due
               /\ \A x \in Mine(s)' : x.admitted => x.due < y.due
               /\ \A o \in Of(s)' : o.at < y.due
               /\ \A t \in Instants(src'[s].def.expr, since'[s] + 1, y.due - 1) :
                    (\E o \in Of(s)' : o.at = t) \/ LostToCap(s, t)'
    <3>1. y.due = n /\ n \in Nat /\ n > now /\ \A u \in Nat : u > now /\ u < n => u \notin e
      BY <1>5, <1>10, <1>11, <1>11a, <2>1
    <3>2. since'[s] < y.due /\ \A o \in Of(s)' : o.at < y.due
      BY <1>3, <1>16, <1>19, <3>1
    <3>3. \A x \in Mine(s)' : x.admitted => x.due < y.due
      BY <1>2, <1>3, <1>10, <1>11, <1>11a, <1>18, <3>1
    <3>4. \A t \in Instants(e, since[s] + 1, n - 1) : t \in Instants(e, since[s] + 1, now)
      BY <1>3, <1>16, <3>1 DEF Instants
    <3> QED
      BY <1>16, <1>20, <3>1, <3>2, <3>3, <3>4
  <2> QED
    BY <1>10, <1>11, <1>11a, <1>16, <1>19, <2>1 DEF ScheduleInv
<1>22. SourceInv(s)'
  <2>1. Live(s)'
    BY <1>2, <1>8, <1>9 DEF Live
  <2>2. ASSUME n = Never
        PROVE  NoneAhead(s)'
    <3>1. now' = now /\ now \in since'[s]..now'
      BY <1>1, <1>3, <1>16
    <3>2. NextAfter(src'[s].def.expr, now) = Never
      BY <1>5, <1>16, <2>2
    <3> QED
      BY <1>1, <1>16, <2>2, <3>1, <3>2 DEF NoneAhead
  <2> QED
    BY <1>10, <1>11, <1>16, <1>21, <2>1, <2>2 DEF SourceInv
<1> QED
  BY <1>1, <1>2, <1>9, <1>11, <1>12, <1>13, <1>14, <1>15, <1>22, OneSourceStep

---------------------------------------------------------------------------------
(* The inductive invariant                                                      *)

(* The invariant holds initially. *)
LEMMA InitInv ==
  ASSUME Init
  PROVE  CInv
<1>1. /\ now = 0 /\ src = [s \in Sources |-> Absent(s)] /\ wakes = {} /\ occ = {}
      /\ drafts = {} /\ since = [s \in Schedules |-> 0]
  BY DEF Init
<1>2. /\ src \in [Sources -> SourceRow]
      /\ \A s \in Sources : src[s].state = "absent"
  BY <1>1, AbsentRow DEF Sources
<1>3. RowsOK
  BY <1>1, <1>2, SchedulingAssumption DEF RowsOK
<1>4. DraftInv /\ Past
  BY <1>1, SchedulingAssumption DEF DraftInv, Past
<1>5. \A s \in Sources : SourceInv(s)
  BY <1>1, <1>2 DEF SourceInv, ScheduleInv, Pending, Of, Live, Active
<1> QED
  BY <1>3, <1>4, <1>5 DEF CInv

(* Every step keeps the invariant. *)
LEMMA NextInv ==
  ASSUME CInv, [Next]_vars
  PROVE  CInv'
<1>1. ASSUME NEW s \in Sources, NEW action \in {"create", "update", "archive"},
             Stage(s, action)
      PROVE  CInv'
  BY <1>1, StageKeeps
<1>2. ASSUME NEW s \in Sources, Pause(s) \/ Resume(s)
      PROVE  CInv'
  BY <1>2, PauseKeeps, ResumeKeeps
<1>3. CASE Activate
  BY <1>3, ActivateKeeps
<1>4. CASE Refuse \/ ListDue \/ PeerFault \/ Stop
  BY <1>4, ListKeeps
<1>5. CASE SkipWake
  BY <1>5, SkipWakeKeeps
<1>6. CASE AdmitSchedule
  BY <1>6, AdmitScheduleKeeps
<1>7. CASE AdmitResponsibility
  BY <1>7, AdmitResponsibilityKeeps
<1>8. ASSUME NEW r \in Responsibilities, NEW n \in 0..MaxTime + MinInterval, RecordCycle(r, n)
      PROVE  CInv'
  BY <1>8, RecordCycleKeeps
<1>9. CASE Advance
  BY <1>9, AdvanceKeeps
<1>10. CASE UNCHANGED vars
  <2>1. UNCHANGED <<now, src, wakes, occ, drafts, since>>
    BY <1>10 DEF vars
  <2>2. RowsOK'
    BY <2>1 DEF CInv, RowsOK
  <2>3. DraftInv' /\ Past'
    BY <2>1 DEF CInv, DraftInv, Past
  <2> QED
    BY <2>1, <2>2, <2>3, QuietStep
<1> QED
  BY <1>1, <1>2, <1>3, <1>4, <1>5, <1>6, <1>7, <1>8, <1>9, <1>10 DEF Next

(* CInv is an invariant of Scheduling. *)
LEMMA SchedulingInvariant == Spec => []CInv
<1>1. Init => CInv
  BY InitInv
<1>2. CInv /\ [Next]_vars => CInv'
  BY NextInv
<1> QED
  BY <1>1, <1>2, PTL DEF Spec

(* For any sources, changes, pauses and admissions in any order, a source has   *)
(* at most one pending wake, due when its row's next_wake says, and an active    *)
(* source waits for one unless it is a responsibility whose cycle was admitted,  *)
(* or a schedule with no next_wake whose expression had no instant within the    *)
(* horizon (schedule and responsibility rows against the wakes table).          *)
THEOREM NextWakeStaysTrue == Spec => []NextWakeTrue
<1>1. CInv => NextWakeTrue
  BY DEF CInv, SourceInv, NextWakeTrue, NoneAhead, Of
<1> QED
  BY <1>1, SchedulingInvariant, PTL

(* Whatever was paused, changed, missed or refused in between, every cron        *)
(* instant of a schedule since its last rebuild is decided exactly once, unless  *)
(* the outage it passed in ran past what one admission enumerates                *)
(* (admitScheduleWake, nextAfter, instantsBetween).                             *)
THEOREM InstantsDecidedOnce == Spec => []InstantsOnce
<1>1. ASSUME CInv
      PROVE  InstantsOnce
  <2>1. ASSUME NEW o \in occ, NEW q \in occ, o.src = q.src, o.src \in Schedules, o.at = q.at
        PROVE  o = q
    <3>1. o.src \in Sources
      BY <2>1 DEF Sources
    <3>2. ScheduleInv(o.src) /\ o \in Of(o.src) /\ q \in Of(o.src)
      BY <1>1, <2>1, <3>1 DEF CInv, SourceInv, Of
    <3> QED
      BY <2>1, <3>2 DEF ScheduleInv
  <2>2. ASSUME NEW s \in Schedules, Live(s), src[s].next # Never,
               NEW t \in Instants(src[s].def.expr, since[s] + 1, now)
        PROVE  /\ (\E o \in occ : o.src = s /\ o.at = t) => \A w \in Pending(s) : w.due > t
               /\ (\A w \in Pending(s) : w.due > t) =>
                    (\E o \in occ : o.src = s /\ o.at = t) \/ LostToCap(s, t)
    <3>1. s \in Sources /\ SourceInv(s) /\ ScheduleInv(s)
      BY <1>1 DEF Sources, CInv, SourceInv
    <3>2. PICK w \in Pending(s) : TRUE
      BY <2>2, <3>1 DEF ScheduleInv
    <3>3. \A y \in Pending(s) : y = w
      BY <3>1 DEF SourceInv
    <3>4. w.due \in Nat
      BY <1>1 DEF Pending, CInv, RowsOK, WakeRow
    <3>5. since[s] \in Nat /\ now \in Nat
      BY <1>1, <3>1, RowFacts DEF CInv, RowsOK
    <3>6. t \in Nat /\ t \in src[s].def.expr /\ t >= since[s] + 1
      BY <3>5 DEF Instants
    <3>7. ASSUME NEW o \in occ, o.src = s, o.at = t
          PROVE  w.due > t
      <4>1. o \in Of(s) /\ o.at < w.due
        BY <3>1, <3>7 DEF Of, ScheduleInv
      <4> QED
        BY <3>4, <3>6, <3>7, <4>1
    <3>8. ASSUME w.due > t
          PROVE  (\E o \in occ : o.src = s /\ o.at = t) \/ LostToCap(s, t)
      <4>1. t \in Instants(src[s].def.expr, since[s] + 1, w.due - 1)
        BY <3>4, <3>5, <3>6, <3>8 DEF Instants
      <4>2. (\E o \in Of(s) : o.at = t) \/ LostToCap(s, t)
        BY <3>1, <4>1 DEF ScheduleInv
      <4> QED
        BY <4>2 DEF Of
    <3> QED
      BY <3>3, <3>7, <3>8
  <2> QED
    BY <2>1, <2>2 DEF InstantsOnce
<1>2. CInv => InstantsOnce
  BY <1>1
<1> QED
  BY <1>2, SchedulingInvariant, PTL

(* A change staged before a pause never undoes it: whatever is staged, applied,  *)
(* refused or admitted, a paused source runs again only by a resume or by a      *)
(* change staged while it was paused (schedulePause, activateScheduleChange).   *)
THEOREM PausesStand == Spec => PauseStands
<1> DEFINE Undone(s) == /\ src[s].def.paused /\ Live(s) /\ ~src'[s].def.paused
           Allowed(s) == Resume(s) \/ \E d \in drafts \ drafts' : d.src = s /\ d.saw
<1>1. ASSUME CInv, Next, NEW s \in Sources, Undone(s)
      PROVE  Allowed(s)
  <2>0. src \in [Sources -> SourceRow] /\ src[s] \in SourceRow
    BY <1>1 DEF CInv, RowsOK
  <2>1. CASE src' = src
    BY <1>1, <2>1
  <2>2. ASSUME NEW q \in Sources, Pause(q)
        PROVE  Allowed(s)
    <3>1. src' = [src EXCEPT ![q] = PausedRow(src[q])] /\ src[q] \in SourceRow
      BY <2>2, <2>0 DEF Pause
    <3>2. CASE q = s
      <4>1. src'[s] = PausedRow(src[s])
        BY <2>0, <3>1, <3>2
      <4>2. PausedRow(src[s]).def.paused = TRUE
        BY <2>0 DEF PausedRow, SourceRow, Definition
      <4> QED
        BY <1>1, <4>1, <4>2
    <3>3. CASE q # s
      BY <1>1, <2>0, <3>1, <3>3
    <3> QED
      BY <3>2, <3>3
  <2>3. ASSUME NEW q \in Sources, Resume(q)
        PROVE  Allowed(s)
    <3>1. CASE q = s
      BY <2>3, <3>1
    <3>2. CASE q # s
      <4>1. src'[s] = src[s]
        BY <2>0, <2>3, <3>2 DEF Resume
      <4> QED
        BY <1>1, <4>1
    <3> QED
      BY <3>1, <3>2
  <2>4. CASE Activate
    <3>1. PICK d \in drafts :
            /\ ApplyArchive(d) \/ \E def \in Definitions(d.src) : ApplyDefinition(d, def)
            /\ drafts' = drafts \ {d}
      BY <2>4 DEF Activate
    <3>2. d.src \in Sources /\ d \in drafts \ drafts'
      BY <1>1, <3>1 DEF CInv, RowsOK, DraftRow
    <3>3. CASE d.src # s
      <4>1. src'[s] = src[s]
        BY <2>0, <3>1, <3>3 DEF ApplyArchive, ApplyDefinition, Rebuild
      <4> QED
        BY <1>1, <4>1
    <3>4. CASE d.src = s
      <4>1. src[d.src].version = d.expected
        BY <3>1 DEF ApplyArchive, ApplyDefinition
      <4>2. d.saw = src[s].def.paused
        BY <1>1, <3>4, <4>1 DEF CInv, DraftInv
      <4> QED
        BY <1>1, <3>2, <3>4, <4>2
    <3> QED
      BY <3>3, <3>4
  <2>5. CASE AdmitSchedule
    <3>1. src'[s].def = src[s].def
      BY <2>0, <2>5 DEF AdmitSchedule, SourceRow
    <3> QED
      BY <1>1, <3>1
  <2>6. ASSUME NEW r \in Responsibilities, NEW n \in 0..MaxTime + MinInterval, RecordCycle(r, n)
        PROVE  Allowed(s)
    <3>1. src'[s].def = src[s].def
      BY <2>0, <2>6 DEF RecordCycle, SourceRow
    <3> QED
      BY <1>1, <3>1
  <2> QED
    BY <1>1, <2>1, <2>2, <2>3, <2>4, <2>5, <2>6
       DEF Next, Stage, Refuse, ListDue, SkipWake, PeerFault, Stop, AdmitResponsibility, Advance
<1>2. CInv /\ [Next]_vars => [\A s \in Sources : Undone(s) => Allowed(s)]_vars
  BY <1>1
<1>3. CInv /\ [Next]_vars => [\A s \in Sources : src[s].def.paused /\ Live(s) /\ ~src'[s].def.paused =>
       \/ Resume(s)
       \/ \E d \in drafts \ drafts' : d.src = s /\ d.saw]_vars
  BY <1>2
<1> HIDE DEF Undone, Allowed
<1> QED
  BY <1>3, SchedulingInvariant, PTL DEF Spec, PauseStands

=================================================================================
