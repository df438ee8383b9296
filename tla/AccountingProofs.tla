---------------------------- MODULE AccountingProofs ----------------------------
(***************************************************************************)
(* Proofs about the accounting owner, for any set of levels, operations,   *)
(* requests, reports and budget limits.                                    *)
(***************************************************************************)
EXTENDS Accounting, FiniteSetTheorems, TLAPS

--------------------------------------------------------------------------------
(* What a settlement does to one row *)

(* SettledRow: the row's version grows, its report is kept, and its bound,   *)
(* its currency, request and positions stand.                                *)
LEMMA SettledRowFields ==
  ASSUME NEW r \in Row, NEW u \in Usage, NEW n \in BOOLEAN
  PROVE  LET s == SettledRow(r, u, n)
         IN /\ s \in Row
            /\ s.state = SettledState(r, u, n)
            /\ s.usage = u
            /\ s.amount = r.amount /\ s.cur = r.cur /\ s.levels = r.levels
<1> DEFINE to == SettledState(r, u, n)
           r1 == [r EXCEPT !.state = to]
           r2 == [r1 EXCEPT !.version = r.version + 1]
           r3 == [r2 EXCEPT !.usage = u]
<1>1. to \in RowStates
  BY DEF SettledState, RowStates
<1> HIDE DEF to
<1>2. r1 \in Row /\ r1.state = to /\ r1.amount = r.amount /\ r1.cur = r.cur /\ r1.levels = r.levels
  BY <1>1 DEF Row
<1> HIDE DEF r1
<1>3. r2 \in Row /\ r2.state = to /\ r2.amount = r.amount /\ r2.cur = r.cur /\ r2.levels = r.levels
  BY <1>2 DEF Row
<1> HIDE DEF r2
<1>4. /\ r3 \in Row /\ r3.state = to /\ r3.usage = u
      /\ r3.amount = r.amount /\ r3.cur = r.cur /\ r3.levels = r.levels
  BY <1>3 DEF Row
<1>5. r3 = SettledRow(r, u, n)
  BY DEF r1, r2, to, SettledRow
<1> QED
  BY <1>4, <1>5 DEF to

(* settleDeltas: the slot is given back exactly when the row stops being     *)
(* live, and nothing is ever taken from spent or estimated.                  *)
LEMMA DeltasType ==
  ASSUME NEW r \in Row, NEW u \in Usage, NEW n \in BOOLEAN
  PROVE  LET d == SettleDeltas(r, u, n)
             to == SettledState(r, u, n)
         IN /\ d.spent \in Nat /\ d.estimated \in Nat
            /\ d.reserved \in Int /\ d.unknown \in Int
            /\ d.slots = IF to = "unknown" THEN 0 ELSE -1
            /\ to \in {"unknown", "settled", "released"}
            /\ ReleasedEntry(r, u, n) \in Nat
            /\ SpentOf(u) \in Nat
<1>1. /\ r.amount \in Nat /\ r.usage.unknown \in Nat
      /\ u.spent \in Nat /\ u.estimated \in Nat /\ u.unknown \in Nat
  BY DEF Row, Usage
<1>2. SpentOf(u) \in Nat /\ EstimatedOf(u) \in Nat
  BY <1>1 DEF SpentOf, EstimatedOf
<1>3. SettledState(r, u, n) \in {"unknown", "settled", "released"}
  BY DEF SettledState
<1>4. ReleasedEntry(r, u, n) \in Nat
  BY <1>1, <1>2 DEF ReleasedEntry
<1> QED
  BY <1>1, <1>2, <1>3, <1>4 DEF SettleDeltas

--------------------------------------------------------------------------------
(* Types *)

(* The row before any reservation, and the zero report, are rows and        *)
(* reports.                                                                 *)
LEMMA NoRowType == NoRow \in Row /\ ZeroUsage \in Usage
<1>1. (CHOOSE q \in Requests : TRUE) \in Requests
  BY ConstantsAssumption
<1>2. ZeroUsage \in Usage
  BY DEF ZeroUsage, Usage
<1> QED
  BY <1>1, <1>2, ConstantsAssumption DEF NoRow, Row, RowStates

(* The empty tables have their types. *)
LEMMA InitTypes == Init => TypeOK
<1>1. /\ NoBudget \in [state : {"absent", "active", "archived"},
                       version : Nat, spend : Nat, slots : Nat, cur : Currencies]
      /\ NoPosition \in Position /\ NoEntries \in Entries
  BY ConstantsAssumption DEF NoBudget, NoPosition, Position, NoEntries, Entries
<1> QED
  BY <1>1, NoRowType DEF Init, TypeOK

(* Caps are numbers, NoCap included. *)
LEMMA CapsType ==
  ASSUME TypeOK, NEW l \in Levels, NEW q \in Requests
  PROVE  SpendCap(l, q) \in Nat /\ SlotCap(l, q) \in Nat
<1>1. /\ q.limits.spend \in Nat /\ q.limits.slots \in Nat /\ NoCap \in Nat
      /\ Definition[l].spend \in Nat /\ Definition[l].slots \in Nat
      /\ DefaultSlots[l] \in Nat
  BY ConstantsAssumption DEF Request, Limits
<1>2. budget[l].spend \in Nat /\ budget[l].slots \in Nat
  BY DEF TypeOK
<1>3. SpendCap(l, q) \in Nat
  BY <1>1, <1>2, ConstantsAssumption DEF SpendCap, Least, TypeOK
<1>4. DeclaredSlots(q.limits) \in Nat /\ DeclaredSlots(budget[l]) \in Nat
  BY <1>1, <1>2 DEF DeclaredSlots
<1>5. SlotCap(l, q) \in Nat
  <2>1. Installation \in Levels
    BY ConstantsAssumption
  <2>2. ASSUME NEW a \in Nat, NEW b \in Nat PROVE Least(a, b) \in Nat
    BY <1>1 DEF Least
  <2> QED
    BY <1>1, <1>4, <2>2 DEF SlotCap
<1> QED
  BY <1>3, <1>5

(* handleReserve, field by field. *)
LEMMA ReserveFacts ==
  ASSUME TypeOK, NEW o \in Operations, NEW q \in Requests, Reserve(o, q)
  PROVE  /\ q.amount \in Nat /\ q.cur \in Currencies /\ LevelsOf(q) \subseteq Levels
         /\ pos' \in [Levels -> Position]
         /\ \A l \in LevelsOf(q) : pos'[l] = Charged(l, q)
         /\ \A l \in Levels : l \notin LevelsOf(q) => pos'[l] = pos[l]
         /\ resv' \in [Operations -> Row]
         /\ \A p \in Operations : p # o => resv'[p] = resv[p]
         /\ resv'[o].state = "reserved" /\ resv'[o].levels = LevelsOf(q)
         /\ resv'[o].amount = q.amount /\ resv'[o].cur = q.cur
         /\ resv'[o].usage = ZeroUsage
<1>1. q \in Request /\ q.amount \in Nat /\ q.cur \in Currencies /\ q.scope \in Scopes /\ q.root \in Levels
  BY ConstantsAssumption DEF Request
<1>2. LevelsOf(q) \subseteq Levels
  BY <1>1, ConstantsAssumption DEF LevelsOf, TypeOK
<1>3. \A l \in Levels : pos[l] \in Position
  BY DEF TypeOK
<1>4. \A l \in Levels : EnsuredCur(l, q) \in Currencies \cup {"none"}
  BY <1>1, <1>3 DEF EnsuredCur, Position
<1>5. \A l \in Levels : Charged(l, q) \in Position
  BY <1>1, <1>3, <1>4 DEF Charged, Position
<1>6. pos' = [l \in Levels |-> IF l \in LevelsOf(q) THEN Charged(l, q) ELSE pos[l]]
  BY DEF Reserve
<1>7. /\ pos' \in [Levels -> Position]
      /\ \A l \in LevelsOf(q) : pos'[l] = Charged(l, q)
      /\ \A l \in Levels : l \notin LevelsOf(q) => pos'[l] = pos[l]
  BY <1>2, <1>3, <1>5, <1>6
<1> DEFINE r == [state |-> "reserved", version |-> 1, amount |-> q.amount, cur |-> q.cur,
                 request |-> q, levels |-> LevelsOf(q), usage |-> ZeroUsage]
<1>8. r \in Row
  BY <1>1, <1>2, NoRowType DEF Row, RowStates
<1>9. resv' = [resv EXCEPT ![o] = r] /\ resv \in [Operations -> Row]
  BY DEF Reserve, TypeOK
<1>10. /\ r.state = "reserved" /\ r.levels = LevelsOf(q) /\ r.amount = q.amount
       /\ r.cur = q.cur /\ r.usage = ZeroUsage
  OBVIOUS
<1> HIDE DEF r
<1>11. resv' \in [Operations -> Row] /\ resv'[o] = r /\ \A p \in Operations : p # o => resv'[p] = resv[p]
  BY <1>8, <1>9
<1> QED
  BY <1>1, <1>2, <1>7, <1>10, <1>11

(* handleReserve keeps every type: it only adds to positions. *)
LEMMA ReserveTypes ==
  ASSUME TypeOK, NEW o \in Operations, NEW q \in Requests, Reserve(o, q)
  PROVE  TypeOK'
<1>1. q.amount \in Nat /\ pos' \in [Levels -> Position] /\ resv' \in [Operations -> Row]
  BY ReserveFacts
<1>2. ledger' \in [Operations -> Entries]
  BY <1>1 DEF Reserve, TypeOK, Entries
<1>3. \A l \in Levels : Raise(l, q) \in [spend : Nat, slots : Nat]
  <2> SUFFICES ASSUME NEW l \in Levels PROVE Raise(l, q) \in [spend : Nat, slots : Nat]
    OBVIOUS
  <2>1. SpendCap(l, q) \in Nat /\ SlotCap(l, q) \in Nat
    BY CapsType
  <2>2. granted[l].spend \in Nat /\ granted[l].slots \in Nat /\ NoCap \in Nat
    BY ConstantsAssumption DEF TypeOK
  <2> QED
    BY <2>1, <2>2 DEF Raise, Raised
<1>4. granted' \in [Levels -> [spend : Nat, slots : Nat]]
  BY <1>3 DEF Reserve, TypeOK
<1> QED
  BY <1>1, <1>2, <1>4 DEF Reserve, TypeOK

(* handleSettle, field by field. *)
LEMMA SettleFacts ==
  ASSUME TypeOK, NEW o \in Operations, NEW v, NEW u \in Usages, NEW n \in BOOLEAN,
         Settle(o, v, u, n)
  PROVE  LET r == resv[o]
             d == SettleDeltas(r, u, n)
         IN /\ r \in Row /\ u \in Usage /\ r.levels \subseteq Levels /\ Live(r)
            /\ d.spent \in Nat /\ d.estimated \in Nat /\ d.reserved \in Int /\ d.unknown \in Int
            /\ d.slots = IF SettledState(r, u, n) = "unknown" THEN 0 ELSE -1
            /\ pos' \in [Levels -> Position]
            /\ \A l \in r.levels : pos'[l] = Plus(pos[l], d)
            /\ \A l \in Levels : l \notin r.levels => pos'[l] = pos[l]
            /\ resv' \in [Operations -> Row] /\ resv'[o] = SettledRow(r, u, n)
            /\ \A p \in Operations : p # o => resv'[p] = resv[p]
<1> DEFINE r == resv[o]
           d == SettleDeltas(r, u, n)
<1>1. r \in Row /\ r.levels \subseteq Levels /\ u \in Usage /\ Live(r)
  BY ConstantsAssumption DEF TypeOK, Row, Settle, SettleApplies
<1>2. /\ d.spent \in Nat /\ d.estimated \in Nat /\ d.reserved \in Int /\ d.unknown \in Int
      /\ d.slots = IF SettledState(r, u, n) = "unknown" THEN 0 ELSE -1
  BY <1>1, DeltasType
<1>3. /\ \A l \in r.levels : NotNegative(pos[l], d)
      /\ pos' = [l \in Levels |-> IF l \in r.levels THEN Plus(pos[l], d) ELSE pos[l]]
      /\ resv' = [resv EXCEPT ![o] = SettledRow(r, u, n)]
  BY DEF Settle, ChargedLevels
<1> HIDE DEF d
<1>4. \A l \in r.levels : Plus(pos[l], d) \in Position
  <2> SUFFICES ASSUME NEW l \in r.levels PROVE Plus(pos[l], d) \in Position
    OBVIOUS
  <2>1. pos[l] \in Position /\ NotNegative(pos[l], d)
    BY <1>1, <1>3 DEF TypeOK
  <2>2. d.slots \in Int
    BY <1>2
  <2> QED
    BY <1>2, <2>1, <2>2 DEF Position, NotNegative, Plus
<1>5. /\ pos' \in [Levels -> Position]
      /\ \A l \in r.levels : pos'[l] = Plus(pos[l], d)
      /\ \A l \in Levels : l \notin r.levels => pos'[l] = pos[l]
  BY <1>1, <1>3, <1>4 DEF TypeOK
<1>6. SettledRow(r, u, n) \in Row
  BY <1>1, SettledRowFields
<1>7. /\ resv' \in [Operations -> Row] /\ resv'[o] = SettledRow(r, u, n)
      /\ \A p \in Operations : p # o => resv'[p] = resv[p]
  BY <1>3, <1>6 DEF TypeOK
<1> QED
  BY <1>1, <1>2, <1>5, <1>7 DEF d

(* handleSettle keeps every type: applyPositionDeltas lets no counter go    *)
(* below zero.                                                              *)
LEMMA SettleTypes ==
  ASSUME TypeOK, NEW o \in Operations, NEW v, NEW u \in Usages, NEW n \in BOOLEAN,
         Settle(o, v, u, n)
  PROVE  TypeOK'
<1> DEFINE r == resv[o]
           d == SettleDeltas(r, u, n)
<1>1. r \in Row /\ u \in Usage /\ pos' \in [Levels -> Position] /\ resv' \in [Operations -> Row]
  BY SettleFacts
<1>2. /\ d.spent \in Nat /\ d.estimated \in Nat /\ d.reserved \in Int /\ d.unknown \in Int
      /\ ReleasedEntry(r, u, n) \in Nat
  BY <1>1, DeltasType
<1>3. Entered(o, u, n) \in Entries
  <2>1. ledger[o] \in Entries /\ u.unknown \in Nat
    BY <1>1 DEF TypeOK, Usage
  <2> QED
    BY <1>2, <2>1 DEF Entered, Entries
<1>4. Excess(r, u, n) \in Nat
  BY <1>2 DEF Excess
<1> HIDE DEF r
<1>5. ledger' \in [Operations -> Entries]
  BY <1>3 DEF Settle, TypeOK
<1>6. overrun' \in [Levels -> Nat]
  BY <1>4 DEF Settle, TypeOK, r
<1> QED
  BY <1>1, <1>5, <1>6 DEF Settle, TypeOK

(* Budget changes and moves of scopes keep every type; they write no        *)
(* account.                                                                 *)
LEMMA BudgetTypes ==
  ASSUME TypeOK, NEW l \in BudgetLevels, NEW limits \in BudgetLimits,
         NEW state \in {"active", "archived"},
         budget' = [budget EXCEPT ![l] =
           [state |-> state, version |-> @.version + 1,
            spend |-> limits.spend, slots |-> limits.slots, cur |-> limits.cur]],
         UNCHANGED <<chain, pos, resv, ledger, granted, overrun>>
  PROVE  TypeOK'
<1>1. /\ l \in Levels /\ limits.spend \in Nat /\ limits.slots \in Nat
      /\ limits.cur \in Currencies /\ budget[l].version \in Nat
  BY ConstantsAssumption DEF Limits, TypeOK
<1> QED
  BY <1>1 DEF TypeOK

(* A step changes accounts only by a fresh reservation or a settlement. *)
LEMMA NextSplit ==
  ASSUME [Next]_vars
  PROVE  \/ UNCHANGED <<pos, resv, ledger, granted, overrun>>
         \/ \E o \in Operations, q \in Requests : Reserve(o, q)
         \/ \E o \in Operations, u \in Usages, v \in 1..2, n \in BOOLEAN : Settle(o, v, u, n)
BY DEF Next, vars, BudgetCreate, BudgetUpdate, BudgetArchive, BudgetReplace, Reconfigure,
       ReserveReplay, SettleReplay

(* Every handler of the accounting owner keeps every type. *)
LEMMA NextTypes == TypeOK /\ [Next]_vars => TypeOK'
<1> SUFFICES ASSUME TypeOK, [Next]_vars PROVE TypeOK'
  OBVIOUS
<1>1. CASE UNCHANGED vars
  BY <1>1 DEF vars, TypeOK
<1>2. ASSUME NEW l \in BudgetLevels, NEW limits \in BudgetLimits, BudgetCreate(l, limits)
      PROVE  TypeOK'
  BY <1>2, BudgetTypes DEF BudgetCreate
<1>3. ASSUME NEW l \in BudgetLevels, NEW limits \in BudgetLimits, NEW v \in 0..MaxBudgetVersion,
             BudgetUpdate(l, v, limits) \/ BudgetArchive(l, v, limits)
      PROVE  TypeOK'
  BY <1>3, BudgetTypes DEF BudgetUpdate, BudgetArchive, BudgetReplace
<1>4. ASSUME NEW s \in Scopes, NEW c \in Chains, Reconfigure(s, c) PROVE TypeOK'
  BY <1>4 DEF Reconfigure, TypeOK
<1>5. ASSUME NEW o \in Operations, NEW q \in Requests, Reserve(o, q) PROVE TypeOK'
  BY <1>5, ReserveTypes
<1>6. ASSUME NEW o \in Operations, NEW u \in Usages, NEW v \in 1..2, NEW n \in BOOLEAN,
             Settle(o, v, u, n)
      PROVE  TypeOK'
  BY <1>6, SettleTypes
<1>7. ASSUME NEW o \in Operations, NEW q \in Requests, ReserveReplay(o, q) PROVE TypeOK'
  BY <1>1, <1>7 DEF ReserveReplay
<1>8. ASSUME NEW o \in Operations, NEW u \in Usages, SettleReplay(o, u) PROVE TypeOK'
  BY <1>1, <1>8 DEF SettleReplay
<1> QED
  BY <1>1, <1>2, <1>3, <1>4, <1>5, <1>6, <1>7, <1>8 DEF Next

(* No column leaves its type: no counter of a position or the ledger is ever *)
(* negative.                                                                 *)
THEOREM AccountingTypes == Spec => []TypeOK
BY InitTypes, NextTypes, PTL DEF Spec

--------------------------------------------------------------------------------
(* Terminal reservations *)

(* A settled or released reservation and its ledger entries are never        *)
(* rewritten by any handler (handleSettle, handleReserve).                   *)
THEOREM TerminalStays == Spec => TerminalFrozen
<1> DEFINE Frozen == \A o \in Operations :
                       Terminal(resv[o]) => resv'[o] = resv[o] /\ ledger'[o] = ledger[o]
<1>1. TypeOK /\ [Next]_vars => [Frozen]_vars
  <2> SUFFICES ASSUME TypeOK, [Next]_vars, NEW p \in Operations, Terminal(resv[p])
               PROVE  resv'[p] = resv[p] /\ ledger'[p] = ledger[p]
    OBVIOUS
  <2>1. CASE UNCHANGED <<pos, resv, ledger, granted, overrun>>
    BY <2>1
  <2>2. ASSUME NEW o \in Operations, NEW q \in Requests, Reserve(o, q)
        PROVE  resv'[p] = resv[p] /\ ledger'[p] = ledger[p]
    BY <2>2 DEF Reserve, Fresh, Terminal, TypeOK
  <2>3. ASSUME NEW o \in Operations, NEW u \in Usages, NEW v \in 1..2, NEW n \in BOOLEAN,
               Settle(o, v, u, n)
        PROVE  resv'[p] = resv[p] /\ ledger'[p] = ledger[p]
    BY <2>3 DEF Settle, SettleApplies, Live, Terminal, TypeOK
  <2> QED
    BY <2>1, <2>2, <2>3, NextSplit
<1> QED
  BY AccountingTypes, <1>1, PTL DEF Spec, TerminalFrozen

--------------------------------------------------------------------------------
(* Slots *)

(* The live reservations that charged a position are finitely many. *)
LEMMA LiveChargingFinite ==
  ASSUME NEW l \in Levels
  PROVE  IsFiniteSet(LiveCharging(l)) /\ Cardinality(LiveCharging(l)) \in Nat
<1>1. LiveCharging(l) \subseteq Operations
  BY DEF LiveCharging, Charging
<1>2. IsFiniteSet(LiveCharging(l))
  BY <1>1, ConstantsAssumption, FS_Subset
<1> QED
  BY <1>2, FS_CardinalityType

(* No position shows a slot while there is no reservation. *)
LEMMA InitSlots == Init => SlotsBalance
<1> SUFFICES ASSUME Init, NEW l \in Levels
             PROVE  pos[l].slots = Cardinality(LiveCharging(l))
  BY DEF SlotsBalance
<1>1. LiveCharging(l) = {} /\ pos[l].slots = 0
  BY DEF Init, LiveCharging, Charging, NoRow, NoPosition
<1> QED
  BY <1>1, FS_EmptySet

(* Every handler keeps slots and live reservations in step: a fresh         *)
(* reservation adds one of each at the positions it charges, and a          *)
(* settlement takes one of each or, for an unknown outcome, none.           *)
LEMMA NextSlots == TypeOK /\ SlotsBalance /\ [Next]_vars => SlotsBalance'
<1> SUFFICES ASSUME TypeOK, SlotsBalance, [Next]_vars, NEW l \in Levels
             PROVE  pos'[l].slots = Cardinality(LiveCharging(l)')
  BY DEF SlotsBalance
<1>0. pos[l].slots = Cardinality(LiveCharging(l)) /\ IsFiniteSet(LiveCharging(l))
  BY LiveChargingFinite DEF SlotsBalance
<1>1. CASE UNCHANGED <<pos, resv, ledger, granted, overrun>>
  BY <1>0, <1>1 DEF LiveCharging, Charging
<1>2. ASSUME NEW o \in Operations, NEW q \in Requests, Reserve(o, q)
      PROVE  pos'[l].slots = Cardinality(LiveCharging(l)')
  <2>1. o \notin LiveCharging(l)
    BY <1>2 DEF Reserve, Fresh, LiveCharging, Live
  <2>2. /\ \A p \in Operations : p # o => resv'[p] = resv[p]
        /\ resv'[o].state = "reserved" /\ resv'[o].levels = LevelsOf(q)
        /\ l \in LevelsOf(q) => pos'[l] = Charged(l, q)
        /\ l \notin LevelsOf(q) => pos'[l] = pos[l]
    BY <1>2, ReserveFacts
  <2>3. CASE l \in LevelsOf(q)
    <3>1. LiveCharging(l)' = LiveCharging(l) \cup {o}
      BY <2>2, <2>3 DEF LiveCharging, Charging, Live
    <3>2. Cardinality(LiveCharging(l) \cup {o}) = Cardinality(LiveCharging(l)) + 1
      BY <1>0, <2>1, FS_AddElement
    <3>3. pos'[l].slots = pos[l].slots + 1
      BY <2>2, <2>3 DEF Charged
    <3> QED
      BY <1>0, <3>1, <3>2, <3>3
  <2>4. CASE l \notin LevelsOf(q)
    <3>1. LiveCharging(l)' = LiveCharging(l)
      BY <2>1, <2>2, <2>4 DEF LiveCharging, Charging, Live
    <3> QED
      BY <1>0, <2>2, <2>4, <3>1
  <2> QED
    BY <2>3, <2>4
<1>3. ASSUME NEW o \in Operations, NEW u \in Usages, NEW v \in 1..2, NEW n \in BOOLEAN,
             Settle(o, v, u, n)
      PROVE  pos'[l].slots = Cardinality(LiveCharging(l)')
  <2> DEFINE r == resv[o]
             d == SettleDeltas(r, u, n)
             to == SettledState(r, u, n)
  <2>1. /\ r \in Row /\ u \in Usage /\ Live(r)
        /\ d.slots = IF to = "unknown" THEN 0 ELSE -1
        /\ l \in r.levels => pos'[l] = Plus(pos[l], d)
        /\ l \notin r.levels => pos'[l] = pos[l]
        /\ resv'[o] = SettledRow(r, u, n)
        /\ \A p \in Operations : p # o => resv'[p] = resv[p]
    BY <1>3, SettleFacts
  <2>2. resv'[o].state = to /\ resv'[o].levels = r.levels
    BY <2>1, SettledRowFields
  <2>3. to \in {"unknown", "settled", "released"}
    BY DEF SettledState
  <2> HIDE DEF d, to
  <2>4. CASE l \notin r.levels \/ to = "unknown"
    <3>1. LiveCharging(l)' = LiveCharging(l)
      BY <2>1, <2>2, <2>4 DEF LiveCharging, Charging, Live
    <3>2. pos'[l].slots = pos[l].slots
      <4>1. pos[l].slots \in Nat
        BY DEF TypeOK, Position
      <4> QED
        BY <2>1, <2>4, <4>1 DEF Plus
    <3> QED
      BY <1>0, <3>1, <3>2
  <2>5. CASE l \in r.levels /\ to # "unknown"
    <3>1. o \in LiveCharging(l) /\ LiveCharging(l)' = LiveCharging(l) \ {o}
      BY <2>1, <2>2, <2>3, <2>5 DEF LiveCharging, Charging, Live
    <3>2. Cardinality(LiveCharging(l) \ {o}) = Cardinality(LiveCharging(l)) - 1
      BY <1>0, <3>1, FS_RemoveElement
    <3>3. pos'[l].slots = pos[l].slots - 1
      <4>1. pos[l].slots \in Nat /\ pos'[l].slots = pos[l].slots + d.slots /\ d.slots = -1
        BY <2>1, <2>5 DEF Plus, TypeOK, Position
      <4> QED
        BY <4>1
    <3> QED
      BY <1>0, <3>1, <3>2, <3>3
  <2> QED
    BY <2>4, <2>5
<1> QED
  BY <1>1, <1>2, <1>3, NextSplit

(* The slots a position shows are its live reservations: none is leaked or   *)
(* returned twice, over any interleaving of reservations, settlements,       *)
(* unknown outcomes and moves of scopes (handleReserve, settleDeltas).       *)
THEOREM SlotsAreLiveReservations == Spec => []SlotsBalance
BY AccountingTypes, InitSlots, NextSlots, PTL DEF Spec

--------------------------------------------------------------------------------
(* Ceilings *)

(* Empty positions are under every ceiling. *)
LEMMA InitCeilings == Init => ExposureWithinCeiling /\ SlotsWithinCeiling
BY DEF Init, ExposureWithinCeiling, SlotsWithinCeiling, NoPosition, Exposure

(* Every handler keeps exposure and slots under the ceilings met so far:    *)
(* chargeLevel checks the sum it writes, and a settlement adds to exposure  *)
(* at most its excess.                                                      *)
LEMMA NextCeilings ==
  TypeOK /\ ExposureWithinCeiling /\ SlotsWithinCeiling /\ [Next]_vars =>
    (ExposureWithinCeiling /\ SlotsWithinCeiling)'
<1> DEFINE Within(p, g, x) == /\ g.spend # NoCap => Exposure(p) <= g.spend + x
                              /\ g.slots # NoCap => p.slots <= g.slots
<1> SUFFICES ASSUME TypeOK, ExposureWithinCeiling, SlotsWithinCeiling, [Next]_vars,
                    NEW l \in Levels
             PROVE  Within(pos'[l], granted'[l], overrun'[l])
  BY DEF ExposureWithinCeiling, SlotsWithinCeiling, Exposure
<1>0. /\ Within(pos[l], granted[l], overrun[l])
      /\ pos[l] \in Position /\ granted[l] \in [spend : Nat, slots : Nat] /\ overrun[l] \in Nat
      /\ NoCap \in Nat
  BY ConstantsAssumption DEF ExposureWithinCeiling, SlotsWithinCeiling, TypeOK
<1>1. CASE UNCHANGED <<pos, resv, ledger, granted, overrun>>
  BY <1>0, <1>1
<1>2. ASSUME NEW o \in Operations, NEW q \in Requests, Reserve(o, q)
      PROVE  Within(pos'[l], granted'[l], overrun'[l])
  <2>1. overrun'[l] = overrun[l]
    BY <1>2 DEF Reserve
  <2>2. CASE l \notin LevelsOf(q)
    <3>1. pos'[l] = pos[l] /\ granted'[l] = granted[l]
      BY <1>2, <2>2 DEF Reserve
    <3> QED
      BY <1>0, <2>1, <3>1
  <2>3. CASE l \in LevelsOf(q)
    <3>1. /\ pos'[l] = Charged(l, q) /\ granted'[l] = Raise(l, q) /\ Chargeable(l, q)
          /\ q.amount \in Nat
      BY <1>2, <2>3, ReserveFacts DEF Reserve
    <3>2. SpendCap(l, q) \in Nat /\ SlotCap(l, q) \in Nat
      BY CapsType
    <3>3. /\ pos'[l].spent = pos[l].spent /\ pos'[l].reserved = pos[l].reserved + q.amount
          /\ pos'[l].unknown = pos[l].unknown /\ pos'[l].slots = pos[l].slots + 1
      BY <3>1 DEF Charged
    <3>4. granted'[l].slots # NoCap => pos'[l].slots <= granted'[l].slots
      BY <1>0, <3>1, <3>2, <3>3 DEF Raise, Raised, Chargeable, Position
    <3>5. granted'[l].spend # NoCap => Exposure(pos'[l]) <= granted'[l].spend + overrun[l]
      <4>1. CASE q.amount = 0
        BY <1>0, <3>1, <3>3, <4>1 DEF Raise, Exposure, Position
      <4>2. CASE q.amount > 0
        BY <1>0, <3>1, <3>2, <3>3, <4>2 DEF Raise, Raised, Chargeable, Exposure, Position
      <4> QED
        BY <3>1, <4>1, <4>2
    <3> QED
      BY <2>1, <3>4, <3>5
  <2> QED
    BY <2>2, <2>3
<1>3. ASSUME NEW o \in Operations, NEW u \in Usages, NEW v \in 1..2, NEW n \in BOOLEAN,
             Settle(o, v, u, n)
      PROVE  Within(pos'[l], granted'[l], overrun'[l])
  <2> DEFINE r == resv[o]
             d == SettleDeltas(r, u, n)
             x == Excess(r, u, n)
  <2>1. granted'[l] = granted[l]
    BY <1>3 DEF Settle
  <2>2. /\ d.spent \in Nat /\ d.reserved \in Int /\ d.unknown \in Int
        /\ d.slots = IF SettledState(r, u, n) = "unknown" THEN 0 ELSE -1
        /\ l \in r.levels => pos'[l] = Plus(pos[l], d)
        /\ l \notin r.levels => pos'[l] = pos[l]
    BY <1>3, SettleFacts
  <2>3. x \in Nat /\ x >= d.spent + d.reserved + d.unknown
    BY <2>2 DEF Excess
  <2>4. overrun'[l] = IF l \in r.levels THEN overrun[l] + x ELSE overrun[l]
    BY <1>3 DEF Settle, ChargedLevels
  <2> HIDE DEF d, x
  <2>5. CASE l \notin r.levels
    BY <1>0, <2>1, <2>2, <2>4, <2>5
  <2>6. CASE l \in r.levels
    <3>1. /\ pos'[l].spent = pos[l].spent + d.spent
          /\ pos'[l].reserved = pos[l].reserved + d.reserved
          /\ pos'[l].unknown = pos[l].unknown + d.unknown
          /\ pos'[l].slots = pos[l].slots + d.slots
      BY <2>2, <2>6 DEF Plus
    <3>2. d.slots <= 0 /\ d.slots \in Int
      BY <2>2
    <3>3. granted'[l].slots # NoCap => pos'[l].slots <= granted'[l].slots
      BY <1>0, <2>1, <3>1, <3>2 DEF Position
    <3>4. granted'[l].spend # NoCap => Exposure(pos'[l]) <= granted'[l].spend + overrun'[l]
      BY <1>0, <2>1, <2>2, <2>3, <2>4, <2>6, <3>1 DEF Exposure, Position
    <3> QED
      BY <3>3, <3>4
  <2> QED
    BY <2>5, <2>6
<1> QED
  BY <1>1, <1>2, <1>3, NextSplit

(* The exposure of a position never passes the largest spend ceiling a paid  *)
(* reservation met there, but for what reports overran (chargeLevel).        *)
THEOREM ExposureBounded == Spec => []ExposureWithinCeiling
BY AccountingTypes, InitCeilings, NextCeilings, PTL DEF Spec

(* The live attempts at a position never pass the largest concurrency        *)
(* ceiling a reservation met there (chargeLevel).                            *)
THEOREM SlotsBounded == Spec => []SlotsWithinCeiling
BY AccountingTypes, InitCeilings, NextCeilings, PTL DEF Spec

--------------------------------------------------------------------------------
(* The ledger *)

(* What the entries of a row that can still be settled are, as LedgerCloses  *)
(* needs them at the settlement that ends the row.                           *)
BooksInv ==
  \A o \in Operations :
    LET r == resv[o]
        e == ledger[o]
    IN /\ r.state = "none" =>
            e.reserved = 0 /\ e.spent = 0 /\ e.unknown = 0 /\ e.released = 0
       /\ r.state = "reserved" =>
            e.reserved = r.amount /\ e.spent = 0 /\ e.unknown = 0 /\ e.released = 0
       /\ r.state = "unknown" =>
            /\ e.reserved = r.amount /\ e.spent = 0 /\ e.unknown = r.usage.unknown
            /\ e.released = IF r.amount > r.usage.unknown THEN r.amount - r.usage.unknown ELSE 0

(* The empty ledger is closed. *)
LEMMA InitBooks == Init => BooksInv /\ LedgerCloses
BY DEF Init, BooksInv, LedgerCloses, NoRow, NoEntries, Terminal, Greater

(* Every handler keeps the ledger entries of a reservation in step with its *)
(* state, so that the entry that makes it terminal closes its books.        *)
LEMMA NextBooks ==
  TypeOK /\ BooksInv /\ LedgerCloses /\ [Next]_vars => (BooksInv /\ LedgerCloses)'
<1> DEFINE Books(r, e) ==
      /\ r.state = "none" =>
           e.reserved = 0 /\ e.spent = 0 /\ e.unknown = 0 /\ e.released = 0
      /\ r.state = "reserved" =>
           e.reserved = r.amount /\ e.spent = 0 /\ e.unknown = 0 /\ e.released = 0
      /\ r.state = "unknown" =>
           /\ e.reserved = r.amount /\ e.spent = 0 /\ e.unknown = r.usage.unknown
           /\ e.released = IF r.amount > r.usage.unknown THEN r.amount - r.usage.unknown ELSE 0
      /\ e.released <= Greater(e.reserved, e.unknown)
      /\ (Terminal(r) /\ ~r.usage.advisory) =>
           e.spent + e.released >= Greater(e.reserved, e.unknown)
<1> SUFFICES ASSUME TypeOK, BooksInv, LedgerCloses, [Next]_vars, NEW p \in Operations
             PROVE  Books(resv'[p], ledger'[p])
  BY DEF BooksInv, LedgerCloses, Terminal, Greater
<1>0. Books(resv[p], ledger[p]) /\ resv[p] \in Row /\ ledger[p] \in Entries
  BY DEF BooksInv, LedgerCloses, TypeOK
<1>1. CASE UNCHANGED <<pos, resv, ledger, granted, overrun>>
  BY <1>0, <1>1
<1>2. ASSUME NEW o \in Operations, NEW q \in Requests, Reserve(o, q)
      PROVE  Books(resv'[p], ledger'[p])
  <2>1. CASE p # o
    <3>1. resv'[p] = resv[p] /\ ledger'[p] = ledger[p]
      BY <1>2, <2>1 DEF Reserve
    <3> QED
      BY <1>0, <3>1
  <2>2. CASE p = o
    <3>1. q.amount \in Nat /\ resv'[p].state = "reserved" /\ resv'[p].amount = q.amount
      BY <1>2, <2>2, ReserveFacts
    <3>2. ledger'[p] = [ledger[p] EXCEPT !.reserved = q.amount] /\ resv[p].state = "none"
      BY <1>2, <2>2 DEF Reserve, Fresh, TypeOK
    <3>3. /\ ledger'[p].reserved = q.amount /\ ledger'[p].spent = 0
          /\ ledger'[p].unknown = 0 /\ ledger'[p].released = 0
      BY <1>0, <3>2 DEF Entries
    <3> QED
      BY <3>1, <3>3 DEF Terminal, Greater
  <2> QED
    BY <2>1, <2>2
<1>3. ASSUME NEW o \in Operations, NEW u \in Usages, NEW v \in 1..2, NEW n \in BOOLEAN,
             Settle(o, v, u, n)
      PROVE  Books(resv'[p], ledger'[p])
  <2>1. CASE p # o
    <3>1. resv'[p] = resv[p] /\ ledger'[p] = ledger[p]
      BY <1>3, <2>1 DEF Settle
    <3> QED
      BY <1>0, <3>1
  <2>2. CASE p = o
    <3> DEFINE r == resv[p]
               e == ledger[p]
               f == ledger'[p]
               to == SettledState(r, u, n)
               s == SpentOf(u)
    <3>1. r \in Row /\ u \in Usage /\ Live(r) /\ resv'[p] = SettledRow(r, u, n)
      BY <1>3, <2>2, SettleFacts
    <3>2. resv'[p].state = to /\ resv'[p].usage = u /\ resv'[p].amount = r.amount
      BY <3>1, SettledRowFields
    <3>3. s \in Nat /\ to \in {"unknown", "settled", "released"}
      BY <3>1, DeltasType
    <3>4. /\ r.amount \in Nat /\ r.usage.unknown \in Nat /\ u.unknown \in Nat
          /\ e.reserved \in Nat /\ e.spent \in Nat /\ e.unknown \in Nat /\ e.released \in Nat
      BY <1>0, <3>1 DEF Row, Usage, Entries
    <3>5. f = Entered(p, u, n)
      BY <1>3, <2>2 DEF Settle, TypeOK
    <3>6. /\ f.reserved = e.reserved
          /\ f.spent = e.spent + (IF to = "settled" THEN s ELSE 0)
          /\ f.unknown = e.unknown + (IF to = "unknown" THEN u.unknown ELSE 0)
          /\ f.released = e.released + ReleasedEntry(r, u, n)
      BY <3>5 DEF Entered, SettleDeltas
    <3>7. ~u.advisory => s = u.spent
      BY DEF SpentOf
    <3> HIDE DEF s, f
    <3>8. CASE r.state = "reserved"
      <4>1. e.reserved = r.amount /\ e.spent = 0 /\ e.unknown = 0 /\ e.released = 0
        BY <1>0, <3>8
      <4>2. CASE to = "unknown"
        <5>1. ReleasedEntry(r, u, n) = IF r.amount > u.unknown THEN r.amount - u.unknown ELSE 0
          BY <3>8, <4>2 DEF ReleasedEntry
        <5> HIDE DEF to
        <5>2. /\ f.reserved = r.amount /\ f.spent = 0 /\ f.unknown = u.unknown
              /\ f.released = IF r.amount > u.unknown THEN r.amount - u.unknown ELSE 0
          BY <3>4, <3>6, <4>1, <4>2, <5>1
        <5>3. f.released <= Greater(f.reserved, f.unknown)
          BY <3>4, <5>2 DEF Greater
        <5> QED
          BY <3>2, <4>2, <5>2, <5>3 DEF Terminal, f
      <4>3. CASE to = "settled"
        <5>1. ReleasedEntry(r, u, n) =
                IF u.advisory THEN 0 ELSE IF r.amount > s THEN r.amount - s ELSE 0
          BY <3>8, <4>3 DEF ReleasedEntry, s
        <5> HIDE DEF to
        <5>2. f.reserved = r.amount /\ f.spent = s /\ f.unknown = 0 /\ f.released = ReleasedEntry(r, u, n)
          BY <3>3, <3>4, <3>6, <4>1, <4>3, <5>1
        <5>3. f.released <= Greater(f.reserved, f.unknown)
          <6>1. CASE u.advisory
            BY <3>4, <5>1, <5>2, <6>1 DEF Greater
          <6>2. CASE ~u.advisory
            BY <3>3, <3>4, <5>1, <5>2, <6>2 DEF Greater
          <6> QED
            BY <6>1, <6>2
        <5>4. ~u.advisory => f.spent + f.released >= Greater(f.reserved, f.unknown)
          BY <3>3, <3>4, <5>1, <5>2 DEF Greater
        <5> QED
          BY <3>2, <4>3, <5>3, <5>4 DEF f
      <4>4. CASE to = "released"
        <5>1. ReleasedEntry(r, u, n) = r.amount
          BY <3>4, <3>8, <4>4 DEF ReleasedEntry
        <5> HIDE DEF to
        <5>2. f.reserved = r.amount /\ f.spent = 0 /\ f.unknown = 0 /\ f.released = r.amount
          BY <3>4, <3>6, <4>1, <4>4, <5>1
        <5>3. /\ f.released <= Greater(f.reserved, f.unknown)
              /\ f.spent + f.released >= Greater(f.reserved, f.unknown)
          BY <3>4, <5>2 DEF Greater
        <5> QED
          BY <3>2, <4>4, <5>3 DEF f
      <4> QED
        BY <3>3, <4>2, <4>3, <4>4
    <3>9. CASE r.state = "unknown"
      <4>1. /\ e.reserved = r.amount /\ e.spent = 0 /\ e.unknown = r.usage.unknown
            /\ e.released = IF r.amount > r.usage.unknown THEN r.amount - r.usage.unknown ELSE 0
        BY <1>0, <3>9
      <4>2. to \in {"settled", "released"}
        BY <3>9 DEF SettledState
      <4>3. CASE to = "settled"
        <5>1. ReleasedEntry(r, u, n) =
                IF r.usage.unknown > s THEN r.usage.unknown - s ELSE 0
          BY <3>9, <4>3 DEF ReleasedEntry, s
        <5> HIDE DEF to
        <5>2. f.reserved = r.amount /\ f.spent = s /\ f.unknown = r.usage.unknown
              /\ f.released = e.released + ReleasedEntry(r, u, n)
          BY <3>3, <3>4, <3>6, <4>1, <4>3
        <5>3. /\ f.released <= Greater(f.reserved, f.unknown)
              /\ f.spent + f.released >= Greater(f.reserved, f.unknown)
          BY <3>3, <3>4, <4>1, <5>1, <5>2 DEF Greater
        <5> QED
          BY <3>2, <4>3, <5>3 DEF f
      <4>4. CASE to = "released"
        <5>1. ReleasedEntry(r, u, n) = r.usage.unknown
          BY <3>4, <3>9, <4>4 DEF ReleasedEntry
        <5> HIDE DEF to
        <5>2. /\ f.reserved = r.amount /\ f.spent = 0 /\ f.unknown = r.usage.unknown
              /\ f.released = e.released + r.usage.unknown
          BY <3>4, <3>6, <4>1, <4>4, <5>1
        <5>3. /\ f.released <= Greater(f.reserved, f.unknown)
              /\ f.spent + f.released >= Greater(f.reserved, f.unknown)
          BY <3>4, <4>1, <5>2 DEF Greater
        <5> QED
          BY <3>2, <4>4, <5>3 DEF f
      <4> QED
        BY <4>2, <4>3, <4>4
    <3> QED
      BY <3>1, <3>8, <3>9 DEF Live
  <2> QED
    BY <2>1, <2>2
<1> QED
  BY <1>1, <1>2, <1>3, NextSplit

(* A terminal reservation without advisory usage has all it ever held booked *)
(* as spent or released, and none releases more than it held                 *)
(* (settleToSettled, settleUnknown, resolveSettled, resolveReleased).        *)
THEOREM LedgerIsClosed == Spec => []LedgerCloses
BY AccountingTypes, InitBooks, NextBooks, PTL DEF Spec

--------------------------------------------------------------------------------
(* Sums of naturals over a finite set.  The least set that breaks a claim would *)
(* have a smaller one that does: that is the induction the provers can follow.  *)

Pick(s) == CHOOSE x \in s : TRUE

(* SumFunction adds up by taking away one chosen element after the other. *)
Sums(F, f, S) ==
  F = [s \in SUBSET S |-> IF s = {} THEN 0 ELSE f[Pick(s)] + F[s \ {Pick(s)}]]

(* A set of naturals that is not empty has a least element. *)
LEMMA LeastNatural ==
  ASSUME NEW T \in SUBSET Nat, T # {}
  PROVE  \E x \in T : \A y \in T : x <= y
<1> DEFINE R == OpToRel(<, Nat)
<1>1. IsWellFoundedOn(R, Nat)
  BY NatLessThanWellFounded
<1>2. \A x, y \in Nat : y < x => <<y, x>> \in R
  BY DEF OpToRel
<1> HIDE DEF R
<1>3. PICK x \in T : \A y \in T : ~(<<y, x>> \in R)
  BY <1>1, WFMin
<1>4. \A y \in T : x \in Nat /\ y \in Nat /\ ~(y < x)
  BY <1>2, <1>3
<1> QED
  BY <1>4

(* Among sets of elements of S there is one that no smaller one is among. *)
LEMMA MinimalSubset ==
  ASSUME NEW S, IsFiniteSet(S), NEW B \in SUBSET (SUBSET S), B # {}
  PROVE  \E s \in B : \A x \in s : s \ {x} \notin B
<1> DEFINE C == {Cardinality(s) : s \in B}
<1>1. \A s \in B : IsFiniteSet(s) /\ Cardinality(s) \in Nat
  BY FS_Subset, FS_CardinalityType
<1>2. C \in SUBSET Nat /\ C # {}
  BY <1>1
<1>3. PICK c \in C : \A d \in C : c <= d
  BY <1>2, LeastNatural
<1>4. PICK s \in B : c = Cardinality(s)
  BY <1>3
<1>5. ASSUME NEW x \in s, s \ {x} \in B
      PROVE  FALSE
  <2>1. Cardinality(s \ {x}) = Cardinality(s) - 1
    BY <1>1, FS_RemoveElement
  <2>2. c <= Cardinality(s \ {x})
    BY <1>3, <1>5
  <2> QED
    BY <1>1, <1>4, <2>1, <2>2
<1> QED
  BY <1>5

(* The element a sum takes next is one of the set. *)
LEMMA PickIs ==
  ASSUME NEW s, s # {}
  PROVE  Pick(s) \in s
BY DEF Pick

(* The function SumFunction is defined by exists. *)
LEMMA SumsExist ==
  ASSUME NEW S, IsFiniteSet(S), NEW f \in [S -> Nat]
  PROVE  \E F : Sums(F, f, S)
<1> DEFINE Eq(F, s) == F[s] = IF s = {} THEN 0 ELSE f[Pick(s)] + F[s \ {Pick(s)}]
           Upto(n) == \E F \in [SUBSET S -> Nat] : \A s \in SUBSET S : Cardinality(s) <= n => Eq(F, s)
           N == {n \in Nat : ~Upto(n)}
<1>1. \A s \in SUBSET S : IsFiniteSet(s) /\ Cardinality(s) \in Nat
  BY FS_Subset, FS_CardinalityType
<1>2. \A s \in SUBSET S : s # {} => /\ Pick(s) \in s /\ Pick(s) \in S /\ s \ {Pick(s)} \in SUBSET S
                                  /\ Cardinality(s \ {Pick(s)}) = Cardinality(s) - 1
  <2> SUFFICES ASSUME NEW s \in SUBSET S, s # {}
               PROVE  /\ Pick(s) \in s /\ Pick(s) \in S /\ s \ {Pick(s)} \in SUBSET S
                      /\ Cardinality(s \ {Pick(s)}) = Cardinality(s) - 1
    OBVIOUS
  <2>1. Pick(s) \in s
    BY PickIs
  <2> QED
    BY <1>1, <2>1, FS_RemoveElement
<1>3. Upto(0)
  <2> DEFINE F == [s \in SUBSET S |-> 0]
  <2>1. F \in [SUBSET S -> Nat]
    OBVIOUS
  <2>2. ASSUME NEW s \in SUBSET S, Cardinality(s) <= 0
        PROVE  Eq(F, s)
    <3>1. s = {}
      BY <1>1, <2>2, FS_EmptySet
    <3> QED
      BY <3>1
  <2> QED
    BY <2>1, <2>2
<1>4. ASSUME NEW n \in Nat, Upto(n)
      PROVE  Upto(n + 1)
  <2>1. PICK F \in [SUBSET S -> Nat] : \A s \in SUBSET S : Cardinality(s) <= n => Eq(F, s)
    BY <1>4
  <2> DEFINE val(s) == IF s = {} THEN 0 ELSE f[Pick(s)] + F[s \ {Pick(s)}]
             G == [s \in SUBSET S |-> IF Cardinality(s) <= n THEN F[s] ELSE val(s)]
  <2>2. ASSUME NEW s \in SUBSET S PROVE val(s) \in Nat
    <3>1. CASE s = {}
      BY <3>1
    <3>2. CASE s # {}
      <4>1. Pick(s) \in S /\ s \ {Pick(s)} \in SUBSET S
        BY <1>2, <3>2
      <4>2. f[Pick(s)] \in Nat /\ F[s \ {Pick(s)}] \in Nat
        BY <2>1, <4>1
      <4> QED
        BY <3>2, <4>2
    <3> QED
      BY <3>1, <3>2
  <2>3. G \in [SUBSET S -> Nat]
    BY <2>1, <2>2
  <2>4. ASSUME NEW s \in SUBSET S, Cardinality(s) <= n + 1
        PROVE  Eq(G, s)
    <3>1. G[s] = val(s)
      BY <2>1
    <3>2. CASE s = {}
      BY <3>1, <3>2
    <3>3. CASE s # {}
      <4> DEFINE t == s \ {Pick(s)}
      <4>1. t \in SUBSET S /\ Cardinality(t) <= n
        BY <1>1, <1>2, <2>4, <3>3
      <4>2. G[t] = F[t]
        BY <4>1
      <4> QED
        BY <3>1, <3>3, <4>2
    <3> QED
      BY <3>2, <3>3
  <2> HIDE DEF G
  <2> QED
    BY <2>3, <2>4
<1> HIDE DEF Upto
<1>5. N = {}
  <2> SUFFICES ASSUME N # {} PROVE FALSE
    OBVIOUS
  <2>1. PICK m \in N : \A y \in N : m <= y
    BY LeastNatural
  <2>2. m # 0 /\ m \in Nat /\ ~Upto(m)
    BY <1>3, <2>1
  <2>3. PICK k \in Nat : m = k + 1
    BY <2>2
  <2>4. Upto(k)
    BY <2>1, <2>3
  <2> QED
    BY <1>4, <2>2, <2>3, <2>4
<1>6. Upto(Cardinality(S))
  BY <1>1, <1>5
<1>7. PICK F \in [SUBSET S -> Nat] : \A s \in SUBSET S : Cardinality(s) <= Cardinality(S) => Eq(F, s)
  BY <1>6 DEF Upto
<1>8. \A s \in SUBSET S : Cardinality(s) <= Cardinality(S)
  BY FS_Subset
<1>9. \A s \in SUBSET S : Eq(F, s)
  BY <1>7, <1>8
<1>10. F = [s \in SUBSET S |-> IF s = {} THEN 0 ELSE f[Pick(s)] + F[s \ {Pick(s)}]]
  BY <1>9
<1> QED
  BY <1>10 DEF Sums

(* SumFunction is a table of partial sums, one for each subset. *)
LEMMA SumIs ==
  ASSUME NEW S, IsFiniteSet(S), NEW f \in [S -> Nat]
  PROVE  \E F : Sums(F, f, S) /\ SumFunction(f) = F[S]
<1> DEFINE iter == CHOOSE F : F = [s \in SUBSET S |-> IF s = {} THEN 0 ELSE f[Pick(s)] + F[s \ {Pick(s)}]]
<1>0. \E F : Sums(F, f, S)
  BY SumsExist
<1>1. Sums(iter, f, S)
  BY <1>0 DEF Sums
<1>2. SumFunctionOnSet(f, S) = iter[S]
  BY DEF SumFunctionOnSet, FoldFunctionOnSet, MapThenFoldSet, Pick
<1>3. SumFunction(f) = SumFunctionOnSet(f, S)
  BY DEF SumFunction
<1> QED
  BY <1>1, <1>2, <1>3

(* A sum of naturals is a natural no smaller than each summand, and nothing  *)
(* sums to zero.                                                             *)
LEMMA SumBounds ==
  ASSUME NEW S, IsFiniteSet(S), NEW f \in [S -> Nat]
  PROVE  /\ SumFunction(f) \in Nat
         /\ \A o \in S : f[o] <= SumFunction(f)
         /\ (\A x \in S : f[x] = 0) => SumFunction(f) = 0
<1>1. PICK F : Sums(F, f, S) /\ SumFunction(f) = F[S]
  BY SumIs
<1> DEFINE Good(s) == /\ F[s] \in Nat
                      /\ \A o \in s : f[o] <= F[s]
                      /\ (\A x \in S : f[x] = 0) => F[s] = 0
           B == {s \in SUBSET S : ~Good(s)}
<1>2. \A s \in SUBSET S : F[s] = IF s = {} THEN 0 ELSE f[Pick(s)] + F[s \ {Pick(s)}]
  BY <1>1 DEF Sums
<1>3. ASSUME NEW s \in SUBSET S, s # {}, Good(s \ {Pick(s)})
      PROVE  Good(s)
  <2> DEFINE x == Pick(s)
             t == s \ {x}
  <2>1. x \in s /\ F[s] = f[x] + F[t]
    BY <1>2, <1>3, PickIs
  <2> HIDE DEF x
  <2>2. f[x] \in Nat /\ F[t] \in Nat /\ s = t \cup {x}
    BY <1>3, <2>1 DEF x
  <2>3. \A o \in t : f[o] <= F[t] /\ f[o] \in Nat
    BY <1>3 DEF x
  <2>4. (\A y \in S : f[y] = 0) => F[t] = 0 /\ f[x] = 0
    BY <1>3, <2>1 DEF x
  <2> HIDE DEF t
  <2> QED
    BY <2>1, <2>2, <2>3, <2>4
<1>4. Good({})
  BY <1>2
<1> HIDE DEF Good
<1>5. B = {}
  <2> SUFFICES ASSUME B # {} PROVE FALSE
    OBVIOUS
  <2>1. PICK s \in B : \A x \in s : s \ {x} \notin B
    BY MinimalSubset
  <2>2. s \in SUBSET S /\ ~Good(s) /\ s # {}
    BY <1>4, <2>1
  <2>3. Pick(s) \in s /\ s \ {Pick(s)} \in SUBSET S
    BY <2>2, PickIs
  <2>4. Good(s \ {Pick(s)})
    BY <2>1, <2>3
  <2> QED
    BY <1>3, <2>2, <2>4
<1>6. Good(S)
  BY <1>5
<1> QED
  BY <1>1, <1>6 DEF Good

(* A sum moves with the one summand that changes. *)
LEMMA SumChanges ==
  ASSUME NEW S, IsFiniteSet(S), NEW f \in [S -> Nat], NEW g \in [S -> Nat], NEW o \in S,
         \A x \in S \ {o} : g[x] = f[x]
  PROVE  SumFunction(g) = SumFunction(f) - f[o] + g[o]
<1>1. PICK F : Sums(F, f, S) /\ SumFunction(f) = F[S]
  BY SumIs
<1>2. PICK G : Sums(G, g, S) /\ SumFunction(g) = G[S]
  BY SumIs
<1> DEFINE Good(s) == /\ F[s] \in Nat /\ G[s] \in Nat
                      /\ G[s] = IF o \in s THEN F[s] - f[o] + g[o] ELSE F[s]
           B == {s \in SUBSET S : ~Good(s)}
<1>3. \A s \in SUBSET S : /\ F[s] = IF s = {} THEN 0 ELSE f[Pick(s)] + F[s \ {Pick(s)}]
                          /\ G[s] = IF s = {} THEN 0 ELSE g[Pick(s)] + G[s \ {Pick(s)}]
  BY <1>1, <1>2 DEF Sums
<1>4. ASSUME NEW s \in SUBSET S, s # {}, Good(s \ {Pick(s)})
      PROVE  Good(s)
  <2> DEFINE x == Pick(s)
             t == s \ {x}
  <2>1. x \in s /\ F[s] = f[x] + F[t] /\ G[s] = g[x] + G[t]
    BY <1>3, <1>4, PickIs
  <2> HIDE DEF x
  <2>2. /\ f[x] \in Nat /\ g[x] \in Nat /\ F[t] \in Nat /\ G[t] \in Nat
        /\ G[t] = IF o \in t THEN F[t] - f[o] + g[o] ELSE F[t]
    BY <1>4, <2>1 DEF x
  <2>3. f[o] \in Nat /\ g[o] \in Nat
    OBVIOUS
  <2>4. CASE x = o
    <3>1. o \in s /\ o \notin t
      BY <2>1, <2>4
    <3> HIDE DEF t
    <3> QED
      BY <2>1, <2>2, <2>3, <2>4, <3>1
  <2>5. CASE x # o
    <3>1. f[x] = g[x] /\ (o \in s <=> o \in t)
      BY <2>1, <2>5
    <3> HIDE DEF t
    <3> QED
      BY <2>1, <2>2, <2>3, <3>1
  <2> QED
    BY <2>4, <2>5
<1>5. Good({})
  <2>1. F[{}] = 0 /\ G[{}] = 0
    BY <1>3
  <2> QED
    BY <2>1
<1> HIDE DEF Good
<1>6. B = {}
  <2> SUFFICES ASSUME B # {} PROVE FALSE
    OBVIOUS
  <2>1. PICK s \in B : \A x \in s : s \ {x} \notin B
    BY MinimalSubset
  <2>2. s \in SUBSET S /\ ~Good(s) /\ s # {}
    BY <1>5, <2>1
  <2>3. Pick(s) \in s /\ s \ {Pick(s)} \in SUBSET S
    BY <2>2, PickIs
  <2>4. Good(s \ {Pick(s)})
    BY <2>1, <2>3
  <2> QED
    BY <1>4, <2>2, <2>4
<1>7. Good(S)
  BY <1>6
<1> QED
  BY <1>1, <1>2, <1>7 DEF Good

--------------------------------------------------------------------------------
(* Positions *)

(* An operation without a reservation has no position and nothing booked. *)
FreshInv ==
  \A o \in Operations :
    Fresh(o) => resv[o].levels = {} /\ ledger[o].spent = 0 /\ ledger[o].estimated = 0

(* An operation never reserved for has nothing: initially. *)
LEMMA InitFresh == Init => FreshInv
BY DEF Init, FreshInv, NoRow, NoEntries

(* An operation never reserved for has nothing: after every step. *)
LEMMA NextFresh == TypeOK /\ FreshInv /\ [Next]_vars => FreshInv'
<1> SUFFICES ASSUME TypeOK, FreshInv, [Next]_vars, NEW p \in Operations, Fresh(p)'
             PROVE  resv'[p].levels = {} /\ ledger'[p].spent = 0 /\ ledger'[p].estimated = 0
  BY DEF FreshInv
<1>1. CASE UNCHANGED <<pos, resv, ledger, granted, overrun>>
  BY <1>1 DEF FreshInv, Fresh
<1>2. ASSUME NEW o \in Operations, NEW q \in Requests, Reserve(o, q)
      PROVE  resv'[p] = resv[p] /\ ledger'[p] = ledger[p]
  <2>1. p # o
    BY <1>2, ReserveFacts DEF Fresh
  <2> QED
    BY <1>2, <2>1, ReserveFacts DEF Reserve, TypeOK
<1>3. ASSUME NEW o \in Operations, NEW u \in Usages, NEW v \in 1..2, NEW n \in BOOLEAN,
             Settle(o, v, u, n)
      PROVE  resv'[p] = resv[p] /\ ledger'[p] = ledger[p]
  <2>1. resv[o] \in Row /\ u \in Usage /\ resv'[o] = SettledRow(resv[o], u, n)
    BY <1>3, SettleFacts, ZenonT(40)
  <2>2. resv'[o].state = SettledState(resv[o], u, n)
    BY <2>1, SettledRowFields
  <2>3. p # o
    BY <2>2 DEF Fresh, SettledState
  <2> QED
    BY <1>3, <2>3, SettleFacts DEF Settle, TypeOK
<1> QED
  BY <1>1, <1>2, <1>3, NextSplit DEF FreshInv, Fresh

(* A share is four naturals. *)
LEMMA ShareType ==
  ASSUME TypeOK, NEW o \in Operations, NEW l \in Levels
  PROVE  /\ Share(o, l).reserved \in Nat /\ Share(o, l).unknown \in Nat
         /\ Share(o, l).spent \in Nat /\ Share(o, l).estimated \in Nat
<1>1. resv[o] \in Row /\ ledger[o] \in Entries
  BY DEF TypeOK
<1>2. /\ resv[o].amount \in Nat /\ resv[o].usage.unknown \in Nat
      /\ ledger[o].spent \in Nat /\ ledger[o].estimated \in Nat
  BY <1>1 DEF Row, Usage, Entries
<1> QED
  BY <1>2 DEF Share, NoShare

(* The sums at one position. *)
Balanced(l) ==
  /\ pos[l].reserved = SumFunction([o \in Operations |-> Share(o, l).reserved])
  /\ pos[l].unknown = SumFunction([o \in Operations |-> Share(o, l).unknown])
  /\ pos[l].spent = SumFunction([o \in Operations |-> Share(o, l).spent])
  /\ pos[l].estimated = SumFunction([o \in Operations |-> Share(o, l).estimated])

(* A position stays balanced when it moves by what one share moves. *)
LEMMA ShareMoves ==
  ASSUME TypeOK, TypeOK', NEW l \in Levels, Balanced(l), NEW o \in Operations,
         \A p \in Operations \ {o} : resv'[p] = resv[p] /\ ledger'[p] = ledger[p],
         pos'[l].reserved = pos[l].reserved - Share(o, l).reserved + Share(o, l)'.reserved,
         pos'[l].unknown = pos[l].unknown - Share(o, l).unknown + Share(o, l)'.unknown,
         pos'[l].spent = pos[l].spent - Share(o, l).spent + Share(o, l)'.spent,
         pos'[l].estimated = pos[l].estimated - Share(o, l).estimated + Share(o, l)'.estimated
  PROVE  Balanced(l)'
<1>1. \A p \in Operations \ {o} : Share(p, l)' = Share(p, l)
  BY DEF Share
<1>2. \A p \in Operations :
        /\ Share(p, l).reserved \in Nat /\ Share(p, l).unknown \in Nat
        /\ Share(p, l).spent \in Nat /\ Share(p, l).estimated \in Nat
        /\ Share(p, l)'.reserved \in Nat /\ Share(p, l)'.unknown \in Nat
        /\ Share(p, l)'.spent \in Nat /\ Share(p, l)'.estimated \in Nat
  <2>1. \A p \in Operations :
        /\ Share(p, l)'.reserved \in Nat /\ Share(p, l)'.unknown \in Nat
        /\ Share(p, l)'.spent \in Nat /\ Share(p, l)'.estimated \in Nat
    <3> SUFFICES ASSUME NEW p \in Operations
                 PROVE  /\ Share(p, l)'.reserved \in Nat /\ Share(p, l)'.unknown \in Nat
                        /\ Share(p, l)'.spent \in Nat /\ Share(p, l)'.estimated \in Nat
      OBVIOUS
    <3>1. resv'[p] \in Row /\ ledger'[p] \in Entries
      BY DEF TypeOK
    <3>2. /\ resv'[p].amount \in Nat /\ resv'[p].usage.unknown \in Nat
          /\ ledger'[p].spent \in Nat /\ ledger'[p].estimated \in Nat
      BY <3>1 DEF Row, Usage, Entries
    <3> QED
      BY <3>2 DEF Share, NoShare
  <2> QED
    BY <2>1, ShareType
<1>3. IsFiniteSet(Operations)
  BY ConstantsAssumption
<1> HIDE DEF Share
<1>4. pos'[l].reserved = SumFunction([p \in Operations |-> Share(p, l).reserved])'
  <2> DEFINE f == [p \in Operations |-> Share(p, l).reserved]
             g == [p \in Operations |-> Share(p, l)'.reserved]
  <2>1. f \in [Operations -> Nat] /\ g \in [Operations -> Nat] /\ \A p \in Operations \ {o} : g[p] = f[p]
    BY <1>1, <1>2
  <2>2. f[o] = Share(o, l).reserved /\ g[o] = Share(o, l)'.reserved
    OBVIOUS
  <2>3. pos[l].reserved = SumFunction(f)
    BY DEF Balanced
  <2> HIDE DEF f, g
  <2>4. SumFunction(g) = SumFunction(f) - f[o] + g[o]
    BY <1>3, <2>1, SumChanges
  <2> QED
    BY <2>2, <2>3, <2>4 DEF g
<1>5. pos'[l].unknown = SumFunction([p \in Operations |-> Share(p, l).unknown])'
  <2> DEFINE f == [p \in Operations |-> Share(p, l).unknown]
             g == [p \in Operations |-> Share(p, l)'.unknown]
  <2>1. f \in [Operations -> Nat] /\ g \in [Operations -> Nat] /\ \A p \in Operations \ {o} : g[p] = f[p]
    BY <1>1, <1>2
  <2>2. f[o] = Share(o, l).unknown /\ g[o] = Share(o, l)'.unknown
    OBVIOUS
  <2>3. pos[l].unknown = SumFunction(f)
    BY DEF Balanced
  <2> HIDE DEF f, g
  <2>4. SumFunction(g) = SumFunction(f) - f[o] + g[o]
    BY <1>3, <2>1, SumChanges
  <2> QED
    BY <2>2, <2>3, <2>4 DEF g
<1>6. pos'[l].spent = SumFunction([p \in Operations |-> Share(p, l).spent])'
  <2> DEFINE f == [p \in Operations |-> Share(p, l).spent]
             g == [p \in Operations |-> Share(p, l)'.spent]
  <2>1. f \in [Operations -> Nat] /\ g \in [Operations -> Nat] /\ \A p \in Operations \ {o} : g[p] = f[p]
    BY <1>1, <1>2
  <2>2. f[o] = Share(o, l).spent /\ g[o] = Share(o, l)'.spent
    OBVIOUS
  <2>3. pos[l].spent = SumFunction(f)
    BY DEF Balanced
  <2> HIDE DEF f, g
  <2>4. SumFunction(g) = SumFunction(f) - f[o] + g[o]
    BY <1>3, <2>1, SumChanges
  <2> QED
    BY <2>2, <2>3, <2>4 DEF g
<1>7. pos'[l].estimated = SumFunction([p \in Operations |-> Share(p, l).estimated])'
  <2> DEFINE f == [p \in Operations |-> Share(p, l).estimated]
             g == [p \in Operations |-> Share(p, l)'.estimated]
  <2>1. f \in [Operations -> Nat] /\ g \in [Operations -> Nat] /\ \A p \in Operations \ {o} : g[p] = f[p]
    BY <1>1, <1>2
  <2>2. f[o] = Share(o, l).estimated /\ g[o] = Share(o, l)'.estimated
    OBVIOUS
  <2>3. pos[l].estimated = SumFunction(f)
    BY DEF Balanced
  <2> HIDE DEF f, g
  <2>4. SumFunction(g) = SumFunction(f) - f[o] + g[o]
    BY <1>3, <2>1, SumChanges
  <2> QED
    BY <2>2, <2>3, <2>4 DEF g
<1> QED
  BY <1>4, <1>5, <1>6, <1>7 DEF Balanced

(* Empty positions are the sums of no reservations. *)
LEMMA InitBalance == Init => PositionsBalance
<1> SUFFICES ASSUME Init, NEW l \in Levels PROVE Balanced(l)
  BY DEF PositionsBalance, Balanced
<1>1. \A o \in Operations : Share(o, l) = NoShare
  BY DEF Init, Share, NoRow
<1> DEFINE z == [o \in Operations |-> 0]
<1>2. SumFunction(z) = 0
  <2>1. z \in [Operations -> Nat] /\ \A o \in Operations : z[o] = 0
    OBVIOUS
  <2> HIDE DEF z
  <2> QED
    BY <2>1, ConstantsAssumption, SumBounds
<1>3. /\ [o \in Operations |-> Share(o, l).reserved] = z
      /\ [o \in Operations |-> Share(o, l).unknown] = z
      /\ [o \in Operations |-> Share(o, l).spent] = z
      /\ [o \in Operations |-> Share(o, l).estimated] = z
  BY <1>1 DEF NoShare
<1>4. pos[l] = NoPosition
  BY DEF Init
<1> QED
  BY <1>2, <1>3, <1>4 DEF Balanced, NoPosition

(* Every handler moves a position by what it moves a share: a reservation by   *)
(* its bound, a settlement by its deltas at the positions of the row.          *)
LEMMA NextBalance ==
  TypeOK /\ FreshInv /\ PositionsBalance /\ [Next]_vars => PositionsBalance'
<1> SUFFICES ASSUME TypeOK, FreshInv, PositionsBalance, [Next]_vars, NEW l \in Levels
             PROVE  Balanced(l)'
  BY DEF PositionsBalance, Balanced
<1>0. TypeOK' /\ Balanced(l)
  BY NextTypes DEF PositionsBalance, Balanced
<1>p. /\ pos[l].reserved \in Nat /\ pos[l].unknown \in Nat
      /\ pos[l].spent \in Nat /\ pos[l].estimated \in Nat
  BY DEF TypeOK, Position
<1>1. CASE UNCHANGED <<pos, resv, ledger, granted, overrun>>
  <2>1. \A o \in Operations : Share(o, l)' = Share(o, l)
    BY <1>1 DEF Share
  <2> QED
    BY <1>0, <1>1, <2>1 DEF Balanced
<1>2. ASSUME NEW o \in Operations, NEW q \in Requests, Reserve(o, q)
      PROVE  Balanced(l)'
  <2>1. /\ q.amount \in Nat
        /\ \A p \in Operations : p # o => resv'[p] = resv[p]
        /\ resv'[o].state = "reserved" /\ resv'[o].levels = LevelsOf(q)
        /\ resv'[o].amount = q.amount
        /\ l \in LevelsOf(q) => pos'[l] = Charged(l, q)
        /\ l \notin LevelsOf(q) => pos'[l] = pos[l]
    BY <1>2, ReserveFacts
  <2>2. /\ \A p \in Operations : p # o => ledger'[p] = ledger[p]
        /\ ledger'[o].spent = ledger[o].spent /\ ledger'[o].estimated = ledger[o].estimated
    BY <1>2 DEF Reserve, TypeOK, Entries
  <2>3. Share(o, l) = [reserved |-> 0, unknown |-> 0, spent |-> 0, estimated |-> 0]
        /\ ledger[o].spent = 0 /\ ledger[o].estimated = 0
    BY <1>2 DEF FreshInv, Reserve, Share, NoShare
  <2>4. Share(o, l)' = [reserved |-> IF l \in LevelsOf(q) THEN q.amount ELSE 0,
                        unknown |-> 0, spent |-> 0, estimated |-> 0]
    BY <2>1, <2>2, <2>3 DEF Share, NoShare
  <2>5. /\ pos'[l].reserved = pos[l].reserved + (IF l \in LevelsOf(q) THEN q.amount ELSE 0)
        /\ pos'[l].unknown = pos[l].unknown /\ pos'[l].spent = pos[l].spent
        /\ pos'[l].estimated = pos[l].estimated
    BY <1>p, <2>1 DEF Charged
  <2>6. /\ pos'[l].reserved = pos[l].reserved - Share(o, l).reserved + Share(o, l)'.reserved
        /\ pos'[l].unknown = pos[l].unknown - Share(o, l).unknown + Share(o, l)'.unknown
        /\ pos'[l].spent = pos[l].spent - Share(o, l).spent + Share(o, l)'.spent
        /\ pos'[l].estimated = pos[l].estimated - Share(o, l).estimated + Share(o, l)'.estimated
    BY <1>p, <2>1, <2>3, <2>4, <2>5
  <2> QED
    BY <1>0, <2>1, <2>2, <2>6, ShareMoves
<1>3. ASSUME NEW o \in Operations, NEW u \in Usages, NEW v \in 1..2, NEW n \in BOOLEAN,
             Settle(o, v, u, n)
      PROVE  Balanced(l)'
  <2> DEFINE r == resv[o]
             d == SettleDeltas(r, u, n)
             to == SettledState(r, u, n)
  <2>1. /\ r \in Row /\ u \in Usage /\ Live(r)
        /\ d.spent \in Nat /\ d.estimated \in Nat /\ d.reserved \in Int /\ d.unknown \in Int
        /\ l \in r.levels => pos'[l] = Plus(pos[l], d)
        /\ l \notin r.levels => pos'[l] = pos[l]
        /\ resv'[o] = SettledRow(r, u, n)
        /\ \A p \in Operations : p # o => resv'[p] = resv[p]
    <3>1. /\ r \in Row /\ u \in Usage /\ Live(r)
          /\ d.spent \in Nat /\ d.estimated \in Nat /\ d.reserved \in Int /\ d.unknown \in Int
      BY <1>3, SettleFacts
    <3>2. /\ \A k \in r.levels : pos'[k] = Plus(pos[k], d)
          /\ \A k \in Levels : k \notin r.levels => pos'[k] = pos[k]
      BY <1>3, SettleFacts
    <3>3. /\ resv'[o] = SettledRow(r, u, n)
          /\ \A p \in Operations : p # o => resv'[p] = resv[p]
      BY <1>3, SettleFacts
    <3> QED
      BY <3>1, <3>2, <3>3
  <2>2. /\ resv'[o].state = to /\ resv'[o].levels = r.levels
        /\ resv'[o].usage = u
    BY <2>1, SettledRowFields
  <2>3. /\ \A p \in Operations : p # o => ledger'[p] = ledger[p]
        /\ ledger'[o].spent = ledger[o].spent + d.spent
        /\ ledger'[o].estimated = ledger[o].estimated + d.estimated
    <3>1. ledger' = [ledger EXCEPT ![o] = Entered(o, u, n)] /\ ledger \in [Operations -> Entries]
      BY <1>3 DEF Settle, TypeOK
    <3>2. /\ Entered(o, u, n).spent = ledger[o].spent + d.spent
          /\ Entered(o, u, n).estimated = ledger[o].estimated + d.estimated
      BY DEF Entered
    <3> QED
      BY <3>1, <3>2
  <2>4. /\ to \in {"unknown", "settled", "released"}
        /\ to = "unknown" => r.state = "reserved"
        /\ d.reserved = IF r.state = "reserved" THEN -r.amount ELSE 0
        /\ d.unknown = IF to = "unknown" THEN u.unknown
                       ELSE IF r.state = "unknown" THEN -r.usage.unknown ELSE 0
    BY DEF SettledState, SettleDeltas
  <2>5. /\ r.amount \in Nat /\ r.usage.unknown \in Nat /\ u.unknown \in Nat
        /\ ledger[o].spent \in Nat /\ ledger[o].estimated \in Nat
    BY <2>1 DEF Row, Usage, TypeOK, Entries
  <2> HIDE DEF d, to
  <2>6. CASE l \in r.levels
    <3>1. Share(o, l)' = [reserved |-> 0,
                          unknown |-> IF to = "unknown" THEN u.unknown ELSE 0,
                          spent |-> ledger[o].spent + d.spent,
                          estimated |-> ledger[o].estimated + d.estimated]
      BY <2>2, <2>3, <2>4, <2>6 DEF Share
    <3>2. Share(o, l) = [reserved |-> IF r.state = "reserved" THEN r.amount ELSE 0,
                         unknown |-> IF r.state = "unknown" THEN r.usage.unknown ELSE 0,
                         spent |-> ledger[o].spent, estimated |-> ledger[o].estimated]
      BY <2>6 DEF Share
    <3>3. /\ pos'[l].reserved = pos[l].reserved + d.reserved
          /\ pos'[l].unknown = pos[l].unknown + d.unknown
          /\ pos'[l].spent = pos[l].spent + d.spent
          /\ pos'[l].estimated = pos[l].estimated + d.estimated
      BY <2>1, <2>6 DEF Plus
    <3>4. pos'[l].reserved = pos[l].reserved - Share(o, l).reserved + Share(o, l)'.reserved
      BY <1>p, <2>4, <2>5, <3>1, <3>2, <3>3
    <3>5. pos'[l].unknown = pos[l].unknown - Share(o, l).unknown + Share(o, l)'.unknown
      BY <1>p, <2>4, <2>5, <3>1, <3>2, <3>3
    <3>6. /\ pos'[l].spent = pos[l].spent - Share(o, l).spent + Share(o, l)'.spent
          /\ pos'[l].estimated = pos[l].estimated - Share(o, l).estimated + Share(o, l)'.estimated
      BY <1>p, <2>1, <2>5, <3>1, <3>2, <3>3
    <3> QED
      BY <1>0, <2>1, <2>3, <3>4, <3>5, <3>6, ShareMoves
  <2>7. CASE l \notin r.levels
    <3>1. \A p \in Operations : Share(p, l)' = Share(p, l)
      BY <2>1, <2>2, <2>3, <2>7 DEF Share
    <3> QED
      BY <1>0, <2>1, <2>7, <3>1 DEF Balanced
  <2> QED
    BY <2>6, <2>7
<1> QED
  BY <1>1, <1>2, <1>3, NextSplit

(* The money columns of every position are the sums of what the reservations   *)
(* that charged it claim, for any number of reservations, levels, reports and  *)
(* moves of scopes (settleDeltas, applyPositionDeltas).                        *)
THEOREM PositionsAreSums == Spec => []PositionsBalance
BY AccountingTypes, InitFresh, NextFresh, InitBalance, NextBalance, PTL DEF Spec

(* No report the handler accepts is ever kept from settling a live reservation *)
(* by applyPositionDeltas' refusal to drive a counter negative: the position   *)
(* always holds at least what the row gives back.                              *)
THEOREM SettlementsGoThrough == Spec => []SettlementNeverStuck
<1>1. TypeOK /\ SlotsBalance /\ PositionsBalance => SettlementNeverStuck
  <2> SUFFICES ASSUME TypeOK, SlotsBalance, PositionsBalance, NEW o \in Operations,
                      NEW u \in Usages, NEW n \in BOOLEAN,
                      SettleApplies(resv[o], resv[o].version, u, n),
                      NEW l \in resv[o].levels
               PROVE  NotNegative(pos[l], SettleDeltas(resv[o], u, n))
    BY DEF SettlementNeverStuck
  <2> DEFINE r == resv[o]
             d == SettleDeltas(r, u, n)
  <2>1. r \in Row /\ u \in Usage /\ Live(r) /\ l \in Levels
    BY ConstantsAssumption DEF TypeOK, Row, SettleApplies
  <2>2. /\ d.spent \in Nat /\ d.estimated \in Nat
        /\ d.slots = IF SettledState(r, u, n) = "unknown" THEN 0 ELSE -1
    BY <2>1, DeltasType
  <2>3. /\ d.reserved = IF r.state = "reserved" THEN -r.amount ELSE 0
        /\ \/ d.unknown \in Nat
           \/ r.state = "unknown" /\ d.unknown = -r.usage.unknown
    BY <2>1 DEF SettleDeltas, Usage
  <2>4. /\ pos[l].reserved \in Nat /\ pos[l].unknown \in Nat /\ pos[l].slots \in Nat
        /\ pos[l].spent \in Nat /\ pos[l].estimated \in Nat
        /\ r.amount \in Nat /\ r.usage.unknown \in Nat
    BY <2>1 DEF TypeOK, Position, Row, Usage
  <2> HIDE DEF d
  <2>5. Share(o, l).reserved <= pos[l].reserved /\ Share(o, l).unknown <= pos[l].unknown
    <3> DEFINE f == [p \in Operations |-> Share(p, l).reserved]
               g == [p \in Operations |-> Share(p, l).unknown]
    <3>1. f \in [Operations -> Nat] /\ g \in [Operations -> Nat]
      BY <2>1, ShareType
    <3>2. pos[l].reserved = SumFunction(f) /\ pos[l].unknown = SumFunction(g)
      BY <2>1 DEF PositionsBalance
    <3>3. f[o] = Share(o, l).reserved /\ g[o] = Share(o, l).unknown
      OBVIOUS
    <3> HIDE DEF f, g
    <3>4. f[o] <= SumFunction(f) /\ g[o] <= SumFunction(g)
      BY <3>1, ConstantsAssumption, SumBounds
    <3> QED
      BY <3>2, <3>3, <3>4
  <2>6. /\ r.state = "reserved" => Share(o, l).reserved = r.amount
        /\ r.state = "unknown" => Share(o, l).unknown = r.usage.unknown
    BY DEF Share
  <2>7. pos[l].slots >= 1
    <3>1. o \in LiveCharging(l)
      BY <2>1 DEF LiveCharging, Charging
    <3>2. IsFiniteSet(LiveCharging(l)) /\ Cardinality(LiveCharging(l)) \in Nat
      BY <2>1, LiveChargingFinite
    <3>3. Cardinality(LiveCharging(l)) # 0
      BY <3>1, <3>2, FS_EmptySet
    <3> QED
      BY <2>1, <3>2, <3>3 DEF SlotsBalance
  <2>8. pos[l].reserved + d.reserved >= 0
    BY <2>3, <2>4, <2>5, <2>6
  <2>9. pos[l].unknown + d.unknown >= 0
    BY <2>3, <2>4, <2>5, <2>6
  <2>10. pos[l].spent + d.spent >= 0 /\ pos[l].estimated + d.estimated >= 0 /\ pos[l].slots + d.slots >= 0
    BY <2>2, <2>4, <2>7
  <2> QED
    BY <2>8, <2>9, <2>10 DEF NotNegative, d
<1> QED
  BY <1>1, AccountingTypes, SlotsAreLiveReservations, PositionsAreSums, PTL

--------------------------------------------------------------------------------
(* Currencies *)

(* CurrencyPinned is not inductive alone.  It leans on the sums: a position  *)
(* without amounts, the only one ensurePosition repins, carries nothing of   *)
(* any reservation.  And a row in unknown keeps what it retains, so that a   *)
(* settlement only moves amounts where the row already had some.             *)
RetainsInv ==
  \A o \in Operations : resv[o].state = "unknown" => resv[o].usage.unknown > 0

PinInv == RetainsInv /\ CurrencyPinned

(* Rows and positions not written yet carry nothing. *)
LEMMA InitPin == Init => PinInv
BY DEF Init, PinInv, RetainsInv, CurrencyPinned, Paid, NoRow

(* The share of a paid live reservation at its positions is never empty. *)
LEMMA LiveCarries ==
  ASSUME TypeOK, RetainsInv, NEW o \in Operations, NEW l \in resv[o].levels,
         Paid(o), Live(resv[o])
  PROVE  Carries(o, l)
<1>1. resv[o].state \in {"reserved", "unknown"}
  BY DEF Live
<1>2. resv[o].state = "reserved" => Share(o, l).reserved > 0
  BY DEF Paid, Share
<1>3. resv[o].state = "unknown" => Share(o, l).unknown > 0
  BY DEF RetainsInv, Share
<1>4. NoShare.reserved = 0 /\ NoShare.unknown = 0
  BY DEF NoShare
<1>5. Share(o, l) = NoShare => Share(o, l).reserved = 0 /\ Share(o, l).unknown = 0
  BY <1>4
<1> QED
  BY <1>1, <1>2, <1>3, <1>5 DEF Carries

(* A position without amounts carries nothing of any reservation. *)
LEMMA EmptyCarriesNothing ==
  ASSUME TypeOK, PositionsBalance, NEW l \in Levels, ZeroAmounts(pos[l]),
         NEW o \in Operations
  PROVE  ~Carries(o, l)
<1> DEFINE f == [p \in Operations |-> Share(p, l).reserved]
           g == [p \in Operations |-> Share(p, l).unknown]
           h == [p \in Operations |-> Share(p, l).spent]
           k == [p \in Operations |-> Share(p, l).estimated]
<1>1. /\ f \in [Operations -> Nat] /\ g \in [Operations -> Nat]
      /\ h \in [Operations -> Nat] /\ k \in [Operations -> Nat]
  BY ShareType
<1>2. SumFunction(f) = 0 /\ SumFunction(g) = 0 /\ SumFunction(h) = 0 /\ SumFunction(k) = 0
  BY DEF PositionsBalance, ZeroAmounts
<1>3. /\ f[o] = Share(o, l).reserved /\ g[o] = Share(o, l).unknown
      /\ h[o] = Share(o, l).spent /\ k[o] = Share(o, l).estimated
  OBVIOUS
<1> HIDE DEF f, g, h, k
<1>4. /\ f[o] <= SumFunction(f) /\ g[o] <= SumFunction(g)
      /\ h[o] <= SumFunction(h) /\ k[o] <= SumFunction(k)
  BY <1>1, ConstantsAssumption, SumBounds
<1>5. f[o] \in Nat /\ g[o] \in Nat /\ h[o] \in Nat /\ k[o] \in Nat
  BY <1>1
<1>6. /\ Share(o, l).reserved = 0 /\ Share(o, l).unknown = 0
      /\ Share(o, l).spent = 0 /\ Share(o, l).estimated = 0
  BY <1>2, <1>3, <1>4, <1>5
<1>7. Share(o, l) = NoShare
  BY <1>6 DEF Share, NoShare
<1> QED
  BY <1>7 DEF Carries

(* Every handler keeps positions pinned: ensurePosition changes a currency  *)
(* only while no amounts are held, and no settlement changes one.           *)
LEMMA NextPin ==
  TypeOK /\ PositionsBalance /\ PinInv /\ [Next]_vars => PinInv'
<1> SUFFICES ASSUME TypeOK, PositionsBalance, PinInv, [Next]_vars PROVE PinInv'
  OBVIOUS
<1>1. CASE UNCHANGED <<pos, resv, ledger, granted, overrun>>
  BY <1>1 DEF PinInv, RetainsInv, CurrencyPinned, Paid, Carries, Share
<1>2. ASSUME NEW o \in Operations, NEW q \in Requests, Reserve(o, q) PROVE PinInv'
  <2>1. /\ q.amount \in Nat /\ q.cur \in Currencies /\ LevelsOf(q) \subseteq Levels
        /\ \A l \in LevelsOf(q) : pos'[l] = Charged(l, q)
        /\ \A l \in Levels : l \notin LevelsOf(q) => pos'[l] = pos[l]
        /\ \A p \in Operations : p # o => resv'[p] = resv[p]
        /\ resv'[o].levels = LevelsOf(q) /\ resv'[o].amount = q.amount
        /\ resv'[o].cur = q.cur /\ resv'[o].state = "reserved"
    BY <1>2, ReserveFacts
  <2>2. \A p \in Operations : p # o => ledger'[p] = ledger[p]
    BY <1>2 DEF Reserve, TypeOK
  <2>3. ASSUME NEW l \in LevelsOf(q)
        PROVE  pos'[l].cur = EnsuredCur(l, q) /\ EnsuredCur(l, q) \in {XXX, q.cur}
    <3>1. pos'[l] = Charged(l, q)
      BY <2>1
    <3> QED
      BY <1>2, <3>1 DEF Charged, Reserve, Chargeable
  <2>4. RetainsInv'
    BY <2>1 DEF RetainsInv, PinInv
  <2>5. ASSUME NEW p \in Operations, NEW l \in resv'[p].levels, Paid(p)', Carries(p, l)'
        PROVE  pos'[l].cur \in {resv'[p].cur, XXX}
    <3>1. CASE p = o
      BY <2>1, <2>3, <2>5, <3>1
    <3>2. CASE p # o
      <4>1. resv'[p] = resv[p] /\ ledger'[p] = ledger[p]
        BY <2>1, <2>2, <3>2
      <4>2. Paid(p) /\ Carries(p, l) /\ l \in resv[p].levels
        BY <2>5, <4>1 DEF Paid, Carries, Share
      <4>3. pos[l].cur \in {resv[p].cur, XXX}
        BY <4>2 DEF PinInv, CurrencyPinned
      <4>4. l \in Levels /\ resv[p].cur \in Currencies
        BY <4>2 DEF TypeOK, Row
      <4>5. ~ZeroAmounts(pos[l])
        BY <4>2, <4>4, EmptyCarriesNothing
      <4>6. EnsuredCur(l, q) = pos[l].cur
        BY <4>3, <4>4, <4>5, ConstantsAssumption DEF EnsuredCur
      <4>7. pos'[l].cur = pos[l].cur
        BY <2>1, <2>3, <4>4, <4>6
      <4> QED
        BY <4>1, <4>3, <4>7
    <3> QED
      BY <3>1, <3>2
  <2>6. CurrencyPinned'
    BY <2>5 DEF CurrencyPinned
  <2> QED
    BY <2>4, <2>6 DEF PinInv
<1>3. ASSUME NEW o \in Operations, NEW u \in Usages, NEW v \in 1..2, NEW n \in BOOLEAN,
             Settle(o, v, u, n)
      PROVE  PinInv'
  <2> DEFINE r == resv[o]
             d == SettleDeltas(r, u, n)
  <2>1. /\ r \in Row /\ u \in Usage /\ r.levels \subseteq Levels /\ Live(r)
        /\ \A l \in r.levels : pos'[l] = Plus(pos[l], d)
        /\ \A l \in Levels : l \notin r.levels => pos'[l] = pos[l]
        /\ resv'[o] = SettledRow(r, u, n)
        /\ \A p \in Operations : p # o => resv'[p] = resv[p]
    BY <1>3, SettleFacts
  <2>2. /\ resv'[o].usage = u /\ resv'[o].state = SettledState(r, u, n)
        /\ resv'[o].amount = r.amount /\ resv'[o].cur = r.cur /\ resv'[o].levels = r.levels
    BY <2>1, SettledRowFields
  <2>3. \A p \in Operations : p # o => ledger'[p] = ledger[p]
    BY <1>3 DEF Settle, TypeOK
  <2>4. ASSUME NEW l \in Levels PROVE pos'[l].cur = pos[l].cur
    <3>1. CASE l \in r.levels
      <4>1. pos'[l] = Plus(pos[l], d)
        BY <2>1, <3>1
      <4> HIDE DEF d
      <4> QED
        BY <4>1 DEF Plus
    <3>2. CASE l \notin r.levels
      BY <2>1, <3>2
    <3> QED
      BY <3>1, <3>2
  <2> HIDE DEF d
  <2>5. RetainsInv'
    <3>1. SettledState(r, u, n) = "unknown" => u.unknown > 0
      BY DEF SettledState
    <3> QED
      BY <2>1, <2>2, <3>1 DEF RetainsInv, PinInv
  <2>6. ASSUME NEW p \in Operations, NEW l \in resv'[p].levels, Paid(p)', Carries(p, l)'
        PROVE  pos'[l].cur \in {resv'[p].cur, XXX}
    <3>1. /\ resv'[p].levels = resv[p].levels /\ resv'[p].cur = resv[p].cur
          /\ resv'[p].amount = resv[p].amount
      BY <2>1, <2>2
    <3>2. l \in resv[p].levels /\ l \in Levels /\ Paid(p)
      BY <2>6, <3>1 DEF TypeOK, Row, Paid
    <3>3. Carries(p, l)
      <4>1. CASE p = o
        BY <2>1, <3>2, <4>1, LiveCarries DEF PinInv
      <4>2. CASE p # o
        BY <2>1, <2>3, <2>6, <4>2 DEF Carries, Share
      <4> QED
        BY <4>1, <4>2
    <3>4. pos[l].cur \in {resv[p].cur, XXX}
      BY <3>2, <3>3 DEF PinInv, CurrencyPinned
    <3> QED
      BY <2>4, <3>1, <3>2, <3>4
  <2>7. CurrencyPinned'
    BY <2>6 DEF CurrencyPinned
  <2> QED
    BY <2>5, <2>7 DEF PinInv
<1> QED
  BY <1>1, <1>2, <1>3, NextSplit

(* A position that carries an amount of a paid reservation is pinned to the  *)
(* reservation's currency or still to the code for none, and never repinned  *)
(* under it, whatever reports book in no currency and however budgets change *)
(* theirs (ensurePosition, chargeLevel).                                     *)
THEOREM CurrenciesArePinned == Spec => []CurrencyPinned
<1>1. PinInv => CurrencyPinned
  BY DEF PinInv
<1> QED
  BY <1>1, AccountingTypes, PositionsAreSums, InitPin, NextPin, PTL DEF Spec

=================================================================================
