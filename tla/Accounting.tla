------------------------------ MODULE Accounting -------------------------------
(***************************************************************************)
(* The accounting owner (internal/accounting): budgets, the positions that *)
(* reservations share, reservations and their ledger.  Every handler runs  *)
(* in one write transaction, so each is one action; a fault rolls the      *)
(* transaction back and is a step that is not taken.                       *)
(***************************************************************************)
EXTENDS Reservation, FiniteSets, FiniteSetsExt

CONSTANTS
  Operations,     \* operation ids, the replay keys of reservations
  Levels,         \* positions: installation, organizations, workers, roots
  Installation,   \* the level every chain contains
  BudgetLevels,   \* the levels whose objects a budget can be bound to
  Scopes,         \* action scopes a caller can name
  Chains,         \* the level sets a scope can resolve to
  Definition,     \* per level, the limits its own definition declares
  DefaultSlots,   \* per level, the shipped concurrency default (NoCap: none)
  Currencies,     \* currency codes
  Requests,       \* reserve requests callers make
  Usages,         \* usage reports callers make
  BudgetLimits,   \* limits documents budget changes carry
  NoCap,          \* stands for an absent cap
  MaxBudgetVersion \* bound: budget changes per level

(* XXX is the currency code of an installation that configured none. *)
XXX == "XXX"

Limits == [spend : Nat, slots : Nat, cur : Currencies]

(* cur is the amount's currency; limits are what the caller claims for the   *)
(* root.                                                                     *)
Request == [scope : Scopes, root : Levels, amount : Nat, cur : Currencies,
            limits : Limits]

ASSUME ConstantsAssumption ==
  /\ IsFiniteSet(Operations)
  /\ Installation \in BudgetLevels
  /\ BudgetLevels \subseteq Levels
  /\ Chains \subseteq SUBSET Levels
  /\ \A c \in Chains : Installation \in c
  /\ Definition \in [Levels -> Limits]
  /\ DefaultSlots \in [Levels -> Nat]
  /\ Requests \subseteq Request
  /\ Requests # {}
  /\ \A q \in Requests : q.root \notin UNION Chains
  /\ XXX \in Currencies
  /\ "none" \notin Currencies
  /\ Usages \subseteq Usage
  /\ BudgetLimits \subseteq Limits
  /\ NoCap \in Nat
  /\ MaxBudgetVersion \in Nat

VARIABLES
  budget,   \* accounting_budgets, by level
  chain,    \* external: the levels configuration resolves a scope to
  pos,      \* accounting_positions, by level
  resv,     \* accounting_reservations, by operation id
  ledger,   \* accounting_entries, summed by reservation and kind
  granted,  \* history: by level, the largest ceilings admissions met
  overrun   \* history: by level, what reports exceeded the held bounds by

vars == <<budget, chain, pos, resv, ledger, granted, overrun>>

Row == [state : RowStates, version : Nat, amount : Nat, cur : Currencies,
        request : Requests, levels : SUBSET Levels, usage : Usage]

NoRow == [state |-> "none", version |-> 0, amount |-> 0, cur |-> XXX,
          request |-> CHOOSE q \in Requests : TRUE, levels |-> {},
          usage |-> ZeroUsage]

Position == [cur : Currencies \cup {"none"}, spent : Nat, reserved : Nat, unknown : Nat,
             estimated : Nat, slots : Nat]

(* A position's row is created by the first reservation that charges it. *)
NoPosition == [cur |-> "none", spent |-> 0, reserved |-> 0, unknown |-> 0,
               estimated |-> 0, slots |-> 0]

Entries == [reserved : Nat, spent : Nat, estimated : Nat, unknown : Nat,
            released : Nat]

NoEntries == [reserved |-> 0, spent |-> 0, estimated |-> 0, unknown |-> 0,
              released |-> 0]

NoBudget == [state |-> "absent", version |-> 0, spend |-> 0, slots |-> 0,
             cur |-> XXX]

Init ==
  /\ budget = [l \in Levels |-> NoBudget]
  /\ chain \in [Scopes -> Chains]
  /\ pos = [l \in Levels |-> NoPosition]
  /\ resv = [o \in Operations |-> NoRow]
  /\ ledger = [o \in Operations |-> NoEntries]
  /\ granted = [l \in Levels |-> [spend |-> 0, slots |-> 0]]
  /\ overrun = [l \in Levels |-> 0]

--------------------------------------------------------------------------------
(* Caps *)

Active(l) == budget[l].state = "active"

Least(a, b) == IF a = NoCap THEN b ELSE IF b = NoCap THEN a
               ELSE IF a < b THEN a ELSE b

(* Zero slots in a limits document declare no concurrency cap. *)
DeclaredSlots(limits) == IF limits.slots = 0 THEN NoCap ELSE limits.slots

(* The root level is bound by the limits the request itself declares.  An  *)
(* installation without a budget falls back to the shipped default, which  *)
(* refuses paid work.                                                      *)
SpendCap(l, q) ==
  IF l = q.root THEN q.limits.spend
  ELSE IF l = Installation THEN IF Active(l) THEN budget[l].spend ELSE 0
  ELSE Least(Definition[l].spend, IF Active(l) THEN budget[l].spend ELSE NoCap)

SlotCap(l, q) ==
  IF l = q.root THEN DeclaredSlots(q.limits)
  ELSE IF l = Installation
    THEN IF Active(l) THEN DeclaredSlots(budget[l]) ELSE DefaultSlots[l]
  ELSE LET configured == Least(Definition[l].slots,
                               IF Active(l) THEN DeclaredSlots(budget[l]) ELSE NoCap)
       IN IF configured = NoCap THEN DefaultSlots[l] ELSE configured

LevelsOf(q) == chain[q.scope] \cup {q.root}

--------------------------------------------------------------------------------
(* Budgets: the changes configuration activates *)

BudgetCreate(l, limits) ==
  /\ ~Active(l)
  /\ limits.cur = XXX => limits.spend = 0
  /\ budget[l].version < MaxBudgetVersion
  /\ budget' = [budget EXCEPT ![l] =
       [state |-> "active", version |-> @.version + 1,
        spend |-> limits.spend, slots |-> limits.slots, cur |-> limits.cur]]
  /\ UNCHANGED <<chain, pos, resv, ledger, granted, overrun>>

BudgetReplace(l, expected, limits, state) ==
  /\ Active(l)
  /\ expected = budget[l].version
  /\ limits.cur = XXX => limits.spend = 0
  /\ budget[l].version < MaxBudgetVersion
  /\ budget' = [budget EXCEPT ![l] =
       [state |-> state, version |-> @.version + 1,
        spend |-> limits.spend, slots |-> limits.slots, cur |-> limits.cur]]
  /\ UNCHANGED <<chain, pos, resv, ledger, granted, overrun>>

BudgetUpdate(l, expected, limits) == BudgetReplace(l, expected, limits, "active")

BudgetArchive(l, expected, limits) == BudgetReplace(l, expected, limits, "archived")

(* External: configuration moves a scope to other ancestors.  Reservations *)
(* already made keep the positions they recorded.                          *)
Reconfigure(s, c) ==
  /\ chain[s] # c
  /\ chain' = [chain EXCEPT ![s] = c]
  /\ UNCHANGED <<budget, pos, resv, ledger, granted, overrun>>

--------------------------------------------------------------------------------
(* Reserve *)

Exposure(p) == p.spent + p.reserved + p.unknown

ZeroAmounts(p) == p.spent = 0 /\ p.reserved = 0 /\ p.unknown = 0 /\ p.estimated = 0

EnsuredCurRepins(l, q) ==
  IF pos[l].cur = "none" \/ q.cur # XXX THEN q.cur ELSE pos[l].cur

(* ensurePosition: creation pins the currency, and a position pinned to XXX *)
(* that holds no amounts takes the first configured one.                    *)
EnsuredCur(l, q) ==
  IF pos[l].cur = "none" THEN q.cur
  ELSE IF pos[l].cur = XXX /\ q.cur # XXX /\ ZeroAmounts(pos[l]) THEN q.cur
  ELSE pos[l].cur

(* The currencies that budgets, definitions and the caller's limits declare *)
(* agree, and with a paid request.                                          *)
CurrencyAgrees(q) ==
  LET budgets  == {budget[l].cur : l \in {m \in chain[q.scope] : Active(m)}}
      declared == (budgets \cup {Definition[l].cur : l \in chain[q.scope]}
                   \cup {q.limits.cur}) \ {XXX}
  IN /\ \A c, d \in declared : c = d
     /\ q.amount > 0 => declared \subseteq {q.cur}

PaidWorkConfigured(q) ==
  q.amount > 0 =>
    /\ q.cur # XXX
    /\ Active(Installation)
    /\ budget[Installation].cur # XXX
    /\ budget[Installation].spend > 0

ChargeableIgnoresUnknown(l, q) ==
  /\ EnsuredCur(l, q) \in {XXX, q.cur}
  /\ (q.amount > 0 /\ SpendCap(l, q) # NoCap) =>
       pos[l].spent + pos[l].reserved + q.amount <= SpendCap(l, q)
  /\ SlotCap(l, q) # NoCap => pos[l].slots + 1 <= SlotCap(l, q)

ChargeableOffByOne(l, q) ==
  /\ EnsuredCur(l, q) \in {XXX, q.cur}
  /\ (q.amount > 0 /\ SpendCap(l, q) # NoCap) =>
       Exposure(pos[l]) + q.amount <= SpendCap(l, q)
  /\ SlotCap(l, q) # NoCap => pos[l].slots <= SlotCap(l, q)

(* chargeLevel's checks.  The exposure of a zero amount is not checked. *)
Chargeable(l, q) ==
  /\ EnsuredCur(l, q) \in {XXX, q.cur}
  /\ (q.amount > 0 /\ SpendCap(l, q) # NoCap) =>
       Exposure(pos[l]) + q.amount <= SpendCap(l, q)
  /\ SlotCap(l, q) # NoCap => pos[l].slots + 1 <= SlotCap(l, q)

Charged(l, q) ==
  [cur |-> EnsuredCur(l, q), spent |-> pos[l].spent,
   reserved |-> pos[l].reserved + q.amount, unknown |-> pos[l].unknown,
   estimated |-> pos[l].estimated, slots |-> pos[l].slots + 1]

Raised(old, cap) == IF old = NoCap \/ cap = NoCap THEN NoCap
                    ELSE IF cap > old THEN cap ELSE old

Raise(l, q) ==
  [spend |-> IF q.amount > 0 THEN Raised(granted[l].spend, SpendCap(l, q))
             ELSE granted[l].spend,
   slots |-> Raised(granted[l].slots, SlotCap(l, q))]

(* No row replays this operation id. *)
Fresh(o) == resv[o].state = "none"

Reserve(o, q) ==
  /\ Fresh(o)
  /\ PaidWorkConfigured(q)
  /\ CurrencyAgrees(q)
  /\ \A l \in LevelsOf(q) : Chargeable(l, q)
  /\ pos' = [l \in Levels |-> IF l \in LevelsOf(q) THEN Charged(l, q) ELSE pos[l]]
  /\ resv' = [resv EXCEPT ![o] =
       [state |-> "reserved", version |-> 1, amount |-> q.amount, cur |-> q.cur,
        request |-> q, levels |-> LevelsOf(q), usage |-> ZeroUsage]]
  /\ ledger' = [ledger EXCEPT ![o].reserved = q.amount]
  /\ granted' = [l \in Levels |-> IF l \in LevelsOf(q) THEN Raise(l, q) ELSE granted[l]]
  /\ UNCHANGED <<budget, chain, overrun>>

(* A repeated operation id with the same request returns the row it finds. *)
ReserveReplay(o, q) ==
  /\ ~Fresh(o)
  /\ resv[o].request = q
  /\ UNCHANGED vars

--------------------------------------------------------------------------------
(* Settle *)

Plus(p, d) ==
  [cur |-> p.cur, spent |-> p.spent + d.spent, reserved |-> p.reserved + d.reserved,
   unknown |-> p.unknown + d.unknown, estimated |-> p.estimated + d.estimated,
   slots |-> p.slots + d.slots]

(* applyPositionDeltas refuses to drive a counter negative. *)
NotNegative(p, d) ==
  /\ p.spent + d.spent >= 0
  /\ p.reserved + d.reserved >= 0
  /\ p.unknown + d.unknown >= 0
  /\ p.estimated + d.estimated >= 0
  /\ p.slots + d.slots >= 0

(* The ledger entries of one settlement, one per movement. *)
Entered(o, u, nonexecution) ==
  LET r  == resv[o]
      d  == SettleDeltas(r, u, nonexecution)
      to == SettledState(r, u, nonexecution)
      e  == ledger[o]
  IN [reserved  |-> e.reserved,
      spent     |-> e.spent + d.spent,
      estimated |-> e.estimated + d.estimated,
      unknown   |-> e.unknown + (IF to = "unknown" THEN u.unknown ELSE 0),
      released  |-> e.released + ReleasedEntry(r, u, nonexecution)]

(* How far a report exceeds what the row still held. *)
Excess(r, u, nonexecution) ==
  LET d == SettleDeltas(r, u, nonexecution)
      e == d.spent + d.reserved + d.unknown
  IN IF e > 0 THEN e ELSE 0

ChargedNow(r) == LevelsOf(r.request)

(* Settlement reverses the positions recorded with the row, whatever the   *)
(* scope resolves to by then.                                              *)
ChargedLevels(r) == r.levels

(* A report may also book amounts in the code for no currency: the handler  *)
(* asks only that a nonzero report be in the reservation's own currency.    *)
Settle(o, version, u, nonexecution) ==
  LET r == resv[o]
      d == SettleDeltas(r, u, nonexecution)
  IN /\ SettleApplies(r, version, u, nonexecution)
     /\ \A l \in ChargedLevels(r) : NotNegative(pos[l], d)
     /\ pos' = [l \in Levels |-> IF l \in ChargedLevels(r) THEN Plus(pos[l], d) ELSE pos[l]]
     /\ resv' = [resv EXCEPT ![o] = SettledRow(r, u, nonexecution)]
     /\ ledger' = [ledger EXCEPT ![o] = Entered(o, u, nonexecution)]
     /\ overrun' = [l \in Levels |-> IF l \in ChargedLevels(r)
                       THEN overrun[l] + Excess(r, u, nonexecution) ELSE overrun[l]]
     /\ UNCHANGED <<budget, chain, granted>>

SettleReplay(o, u) ==
  /\ SettleReplays(resv[o], u)
  /\ UNCHANGED vars

Next ==
  \/ \E l \in BudgetLevels, limits \in BudgetLimits : BudgetCreate(l, limits)
  \/ \E l \in BudgetLevels, limits \in BudgetLimits, v \in 0..MaxBudgetVersion :
       \/ BudgetUpdate(l, v, limits)
       \/ BudgetArchive(l, v, limits)
  \/ \E s \in Scopes, c \in Chains : Reconfigure(s, c)
  \/ \E o \in Operations, q \in Requests : Reserve(o, q) \/ ReserveReplay(o, q)
  \/ \E o \in Operations, u \in Usages :
       \/ \E v \in 1..2, nonexecution \in BOOLEAN : Settle(o, v, u, nonexecution)
       \/ SettleReplay(o, u)

Spec == Init /\ [][Next]_vars

--------------------------------------------------------------------------------
(* Properties *)

(* Every column keeps its type: no counter of a position or of the ledger  *)
(* is ever negative (the CHECK constraints of accounting_positions).       *)
TypeOK ==
  /\ budget \in [Levels -> [state : {"absent", "active", "archived"},
                            version : Nat, spend : Nat, slots : Nat, cur : Currencies]]
  /\ chain \in [Scopes -> Chains]
  /\ pos \in [Levels -> Position]
  /\ resv \in [Operations -> Row]
  /\ ledger \in [Operations -> Entries]
  /\ granted \in [Levels -> [spend : Nat, slots : Nat]]
  /\ overrun \in [Levels -> Nat]

Charging(l) == {o \in Operations : l \in resv[o].levels}

LiveCharging(l) == {o \in Charging(l) : Live(resv[o])}

(* handleReserve and handleSettle: the concurrency a position shows is the *)
(* number of live reservations that charged it.  A slot is neither leaked  *)
(* nor returned twice, also when the outcome stays unknown.                *)
SlotsBalance == \A l \in Levels : pos[l].slots = Cardinality(LiveCharging(l))

NoShare == [reserved |-> 0, unknown |-> 0, spent |-> 0, estimated |-> 0]

(* What a reservation claims of a position it charged. *)
Share(o, l) ==
  IF l \in resv[o].levels
  THEN [reserved  |-> IF resv[o].state = "reserved" THEN resv[o].amount ELSE 0,
        unknown   |-> IF resv[o].state = "unknown" THEN resv[o].usage.unknown ELSE 0,
        spent     |-> ledger[o].spent,
        estimated |-> ledger[o].estimated]
  ELSE NoShare

(* settleDeltas: each money column of a position is the sum over the       *)
(* reservations that charged it -- bounds still reserved, amounts still    *)
(* unknown, and what the ledger booked as spent and estimated -- although  *)
(* scopes move to other ancestors between reserve and settle.              *)
PositionsBalance ==
  \A l \in Levels :
    /\ pos[l].reserved = SumFunction([o \in Operations |-> Share(o, l).reserved])
    /\ pos[l].unknown = SumFunction([o \in Operations |-> Share(o, l).unknown])
    /\ pos[l].spent = SumFunction([o \in Operations |-> Share(o, l).spent])
    /\ pos[l].estimated = SumFunction([o \in Operations |-> Share(o, l).estimated])

(* chargeLevel: the enforceable exposure of a position (spent, reserved and *)
(* unknown) never passes the largest spend ceiling a paid reservation was   *)
(* admitted under, except by what usage reports themselves exceeded their   *)
(* bounds by.                                                               *)
ExposureWithinCeiling ==
  \A l \in Levels :
    granted[l].spend # NoCap =>
      Exposure(pos[l]) <= granted[l].spend + overrun[l]

(* chargeLevel: the live attempts at a position never pass the largest      *)
(* concurrency ceiling a reservation was admitted under.                    *)
SlotsWithinCeiling ==
  \A l \in Levels :
    granted[l].slots # NoCap => pos[l].slots <= granted[l].slots

Carries(o, l) == Share(o, l) # NoShare

Paid(o) == resv[o].amount > 0

(* ensurePosition and chargeLevel: while a position carries an amount of a  *)
(* paid reservation, its currency stays the reservation's own or the code   *)
(* for no currency -- it is never repinned to another one, although reports *)
(* in no currency keep an XXX position from being pinned and although       *)
(* budgets change their currency in between.                                *)
CurrencyPinned ==
  \A o \in Operations : \A l \in resv[o].levels :
    Paid(o) /\ Carries(o, l) => pos[l].cur \in {resv[o].cur, XXX}

Greater(a, b) == IF a > b THEN a ELSE b

(* settleToSettled, settleUnknown, resolveSettled, resolveReleased: once a  *)
(* reservation is terminal without advisory usage, every unit it ever held  *)
(* is booked as spent or released, and no more is released than was held.   *)
LedgerCloses ==
  \A o \in Operations :
    LET held == Greater(ledger[o].reserved, ledger[o].unknown)
    IN /\ ledger[o].released <= held
       /\ (Terminal(resv[o]) /\ ~resv[o].usage.advisory) =>
            ledger[o].spent + ledger[o].released >= held

(* applyPositionDeltas: its refusal to drive a counter negative never keeps *)
(* a live reservation from being settled by a report the handler accepts.   *)
SettlementNeverStuck ==
  \A o \in Operations, u \in Usages, nonexecution \in BOOLEAN :
    SettleApplies(resv[o], resv[o].version, u, nonexecution) =>
      \A l \in resv[o].levels :
        NotNegative(pos[l], SettleDeltas(resv[o], u, nonexecution))

(* handleSettle and handleReserve: a terminal reservation and its ledger    *)
(* entries are never rewritten, by a late report or by a repeated request.  *)
TerminalFrozen ==
  [][\A o \in Operations :
       Terminal(resv[o]) => resv'[o] = resv[o] /\ ledger'[o] = ledger[o]]_vars

================================================================================
