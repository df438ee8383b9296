------------------------------ MODULE Reservation ------------------------------
(***************************************************************************)
(* One accounting reservation row and what _accounting.settle does to it   *)
(* (internal/accounting/settle_ops.go).  A row is a record with at least   *)
(*   state    "none" (no row), "reserved", "unknown", "settled", "released"*)
(*   version  fenced by every settlement, incremented by every transition  *)
(*   amount   the bound that was reserved                                  *)
(*   usage    the usage report of the last settlement                      *)
(* The operators are pure, so that the module of the accounting owner and  *)
(* the module of the effects owner settle rows by the same rules.          *)
(***************************************************************************)
EXTENDS Integers

RowStates == {"none", "reserved", "unknown", "settled", "released"}

(* A usage report.  Its currency is the reservation's whenever an amount is *)
(* nonzero (the settle handler refuses any other), so it is left out.       *)
Usage == [spent : Nat, estimated : Nat, unknown : Nat, advisory : BOOLEAN]

ZeroUsage == [spent |-> 0, estimated |-> 0, unknown |-> 0, advisory |-> FALSE]

NonZero(u) == u.spent # 0 \/ u.estimated # 0 \/ u.unknown # 0

Terminal(r) == r.state \in {"settled", "released"}

(* The row holds a concurrency slot. *)
Live(r) == r.state \in {"reserved", "unknown"}

(* A terminal row answers an identical report with itself and writes nothing. *)
SettleReplays(r, u) == Terminal(r) /\ r.usage = u

SettleAppliesTerminal(r, version, u, nonexecution) ==
  /\ r.state # "none"
  /\ version = r.version
  /\ nonexecution => ~NonZero(u)

(* The settlement transitions the row; any other one is a fault. *)
SettleApplies(r, version, u, nonexecution) ==
  /\ Live(r)
  /\ version = r.version
  /\ nonexecution => ~NonZero(u)

(* Only a row that is still reserved retains an unknown amount; a row that *)
(* is already unknown is settled whatever the new report leaves unknown.   *)
SettledState(r, u, nonexecution) ==
  IF nonexecution THEN "released"
  ELSE IF r.state = "reserved" /\ u.unknown > 0 THEN "unknown"
  ELSE "settled"

SettledRow(r, u, nonexecution) ==
  [r EXCEPT !.state = SettledState(r, u, nonexecution),
            !.version = @ + 1,
            !.usage = u]

--------------------------------------------------------------------------------
(* What a settlement adds to every position the row charged. *)

(* Advisory usage is estimated as a whole and never backs a hard cap. *)
SpentOf(u) == IF u.advisory THEN 0 ELSE u.spent

EstimatedOf(u) == IF u.advisory THEN u.spent + u.estimated ELSE u.estimated

SettleDeltasSlotLeak(r, u, nonexecution) ==
  LET to == SettledState(r, u, nonexecution)
  IN [spent     |-> IF to = "settled" THEN SpentOf(u) ELSE 0,
      estimated |-> IF to = "settled" THEN EstimatedOf(u) ELSE 0,
      reserved  |-> IF r.state = "reserved" THEN -r.amount ELSE 0,
      unknown   |-> IF to = "unknown" THEN u.unknown
                    ELSE IF r.state = "unknown" THEN -r.usage.unknown ELSE 0,
      slots     |-> -1]

SettleDeltas(r, u, nonexecution) ==
  LET to == SettledState(r, u, nonexecution)
  IN [spent     |-> IF to = "settled" THEN SpentOf(u) ELSE 0,
      estimated |-> IF to = "settled" THEN EstimatedOf(u) ELSE 0,
      reserved  |-> IF r.state = "reserved" THEN -r.amount ELSE 0,
      unknown   |-> IF to = "unknown" THEN u.unknown
                    ELSE IF r.state = "unknown" THEN -r.usage.unknown ELSE 0,
      slots     |-> IF to = "unknown" THEN 0 ELSE -1]

ReleasedEntryUnguarded(r, u, nonexecution) ==
  (IF r.state = "reserved" THEN r.amount ELSE r.usage.unknown) - SpentOf(u)

ReleasedEntryOfBound(r, u, nonexecution) ==
  LET kept == IF SettledState(r, u, nonexecution) = "unknown" THEN u.unknown ELSE SpentOf(u)
  IN IF r.amount > kept THEN r.amount - kept ELSE 0

(* The exposure the settled row no longer claims, as its "released" entry. *)
ReleasedEntry(r, u, nonexecution) ==
  LET to   == SettledState(r, u, nonexecution)
      held == IF r.state = "reserved" THEN r.amount ELSE r.usage.unknown
      kept == IF to = "unknown" THEN u.unknown
              ELSE IF to = "released" THEN 0 ELSE SpentOf(u)
  IN IF r.state = "reserved" /\ to = "settled" /\ u.advisory THEN 0
     ELSE IF held > kept THEN held - kept ELSE 0

================================================================================
