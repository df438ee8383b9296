----------------------------- MODULE MCAccounting ------------------------------
(* A small instance of Accounting: one shared installation position, two    *)
(* organizations a scope can belong to, and one root task three operations  *)
(* share.                                                                   *)
EXTENDS Accounting, TLC

OperationSymmetry == Permutations(Operations)

MCLevels == {"inst", "orgA", "orgB", "root"}

MCChains == {{"inst", "orgA"}, {"inst", "orgB"}}

MCNoCap == 99

MCDefinition ==
  [l \in MCLevels |->
     IF l = "orgB" THEN [spend |-> MCNoCap, slots |-> 1, cur |-> "EUR"]
     ELSE [spend |-> MCNoCap, slots |-> MCNoCap, cur |-> "XXX"]]

MCDefaultSlots == [l \in MCLevels |-> IF l = "inst" THEN 2 ELSE MCNoCap]

Ask(amount, cur) ==
  [scope |-> "s", root |-> "root", amount |-> amount, cur |-> cur,
   limits |-> [spend |-> 3, slots |-> 0, cur |-> cur]]

MCRequests == {Ask(0, "XXX"), Ask(2, "EUR"), Ask(2, "USD")}

Report(spent, estimated, unknown, advisory) ==
  [spent |-> spent, estimated |-> estimated, unknown |-> unknown, advisory |-> advisory]

MCUsages ==
  {Report(0, 0, 0, FALSE), Report(1, 0, 0, FALSE), Report(3, 0, 0, FALSE),
   Report(1, 1, 0, TRUE), Report(1, 0, 1, FALSE)}

MCBudgetLimits ==
  {[spend |-> 3, slots |-> 2, cur |-> "EUR"], [spend |-> 2, slots |-> 0, cur |-> "USD"]}

================================================================================
