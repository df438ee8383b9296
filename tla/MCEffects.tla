------------------------------- MODULE MCEffects -------------------------------
(* One operation of the effects owner, free or paid, with every caller able *)
(* to call every handler at any time.                                       *)
EXTENDS Effects

Report(spent, unknown, advisory) ==
  [spent |-> spent, estimated |-> 0, unknown |-> unknown, advisory |-> advisory]

(* Nothing charged, and an amount the adapter leaves unknown                *)
(* (adapters/responses/evidence.go, usageFor).                              *)
MCUsages == {ZeroUsage, Report(0, 2, TRUE)}

================================================================================
