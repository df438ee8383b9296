------------------------------ MODULE MCDispatch -------------------------------
(* One operation under controllers that lose answers, fail to write their   *)
(* journal and displace each other.                                         *)
EXTENDS Dispatch

(* Adapters report nothing charged; the controller's own reports leave the  *)
(* whole bound unknown.                                                     *)
NothingCharged == {ZeroUsage}

================================================================================
