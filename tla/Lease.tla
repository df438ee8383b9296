--------------------------------- MODULE Lease ---------------------------------
(***************************************************************************)
(* What a claim on a run promises, without controllers, clocks, tasks or   *)
(* verifiers: a run has at most one holder, a holder that lost the run is  *)
(* spent, and no spent holder ever holds a run again.  Execution           *)
(* implements it with attempts for holders.                                *)
(***************************************************************************)
EXTENDS Integers

CONSTANTS Runs, Holders

VARIABLES
  holder,  \* per run, the attempt that holds it, or 0
  spent    \* attempts that held a run and no longer do

lvars == <<holder, spent>>

LInit ==
  /\ holder = [r \in Runs |-> 0]
  /\ spent = {}

Grant(r, h) ==
  /\ holder[r] = 0
  /\ h \notin spent
  /\ \A q \in Runs : holder[q] # h
  /\ holder' = [holder EXCEPT ![r] = h]
  /\ UNCHANGED spent

\* One tick, one restart fence or one cancellation may end several leases.
End(S) ==
  /\ \A r \in S : holder[r] # 0
  /\ holder' = [r \in Runs |-> IF r \in S THEN 0 ELSE holder[r]]
  /\ spent' = spent \cup {holder[r] : r \in S}

LNext ==
  \/ \E r \in Runs, h \in Holders : Grant(r, h)
  \/ \E S \in (SUBSET Runs) \ {{}} : End(S)

LeaseSpec == LInit /\ [][LNext]_lvars
================================================================================
