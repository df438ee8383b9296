-------------------------------- MODULE OneShot --------------------------------
(***************************************************************************)
(* What the controller and the effects owner promise together for every    *)
(* governed operation (internal/controller/doc.go, perform.go): the        *)
(* provider is called at most once, an operation that was given up as      *)
(* never sent is never sent afterwards, and a conclusion is final.         *)
(***************************************************************************)
EXTENDS Naturals

CONSTANT Operations

VARIABLES
  sent,     \* provider calls made for the operation
  verdict   \* what is durably concluded about it

Verdicts == {"open", "unsent", "succeeded", "failed"}

Init ==
  /\ sent = [o \in Operations |-> 0]
  /\ verdict = [o \in Operations |-> "open"]

(* The call may still leave after somebody concluded from other evidence,   *)
(* but never after the operation was given up as unsent.                    *)
Send(o) ==
  /\ sent[o] = 0
  /\ verdict[o] # "unsent"
  /\ sent' = [sent EXCEPT ![o] = 1]
  /\ UNCHANGED verdict

Conclude(o, v) ==
  /\ verdict[o] = "open"
  /\ v = "unsent" => sent[o] = 0
  /\ verdict' = [verdict EXCEPT ![o] = v]
  /\ UNCHANGED sent

Next ==
  \E o \in Operations :
    \/ Send(o)
    \/ \E v \in Verdicts \ {"open"} : Conclude(o, v)

Spec == Init /\ [][Next]_<<sent, verdict>>

================================================================================
