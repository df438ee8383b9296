------------------------------ MODULE Submission ------------------------------
(***************************************************************************)
(* One submission key of one principal and operation, from the client's    *)
(* call (internal/client) through the server and the application's command *)
(* replay (internal/application) to the retained command                   *)
(* (internal/evidence), for a plain mutation and for a local IO mutation.  *)
(* Several callers use the key at once, with the same or another input.    *)
(*                                                                         *)
(* Every write transaction of the application is one step.  The server     *)
(* detaches a request from its connection, so a request goes on, or still  *)
(* starts, after its caller stopped waiting; only the end of the process   *)
(* ends it.  A fault envelope carries a command identity whether or not a  *)
(* command is retained under it: the client cannot tell the answers        *)
(* "failed" (retained) and "fault" (nothing retained) apart.               *)
(***************************************************************************)
EXTENDS Integers, FiniteSets

CONSTANTS
  Callers,          \* client calls that use the key
  Inputs,           \* request digests
  Kinds,            \* what the operation may be: plain, io
  ConnectAttempts,  \* connection establishments a call tries
  UnknownReplays,   \* identical replays after a lost exchange
  MaxSent,          \* bound: exchanges of all callers whose bytes leave
  MaxCrashes        \* bound: ends of the server process

ASSUME SubmissionAssumption ==
  /\ Kinds \subseteq {"plain", "io"}
  /\ ConnectAttempts \in Nat \ {0}
  /\ UnknownReplays \in Nat
  /\ {MaxSent, MaxCrashes} \subseteq Nat

VARIABLES
  kind,      \* the operation's kind
  input,     \* per caller, the request it submits
  call,      \* per caller, its dispatch state
  req,       \* per caller and exchange, the request at the server
  cmd,       \* the command row of the key
  applied,   \* per input, how often the mutation's state change committed
  performed, \* how often the local IO was performed
  crashes

svars == <<kind, input, call, req, cmd, applied, performed, crashes>>

\* Refusals that are retained, by where they come from, and the fault of a
\* Perform, which is retained with the finish whatever its code.
Faults == {"gate", "handler", "perform"}

\* One exchange of dispatch, the replays, and the final submission.
Exchanges == 1 .. UnknownReplays + 2

Answers == {"completed", "accepted", "failed", "fault"}

NoRequest == [stage |-> "none", fault |-> "none"]

Stages == {"none", "sent", "refusing", "performing", "finishing", "refusingFinish", "gone"}
            \cup Answers

Status == {"accepted", "completed", "failed"}

NoCommand == [status |-> "none", fault |-> "none", input |-> "none", dispositions |-> 0]

Phases == {"dispatch", "replay", "lookup", "final", "done"}

------------------------------------------------------------------------------
(* The client.                                                               *)

Waiting(c) == call[c].waits

Ends(c, out) == call' = [call EXCEPT ![c].phase = "done", ![c].waits = FALSE, ![c].out = out]

\* attempt: the exchange's bytes leave.
Send(c) ==
  /\ call[c].phase \in {"dispatch", "replay", "final"}
  /\ ~Waiting(c)
  /\ Cardinality({q \in Callers \X Exchanges : req[q[1]][q[2]].stage # "none"}) < MaxSent
  /\ call' = [call EXCEPT ![c].waits = TRUE, ![c].sent = @ + 1, ![c].dials = 0]
  /\ req' = [req EXCEPT ![c][call[c].sent + 1].stage = "sent"]
  /\ UNCHANGED <<kind, input, cmd, applied, performed, crashes>>

\* failureNotSent: no connection.  A replay into a dead connection goes
\* straight to the lookup.
NotSent(c) ==
  /\ ~Waiting(c)
  /\ CASE call[c].phase = "dispatch" ->
            IF call[c].dials + 1 = ConnectAttempts THEN Ends(c, "unavailable")
            ELSE call' = [call EXCEPT ![c].dials = @ + 1]
       [] call[c].phase = "replay" -> call' = [call EXCEPT ![c].phase = "lookup"]
       [] call[c].phase = "final" -> Ends(c, "unknown")
       [] OTHER -> FALSE
  /\ UNCHANGED <<kind, input, req, cmd, applied, performed, crashes>>

\* A well-formed envelope ends the call, whatever it says.
Answered(c) ==
  /\ Waiting(c)
  /\ req[c][call[c].sent].stage \in Answers
  /\ Ends(c, req[c][call[c].sent].stage)
  /\ req' = [req EXCEPT ![c][call[c].sent] = [NoRequest EXCEPT !.stage = "gone"]]
  /\ UNCHANGED <<kind, input, cmd, applied, performed, crashes>>

AfterLost(c) ==
  LET tried == call[c].sent IN
  CASE call[c].phase \in {"dispatch", "replay"} ->
         [call EXCEPT ![c].waits = FALSE,
                      ![c].phase = IF tried <= UnknownReplays THEN "replay" ELSE "lookup"]
    [] call[c].phase = "final" ->
         [call EXCEPT ![c].waits = FALSE, ![c].phase = "done", ![c].out = "unknown"]

\* failureUnknown: the exchange timed out, broke or answered with something
\* else than an envelope.  The request may be lost, on its way or running.
LostExchange(c) ==
  /\ Waiting(c)
  /\ call' = AfterLost(c)
  /\ req' = IF req[c][call[c].sent].stage \in Answers
            THEN [req EXCEPT ![c][call[c].sent] = [NoRequest EXCEPT !.stage = "gone"]]
            ELSE req
  /\ UNCHANGED <<kind, input, cmd, applied, performed, crashes>>

\* Mutant: a command that is not found is replayed once more from the start.
LookupRestarts(c) ==
  /\ call[c].phase = "lookup"
  /\ IF cmd.dispositions > 0 THEN Ends(c, cmd.status)
     ELSE call' = [call EXCEPT ![c].phase = "replay", ![c].sent = 1]
  /\ UNCHANGED <<kind, input, req, cmd, applied, performed, crashes>>

\* resolveByLookup: command.get finds the command by its key, not by its
\* input, and its retained envelope is the call's; not_found licenses one
\* final submission; a lookup that fails leaves the outcome unknown.
Lookup(c) ==
  /\ call[c].phase = "lookup"
  /\ \/ IF cmd.dispositions > 0 THEN Ends(c, cmd.status)
        ELSE call' = [call EXCEPT ![c].phase = "final"]
     \/ Ends(c, "unknown")
  /\ UNCHANGED <<kind, input, req, cmd, applied, performed, crashes>>

\* The caller's context ends.  Only before the first byte is that
\* unavailability.
GiveUp(c) ==
  /\ call[c].phase # "done"
  /\ Ends(c, IF call[c].phase = "dispatch" /\ ~Waiting(c) THEN "unavailable" ELSE "unknown")
  /\ UNCHANGED <<kind, input, req, cmd, applied, performed, crashes>>

ClientStep(c) ==
  Send(c) \/ NotSent(c) \/ Answered(c) \/ LostExchange(c) \/ Lookup(c) \/ GiveUp(c)

------------------------------------------------------------------------------
(* The server.  An answer nobody waits for is dropped.                       *)

Reply(c, k, answer) ==
  req' = [req EXCEPT ![c][k] =
            [NoRequest EXCEPT !.stage = IF Waiting(c) /\ call[c].sent = k THEN answer ELSE "gone"]]

Continue(c, k, stage, fault) ==
  req' = [req EXCEPT ![c][k] = [stage |-> stage, fault |-> fault]]

\* The bytes never made it.
LoseRequest(c, k) ==
  /\ req[c][k].stage = "sent"
  /\ Continue(c, k, "gone", "none")
  /\ UNCHANGED <<kind, input, call, cmd, applied, performed, crashes>>

\* Mutant: only a final disposition is replayed.
ReplaysFinal == cmd.status \in {"completed", "failed"}

\* commandBegin finds the identity taken.
Replays == cmd.dispositions > 0

\* What a handler or Finish that commits answers with: accepted when it left a
\* job behind.
Successes == {"completed", "accepted"}

\* commandFinish: the first disposition, or the one that replaces the pending
\* one of local IO.
Finished(i, status, fault) ==
  cmd' = [status |-> status, fault |-> fault, input |-> i, dispositions |-> cmd.dispositions + 1]

Replaceable == cmd.status = "accepted" /\ cmd.dispositions = 1

\* Authentication, the closed application and transient faults of the gates
\* answer alone; a deterministic refusal of the gates is recorded.  Both
\* come before the command's replay.
GateRefuses(c, k) ==
  /\ req[c][k].stage = "sent"
  /\ Reply(c, k, "fault") \/ Continue(c, k, "refusing", "gate")
  /\ UNCHANGED <<kind, input, call, cmd, applied, performed, crashes>>

\* The first transaction of invokeMutation and invokeIOMutation: replay, a
\* submission conflict, or the handler respectively Prepare.
Begin(c, k) ==
  LET i == input[c] IN
  /\ req[c][k].stage = "sent"
  /\ IF Replays
     THEN /\ Reply(c, k, IF cmd.input = i THEN cmd.status ELSE "fault")
          /\ UNCHANGED <<cmd, applied>>
     ELSE \/ /\ kind = "plain"
             /\ \E s \in Successes : Finished(i, s, "none") /\ Reply(c, k, s)
             /\ applied' = [applied EXCEPT ![i] = @ + 1]
          \/ /\ kind = "io"
             /\ Finished(i, "accepted", "none")
             /\ Continue(c, k, "performing", "none")
             /\ UNCHANGED applied
          \/ /\ Reply(c, k, "fault") \/ Continue(c, k, "refusing", "handler")
             /\ UNCHANGED <<cmd, applied>>
  /\ UNCHANGED <<kind, input, call, performed, crashes>>

\* Mutant: any disposition of the same input passes for the refusal.
SameRefusalOfInput(c, k) == cmd.input = input[c]

SameRefusal(c, k) ==
  cmd.input = input[c] /\ cmd.status = "failed" /\ cmd.fault = req[c][k].fault

\* Mutant: the refusal is written over whatever the key holds by now.
RecordRefusalOverwrites(c, k) ==
  /\ req[c][k].stage = "refusing"
  /\ Finished(input[c], "failed", req[c][k].fault)
  /\ Reply(c, k, "failed")
  /\ UNCHANGED <<kind, input, call, applied, performed, crashes>>

\* recordRefusal: its own transaction after the rollback.  A duplicate that
\* took the identity meanwhile stands, and is named only when it is the very
\* same refusal; a write that fails leaves the fault alone.
RecordRefusal(c, k) ==
  /\ req[c][k].stage = "refusing"
  /\ \/ /\ cmd.dispositions = 0
        /\ Finished(input[c], "failed", req[c][k].fault)
        /\ Reply(c, k, "failed")
     \/ /\ cmd.dispositions > 0
        /\ Reply(c, k, IF SameRefusal(c, k) THEN "failed" ELSE "fault")
        /\ UNCHANGED cmd
     \/ Reply(c, k, "fault") /\ UNCHANGED cmd
  /\ UNCHANGED <<kind, input, call, applied, performed, crashes>>

\* performIO, outside any transaction.
Perform(c, k) ==
  /\ req[c][k].stage = "performing"
  /\ performed' = performed + 1
  /\ \E f \in {"none", "perform"} : Continue(c, k, "finishing", f)
  /\ UNCHANGED <<kind, input, call, cmd, applied, crashes>>

\* The second transaction: gates and Finish, then the final disposition, which
\* may be accepted again, with the reference of a job that goes on.  A
\* transient fault leaves the pending one.
Finish(c, k) ==
  LET f == req[c][k].fault IN
  /\ req[c][k].stage = "finishing"
  /\ \/ /\ Replaceable
        /\ \E s \in IF f = "none" THEN Successes ELSE {"failed"} :
             Finished(input[c], s, f) /\ Reply(c, k, s)
        /\ applied' = IF f = "none" THEN [applied EXCEPT ![input[c]] = @ + 1] ELSE applied
     \/ /\ \/ \E g \in {"gate", "handler"} : Continue(c, k, "refusingFinish", g)
           \/ Reply(c, k, "fault")
        /\ UNCHANGED <<cmd, applied>>
  /\ UNCHANGED <<kind, input, call, performed, crashes>>

\* refusedFinish: a deterministic refusal replaces the pending disposition.
RefuseFinish(c, k) ==
  /\ req[c][k].stage = "refusingFinish"
  /\ \/ Replaceable /\ Finished(input[c], "failed", req[c][k].fault) /\ Reply(c, k, "failed")
     \/ Reply(c, k, "fault") /\ UNCHANGED cmd
  /\ UNCHANGED <<kind, input, call, applied, performed, crashes>>

\* The process ends: every request it held is gone, and so are the answers
\* that were not read.
Crash ==
  /\ crashes < MaxCrashes
  /\ \E c \in Callers, k \in Exchanges : req[c][k].stage \notin {"none", "gone"}
  /\ crashes' = crashes + 1
  /\ req' = [c \in Callers |-> [k \in Exchanges |->
               IF req[c][k].stage = "none" THEN NoRequest ELSE [NoRequest EXCEPT !.stage = "gone"]]]
  /\ UNCHANGED <<kind, input, call, cmd, applied, performed>>

ServerStep(c, k) ==
  \/ LoseRequest(c, k) \/ GateRefuses(c, k) \/ Begin(c, k) \/ RecordRefusal(c, k)
  \/ Perform(c, k) \/ Finish(c, k) \/ RefuseFinish(c, k)

------------------------------------------------------------------------------
SInit ==
  /\ kind \in Kinds
  /\ input \in [Callers -> Inputs]
  /\ call = [c \in Callers |-> [phase |-> "dispatch", waits |-> FALSE, sent |-> 0,
                                dials |-> 0, out |-> "none"]]
  /\ req = [c \in Callers |-> [k \in Exchanges |-> NoRequest]]
  /\ cmd = NoCommand
  /\ applied = [i \in Inputs |-> 0]
  /\ performed = 0
  /\ crashes = 0

SNext ==
  \/ \E c \in Callers : ClientStep(c) \/ \E k \in Exchanges : ServerStep(c, k)
  \/ Crash

\* A call goes on: establishing a connection, the timeout of an exchange and
\* the lookup each end.  Nothing is assumed of the server.
SSpec == SInit /\ [][SNext]_svars /\ \A c \in Callers : WF_svars(ClientStep(c))

------------------------------------------------------------------------------
(* Properties.                                                               *)

\* The state's types.
STypeOK ==
  /\ kind \in Kinds
  /\ input \in [Callers -> Inputs]
  /\ call \in [Callers -> [phase: Phases, waits: BOOLEAN, sent: 0 .. UnknownReplays + 2,
                           dials: 0 .. ConnectAttempts - 1,
                           out: Answers \cup {"none", "unavailable", "unknown"}]]
  /\ req \in [Callers -> [Exchanges -> [stage: Stages, fault: Faults \cup {"none"}]]]
  /\ cmd \in [status: Status \cup {"none"}, fault: Faults \cup {"none"},
              input: Inputs \cup {"none"}, dispositions: 0..2]
  /\ applied \in [Inputs -> Nat]
  /\ performed \in Nat
  /\ crashes \in 0..MaxCrashes

\* The retained disposition is one its mutation's state change committed with:
\* completed, or accepted unless it is the pending one of local IO.
Committed ==
  \/ cmd.status = "completed"
  \/ cmd.status = "accepted" /\ (kind = "plain" \/ cmd.dispositions = 2)

\* However often the key is sent, replayed, refused in between or cut off by
\* a crash, the mutation commits at most once, exactly when the disposition
\* the key retains says so and for the input it retains, and local IO is
\* performed at most once (commandBegin, invokeMutation, invokeIOMutation).
AppliedOnce ==
  /\ \A i \in Inputs : applied[i] = IF Committed /\ cmd.input = i THEN 1 ELSE 0
  /\ performed <= 1

\* What a caller was told is so: completed and failed are the retained
\* disposition, accepted is the retained one or one local IO had pending, and
\* a controller is called unavailable only when nothing was ever sent.
ToldIsTrue ==
  \A c \in Callers :
    LET out == call[c].out IN
    /\ out \in {"completed", "failed"} => cmd.status = out
    /\ out = "accepted" => cmd.dispositions > 0 /\ (kind = "io" \/ cmd.status = "accepted")
    /\ out = "unavailable" => call[c].sent = 0

\* A retained disposition stands: only the pending one of local IO is ever
\* replaced, once and for the same input, and what replaced it -- accepted
\* with a job included -- is final (replacePendingCommand, recordRefusal).
DispositionStands ==
  [][cmd.dispositions > 0 /\ cmd' # cmd =>
       /\ kind = "io" /\ cmd.status = "accepted" /\ cmd.dispositions = 1
       /\ cmd'.dispositions = 2 /\ cmd'.input = cmd.input]_svars

\* Every call ends, with an answer or as unavailable or unknown: replay and
\* lookup do not lead back into each other (dispatch, resolveUnknown,
\* resolveByLookup).
CallEnds == \A c \in Callers : <>(call[c].phase = "done")

================================================================================
