--------------------------- MODULE SubmissionProofs ---------------------------
(***************************************************************************)
(* Proofs about one submission key, for any number of callers, inputs,     *)
(* replays, exchanges and crashes: the mutation commits at most once and   *)
(* is performed at most once, what a caller was told is so, and a retained *)
(* disposition stands.  SInv adds to these what a request at the server    *)
(* knows of the command and what a call knows of its exchanges.            *)
(***************************************************************************)
EXTENDS Submission, TLAPS

CallRow == [phase : Phases, waits : BOOLEAN, sent : 0 .. UnknownReplays + 2,
            dials : 0 .. ConnectAttempts - 1,
            out : Answers \cup {"none", "unavailable", "unknown"}]

Request == [stage : Stages, fault : Faults \cup {"none"}]

\* A request that accepted the command and has yet to finish it.
Busy(c, k) == req[c][k].stage \in {"performing", "finishing", "refusingFinish"}

\* The command row: it is there with its first disposition, only local IO
\* writes a second one, and no IO happens before the first.
CommandInv ==
  /\ cmd.status = "none" <=> cmd.dispositions = 0
  /\ cmd.dispositions = 2 => kind = "io"
  /\ cmd.dispositions = 0 => performed = 0

\* What an answer "accepted" says.
PendingOrKept == cmd.dispositions > 0 /\ (kind = "io" \/ cmd.status = "accepted")

\* A request at the server: an answer it holds is the command's, and the one
\* that performs the IO is alone and still owns the pending disposition.
RequestInv(c, k) ==
  /\ req[c][k].stage \in {"completed", "failed"} => cmd.status = req[c][k].stage
  /\ req[c][k].stage = "accepted" => PendingOrKept
  /\ Busy(c, k) => kind = "io" /\ Replaceable /\ cmd.input = input[c]
  /\ req[c][k].stage = "performing" => performed = 0

OneBusy ==
  \A c, d \in Callers : \A k, l \in Exchanges : Busy(c, k) /\ Busy(d, l) => c = d /\ k = l

\* A call: how many exchanges left in which phase, and no outcome before it is
\* done.
CallInv(c) ==
  /\ call[c].waits => call[c].phase \in {"dispatch", "replay", "final"} /\ call[c].sent > 0
  /\ call[c].phase # "done" => call[c].out = "none"
  /\ call[c].phase = "dispatch" => call[c].sent = IF call[c].waits THEN 1 ELSE 0
  /\ call[c].phase = "replay" =>
       call[c].sent <= UnknownReplays + (IF call[c].waits THEN 1 ELSE 0)
  /\ call[c].phase = "lookup" => call[c].sent <= UnknownReplays + 1
  /\ call[c].phase = "final" =>
       call[c].sent <= UnknownReplays + 1 + (IF call[c].waits THEN 1 ELSE 0)

SInv ==
  /\ STypeOK
  /\ CommandInv
  /\ \A c \in Callers : CallInv(c)
  /\ \A c \in Callers, k \in Exchanges : RequestInv(c, k)
  /\ OneBusy
  /\ AppliedOnce
  /\ ToldIsTrue

------------------------------------------------------------------------------
(* Rows                                                                     *)

(* One field of a call's row is set. *)
LEMMA CallRowFields ==
  ASSUME NEW r \in CallRow
  PROVE  /\ \A p \in Phases : [r EXCEPT !.phase = p] \in CallRow
         /\ \A w \in BOOLEAN : [r EXCEPT !.waits = w] \in CallRow
         /\ \A n \in 0 .. UnknownReplays + 2 : [r EXCEPT !.sent = n] \in CallRow
         /\ \A n \in 0 .. ConnectAttempts - 1 : [r EXCEPT !.dials = n] \in CallRow
         /\ \A x \in Answers \cup {"none", "unavailable", "unknown"} :
              [r EXCEPT !.out = x] \in CallRow
BY DEF CallRow

(* The bounds of a call: connection attempts and exchanges. *)
LEMMA CallType ==
  ASSUME SInv
  PROVE  /\ call \in [Callers -> CallRow]
         /\ \A c \in Callers : /\ call[c].dials \in 0 .. ConnectAttempts - 1
                               /\ call[c].sent \in 0 .. UnknownReplays + 2
BY DEF SInv, STypeOK, CallRow

------------------------------------------------------------------------------
(* Steps of the client                                                      *)

\* A step that leaves the command, the counters and the requests that matter
\* alone keeps all of SInv but the types and the calls.
LEMMA CommandUntouched ==
  ASSUME SInv, UNCHANGED <<kind, input, cmd, applied, performed>>,
         \A c \in Callers, k \in Exchanges :
           req'[c][k] = req[c][k] \/ req'[c][k].stage \in {"none", "sent", "gone"}
  PROVE  /\ CommandInv'
         /\ \A c \in Callers, k \in Exchanges : RequestInv(c, k)'
         /\ OneBusy'
         /\ AppliedOnce'
<1>1. \A c \in Callers, k \in Exchanges : Busy(c, k)' => Busy(c, k)
  BY DEF Busy
<1>2. \A c \in Callers, k \in Exchanges : RequestInv(c, k)'
  BY <1>1 DEF SInv, RequestInv, Busy, PendingOrKept, Replaceable
<1>3. OneBusy'
  BY <1>1 DEF SInv, OneBusy
<1> QED
  BY <1>2, <1>3 DEF SInv, CommandInv, AppliedOnce, Committed

\* attempt.
LEMMA SendKeeps ==
  ASSUME SInv, NEW c \in Callers, Send(c)
  PROVE  SInv'
<1> USE SubmissionAssumption
<1>1. call[c].sent + 1 \in Exchanges /\ call[c].sent + 1 \in 0 .. UnknownReplays + 2
  BY DEF SInv, STypeOK, CallInv, Send, Waiting, Exchanges
<1>2. STypeOK'
  <2>1. call' \in [Callers -> CallRow]
    <3>1. 0 \in 0 .. ConnectAttempts - 1
      OBVIOUS
    <3> QED
      BY <1>1, <3>1, CallType, CallRowFields DEF Send
  <2>2. req' \in [Callers -> [Exchanges -> Request]]
    BY <1>1, SMTT(30) DEF SInv, STypeOK, Send, Stages, Request
  <2> QED
    BY <2>1, <2>2 DEF SInv, STypeOK, Send, CallRow, Request
<1>3. \A d \in Callers : CallInv(d)'
  BY <1>1 DEF SInv, STypeOK, CallInv, Send, Waiting
<1>4. \A d \in Callers, k \in Exchanges :
        req'[d][k] = req[d][k] \/ req'[d][k].stage = "sent"
  BY <1>1 DEF SInv, STypeOK, Send
<1>5. ToldIsTrue'
  BY DEF SInv, STypeOK, ToldIsTrue, CallInv, Send
<1> QED
  BY <1>2, <1>3, <1>4, <1>5, CommandUntouched DEF Send, SInv

\* A call that ends, or moves to another phase without an exchange.
LEMMA CallEndsKeeps ==
  ASSUME SInv, NEW c \in Callers,
         NEW out \in Answers \cup {"unavailable", "unknown"}, Ends(c, out),
         out \in {"completed", "failed"} => cmd.status = out,
         out = "accepted" => PendingOrKept,
         out = "unavailable" => call[c].sent = 0,
         UNCHANGED <<kind, cmd>>
  PROVE  /\ call' \in [Callers -> CallRow]
         /\ \A d \in Callers : CallInv(d)'
         /\ ToldIsTrue'
<1>1. call' \in [Callers -> CallRow]
  BY CallType, CallRowFields DEF Ends, Phases
<1>2. \A d \in Callers : CallInv(d)'
  BY DEF SInv, STypeOK, Ends, CallInv
<1>3. ToldIsTrue'
  BY DEF SInv, STypeOK, Ends, ToldIsTrue, PendingOrKept
<1> QED
  BY <1>1, <1>2, <1>3

\* failureNotSent.
LEMMA NotSentKeeps ==
  ASSUME SInv, NEW c \in Callers, NotSent(c)
  PROVE  SInv'
<1> USE SubmissionAssumption
<1>1. /\ call' \in [Callers -> CallRow]
      /\ \A d \in Callers : CallInv(d)'
      /\ ToldIsTrue'
  <2>1. CASE call[c].phase = "dispatch" /\ call[c].dials + 1 = ConnectAttempts
    <3>1. Ends(c, "unavailable") /\ call[c].sent = 0
      BY <2>1 DEF NotSent, SInv, CallInv, Waiting
    <3> QED
      BY <3>1, CallEndsKeeps DEF NotSent
  <2>2. CASE call[c].phase = "dispatch" /\ call[c].dials + 1 # ConnectAttempts
    <3>1. call' = [call EXCEPT ![c].dials = @ + 1]
      BY <2>2 DEF NotSent
    <3>2. call[c].dials + 1 \in 0 .. ConnectAttempts - 1
      BY <2>2, CallType
    <3>3. call' \in [Callers -> CallRow]
      BY <3>1, <3>2, CallType, CallRowFields
    <3>4. \A d \in Callers : CallInv(d)'
      BY <3>1 DEF SInv, STypeOK, CallInv
    <3>5. ToldIsTrue'
      BY <3>1 DEF SInv, STypeOK, ToldIsTrue, NotSent
    <3> QED
      BY <3>3, <3>4, <3>5
  <2>3. CASE call[c].phase = "replay"
    <3>1. call' = [call EXCEPT ![c].phase = "lookup"] /\ ~call[c].waits
      BY <2>3 DEF NotSent, Waiting
    <3>2. call' \in [Callers -> CallRow]
      BY <3>1, CallType, CallRowFields DEF Phases
    <3>3. \A d \in Callers : CallInv(d)'
      BY <3>1, <2>3 DEF SInv, STypeOK, CallInv
    <3>4. ToldIsTrue'
      BY <3>1 DEF SInv, STypeOK, ToldIsTrue, NotSent
    <3> QED
      BY <3>2, <3>3, <3>4
  <2>4. CASE call[c].phase = "final"
    <3>1. Ends(c, "unknown")
      BY <2>4 DEF NotSent
    <3> QED
      BY <3>1, CallEndsKeeps DEF NotSent
  <2> QED
    BY <2>1, <2>2, <2>3, <2>4 DEF NotSent, SInv, STypeOK, Phases
<1>2. STypeOK'
  BY <1>1 DEF SInv, STypeOK, NotSent, CallRow
<1> QED
  BY <1>1, <1>2, CommandUntouched DEF NotSent, SInv

\* The exchange's request after its answer was read or dropped.
LEMMA RequestGone ==
  ASSUME SInv, NEW c \in Callers, NEW k \in Exchanges,
         req' = [req EXCEPT ![c][k] = [NoRequest EXCEPT !.stage = "gone"]]
  PROVE  /\ req' \in [Callers -> [Exchanges -> Request]]
         /\ \A d \in Callers, j \in Exchanges :
              req'[d][j] = req[d][j] \/ req'[d][j].stage = "gone"
<1>1. [NoRequest EXCEPT !.stage = "gone"] \in Request
  BY DEF NoRequest, Request, Stages
<1>2. [NoRequest EXCEPT !.stage = "gone"].stage = "gone"
  BY DEF NoRequest
<1> QED
  BY <1>1, <1>2 DEF SInv, STypeOK, Request

\* A waiting call's exchange.
LEMMA SentExchange ==
  ASSUME SInv, NEW c \in Callers, Waiting(c)
  PROVE  call[c].sent \in Exchanges
BY SubmissionAssumption DEF SInv, STypeOK, CallInv, Waiting, Exchanges

\* A well-formed envelope.
LEMMA AnsweredKeeps ==
  ASSUME SInv, NEW c \in Callers, Answered(c)
  PROVE  SInv'
<1> DEFINE k == call[c].sent
<1>1. k \in Exchanges
  BY SentExchange DEF Answered
<1>2. /\ req[c][k].stage \in {"completed", "failed"} => cmd.status = req[c][k].stage
      /\ req[c][k].stage = "accepted" => PendingOrKept
  BY <1>1 DEF SInv, RequestInv
<1>3. /\ call' \in [Callers -> CallRow]
      /\ \A d \in Callers : CallInv(d)'
      /\ ToldIsTrue'
  BY <1>1, <1>2, CallEndsKeeps DEF Answered, Answers
<1>4. /\ req' \in [Callers -> [Exchanges -> Request]]
      /\ \A d \in Callers, j \in Exchanges :
           req'[d][j] = req[d][j] \/ req'[d][j].stage = "gone"
  BY <1>1, RequestGone DEF Answered
<1>5. STypeOK'
  BY <1>3, <1>4 DEF SInv, STypeOK, Answered, CallRow, Request
<1> QED
  BY <1>3, <1>4, <1>5, CommandUntouched DEF Answered, SInv

\* failureUnknown.
LEMMA LostExchangeKeeps ==
  ASSUME SInv, NEW c \in Callers, LostExchange(c)
  PROVE  SInv'
<1> USE SubmissionAssumption
<1>1. call[c].sent \in Exchanges
  BY SentExchange DEF LostExchange
<1>2. call[c].phase \in {"dispatch", "replay", "final"} /\ call[c].waits
  BY DEF SInv, CallInv, LostExchange, Waiting
<1>3. /\ call' \in [Callers -> CallRow]
      /\ \A d \in Callers : CallInv(d)'
      /\ ToldIsTrue'
  <2>1. CASE call[c].phase = "final"
    <3>1. Ends(c, "unknown")
      BY <2>1 DEF LostExchange, AfterLost, Ends
    <3> QED
      BY <3>1, CallEndsKeeps DEF LostExchange
  <2>2. CASE call[c].phase \in {"dispatch", "replay"}
    <3> DEFINE to == IF call[c].sent <= UnknownReplays THEN "replay" ELSE "lookup"
    <3>1. call' = [call EXCEPT ![c].waits = FALSE, ![c].phase = to]
      BY <2>2 DEF LostExchange, AfterLost
    <3>2. /\ to = "replay" => call[c].sent <= UnknownReplays
          /\ call[c].sent <= UnknownReplays + 1
          /\ to \in {"replay", "lookup"}
      BY <1>2, <2>2 DEF SInv, STypeOK, CallInv
    <3> HIDE DEF to
    <3>3. call' \in [Callers -> CallRow]
      BY <3>1, <3>2, CallType, CallRowFields DEF Phases
    <3>4. \A d \in Callers : CallInv(d)'
      BY <3>1, <3>2, <2>2 DEF SInv, STypeOK, CallInv
    <3>5. ToldIsTrue'
      BY <3>1 DEF SInv, STypeOK, ToldIsTrue, LostExchange
    <3> QED
      BY <3>3, <3>4, <3>5
  <2> QED
    BY <1>2, <2>1, <2>2
<1>4. /\ req' \in [Callers -> [Exchanges -> Request]]
      /\ \A d \in Callers, j \in Exchanges :
           req'[d][j] = req[d][j] \/ req'[d][j].stage = "gone"
  BY <1>1, RequestGone DEF LostExchange, SInv, STypeOK, Request
<1>5. STypeOK'
  BY <1>3, <1>4 DEF SInv, STypeOK, LostExchange, CallRow, Request
<1> QED
  BY <1>3, <1>4, <1>5, CommandUntouched DEF LostExchange, SInv

\* resolveByLookup.
LEMMA LookupKeeps ==
  ASSUME SInv, NEW c \in Callers, Lookup(c)
  PROVE  SInv'
<1>1. /\ call' \in [Callers -> CallRow]
      /\ \A d \in Callers : CallInv(d)'
      /\ ToldIsTrue'
  <2>1. CASE Ends(c, "unknown")
    BY <2>1, CallEndsKeeps DEF Lookup
  <2>2. CASE cmd.dispositions > 0 /\ Ends(c, cmd.status)
    <3>1. /\ cmd.status \in Status
          /\ cmd.status = "accepted" => PendingOrKept
      BY <2>2 DEF SInv, STypeOK, CommandInv, Status, PendingOrKept
    <3> QED
      BY <2>2, <3>1, CallEndsKeeps DEF Lookup, Status, Answers
  <2>3. CASE call' = [call EXCEPT ![c].phase = "final"]
    <3>1. call' \in [Callers -> CallRow]
      BY <2>3, CallType, CallRowFields DEF Phases
    <3>2. \A d \in Callers : CallInv(d)'
      BY <2>3, SubmissionAssumption DEF SInv, STypeOK, CallInv, Lookup
    <3>3. ToldIsTrue'
      BY <2>3 DEF SInv, STypeOK, ToldIsTrue, Lookup
    <3> QED
      BY <3>1, <3>2, <3>3
  <2> QED
    BY <2>1, <2>2, <2>3 DEF Lookup
<1>2. STypeOK'
  BY <1>1 DEF SInv, STypeOK, Lookup, CallRow
<1> QED
  BY <1>1, <1>2, CommandUntouched DEF Lookup, SInv

\* The caller's context ends.
LEMMA GiveUpKeeps ==
  ASSUME SInv, NEW c \in Callers, GiveUp(c)
  PROVE  SInv'
<1>1. /\ call' \in [Callers -> CallRow]
      /\ \A d \in Callers : CallInv(d)'
      /\ ToldIsTrue'
  <2>1. CASE call[c].phase = "dispatch" /\ ~Waiting(c)
    <3>1. Ends(c, "unavailable") /\ call[c].sent = 0
      BY <2>1 DEF GiveUp, SInv, CallInv, Waiting
    <3> QED
      BY <3>1, CallEndsKeeps DEF GiveUp
  <2>2. CASE ~(call[c].phase = "dispatch" /\ ~Waiting(c))
    <3>1. Ends(c, "unknown")
      BY <2>2 DEF GiveUp
    <3> QED
      BY <3>1, CallEndsKeeps DEF GiveUp
  <2> QED
    BY <2>1, <2>2
<1>2. STypeOK'
  BY <1>1 DEF SInv, STypeOK, GiveUp, CallRow
<1> QED
  BY <1>1, <1>2, CommandUntouched DEF GiveUp, SInv

------------------------------------------------------------------------------
(* Steps of the server                                                      *)

\* Every step of the server replaces one request and leaves the calls alone.
RequestStep(c, k, r) ==
  /\ req' = [req EXCEPT ![c][k] = r]
  /\ UNCHANGED <<kind, input, call, crashes>>

(* A step of one request leaves the others and the calls alone. *)
LEMMA RequestStepTypes ==
  ASSUME SInv, NEW c \in Callers, NEW k \in Exchanges, NEW r \in Request, RequestStep(c, k, r)
  PROVE  /\ req' \in [Callers -> [Exchanges -> Request]]
         /\ req'[c][k] = r
         /\ \A d \in Callers, j \in Exchanges : (d # c \/ j # k) => req'[d][j] = req[d][j]
         /\ \A d \in Callers : CallInv(d)'
<1>1. req \in [Callers -> [Exchanges -> Request]]
  BY DEF SInv, STypeOK, Request
<1>2. \A d \in Callers : CallInv(d)'
  BY DEF SInv, CallInv, RequestStep
<1> QED
  BY <1>1, <1>2 DEF RequestStep

\* Reply: the answer, or nothing when nobody waits for it.
LEMMA ReplyStep ==
  ASSUME SInv, NEW c \in Callers, NEW k \in Exchanges, NEW answer \in Answers,
         Reply(c, k, answer), UNCHANGED <<kind, input, call, crashes>>
  PROVE  \E r \in Request : RequestStep(c, k, r) /\ r.stage \in {answer, "gone"}
<1> DEFINE r == [NoRequest EXCEPT !.stage = IF Waiting(c) /\ call[c].sent = k THEN answer ELSE "gone"]
<1>1. r \in Request /\ r.stage \in {answer, "gone"}
  BY DEF NoRequest, Request, Stages, Answers
<1>2. RequestStep(c, k, r)
  BY DEF Reply, RequestStep
<1> HIDE DEF r
<1> QED
  BY <1>1, <1>2

\* Continue.
LEMMA ContinueStep ==
  ASSUME SInv, NEW c \in Callers, NEW k \in Exchanges, NEW stage \in Stages,
         NEW fault \in Faults \cup {"none"}, Continue(c, k, stage, fault),
         UNCHANGED <<kind, input, call, crashes>>
  PROVE  \E r \in Request : RequestStep(c, k, r) /\ r.stage = stage
<1> DEFINE r == [stage |-> stage, fault |-> fault]
<1>1. r \in Request /\ r.stage = stage
  BY DEF Request
<1>2. RequestStep(c, k, r)
  BY DEF Continue, RequestStep
<1> HIDE DEF r
<1> QED
  BY <1>1, <1>2

\* A step of one request that leaves the command alone: what the request says
\* afterwards agrees with the command, and it is busy only if it was.
LEMMA CommandStays ==
  ASSUME SInv, NEW c \in Callers, NEW k \in Exchanges, NEW r \in Request,
         RequestStep(c, k, r), UNCHANGED <<cmd, applied, performed>>,
         r.stage \in {"completed", "failed"} => cmd.status = r.stage,
         r.stage = "accepted" => PendingOrKept,
         r.stage \in {"finishing", "refusingFinish"} => Busy(c, k),
         r.stage # "performing"
  PROVE  SInv'
<1>1. /\ req' \in [Callers -> [Exchanges -> Request]]
      /\ req'[c][k] = r
      /\ \A d \in Callers, j \in Exchanges : (d # c \/ j # k) => req'[d][j] = req[d][j]
      /\ \A d \in Callers : CallInv(d)'
  BY RequestStepTypes
<1>2. UNCHANGED <<kind, input, call, crashes>>
  BY DEF RequestStep
<1>3. STypeOK'
  BY <1>1, <1>2 DEF SInv, STypeOK, Request
<1>4. \A d \in Callers, j \in Exchanges : Busy(d, j)' => Busy(d, j)
  BY <1>1 DEF Busy
<1>5. \A d \in Callers, j \in Exchanges : RequestInv(d, j)'
  <2> SUFFICES ASSUME NEW d \in Callers, NEW j \in Exchanges
               PROVE  RequestInv(d, j)'
    OBVIOUS
  <2>1. CASE d = c /\ j = k
    BY <1>1, <1>2, <1>4, <2>1 DEF SInv, RequestInv, PendingOrKept, Replaceable
  <2>2. CASE d # c \/ j # k
    BY <1>1, <1>2, <1>4, <2>2 DEF SInv, RequestInv, PendingOrKept, Replaceable
  <2> QED
    BY <2>1, <2>2
<1>6. OneBusy'
  BY <1>4 DEF SInv, OneBusy
<1>7. CommandInv' /\ AppliedOnce' /\ ToldIsTrue'
  BY <1>2 DEF SInv, CommandInv, AppliedOnce, Committed, ToldIsTrue
<1> QED
  BY <1>1, <1>3, <1>5, <1>6, <1>7 DEF SInv

\* A step that retains a disposition: the first one, or the one with which the
\* busy request replaces the pending one.  The mutation's state change commits
\* with a success, except with the pending disposition itself.
LEMMA CommandMoves ==
  ASSUME SInv, NEW c \in Callers, NEW k \in Exchanges, NEW r \in Request,
         NEW status \in Status, NEW fault \in Faults \cup {"none"},
         NEW pending \in BOOLEAN,
         RequestStep(c, k, r), Finished(input[c], status, fault),
         cmd.dispositions = 0 \/ (Busy(c, k) /\ ~pending),
         pending => kind = "io" /\ status = "accepted",
         (~pending /\ cmd.dispositions = 0 /\ status = "accepted") => kind = "plain",
         applied' = IF status \in Successes /\ ~pending
                    THEN [applied EXCEPT ![input[c]] = @ + 1] ELSE applied,
         r.stage \in {status, "gone"} \/ (pending /\ r.stage = "performing"),
         UNCHANGED performed
  PROVE  SInv'
<1>1. /\ req' \in [Callers -> [Exchanges -> Request]]
      /\ req'[c][k] = r
      /\ \A d \in Callers, j \in Exchanges : (d # c \/ j # k) => req'[d][j] = req[d][j]
      /\ \A d \in Callers : CallInv(d)'
  BY RequestStepTypes
<1>2. UNCHANGED <<kind, input, call, crashes>>
  BY DEF RequestStep
<1>3. /\ input[c] \in Inputs /\ kind \in {"plain", "io"}
      /\ cmd.status \in {"none", "accepted"}
      /\ \/ cmd.dispositions = 0 /\ cmd.status = "none"
         \/ cmd.dispositions = 1 /\ Busy(c, k) /\ ~pending /\ kind = "io" /\ cmd.status = "accepted"
      /\ ~Committed
  BY SubmissionAssumption DEF SInv, STypeOK, CommandInv, RequestInv, Replaceable, Committed
<1>4. /\ cmd'.status = status /\ cmd'.input = input[c] /\ cmd'.fault = fault
      /\ cmd'.dispositions = cmd.dispositions + 1
      /\ cmd' = [status |-> status, fault |-> fault, input |-> input[c],
                 dispositions |-> cmd.dispositions + 1]
  BY DEF Finished
<1>5. \A i \in Inputs : applied[i] = 0
  BY <1>3 DEF SInv, AppliedOnce
<1>6. STypeOK'
  <2>1. cmd' \in [status: Status \cup {"none"}, fault: Faults \cup {"none"},
                  input: Inputs \cup {"none"}, dispositions: 0..2]
    BY <1>3, <1>4
  <2>2. applied' \in [Inputs -> Nat]
    BY <1>3 DEF SInv, STypeOK
  <2> QED
    BY <1>1, <1>2, <2>1, <2>2 DEF SInv, STypeOK, Request
<1>7. CommandInv'
  BY <1>2, <1>3, <1>4 DEF SInv, CommandInv, Status
<1>8. \A d \in Callers, j \in Exchanges : (d # c \/ j # k) => ~Busy(d, j)'
  <2> SUFFICES ASSUME NEW d \in Callers, NEW j \in Exchanges, d # c \/ j # k
               PROVE  ~Busy(d, j)
    BY <1>1 DEF Busy
  <2>1. CASE cmd.dispositions = 0
    BY <2>1 DEF SInv, RequestInv, Replaceable
  <2>2. CASE cmd.dispositions = 1
    BY <1>3, <2>2 DEF SInv, OneBusy
  <2> QED
    BY <1>3, <2>1, <2>2
<1>9. \A d \in Callers, j \in Exchanges : RequestInv(d, j)'
  <2> SUFFICES ASSUME NEW d \in Callers, NEW j \in Exchanges
               PROVE  RequestInv(d, j)'
    OBVIOUS
  <2>1. CASE d = c /\ j = k
    <3>1. r.stage = "performing" => performed = 0 /\ pending /\ cmd.dispositions = 0
      BY <1>3 DEF SInv, CommandInv, Status
    <3>2. r.stage \in {"completed", "failed"} => status = r.stage
      BY DEF Status
    <3>3. r.stage = "accepted" => status = "accepted"
      BY DEF Status
    <3>4. r.stage \notin {"finishing", "refusingFinish"}
      BY DEF Status
    <3>5. cmd'.dispositions > 0
      BY <1>3, <1>4
    <3>6. Busy(c, k)' => r.stage = "performing"
      BY <1>1, <3>4 DEF Busy
    <3>7. (req[c][k].stage = "accepted" => PendingOrKept)'
      BY <1>1, <1>4, <3>3, <3>5 DEF PendingOrKept
    <3>8. (Busy(c, k) => kind = "io" /\ Replaceable /\ cmd.input = input[c])'
      BY <1>2, <1>3, <1>4, <3>1, <3>6 DEF Replaceable
    <3> QED
      BY <1>1, <1>4, <2>1, <3>1, <3>2, <3>7, <3>8 DEF RequestInv
  <2>2. CASE d # c \/ j # k
    <3>1. req[d][j].stage \notin {"completed", "failed"}
      BY <1>3 DEF SInv, RequestInv
    <3>2. req[d][j].stage = "accepted" => kind = "io" /\ cmd'.dispositions > 0
      BY <1>3, <1>4 DEF SInv, RequestInv, PendingOrKept
    <3>3. ~Busy(d, j)' /\ req'[d][j] = req[d][j]
      BY <1>1, <1>8, <2>2
    <3>4. (req[d][j].stage = "accepted" => PendingOrKept)'
      BY <1>2, <3>2, <3>3 DEF PendingOrKept
    <3> QED
      BY <3>1, <3>3, <3>4 DEF RequestInv, Busy
  <2> QED
    BY <2>1, <2>2
<1>10. OneBusy'
  BY <1>8 DEF OneBusy
<1>11. AppliedOnce'
  <2>1. Committed' <=> status \in Successes /\ ~pending
    BY <1>2, <1>3, <1>4 DEF Committed, Successes, Status
  <2> QED
    BY <1>3, <1>4, <1>5, <2>1 DEF SInv, STypeOK, AppliedOnce
<1>12. ToldIsTrue'
  BY <1>2, <1>3, <1>4 DEF SInv, ToldIsTrue
<1> QED
  BY <1>1, <1>6, <1>7, <1>9, <1>10, <1>11, <1>12 DEF SInv

\* The bytes never made it.
LEMMA LoseRequestKeeps ==
  ASSUME SInv, NEW c \in Callers, NEW k \in Exchanges, LoseRequest(c, k)
  PROVE  SInv'
<1>1. PICK r \in Request : RequestStep(c, k, r) /\ r.stage = "gone"
  BY ContinueStep DEF LoseRequest, Stages
<1> QED
  BY <1>1, CommandStays DEF LoseRequest

\* The gates.
LEMMA GateRefusesKeeps ==
  ASSUME SInv, NEW c \in Callers, NEW k \in Exchanges, GateRefuses(c, k)
  PROVE  SInv'
<1>1. PICK r \in Request : RequestStep(c, k, r) /\ r.stage \in {"fault", "gone", "refusing"}
  BY ContinueStep, ReplyStep DEF GateRefuses, Stages, Answers, Faults
<1> QED
  BY <1>1, CommandStays DEF GateRefuses

\* commandBegin and the handler or Prepare behind it.
LEMMA BeginKeeps ==
  ASSUME SInv, NEW c \in Callers, NEW k \in Exchanges, Begin(c, k)
  PROVE  SInv'
<1> DEFINE answer == IF cmd.input = input[c] THEN cmd.status ELSE "fault"
<1>0. UNCHANGED <<kind, input, call, performed, crashes>>
  BY DEF Begin
<1>1. CASE Replays
  <2>1. Reply(c, k, answer) /\ UNCHANGED <<cmd, applied>>
    BY <1>1 DEF Begin
  <2>2. /\ cmd.dispositions > 0
        /\ answer \in Answers
        /\ answer \in {"completed", "failed"} => cmd.status = answer
        /\ answer = "accepted" => PendingOrKept
    BY <1>1 DEF Replays, SInv, STypeOK, CommandInv, Status, Answers, PendingOrKept
  <2> HIDE DEF answer
  <2>3. PICK r \in Request : RequestStep(c, k, r) /\ r.stage \in {answer, "gone"}
    BY <1>0, <2>1, <2>2, ReplyStep
  <2> QED
    BY <1>0, <2>1, <2>2, <2>3, CommandStays DEF Answers
<1>2. CASE /\ ~Replays /\ kind = "plain"
           /\ \E s \in Successes : Finished(input[c], s, "none") /\ Reply(c, k, s)
           /\ applied' = [applied EXCEPT ![input[c]] = @ + 1]
  <2>0. PICK s \in Successes : Finished(input[c], s, "none") /\ Reply(c, k, s)
    BY <1>2
  <2>1. PICK r \in Request : RequestStep(c, k, r) /\ r.stage \in {s, "gone"}
    BY <1>0, <2>0, ReplyStep DEF Answers, Successes
  <2>2. cmd.dispositions = 0 /\ s \in Status
    BY <1>2 DEF Replays, SInv, STypeOK, Status, Successes
  <2> QED
    BY <1>0, <1>2, <2>0, <2>1, <2>2, CommandMoves
<1>3. CASE /\ ~Replays /\ kind = "io"
           /\ Finished(input[c], "accepted", "none")
           /\ Continue(c, k, "performing", "none")
           /\ UNCHANGED applied
  <2>1. PICK r \in Request : RequestStep(c, k, r) /\ r.stage = "performing"
    BY <1>0, <1>3, ContinueStep DEF Stages
  <2>2. cmd.dispositions = 0 /\ "accepted" \in Status
    BY <1>3 DEF Replays, SInv, STypeOK, Status
  <2>3. applied' = IF "accepted" \in Successes /\ ~TRUE
                   THEN [applied EXCEPT ![input[c]] = @ + 1] ELSE applied
    BY <1>3
  <2> QED
    BY <1>0, <1>3, <2>1, <2>2, <2>3, CommandMoves
<1>4. CASE /\ Reply(c, k, "fault") \/ Continue(c, k, "refusing", "handler")
           /\ UNCHANGED <<cmd, applied>>
  <2>1. PICK r \in Request : RequestStep(c, k, r) /\ r.stage \in {"fault", "gone", "refusing"}
    BY <1>0, <1>4, ContinueStep, ReplyStep DEF Stages, Answers, Faults
  <2> QED
    BY <1>0, <1>4, <2>1, CommandStays
<1> QED
  BY <1>1, <1>2, <1>3, <1>4 DEF Begin

\* recordRefusal.
LEMMA RecordRefusalKeeps ==
  ASSUME SInv, NEW c \in Callers, NEW k \in Exchanges, RecordRefusal(c, k)
  PROVE  SInv'
<1>0. /\ UNCHANGED <<kind, input, call, applied, performed, crashes>>
      /\ req[c][k].fault \in Faults \cup {"none"}
  BY DEF RecordRefusal, SInv, STypeOK
<1>1. CASE /\ cmd.dispositions = 0
           /\ Finished(input[c], "failed", req[c][k].fault)
           /\ Reply(c, k, "failed")
  <2>1. PICK r \in Request : RequestStep(c, k, r) /\ r.stage \in {"failed", "gone"}
    BY <1>0, <1>1, ReplyStep DEF Answers
  <2> QED
    BY <1>0, <1>1, <2>1, CommandMoves DEF Status, Successes
<1>2. CASE SameRefusal(c, k) /\ Reply(c, k, "failed") /\ UNCHANGED cmd
  <2>1. PICK r \in Request : RequestStep(c, k, r) /\ r.stage \in {"failed", "gone"}
    BY <1>0, <1>2, ReplyStep DEF Answers
  <2> QED
    BY <1>0, <1>2, <2>1, CommandStays DEF SameRefusal
<1>3. CASE Reply(c, k, "fault") /\ UNCHANGED cmd
  <2>1. PICK r \in Request : RequestStep(c, k, r) /\ r.stage \in {"fault", "gone"}
    BY <1>0, <1>3, ReplyStep DEF Answers
  <2> QED
    BY <1>0, <1>3, <2>1, CommandStays
<1> QED
  BY <1>1, <1>2, <1>3 DEF RecordRefusal

\* performIO: the one request that may perform has not performed yet.
LEMMA PerformKeeps ==
  ASSUME SInv, NEW c \in Callers, NEW k \in Exchanges, Perform(c, k)
  PROVE  SInv'
<1>0. UNCHANGED <<kind, input, call, cmd, applied, crashes>> /\ performed' = performed + 1
  BY DEF Perform
<1>1. PICK r \in Request : RequestStep(c, k, r) /\ r.stage = "finishing"
  BY <1>0, ContinueStep DEF Perform, Stages, Faults
<1>2. /\ req' \in [Callers -> [Exchanges -> Request]]
      /\ req'[c][k] = r
      /\ \A d \in Callers, j \in Exchanges : (d # c \/ j # k) => req'[d][j] = req[d][j]
      /\ \A d \in Callers : CallInv(d)'
  BY <1>1, RequestStepTypes
<1>3. Busy(c, k) /\ performed = 0 /\ cmd.status = "accepted" /\ cmd.dispositions = 1
  BY DEF Perform, Busy, SInv, RequestInv, Replaceable
<1>4. \A d \in Callers, j \in Exchanges : Busy(d, j)' => d = c /\ j = k
  BY <1>2, <1>3 DEF SInv, OneBusy, Busy
<1>5. STypeOK'
  BY <1>0, <1>2, <1>3 DEF SInv, STypeOK, Request
<1>6. \A d \in Callers, j \in Exchanges : RequestInv(d, j)'
  <2> SUFFICES ASSUME NEW d \in Callers, NEW j \in Exchanges
               PROVE  RequestInv(d, j)'
    OBVIOUS
  <2>1. CASE d = c /\ j = k
    BY <1>0, <1>1, <1>2, <1>3, <2>1 DEF SInv, RequestInv, Busy, Replaceable
  <2>2. CASE d # c \/ j # k
    BY <1>0, <1>2, <1>4, <2>2 DEF SInv, RequestInv, Busy, PendingOrKept
  <2> QED
    BY <2>1, <2>2
<1>7. OneBusy'
  BY <1>4 DEF OneBusy
<1>8. CommandInv' /\ AppliedOnce' /\ ToldIsTrue'
  BY <1>0, <1>3 DEF SInv, CommandInv, AppliedOnce, Committed, ToldIsTrue
<1> QED
  BY <1>2, <1>5, <1>6, <1>7, <1>8 DEF SInv

\* The second transaction of a local IO mutation.
LEMMA FinishKeeps ==
  ASSUME SInv, NEW c \in Callers, NEW k \in Exchanges, Finish(c, k)
  PROVE  SInv'
<1> DEFINE f == req[c][k].fault
           possible == IF f = "none" THEN Successes ELSE {"failed"}
<1>0. /\ UNCHANGED <<kind, input, call, performed, crashes>>
      /\ f \in Faults \cup {"none"}
      /\ Busy(c, k)
  BY DEF Finish, SInv, STypeOK, Busy
<1>1. CASE /\ Replaceable
           /\ \E s \in possible : Finished(input[c], s, f) /\ Reply(c, k, s)
           /\ applied' = IF f = "none" THEN [applied EXCEPT ![input[c]] = @ + 1] ELSE applied
  <2>1. PICK s \in possible : Finished(input[c], s, f) /\ Reply(c, k, s)
    BY <1>1
  <2>2. /\ s \in Status /\ s \in Answers
        /\ s \in Successes <=> f = "none"
    BY DEF Successes, Status, Answers
  <2>3. applied' = IF s \in Successes /\ ~FALSE THEN [applied EXCEPT ![input[c]] = @ + 1] ELSE applied
    BY <1>1, <2>2
  <2>4. cmd.dispositions # 0
    BY <1>1 DEF Replaceable
  <2> HIDE DEF f, possible
  <2>5. PICK r \in Request : RequestStep(c, k, r) /\ r.stage \in {s, "gone"}
    BY <1>0, <2>1, <2>2, ReplyStep
  <2> QED
    BY <1>0, <2>1, <2>2, <2>3, <2>4, <2>5, CommandMoves
<1>2. CASE /\ \/ \E g \in {"gate", "handler"} : Continue(c, k, "refusingFinish", g)
              \/ Reply(c, k, "fault")
           /\ UNCHANGED <<cmd, applied>>
  <2>1. PICK r \in Request : RequestStep(c, k, r) /\ r.stage \in {"fault", "gone", "refusingFinish"}
    BY <1>0, <1>2, ContinueStep, ReplyStep DEF Stages, Answers, Faults
  <2> QED
    BY <1>0, <1>2, <2>1, CommandStays
<1> QED
  BY <1>1, <1>2 DEF Finish

\* refusedFinish.
LEMMA RefuseFinishKeeps ==
  ASSUME SInv, NEW c \in Callers, NEW k \in Exchanges, RefuseFinish(c, k)
  PROVE  SInv'
<1>0. /\ UNCHANGED <<kind, input, call, applied, performed, crashes>>
      /\ req[c][k].fault \in Faults \cup {"none"}
      /\ Busy(c, k)
  BY DEF RefuseFinish, SInv, STypeOK, Busy
<1>1. CASE Replaceable /\ Finished(input[c], "failed", req[c][k].fault) /\ Reply(c, k, "failed")
  <2>1. PICK r \in Request : RequestStep(c, k, r) /\ r.stage \in {"failed", "gone"}
    BY <1>0, <1>1, ReplyStep DEF Answers
  <2> QED
    BY <1>0, <1>1, <2>1, CommandMoves DEF Status, Successes
<1>2. CASE Reply(c, k, "fault") /\ UNCHANGED cmd
  <2>1. PICK r \in Request : RequestStep(c, k, r) /\ r.stage \in {"fault", "gone"}
    BY <1>0, <1>2, ReplyStep DEF Answers
  <2> QED
    BY <1>0, <1>2, <2>1, CommandStays
<1> QED
  BY <1>1, <1>2 DEF RefuseFinish

\* The process ends.
LEMMA CrashKeeps ==
  ASSUME SInv, Crash
  PROVE  SInv'
<1>1. \A c \in Callers, k \in Exchanges :
        req'[c][k] \in Request /\ req'[c][k].stage \in {"none", "gone"}
  <2> SUFFICES ASSUME NEW c \in Callers, NEW k \in Exchanges
               PROVE  req'[c][k] \in Request /\ req'[c][k].stage \in {"none", "gone"}
    OBVIOUS
  <2>1. req'[c][k] = IF req[c][k].stage = "none" THEN NoRequest
                     ELSE [NoRequest EXCEPT !.stage = "gone"]
    BY DEF Crash
  <2> QED
    BY <2>1 DEF NoRequest, Request, Stages
<1>2. req' \in [Callers -> [Exchanges -> Request]]
  <2>1. req' = [c \in Callers |-> [k \in Exchanges |-> req'[c][k]]]
    BY DEF Crash
  <2> QED
    BY <1>1, <2>1
<1>3. crashes' \in 0..MaxCrashes
  BY SubmissionAssumption DEF Crash, SInv, STypeOK
<1>4. STypeOK'
  BY <1>2, <1>3 DEF SInv, STypeOK, Crash, Request
<1>5. (\A d \in Callers : CallInv(d)') /\ ToldIsTrue'
  BY DEF SInv, CallInv, ToldIsTrue, Crash
<1> QED
  BY <1>1, <1>4, <1>5, CommandUntouched DEF Crash, SInv

------------------------------------------------------------------------------
(* Theorems                                                                 *)

(* The invariant holds initially. *)
LEMMA SInitKeeps ==
  ASSUME SInit
  PROVE  SInv
<1> USE SubmissionAssumption
<1>1. \A c \in Callers, k \in Exchanges : req[c][k] = NoRequest
  BY DEF SInit
<1>2. \A c \in Callers : call[c] = [phase |-> "dispatch", waits |-> FALSE, sent |-> 0,
                                    dials |-> 0, out |-> "none"]
  BY DEF SInit
<1>3. STypeOK
  <2>1. req \in [Callers -> [Exchanges -> Request]]
    BY DEF SInit, NoRequest, Request, Stages
  <2>2. cmd \in [status: Status \cup {"none"}, fault: Faults \cup {"none"},
                 input: Inputs \cup {"none"}, dispositions: 0..2]
    BY DEF SInit, NoCommand
  <2>3. call \in [Callers -> CallRow]
    BY DEF SInit, CallRow, Phases
  <2> QED
    BY <2>1, <2>2, <2>3 DEF SInit, STypeOK, CallRow, Request
<1>4. CommandInv /\ AppliedOnce
  BY DEF SInit, CommandInv, AppliedOnce, Committed, NoCommand
<1>5. (\A c \in Callers : CallInv(c)) /\ ToldIsTrue
  BY <1>2 DEF CallInv, ToldIsTrue
<1>6. (\A c \in Callers, k \in Exchanges : RequestInv(c, k)) /\ OneBusy
  BY <1>1 DEF RequestInv, OneBusy, Busy, NoRequest
<1> QED
  BY <1>3, <1>4, <1>5, <1>6 DEF SInv

(* Every step keeps the invariant. *)
LEMMA SNextKeeps ==
  ASSUME SInv, [SNext]_svars
  PROVE  SInv'
<1>1. ASSUME NEW c \in Callers, ClientStep(c)
      PROVE  SInv'
  BY <1>1, SendKeeps, NotSentKeeps, AnsweredKeeps, LostExchangeKeeps, LookupKeeps, GiveUpKeeps
     DEF ClientStep
<1>2. ASSUME NEW c \in Callers, NEW k \in Exchanges, ServerStep(c, k)
      PROVE  SInv'
  BY <1>2, LoseRequestKeeps, GateRefusesKeeps, BeginKeeps, RecordRefusalKeeps, PerformKeeps,
     FinishKeeps, RefuseFinishKeeps DEF ServerStep
<1>3. CASE UNCHANGED svars
  BY <1>3 DEF svars, SInv, STypeOK, CommandInv, CallInv, RequestInv, Busy, OneBusy, AppliedOnce,
              Committed, ToldIsTrue, PendingOrKept, Replaceable
<1> QED
  BY <1>1, <1>2, <1>3, CrashKeeps DEF SNext

(* SInv is an invariant of Submission. *)
LEMMA SubmissionInvariant == SSpec => []SInv
<1>1. SInit => SInv
  BY SInitKeeps
<1>2. SInv /\ [SNext]_svars => SInv'
  BY SNextKeeps
<1> QED
  BY <1>1, <1>2, PTL DEF SSpec

\* The rows keep their types.
THEOREM SubmissionTypes == SSpec => []STypeOK
<1>1. SInv => STypeOK
  BY DEF SInv
<1> QED
  BY <1>1, SubmissionInvariant, PTL

\* Any number of callers, replays and crashes commit the mutation at most once,
\* exactly when the disposition the key retains says so -- completed, or accepted
\* with a job -- and perform its IO at most once (commandBegin, invokeMutation,
\* invokeIOMutation).
THEOREM CommitsOnce == SSpec => []AppliedOnce
<1>1. SInv => AppliedOnce
  BY DEF SInv
<1> QED
  BY <1>1, SubmissionInvariant, PTL

\* No caller is told what the key does not retain (dispatch, resolveByLookup).
THEOREM CallersAreToldTheTruth == SSpec => []ToldIsTrue
<1>1. SInv => ToldIsTrue
  BY DEF SInv
<1> QED
  BY <1>1, SubmissionInvariant, PTL

\* A retained disposition is replaced only while it is the pending one of local
\* IO, and then for the same input (replacePendingCommand, recordRefusal).
LEMMA ReplacedOnlyPending ==
  ASSUME SInv, [SNext]_svars, cmd.dispositions > 0, cmd' # cmd
  PROVE  /\ kind = "io" /\ cmd.status = "accepted" /\ cmd.dispositions = 1
         /\ cmd'.dispositions = 2 /\ cmd'.input = cmd.input
<1>a. cmd.dispositions # 0
  BY DEF SInv, STypeOK
<1>b. \A c \in Callers : ~ClientStep(c)
  BY DEF ClientStep, Send, NotSent, Answered, LostExchange, Lookup, GiveUp
<1>c. ~Crash /\ ~UNCHANGED svars
  BY DEF Crash, svars
<1>d. \A c \in Callers, k \in Exchanges : ~RecordRefusal(c, k)
  BY <1>a DEF RecordRefusal
<1>e. \A c \in Callers, k \in Exchanges : ~Begin(c, k)
  BY DEF Begin, Replays
<1>f. \A c \in Callers, k \in Exchanges :
        ~LoseRequest(c, k) /\ ~GateRefuses(c, k) /\ ~Perform(c, k)
  BY DEF LoseRequest, GateRefuses, Perform
<1>1. PICK c \in Callers, k \in Exchanges : Finish(c, k) \/ RefuseFinish(c, k)
  BY <1>b, <1>c, <1>d, <1>e, <1>f DEF SNext, ServerStep
<1>2. Busy(c, k)
  BY <1>1 DEF Finish, RefuseFinish, Busy
<1>3. kind = "io" /\ cmd.status = "accepted" /\ cmd.dispositions = 1 /\ cmd.input = input[c]
  BY <1>2 DEF SInv, RequestInv, Replaceable
<1>4. \E s \in Status, f \in {req[c][k].fault} : Finished(input[c], s, f)
  BY <1>1 DEF Finish, RefuseFinish, Status, Successes
<1>5. cmd'.dispositions = 2 /\ cmd'.input = input[c]
  BY <1>3, <1>4 DEF Finished
<1> QED
  BY <1>3, <1>5

\* Once a key retains a disposition it stands, through replays, refusals and
\* crashes: only the pending one of local IO is replaced, once, and the
\* replacement, accepted or not, is final.
THEOREM DispositionsStand == SSpec => DispositionStands
<1>1. SInv /\ [SNext]_svars =>
        [cmd.dispositions > 0 /\ cmd' # cmd =>
           /\ kind = "io" /\ cmd.status = "accepted" /\ cmd.dispositions = 1
           /\ cmd'.dispositions = 2 /\ cmd'.input = cmd.input]_svars
  BY ReplacedOnlyPending
<1> QED
  BY <1>1, SubmissionInvariant, PTL DEF SSpec, DispositionStands

===============================================================================
