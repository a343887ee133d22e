-------------------------- MODULE AdmissionClient --------------------------
(***************************************************************************)
(* The admission client (admission/client.go): Admit, Attest, Health and    *)
(* the two-phase Decide, called concurrently, against an edge that judges,  *)
(* fails, stops, restarts and rotates its token at any moment.              *)
(*                                                                          *)
(* A call c runs once.  pc[c] follows request():                            *)
(*   idle    not called yet                                                 *)
(*   enter   about to validate, encode and start its deadline               *)
(*   loop    at the top of the attempt loop                                 *)
(*   dial    token read, the exchange not yet on the wire                   *)
(*   wait    the request is on the wire                                     *)
(*   done    returned                                                       *)
(* Time is counted in ticks; Second of them make a second, so that the      *)
(* truncation of the hold budget to whole seconds is visible.               *)
(***************************************************************************)
EXTENDS Admission, Sequences

CONSTANTS
    Calls,          \* the calls that may be made
    Args,           \* what a call may ask: a set of Arg
    Configs,        \* the effective configurations: a set of Config
    Responses,      \* what the edge may answer an authorized request
    MaxToken,       \* bound on the number of tokens the edge mints
    AttestTimeout,  \* the deadline of POST /v1/attest, in ticks
    HoldMargin,     \* headroom over the hold budget, in ticks
    Second          \* ticks per second

(* decide is Decide, which waits up to the configured hold budget; capped is *)
(* DecideWithHoldBudget with .budget, possibly negative; admit is a direct   *)
(* Admit, whose .budget is hold_timeout_seconds (NoHold when nil).           *)
Ops == {"decide", "capped", "admit", "attest", "health"}
NoHold == -1

(* What becomes of the request body: refused by wire(), not serializable,    *)
(* over MaxRequestBytes, just under it (the longer hold_timeout_seconds of   *)
(* phase 2 no longer fits), or comfortably under it.  Attest validates       *)
(* nothing and sends strings and lists only; Health has no body.             *)
Payloads == {"invalid", "unserializable", "oversized", "borderline", "fits"}

Arg ==
    {a \in [op : Ops, payload : Payloads, budget : Int] :
        /\ a.op = "admit" => a.budget >= NoHold
        /\ a.op = "attest" => a.payload \in {"fits", "oversized"}
        /\ a.op = "health" => a.payload = "fits"}

(* addrOK: ValidateAddr accepted the address.  tokenFile: the configured     *)
(* path is empty, is the edge's file, or is a file the edge never honours.   *)
(* timeout, hold: Timeout and HoldTimeout, in ticks.                         *)
Config == [addrOK : BOOLEAN, tokenFile : {"unset", "edge", "foreign"},
           timeout : Nat, hold : Nat]

(* Tokens are numbered in the order the edge mints them. *)
Absent  == -1     \* no such file
Empty   == -2     \* the file is truncated and not yet written
NoToken == -3     \* the request carries no token header
Foreign == 0      \* a token this edge never minted

(* The caller's context, and the context of the current request. *)
CtxStates == {"live", "canceled", "deadline"}

ASSUME ArgsAssumption == Args \subseteq Arg
ASSUME ConfigsAssumption == Configs \subseteq Config
ASSUME ResponsesAssumption ==
    Responses \subseteq {r \in Response : r.status # 401}
ASSUME BoundsAssumption ==
    /\ MaxToken \in Nat \ {0}
    /\ AttestTimeout \in Nat /\ HoldMargin \in Nat /\ Second \in Nat \ {0}

VARIABLES
    cfg,        \* the client's configuration, fixed at construction
    edge,       \* "up", "rotating" (rewriting the token file) or "down"
    token,      \* the token the edge accepts
    file,       \* what the edge's token file holds
    request,    \* request[c]: what the edge holds of call c, {} or {request}
    reply,      \* reply[c]: the answer on its way to call c, {} or {answer}
    judged,     \* judged[c]: every answer other than 401 the edge gave call c
    arg,        \* arg[c]: what call c asks
    pc, phase, attempt,
    tok,        \* tok[c]: the token of the current attempt
    firstTok,   \* firstTok[c]: the token of the first attempt of this phase
    parent,     \* parent[c]: the caller's context
    ctx,        \* ctx[c]: the context of the current request
    timer,      \* timer[c]: ticks left to the current request
    elapsed,    \* elapsed[c]: ticks since the call was made
    result      \* result[c]: what the call returned

edgeVars == <<edge, token, file>>
wireVars == <<request, reply, judged>>
tokVars == <<tok, firstTok>>
timeVars == <<parent, ctx, timer, elapsed>>
vars == <<cfg, edgeVars, wireVars, arg, pc, phase, attempt, tokVars, timeVars, result>>

-----------------------------------------------------------------------------
NoResult == returned(NoDecision, NoErr)

Decides(c) == arg[c].op \in {"decide", "capped"}

Running(c) == pc[c] \notin {"idle", "done"}

(* Mutant: the caller's budget is not capped by the configuration. *)
holdBudgetUncapped(c) ==
    IF arg[c].op = "decide" THEN cfg.hold
    ELSE IF arg[c].budget < 0 THEN 0 ELSE arg[c].budget

(* decide, DecideWithHoldBudget: the budget may be lowered, never raised. *)
holdBudget(c) ==
    IF arg[c].op = "decide" \/ arg[c].budget > cfg.hold THEN cfg.hold
    ELSE IF arg[c].budget < 0 THEN 0 ELSE arg[c].budget

(* Mutant: the budget is rounded up. *)
holdSecondsUp(c) == (holdBudget(c) + Second - 1) \div Second

(* int(budget / time.Second) *)
holdSeconds(c) == holdBudget(c) \div Second

(* The hold_timeout_seconds on the wire. *)
holdField(c) ==
    CASE arg[c].op = "admit" -> arg[c].budget
      [] Decides(c) /\ phase[c] = 2 -> holdSeconds(c)
      [] OTHER -> 0

requestTimeout(c) ==
    CASE arg[c].op = "attest" -> AttestTimeout
      [] Decides(c) /\ phase[c] = 2 -> holdSeconds(c) * Second + HoldMargin
      [] OTHER -> cfg.timeout

(* Request.wire, then the cfgErr check, then encode: the first that refuses. *)
tooLarge(c) ==
    arg[c].payload = "oversized" \/ (arg[c].payload = "borderline" /\ phase[c] = 2)
refusal(c) ==
    IF arg[c].payload = "invalid" THEN "protocol"
    ELSE IF ~cfg.addrOK THEN "config"
    ELSE IF arg[c].payload = "unserializable" THEN "protocol"
    ELSE IF tooLarge(c) THEN "payload_too_large" ELSE NoErr

(* contextError *)
contextError(c) == IF ctx[c] = "deadline" THEN "timeout" ELSE "canceled"

(* transportError: an ended context explains the failure; a dial that hit   *)
(* the deadline an instant before the context did is a timeout as well.     *)
transportErrors(c) ==
    IF ctx[c] # "live" THEN {contextError(c)}
    ELSE IF timer[c] = 0 THEN {"timeout", "unreachable"} ELSE {"unreachable"}

(* Mutant: the retry presents the token the first attempt read. *)
tokenReadOnce(c) ==
    IF attempt[c] = 2 THEN tok[c] ELSE IF cfg.tokenFile = "edge" THEN file ELSE Foreign

(* readToken: what the configured file holds now, and the error that means. *)
tokenRead(c) == IF cfg.tokenFile = "edge" THEN file ELSE Foreign
tokenError(c) ==
    IF cfg.tokenFile = "unset" THEN "config"
    ELSE IF tokenRead(c) \in {Absent, Empty} THEN "unreachable" ELSE NoErr

(* Mutant: a 401 is retried for as long as the deadline allows. *)
mayRetryForever(c) == ctx[c] = "live"

(* request: exactly one retry of a 401, with time left. *)
mayRetry(c) == attempt[c] = 1 /\ ctx[c] = "live"

-----------------------------------------------------------------------------
(* The call returns v. *)
Return(c, v) ==
    /\ pc' = [pc EXCEPT ![c] = "done"]
    /\ result' = [result EXCEPT ![c] = v]
    /\ UNCHANGED <<phase, attempt>>

(* Mutant: every decision of phase 1 is followed by the waiting request. *)
StartsHoldAlways(c, d, err) ==
    Decides(c) /\ phase[c] = 1 /\ err = NoErr /\ holdSeconds(c) > 0

(* decide: a held answer with a whole second of budget left to wait starts  *)
(* phase 2.                                                                 *)
StartsHold(c, d, err) ==
    Decides(c) /\ phase[c] = 1 /\ err = NoErr /\ d = "held" /\ holdSeconds(c) > 0

StartHold(c) ==
    /\ pc' = [pc EXCEPT ![c] = "enter"]
    /\ phase' = [phase EXCEPT ![c] = 2]
    /\ UNCHANGED <<attempt, result>>

(* What the caller gets when request() and parsing end in (d, err). *)
verdict(c, d, err) ==
    IF ~Decides(c) THEN returned(d, err)
    ELSE IF err = NoErr THEN verdictFor(d)
    ELSE IF phase[c] = 1 THEN unreachableVerdict(err) ELSE holdFailedVerdict(err)

Conclude(c, d, err) ==
    IF StartsHold(c, d, err) THEN StartHold(c) ELSE Return(c, verdict(c, d, err))

Fail(c, err) == Conclude(c, NoDecision, err)

-----------------------------------------------------------------------------
Init ==
    /\ cfg \in Configs
    /\ edge \in {"up", "down"} /\ token = 1 /\ file = (IF edge = "up" THEN 1 ELSE Absent)
    /\ request = [c \in Calls |-> {}]
    /\ reply = [c \in Calls |-> {}]
    /\ judged = [c \in Calls |-> <<>>]
    /\ arg \in [Calls -> Args]
    /\ pc = [c \in Calls |-> "idle"]
    /\ phase = [c \in Calls |-> 1]
    /\ attempt = [c \in Calls |-> 1]
    /\ tok = [c \in Calls |-> NoToken]
    /\ firstTok = [c \in Calls |-> NoToken]
    /\ parent = [c \in Calls |-> "live"]
    /\ ctx = [c \in Calls |-> "live"]
    /\ timer = [c \in Calls |-> 0]
    /\ elapsed = [c \in Calls |-> 0]
    /\ result = [c \in Calls |-> NoResult]

(* The application makes the call. *)
Invoke(c) ==
    /\ pc[c] = "idle"
    /\ pc' = [pc EXCEPT ![c] = "enter"]
    /\ UNCHANGED <<cfg, edgeVars, wireVars, arg, phase, attempt, tokVars, timeVars, result>>

(* admit/request up to the loop: validate, encode, context.WithTimeout.  A   *)
(* parent that already ended ends the new context at once.                   *)
BeginRequest(c) ==
    /\ pc[c] = "enter"
    /\ IF refusal(c) # NoErr
       THEN Fail(c, refusal(c)) /\ UNCHANGED <<ctx, timer>>
       ELSE /\ pc' = [pc EXCEPT ![c] = "loop"]
            /\ attempt' = [attempt EXCEPT ![c] = 1]
            /\ ctx' = [ctx EXCEPT ![c] = parent[c]]
            /\ timer' = [timer EXCEPT ![c] = requestTimeout(c)]
            /\ UNCHANGED <<phase, result>>
    /\ UNCHANGED <<cfg, edgeVars, wireVars, arg, tokVars, parent, elapsed>>

(* The top of the loop: ctx.Err(), then the token file, read anew on every   *)
(* attempt.  Health reads none.                                              *)
ReadToken(c) ==
    /\ pc[c] = "loop"
    /\ \/ /\ ctx[c] # "live"
          /\ Fail(c, contextError(c))
          /\ UNCHANGED tokVars
       \/ /\ ctx[c] = "live" /\ arg[c].op # "health" /\ tokenError(c) # NoErr
          /\ Fail(c, tokenError(c))
          /\ UNCHANGED tokVars
       \/ /\ ctx[c] = "live" /\ (arg[c].op = "health" \/ tokenError(c) = NoErr)
          /\ LET t == IF arg[c].op = "health" THEN NoToken ELSE tokenRead(c) IN
             /\ tok' = [tok EXCEPT ![c] = t]
             /\ firstTok' = [firstTok EXCEPT ![c] = IF attempt[c] = 1 THEN t ELSE @]
          /\ pc' = [pc EXCEPT ![c] = "dial"]
          /\ UNCHANGED <<phase, attempt, result>>
    /\ UNCHANGED <<cfg, edgeVars, wireVars, arg, timeVars>>

(* roundTrip, the way out: one connection per request. *)
Send(c) ==
    /\ pc[c] = "dial" /\ edge # "down"
    /\ request' = [request EXCEPT ![c] =
           {[op |-> arg[c].op, tok |-> tok[c], hold |-> holdField(c)]}]
    /\ reply' = [reply EXCEPT ![c] = {}]
    /\ pc' = [pc EXCEPT ![c] = "wait"]
    /\ UNCHANGED <<cfg, edgeVars, judged, arg, phase, attempt, tokVars, timeVars, result>>

(* Mutant: a transport error is retried as a 401 is. *)
BreakRetried(c) ==
    /\ pc[c] \in {"dial", "wait"}
    /\ IF mayRetry(c)
       THEN /\ attempt' = [attempt EXCEPT ![c] = 2]
            /\ pc' = [pc EXCEPT ![c] = "loop"]
            /\ UNCHANGED <<phase, result>>
       ELSE \E e \in transportErrors(c) : Fail(c, e)
    /\ UNCHANGED <<cfg, edgeVars, wireVars, arg, tokVars, timeVars>>

(* roundTrip fails: the dial, the write or the read, or the context ended    *)
(* while it was in progress.  The edge may still judge what it received.     *)
Break(c) ==
    /\ pc[c] \in {"dial", "wait"}
    /\ \E e \in transportErrors(c) : Fail(c, e)
    /\ UNCHANGED <<cfg, edgeVars, wireVars, arg, tokVars, timeVars>>

(* roundTrip succeeds with answer r, and request() and the parser deal with  *)
(* it: the size check, the one retry of a 401, interpret, parse.             *)
Receive(c) ==
    /\ pc[c] = "wait"
    /\ \E r \in reply[c] :
         \/ /\ readBounded(r) # NoErr
            /\ Fail(c, readBounded(r))
         \/ /\ readBounded(r) = NoErr
            /\ r.status = 401 /\ mayRetry(c)
            /\ attempt' = [attempt EXCEPT ![c] = @ + 1]
            /\ pc' = [pc EXCEPT ![c] = "loop"]
            /\ UNCHANGED <<phase, result>>
         \/ /\ readBounded(r) = NoErr
            /\ r.status = 401 /\ ~mayRetry(c)
            /\ Fail(c, "unauthorized")
         \/ /\ readBounded(r) = NoErr /\ r.status # 401
            /\ Conclude(c, outcomeDecision(arg[c].op, r), outcomeErr(arg[c].op, r))
    /\ UNCHANGED <<cfg, edgeVars, wireVars, arg, tokVars, timeVars>>

(* The caller's context ends: canceled, or its own deadline passes.  The     *)
(* first cause of an ended context is the one it keeps.                      *)
EndParent(c) ==
    /\ Running(c) /\ parent[c] = "live"
    /\ \E how \in {"canceled", "deadline"} :
         /\ parent' = [parent EXCEPT ![c] = how]
         /\ ctx' = [ctx EXCEPT ![c] = IF @ = "live" THEN how ELSE @]
    /\ UNCHANGED <<cfg, edgeVars, wireVars, arg, pc, phase, attempt, tokVars, timer, elapsed, result>>

(* Mutant: the waiting request of phase 2 is made without a deadline. *)
ExpirePhase1(c) ==
    /\ pc[c] \in {"loop", "dial", "wait"} /\ timer[c] = 0 /\ ctx[c] = "live" /\ phase[c] = 1
    /\ ctx' = [ctx EXCEPT ![c] = "deadline"]
    /\ UNCHANGED <<cfg, edgeVars, wireVars, arg, pc, phase, attempt, tokVars, parent, timer, elapsed, result>>

(* The request's own deadline fires. *)
Expire(c) ==
    /\ pc[c] \in {"loop", "dial", "wait"} /\ timer[c] = 0 /\ ctx[c] = "live"
    /\ ctx' = [ctx EXCEPT ![c] = "deadline"]
    /\ UNCHANGED <<cfg, edgeVars, wireVars, arg, pc, phase, attempt, tokVars, parent, timer, elapsed, result>>

(* A tick passes.  Entering a request takes no time, and a call whose        *)
(* deadline or context has ended returns before the next tick: the Go        *)
(* runtime wakes it, and nothing it does afterwards blocks.                  *)
Tick ==
    /\ \E c \in Calls : Running(c)
    /\ \A c \in Calls : Running(c) => pc[c] # "enter" /\ timer[c] > 0 /\ ctx[c] = "live"
    /\ timer' = [c \in Calls |-> IF Running(c) THEN timer[c] - 1 ELSE timer[c]]
    /\ elapsed' = [c \in Calls |-> IF Running(c) THEN elapsed[c] + 1 ELSE elapsed[c]]
    /\ UNCHANGED <<cfg, edgeVars, wireVars, arg, pc, phase, attempt, tokVars, parent, ctx, result>>

-----------------------------------------------------------------------------
(* The edge, as far as the client depends on it (external; its test double   *)
(* is internal/edgetest).  It refuses a token it does not hold and otherwise *)
(* answers anything in Responses.                                            *)
EdgeAnswer(c) ==
    /\ edge = "up" /\ reply[c] = {}
    /\ \E q \in request[c] :
         \/ /\ q.op # "health" /\ q.tok # token
            /\ reply' = [reply EXCEPT ![c] = {Unauthorized401}]
            /\ UNCHANGED judged
         \/ /\ q.op = "health" \/ q.tok = token
            /\ \E r \in Responses :
                 /\ reply' = [reply EXCEPT ![c] = {r}]
                 /\ judged' = [judged EXCEPT ![c] = Append(@, r)]
    /\ request' = [request EXCEPT ![c] = {}]
    /\ UNCHANGED <<cfg, edgeVars, arg, pc, phase, attempt, tokVars, timeVars, result>>

(* writeToken: the file is truncated, then holds the new token; no request   *)
(* is checked in between.                                                    *)
RotateBegin ==
    /\ edge = "up" /\ token < MaxToken
    /\ edge' = "rotating" /\ file' = Empty
    /\ UNCHANGED <<cfg, token, wireVars, arg, pc, phase, attempt, tokVars, timeVars, result>>

RotateEnd ==
    /\ edge = "rotating"
    /\ edge' = "up" /\ token' = token + 1 /\ file' = token + 1
    /\ UNCHANGED <<cfg, wireVars, arg, pc, phase, attempt, tokVars, timeVars, result>>

(* A clean stop removes the file, a crash leaves it as it is; either loses    *)
(* the requests that were not answered.                                       *)
EdgeStop ==
    /\ edge # "down" /\ edge' = "down"
    /\ file' \in {file, Absent}
    /\ request' = [c \in Calls |-> {}]
    /\ UNCHANGED <<cfg, token, reply, judged, arg, pc, phase, attempt, tokVars, timeVars, result>>

EdgeStart ==
    /\ edge = "down" /\ token < MaxToken
    /\ edge' = "up" /\ token' = token + 1 /\ file' = token + 1
    /\ UNCHANGED <<cfg, wireVars, arg, pc, phase, attempt, tokVars, timeVars, result>>

-----------------------------------------------------------------------------
(* What the client does on its own. *)
ClientStep(c) == BeginRequest(c) \/ ReadToken(c) \/ Send(c) \/ Break(c) \/ Receive(c)

Edge == RotateBegin \/ RotateEnd \/ EdgeStop \/ EdgeStart \/ \E c \in Calls : EdgeAnswer(c)

(* Every call has returned and the edge is left alone. *)
Finished == (\A c \in Calls : pc[c] = "done") /\ UNCHANGED vars

Next ==
    \/ \E c \in Calls : Invoke(c) \/ ClientStep(c) \/ EndParent(c) \/ Expire(c)
    \/ Tick
    \/ Edge
    \/ Finished

Spec == Init /\ [][Next]_vars

(* The Go runtime keeps scheduling a runnable call, its timers fire and time  *)
(* passes.  Nothing is assumed of the edge or of the network: a call that     *)
(* waits is only sure to move once its context has ended.                     *)
Fairness ==
    /\ WF_vars(Tick)
    /\ \A c \in Calls :
         /\ WF_vars(BeginRequest(c)) /\ WF_vars(ReadToken(c)) /\ WF_vars(Expire(c))
         /\ WF_vars(ctx[c] # "live" /\ Break(c))

FairSpec == Spec /\ Fairness

-----------------------------------------------------------------------------
Returned(c) == pc[c] = "done"

(* The last thing the edge said to call c, when it said anything but 401. *)
Judged(c) == Len(judged[c]) > 0
LastJudged(c) == judged[c][Len(judged[c])]

TypeOK ==
    /\ cfg \in Config
    /\ edge \in {"up", "rotating", "down"}
    /\ token \in 1..MaxToken
    /\ file \in {Absent, Empty} \cup 1..MaxToken
    /\ request \in [Calls -> SUBSET [op : Ops, tok : Int, hold : Int]]
    /\ reply \in [Calls -> SUBSET Response]
    /\ judged \in [Calls -> Seq(Response)]
    /\ arg \in [Calls -> Arg]
    /\ pc \in [Calls -> {"idle", "enter", "loop", "dial", "wait", "done"}]
    /\ phase \in [Calls -> 1..2] /\ attempt \in [Calls -> 1..2]
    /\ tok \in [Calls -> Int] /\ firstTok \in [Calls -> Int]
    /\ parent \in [Calls -> CtxStates] /\ ctx \in [Calls -> CtxStates]
    /\ timer \in [Calls -> Nat] /\ elapsed \in [Calls -> Nat]
    /\ result \in [Calls -> Verdict]

(* Never a fabricated allow (client.go:172-173, "never fabricates an allow"): *)
(* whatever timed out, was cut off, was retried or came back malformed, a     *)
(* call says "allowed" only if the last thing the edge said to it was an      *)
(* allow, in a 200 of the right protocol version.                             *)
AllowIsTheEdges ==
    \A c \in Calls : Returned(c) /\ result[c].allowed =>
        Judged(c) /\ IsDecision(LastJudged(c)) /\ LastJudged(c).body = "allow"

(* An outage never reads as a policy decision and a policy decision never as  *)
(* an outage (types.go:190-219): a verdict without an error repeats the       *)
(* edge's last word, one that is marked held is a call the edge did hold, and *)
(* a wait on the hold that failed still says it was held.                     *)
OutageIsNotPolicy ==
    \A c \in Calls : Returned(c) /\ Decides(c) =>
        /\ PolicyDenied(result[c]) =>
             Judged(c) /\ IsDecision(LastJudged(c)) /\ LastJudged(c).body = "deny"
        /\ result[c].held =>
             Judged(c) /\ IsDecision(judged[c][1]) /\ judged[c][1].body = "held"
        /\ Unreachable(result[c]) => ~result[c].allowed /\ ~PolicyDenied(result[c])
        /\ Unreachable(result[c]) /\ phase[c] = 2 => result[c].held

(* The edge judges a call once, and a second time only to wait on the hold it *)
(* announced itself: a lost answer, a timeout or an error is never followed   *)
(* by asking again (request() retries a 401 only).                            *)
JudgedOncePerPhase ==
    \A c \in Calls :
        /\ Len(judged[c]) <= phase[c]
        /\ phase[c] = 2 =>
             Decides(c) /\ Judged(c) /\ IsDecision(judged[c][1]) /\ judged[c][1].body = "held"

(* A rejected token is one the edge has replaced (client.go:47-49, 297-304): a *)
(* call ends "unauthorized" only if the edge has minted a token more since    *)
(* its first read for each attempt it made, as the retry reads the file anew. *)
(* A restart is told as a rejection in no other way, and it may cost a call   *)
(* its decision: an attempt that finds the file truncated or gone fails as    *)
(* unreachable, with no retry, and no request leaves without a minted token.  *)
RejectionsAreRotations ==
    cfg.tokenFile = "edge" => \A c \in Calls :
        /\ Returned(c) /\ result[c].err = "unauthorized" =>
             firstTok[c] >= 1 /\ token >= firstTok[c] + attempt[c]
        /\ \A q \in request[c] : q.op # "health" => q.tok \in 1..token

(* hold_timeout_seconds: phase 1 never waits, and phase 2 never asks the edge *)
(* to wait longer than the configured budget or the caller's cap              *)
(* (client.go:175-186).                                                       *)
HoldWithinBudget ==
    \A c \in Calls : Decides(c) => \A q \in request[c] :
        /\ q.hold > 0 <=> phase[c] = 2
        /\ q.hold * Second <= cfg.hold
        /\ arg[c].op = "capped" /\ q.hold > 0 => q.hold * Second <= arg[c].budget

(* The deadline is per request and shared by both attempts (client.go:281):   *)
(* a call lasts at most its timeout, and a decision that waited on a hold at  *)
(* most the hold budget and its margin more.                                  *)
Deadline(c) ==
    CASE arg[c].op = "attest" -> AttestTimeout
      [] Decides(c) /\ phase[c] = 2 -> cfg.timeout + cfg.hold + HoldMargin
      [] OTHER -> cfg.timeout
DeadlineBound == \A c \in Calls : elapsed[c] <= Deadline(c)

(* What errors.go:24-25 says of KindUnauthorized: "the edge rejected the      *)
(* token after the one permitted re-read and retry".                         *)
UnauthorizedMeansRetried ==
    \A c \in Calls : Returned(c) /\ result[c].err = "unauthorized" => attempt[c] = 2

(* Every call returns, whatever the edge does: no answer, a stop, a restart,  *)
(* a token that never works.                                                  *)
EveryCallReturns == \A c \in Calls : pc[c] # "idle" ~> Returned(c)
=============================================================================
