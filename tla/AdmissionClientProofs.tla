----------------------- MODULE AdmissionClientProofs -----------------------
(***************************************************************************)
(* Proofs about AdmissionClient, for any set of calls, arguments,           *)
(* configurations and answers and any deadlines.                            *)
(***************************************************************************)
EXTENDS AdmissionClient, TLAPS

-----------------------------------------------------------------------------
(* Facts about the pure functions of Admission. *)

(* The hold budget truncated to seconds is no longer than the budget. *)
LEMMA DivFact ==
    ASSUME NEW b \in Nat, NEW S \in Nat \ {0}
    PROVE  b \div S \in Nat /\ (b \div S) * S <= b
  OBVIOUS

(* An answer is turned into a known error, and into a decision or nil. *)
LEMMA OutcomeType ==
    ASSUME NEW op \in Ops, NEW r \in Response
    PROVE  /\ outcomeErr(op, r) \in Kinds \cup {NoErr}
           /\ outcomeErr(op, r) # "unauthorized"
           /\ outcomeDecision(op, r) \in Decisions \cup {NoDecision}
<1>1. /\ interpret(r) \in Kinds \cup {NoErr} /\ interpret(r) # "unauthorized"
  BY DEF interpret, Kinds, NoErr
<1>2. \A b : parseHealth(b) \in {"protocol", NoErr} /\ parseDecision(b) \in {"protocol", NoErr}
  BY DEF parseHealth, parseDecision, NoErr
<1>3. outcomeErr(op, r) \in Kinds \cup {NoErr} /\ outcomeErr(op, r) # "unauthorized"
  BY <1>1, <1>2 DEF outcomeErr, Ops, Kinds, NoErr
<1>4. ASSUME op \notin {"health", "attest"}, outcomeErr(op, r) = NoErr PROVE content(r) \in Decisions
  BY <1>4 DEF outcomeErr, Ops, parseDecision, NoErr
<1> QED
  BY <1>3, <1>4 DEF outcomeDecision

(* A decision comes only out of a 200 of the right version that states it. *)
LEMMA OutcomeIsDecision ==
    ASSUME NEW op \in Ops, NEW r \in Response, outcomeDecision(op, r) # NoDecision
    PROVE  outcomeErr(op, r) = NoErr /\ IsDecision(r) /\ outcomeDecision(op, r) = r.body
<1>1. op \notin {"health", "attest"} /\ outcomeErr(op, r) = NoErr /\ outcomeDecision(op, r) = content(r)
  BY DEF outcomeDecision
<1>2. interpret(r) = NoErr /\ content(r) \in Decisions
  BY <1>1 DEF outcomeErr, Ops, parseDecision, NoErr
<1>3. r.status # 204 /\ content(r) = r.body
  BY <1>2 DEF content, Decisions
<1>4. r.status = 200 /\ r.version = "1"
  BY <1>2, <1>3 DEF interpret, Response, Versions, NoErr
<1> QED
  BY <1>1, <1>2, <1>3, <1>4 DEF IsDecision

(* An exchange that a decision was wanted from fails or has one. *)
LEMMA OutcomeTotal ==
    ASSUME NEW op \in {"decide", "capped", "admit"}, NEW r \in Response, outcomeErr(op, r) = NoErr
    PROVE  outcomeDecision(op, r) \in Decisions
  BY DEF outcomeErr, outcomeDecision, parseDecision, NoErr


(* The errors the client itself comes up with are known kinds, and none of   *)
(* them is the rejection of a token.                                          *)
Silent == {"config", "unreachable", "timeout", "canceled", "protocol", "payload_too_large"}

LEMMA OwnErrors ==
    ASSUME NEW c \in Calls
    PROVE  /\ refusal(c) \in Silent \cup {NoErr}
           /\ contextError(c) \in Silent
           /\ transportErrors(c) \subseteq Silent
           /\ tokenError(c) \in Silent \cup {NoErr}
           /\ \A r : readBounded(r) \in Silent \cup {NoErr}
           /\ Silent \subseteq Kinds /\ NoErr \notin Silent /\ "unauthorized" \notin Silent
  BY DEF refusal, contextError, transportErrors, tokenError, readBounded, Silent, Kinds, NoErr

(* What is returned is a Verdict; it allows only what the edge allowed, and   *)
(* is a policy denial or a hold only of a decision that says so.              *)
LEMMA VerdictFacts ==
    ASSUME NEW c \in Calls, NEW d \in Decisions \cup {NoDecision}, NEW e \in Kinds \cup {NoErr},
           phase[c] \in 1..2
    PROVE  /\ e # NoErr \/ d # NoDecision \/ ~Decides(c) => verdict(c, d, e) \in Verdict
           /\ verdict(c, d, e).allowed => d = "allow"
           /\ verdict(c, d, e).err = e
           /\ Decides(c) /\ PolicyDenied(verdict(c, d, e)) => e = NoErr /\ d \notin {"allow", "held"}
           /\ Decides(c) /\ verdict(c, d, e).held => phase[c] = 2 \/ (e = NoErr /\ d = "held")
           /\ Decides(c) /\ e # NoErr =>
                ~verdict(c, d, e).allowed /\ (phase[c] = 2 => verdict(c, d, e).held)
<1>1. CASE ~Decides(c)
  BY <1>1 DEF verdict, returned, Verdict
<1>2. CASE Decides(c) /\ e = NoErr
  BY <1>2 DEF verdict, verdictFor, Verdict, PolicyDenied, Decisions
<1>3. CASE Decides(c) /\ e # NoErr /\ phase[c] = 1
  BY <1>3 DEF verdict, unreachableVerdict, Verdict, PolicyDenied
<1>4. CASE Decides(c) /\ e # NoErr /\ phase[c] = 2
  BY <1>4 DEF verdict, holdFailedVerdict, Verdict, PolicyDenied, Decisions
<1> QED
  BY <1>1, <1>2, <1>3, <1>4

-----------------------------------------------------------------------------
(* The steps of one call leave the others alone: what Conclude does to pc,    *)
(* phase and result.                                                          *)
LEMMA ConcludeStep ==
    ASSUME NEW c \in Calls, NEW d, NEW e, Conclude(c, d, e)
    PROVE  /\ attempt' = attempt
           /\ \/ /\ StartsHold(c, d, e)
                 /\ pc' = [pc EXCEPT ![c] = "enter"]
                 /\ phase' = [phase EXCEPT ![c] = 2]
                 /\ result' = result
              \/ /\ pc' = [pc EXCEPT ![c] = "done"]
                 /\ result' = [result EXCEPT ![c] = verdict(c, d, e)]
                 /\ phase' = phase
  BY DEF Conclude, StartHold, Return

(* A failure always returns. *)
LEMMA FailStep ==
    ASSUME NEW c \in Calls, NEW e \in Kinds, Fail(c, e)
    PROVE  /\ attempt' = attempt /\ phase' = phase
           /\ pc' = [pc EXCEPT ![c] = "done"]
           /\ result' = [result EXCEPT ![c] = verdict(c, NoDecision, e)]
  BY DEF Fail, Conclude, StartsHold, Return, Kinds, NoErr


-----------------------------------------------------------------------------
(* Type correctness. *)
LEMMA InitTypeOK == Init => TypeOK
<1> SUFFICES ASSUME Init PROVE TypeOK
  OBVIOUS
<1>1. NoResult \in Verdict
  BY DEF NoResult, returned, Verdict, NoDecision, NoErr
<1> QED
  BY <1>1, ArgsAssumption, ConfigsAssumption, BoundsAssumption
  DEF Init, TypeOK, CtxStates, NoToken, Absent

(* The part of the state that Conclude writes keeps its type. *)
LEMMA ConcludeType ==
    ASSUME TypeOK, NEW c \in Calls, NEW d \in Decisions \cup {NoDecision},
           NEW e \in Kinds \cup {NoErr}, Conclude(c, d, e),
           e # NoErr \/ d # NoDecision \/ ~Decides(c)
    PROVE  /\ pc' \in [Calls -> {"idle", "enter", "loop", "dial", "wait", "done"}]
           /\ phase' \in [Calls -> 1..2] /\ attempt' \in [Calls -> 1..2]
           /\ result' \in [Calls -> Verdict]
<1>1. phase[c] \in 1..2
  BY DEF TypeOK
<1>2. verdict(c, d, e) \in Verdict
  BY <1>1, VerdictFacts
<1>3. CASE StartsHold(c, d, e) /\ StartHold(c)
  BY <1>3 DEF TypeOK, StartHold
<1>4. CASE Return(c, verdict(c, d, e))
  BY <1>2, <1>4 DEF TypeOK, Return
<1> QED
  BY <1>3, <1>4 DEF Conclude

LEMMA FailType ==
    ASSUME TypeOK, NEW c \in Calls, NEW e \in Kinds, Fail(c, e)
    PROVE  /\ pc' \in [Calls -> {"idle", "enter", "loop", "dial", "wait", "done"}]
           /\ phase' \in [Calls -> 1..2] /\ attempt' \in [Calls -> 1..2]
           /\ result' \in [Calls -> Verdict]
<1>1. e # NoErr
  BY DEF Kinds, NoErr
<1> QED
  BY <1>1, ConcludeType DEF Fail

(* The deadline of a request is a number of ticks. *)
LEMMA TimeoutType ==
    ASSUME TypeOK, NEW c \in Calls
    PROVE  /\ holdBudget(c) \in Nat /\ holdBudget(c) <= cfg.hold
           /\ holdSeconds(c) \in Nat /\ holdSeconds(c) * Second <= cfg.hold
           /\ requestTimeout(c) \in Nat /\ holdField(c) \in Int
<1>1. cfg.hold \in Nat /\ cfg.timeout \in Nat /\ arg[c].budget \in Int
  BY DEF TypeOK, Config, Arg
<1>2. holdBudget(c) \in Nat /\ holdBudget(c) <= cfg.hold
  BY <1>1 DEF holdBudget
<1>3. holdSeconds(c) \in Nat /\ holdSeconds(c) * Second <= holdBudget(c)
  BY <1>2, DivFact, BoundsAssumption DEF holdSeconds
<1>4. holdSeconds(c) * Second \in Nat
  BY <1>3, BoundsAssumption
<1>5. holdSeconds(c) * Second <= cfg.hold
  BY <1>1, <1>2, <1>3, <1>4
<1> QED
  BY <1>1, <1>2, <1>3, <1>4, <1>5, BoundsAssumption DEF requestTimeout, holdField

(* The token file and the token agree whenever the edge answers, and a        *)
(* rotation that began finds a token to mint.                                 *)
EdgeOK ==
    /\ edge = "up" => file = token
    /\ edge = "rotating" => file = Empty /\ token < MaxToken
    /\ file \in {Absent, Empty} \/ file = token

LEMMA NextTypeOK == TypeOK /\ EdgeOK /\ [Next]_vars => TypeOK'
<1> SUFFICES ASSUME TypeOK, EdgeOK, [Next]_vars PROVE TypeOK'
  OBVIOUS
<1> USE DEF TypeOK, edgeVars, wireVars, tokVars, timeVars
<1>1. ASSUME NEW c \in Calls, Invoke(c) PROVE TypeOK'
  BY <1>1 DEF Invoke
<1>2. ASSUME NEW c \in Calls, BeginRequest(c) PROVE TypeOK'
  <2>1. CASE refusal(c) # NoErr
    <3>1. refusal(c) \in Kinds
      BY <2>1, OwnErrors
    <3> QED
      BY <1>2, <2>1, <3>1, FailType DEF BeginRequest
  <2>2. CASE refusal(c) = NoErr
    <3>1. requestTimeout(c) \in Nat
      BY TimeoutType
    <3>2. /\ timer' = [timer EXCEPT ![c] = requestTimeout(c)]
          /\ ctx' = [ctx EXCEPT ![c] = parent[c]]
          /\ attempt' = [attempt EXCEPT ![c] = 1]
          /\ pc' = [pc EXCEPT ![c] = "loop"]
          /\ UNCHANGED <<phase, result, cfg, edgeVars, wireVars, arg, tokVars, parent, elapsed>>
      BY <1>2, <2>2 DEF BeginRequest
    <3>3. parent[c] \in CtxStates
      OBVIOUS
    <3> QED
      BY <3>1, <3>2, <3>3
  <2> QED
    BY <2>1, <2>2
<1>3. ASSUME NEW c \in Calls, ReadToken(c) PROVE TypeOK'
  <2>1. CASE ctx[c] # "live" /\ Fail(c, contextError(c)) /\ UNCHANGED tokVars
    <3>1. contextError(c) \in Kinds
      BY OwnErrors
    <3> QED
      BY <1>3, <2>1, <3>1, FailType DEF ReadToken
  <2>2. CASE tokenError(c) # NoErr /\ Fail(c, tokenError(c)) /\ UNCHANGED tokVars
    <3>1. tokenError(c) \in Kinds
      BY <2>2, OwnErrors
    <3> QED
      BY <1>3, <2>2, <3>1, FailType DEF ReadToken
  <2>3. CASE /\ \E t \in Int :
                  /\ tok' = [tok EXCEPT ![c] = t]
                  /\ firstTok' = [firstTok EXCEPT ![c] = IF attempt[c] = 1 THEN t ELSE @]
             /\ pc' = [pc EXCEPT ![c] = "dial"]
             /\ UNCHANGED <<phase, attempt, result>>
    BY <1>3, <2>3 DEF ReadToken
  <2>4. NoToken \in Int /\ tokenRead(c) \in Int
    BY BoundsAssumption DEF tokenRead, NoToken, Foreign, Absent, Empty
  <2> QED
    BY <1>3, <2>1, <2>2, <2>3, <2>4 DEF ReadToken
<1>4. ASSUME NEW c \in Calls, Send(c) PROVE TypeOK'
  <2>1. arg[c].op \in Ops /\ tok[c] \in Int /\ holdField(c) \in Int
    BY TimeoutType DEF Arg
  <2> QED
    BY <1>4, <2>1 DEF Send
<1>5. ASSUME NEW c \in Calls, Break(c) PROVE TypeOK'
  <2>1. PICK e \in transportErrors(c) : Fail(c, e)
    BY <1>5 DEF Break
  <2>2. e \in Kinds
    BY OwnErrors
  <2> QED
    BY <1>5, <2>1, <2>2, FailType DEF Break
<1>6. ASSUME NEW c \in Calls, Receive(c) PROVE TypeOK'
  <2>1. PICK r \in reply[c] :
           \/ /\ readBounded(r) # NoErr
              /\ Fail(c, readBounded(r))
           \/ /\ r.status = 401 /\ mayRetry(c)
              /\ attempt' = [attempt EXCEPT ![c] = @ + 1]
              /\ pc' = [pc EXCEPT ![c] = "loop"]
              /\ UNCHANGED <<phase, result>>
           \/ Fail(c, "unauthorized")
           \/ Conclude(c, outcomeDecision(arg[c].op, r), outcomeErr(arg[c].op, r))
    BY <1>6 DEF Receive
  <2>2. r \in Response /\ arg[c].op \in Ops
    BY DEF Arg
  <2>3. CASE readBounded(r) # NoErr /\ Fail(c, readBounded(r))
    <3>1. readBounded(r) \in Kinds
      BY <2>3, OwnErrors
    <3> QED
      BY <1>6, <2>3, <3>1, FailType DEF Receive
  <2>4. CASE /\ mayRetry(c)
             /\ attempt' = [attempt EXCEPT ![c] = @ + 1]
             /\ pc' = [pc EXCEPT ![c] = "loop"]
             /\ UNCHANGED <<phase, result>>
    BY <1>6, <2>4 DEF Receive, mayRetry
  <2>5. CASE Fail(c, "unauthorized")
    <3>1. "unauthorized" \in Kinds
      BY DEF Kinds
    <3> QED
      BY <1>6, <2>5, <3>1, FailType DEF Receive
  <2>6. CASE Conclude(c, outcomeDecision(arg[c].op, r), outcomeErr(arg[c].op, r))
    <3> DEFINE d == outcomeDecision(arg[c].op, r)
               e == outcomeErr(arg[c].op, r)
    <3>1. d \in Decisions \cup {NoDecision} /\ e \in Kinds \cup {NoErr}
      BY <2>2, OutcomeType
    <3>2. e # NoErr \/ d # NoDecision \/ ~Decides(c)
      BY <2>2, OutcomeTotal DEF Decides, Decisions, NoDecision
    <3> QED
      BY <1>6, <2>6, <3>1, <3>2, ConcludeType DEF Receive
  <2> QED
    BY <2>1, <2>3, <2>4, <2>5, <2>6
<1>7. ASSUME NEW c \in Calls, EndParent(c) PROVE TypeOK'
  BY <1>7 DEF EndParent, CtxStates
<1>8. ASSUME NEW c \in Calls, Expire(c) PROVE TypeOK'
  BY <1>8 DEF Expire, CtxStates
<1>9. CASE Tick
  <2>1. ASSUME NEW c \in Calls
        PROVE  /\ (IF Running(c) THEN timer[c] - 1 ELSE timer[c]) \in Nat
               /\ (IF Running(c) THEN elapsed[c] + 1 ELSE elapsed[c]) \in Nat
    BY <1>9 DEF Tick
  <2> QED
    BY <1>9, <2>1 DEF Tick
<1>10. ASSUME NEW c \in Calls, EdgeAnswer(c) PROVE TypeOK'
  <2>1. Unauthorized401 \in Response /\ Responses \subseteq Response
    BY ResponsesAssumption DEF Unauthorized401, Response, Statuses, Versions, Bodies
  <2>2. \A r \in Response : Append(judged[c], r) \in Seq(Response)
    OBVIOUS
  <2>3. CASE reply' = [reply EXCEPT ![c] = {Unauthorized401}] /\ judged' = judged
    BY <1>10, <2>1, <2>3 DEF EdgeAnswer
  <2>4. ASSUME NEW r \in Responses,
               reply' = [reply EXCEPT ![c] = {r}], judged' = [judged EXCEPT ![c] = Append(@, r)]
        PROVE  TypeOK'
    <3>1. r \in Response /\ Append(judged[c], r) \in Seq(Response)
      BY <2>1, <2>2
    <3>2. reply' \in [Calls -> SUBSET Response] /\ judged' \in [Calls -> Seq(Response)]
      BY <2>4, <3>1
    <3>3. request' \in [Calls -> SUBSET [op : Ops, tok : Int, hold : Int]]
      BY <1>10 DEF EdgeAnswer
    <3> QED
      BY <1>10, <3>2, <3>3 DEF EdgeAnswer
  <2> QED
    BY <1>10, <2>3, <2>4 DEF EdgeAnswer
<1>11. CASE RotateBegin \/ RotateEnd \/ EdgeStop \/ EdgeStart
  <2>1. CASE RotateBegin
    BY <2>1 DEF RotateBegin
  <2>2. CASE RotateEnd
    <3>1. token + 1 \in 1..MaxToken
      BY <2>2, BoundsAssumption DEF RotateEnd, EdgeOK
    <3> QED
      BY <2>2, <3>1 DEF RotateEnd
  <2>3. CASE EdgeStop
    BY <2>3 DEF EdgeStop
  <2>4. CASE EdgeStart
    <3>1. token + 1 \in 1..MaxToken
      BY <2>4, BoundsAssumption DEF EdgeStart
    <3> QED
      BY <2>4, <3>1 DEF EdgeStart
  <2> QED
    BY <1>11, <2>1, <2>2, <2>3, <2>4
<1>12. CASE UNCHANGED vars
  BY <1>12 DEF vars
<1> QED
  BY <1>1, <1>2, <1>3, <1>4, <1>5, <1>6, <1>7, <1>8, <1>9, <1>10, <1>11, <1>12
  DEF Next, ClientStep, Edge, Finished

-----------------------------------------------------------------------------
(* The edge and its token file. *)
LEMMA InitEdgeOK == Init => EdgeOK
  BY DEF Init, EdgeOK, Absent

LEMMA NextEdgeOK == TypeOK /\ EdgeOK /\ [Next]_vars => EdgeOK'
<1> SUFFICES ASSUME TypeOK, EdgeOK, [Next]_vars PROVE EdgeOK'
  OBVIOUS
<1>1. CASE UNCHANGED edgeVars
  BY <1>1 DEF EdgeOK, edgeVars
<1>2. CASE RotateBegin
  BY <1>2 DEF RotateBegin, EdgeOK
<1>3. CASE RotateEnd
  BY <1>3 DEF RotateEnd, EdgeOK, TypeOK
<1>4. CASE EdgeStop
  BY <1>4 DEF EdgeStop, EdgeOK
<1>5. CASE EdgeStart
  BY <1>5 DEF EdgeStart, EdgeOK, TypeOK
<1> QED
  BY <1>1, <1>2, <1>3, <1>4, <1>5
  DEF Next, Invoke, ClientStep, BeginRequest, ReadToken, Send, Break, Receive, EndParent, Expire,
      Tick, Edge, EdgeAnswer, Finished, vars, edgeVars

-----------------------------------------------------------------------------
(* What is on the wire, and what the edge has said: at most one request is   *)
(* outstanding, it belongs to the current phase, and the answer under way is  *)
(* the last thing judged.                                                     *)
WireOK(c) ==
    /\ request[c] # {} =>
         pc[c] \in {"wait", "done"} /\ Len(judged[c]) = phase[c] - 1 /\ reply[c] = {}
    /\ pc[c] = "idle" => phase[c] = 1
    /\ pc[c] \in {"idle", "enter", "loop", "dial"} => Len(judged[c]) = phase[c] - 1
    /\ pc[c] = "wait" /\ reply[c] = {} => Len(judged[c]) = phase[c] - 1
    /\ pc[c] = "wait" => \A r \in reply[c] :
         /\ r.status = 401 => Len(judged[c]) = phase[c] - 1
         /\ r.status # 401 => Len(judged[c]) = phase[c] /\ judged[c][phase[c]] = r
    /\ Len(judged[c]) <= phase[c]
    /\ phase[c] = 2 =>
         Decides(c) /\ Len(judged[c]) >= 1 /\ IsDecision(judged[c][1]) /\ judged[c][1].body = "held"

Wire == \A c \in Calls : WireOK(c)

LEMMA AppendFacts ==
    ASSUME NEW s \in Seq(Response), NEW r \in Response
    PROVE  /\ Len(s) \in Nat /\ Len(Append(s, r)) = Len(s) + 1
           /\ Append(s, r)[Len(s) + 1] = r
           /\ Len(s) >= 1 => Append(s, r)[1] = s[1]
  OBVIOUS

LEMMA InitWire == Init => Wire
  BY DEF Init, Wire, WireOK

(* A failing step ends the call with the wire as it is. *)
LEMMA FailWire ==
    ASSUME TypeOK, Wire, NEW c \in Calls, NEW e \in Kinds, Fail(c, e),
           UNCHANGED <<wireVars, arg>>
    PROVE  Wire'
<1>1. pc' = [pc EXCEPT ![c] = "done"] /\ phase' = phase
  BY FailStep
<1>2. ASSUME NEW b \in Calls PROVE WireOK(b)'
  <2>1. WireOK(b)
    BY DEF Wire
  <2>2. CASE b = c
    BY <1>1, <2>1, <2>2 DEF TypeOK, WireOK, wireVars, Decides
  <2>3. CASE b # c
    BY <1>1, <2>1, <2>3 DEF TypeOK, WireOK, wireVars, Decides
  <2> QED
    BY <2>2, <2>3
<1> QED
  BY <1>2 DEF Wire

LEMMA NextWire == TypeOK /\ Wire /\ [Next]_vars => Wire'
<1> SUFFICES ASSUME TypeOK, Wire, [Next]_vars PROVE Wire'
  OBVIOUS
<1> USE DEF Wire, WireOK, wireVars, Decides
<1>1. ASSUME NEW c \in Calls, Invoke(c) PROVE Wire'
  BY <1>1 DEF Invoke, TypeOK
<1>2. ASSUME NEW c \in Calls, BeginRequest(c) PROVE Wire'
  <2>1. CASE refusal(c) # NoErr
    BY <1>2, <2>1, OwnErrors, FailWire DEF BeginRequest
  <2>2. CASE refusal(c) = NoErr
    <3>1. /\ pc[c] = "enter" /\ pc' = [pc EXCEPT ![c] = "loop"]
          /\ UNCHANGED <<phase, request, reply, judged, arg>>
      BY <1>2, <2>2 DEF BeginRequest
    <3>2. ASSUME NEW b \in Calls PROVE WireOK(b)'
      <4>1. CASE b = c
        <5>1. pc'[c] = "loop" /\ request[c] = {} /\ Len(judged[c]) = phase[c] - 1
          BY <3>1 DEF TypeOK
        <5>2. phase[c] \in 1..2 /\ WireOK(c)
          BY DEF TypeOK
        <5> HIDE DEF Wire
        <5> QED
          BY <3>1, <4>1, <5>1, <5>2
      <4>2. CASE b # c
        BY <3>1, <4>2 DEF TypeOK
      <4> QED
        BY <4>1, <4>2
    <3> QED
      BY <3>2
  <2> QED
    BY <2>1, <2>2
<1>3. ASSUME NEW c \in Calls, ReadToken(c) PROVE Wire'
  <2>1. CASE Fail(c, contextError(c))
    BY <1>3, <2>1, OwnErrors, FailWire DEF ReadToken
  <2>2. CASE tokenError(c) # NoErr /\ Fail(c, tokenError(c))
    BY <1>3, <2>2, OwnErrors, FailWire DEF ReadToken
  <2>3. CASE pc' = [pc EXCEPT ![c] = "dial"] /\ UNCHANGED <<phase, attempt, result>>
    BY <1>3, <2>3 DEF ReadToken, TypeOK
  <2> QED
    BY <1>3, <2>1, <2>2, <2>3 DEF ReadToken
<1>4. ASSUME NEW c \in Calls, Send(c) PROVE Wire'
  BY <1>4 DEF Send, TypeOK
<1>5. ASSUME NEW c \in Calls, Break(c) PROVE Wire'
  BY <1>5, OwnErrors, FailWire DEF Break
<1>6. ASSUME NEW c \in Calls, Receive(c) PROVE Wire'
  <2>1. PICK r \in reply[c] :
           \/ /\ readBounded(r) # NoErr
              /\ Fail(c, readBounded(r))
           \/ /\ r.status = 401
              /\ pc' = [pc EXCEPT ![c] = "loop"]
              /\ UNCHANGED <<phase, result>>
           \/ Fail(c, "unauthorized")
           \/ /\ r.status # 401
              /\ Conclude(c, outcomeDecision(arg[c].op, r), outcomeErr(arg[c].op, r))
    BY <1>6 DEF Receive
  <2>2. UNCHANGED <<wireVars, arg>> /\ pc[c] = "wait" /\ r \in Response /\ arg[c].op \in Ops
    BY <1>6 DEF Receive, TypeOK, Arg
  <2>3. CASE readBounded(r) # NoErr /\ Fail(c, readBounded(r))
    BY <2>2, <2>3, OwnErrors, FailWire
  <2>4. CASE r.status = 401 /\ pc' = [pc EXCEPT ![c] = "loop"] /\ UNCHANGED <<phase, result>>
    <3>1. Len(judged[c]) = phase[c] - 1 /\ request[c] = {}
      BY <2>2, <2>4
    <3>2. ASSUME NEW b \in Calls PROVE WireOK(b)'
      <4>1. CASE b = c
        BY <2>2, <2>4, <3>1, <4>1 DEF TypeOK
      <4>2. CASE b # c
        BY <2>2, <2>4, <4>2 DEF TypeOK
      <4> QED
        BY <4>1, <4>2
    <3> QED
      BY <3>2
  <2>5. CASE Fail(c, "unauthorized")
    BY <2>2, <2>5, FailWire DEF Kinds
  <2>6. CASE r.status # 401 /\ Conclude(c, outcomeDecision(arg[c].op, r), outcomeErr(arg[c].op, r))
    <3> DEFINE d == outcomeDecision(arg[c].op, r)
               e == outcomeErr(arg[c].op, r)
    <3>1. Len(judged[c]) = phase[c] /\ judged[c][phase[c]] = r /\ request[c] = {}
      BY <2>2, <2>6
    <3>2. CASE pc' = [pc EXCEPT ![c] = "done"] /\ phase' = phase
      BY <2>2, <3>1, <3>2 DEF TypeOK
    <3>3. CASE /\ StartsHold(c, d, e)
               /\ pc' = [pc EXCEPT ![c] = "enter"] /\ phase' = [phase EXCEPT ![c] = 2]
      <4>1. Decides(c) /\ phase[c] = 1 /\ d = "held"
        BY <3>3 DEF StartsHold
      <4>2. IsDecision(r) /\ r.body = "held"
        BY <2>2, <4>1, OutcomeIsDecision DEF NoDecision
      <4>3. ASSUME NEW b \in Calls PROVE WireOK(b)'
        <5>1. CASE b = c
          <6>1. pc'[c] = "enter" /\ phase'[c] = 2 /\ phase[c] = 1
            BY <3>3, <4>1 DEF TypeOK
          <6>2. Len(judged[c]) = 1 /\ judged[c][1] = r /\ request[c] = {} /\ Decides(c)
            BY <3>1, <4>1
          <6> HIDE DEF Wire
          <6> QED
            BY <2>2, <4>2, <5>1, <6>1, <6>2
        <5>2. CASE b # c
          BY <2>2, <3>3, <5>2 DEF TypeOK
        <5> QED
          BY <5>1, <5>2
      <4> QED
        BY <4>3
    <3> QED
      BY <2>6, <3>2, <3>3, ConcludeStep
  <2> QED
    BY <2>1, <2>3, <2>4, <2>5, <2>6
<1>7. ASSUME NEW c \in Calls, EndParent(c) \/ Expire(c) PROVE Wire'
  BY <1>7 DEF EndParent, Expire
<1>8. CASE Tick
  BY <1>8 DEF Tick
<1>9. ASSUME NEW c \in Calls, EdgeAnswer(c) PROVE Wire'
  <2>1. pc[c] \in {"wait", "done"} /\ Len(judged[c]) = phase[c] - 1
    BY <1>9 DEF EdgeAnswer
  <2>2. CASE reply' = [reply EXCEPT ![c] = {Unauthorized401}] /\ judged' = judged
    BY <1>9, <2>1, <2>2 DEF EdgeAnswer, TypeOK, Unauthorized401
  <2>3. ASSUME NEW r \in Responses,
               reply' = [reply EXCEPT ![c] = {r}], judged' = [judged EXCEPT ![c] = Append(@, r)]
        PROVE  Wire'
    <3>1. r \in Response /\ r.status # 401
      BY ResponsesAssumption
    <3>2. /\ Len(judged'[c]) = phase[c] /\ judged'[c][phase[c]] = r
          /\ Len(judged[c]) >= 1 => judged'[c][1] = judged[c][1] /\ Len(judged'[c]) >= 1
      BY <2>1, <2>3, <3>1, AppendFacts DEF TypeOK
    <3>3. request' = [request EXCEPT ![c] = {}] /\ UNCHANGED <<pc, phase, arg>>
      BY <1>9 DEF EdgeAnswer
    <3>4. ASSUME NEW b \in Calls PROVE WireOK(b)'
      <4>1. CASE b = c
        BY <2>1, <2>3, <3>1, <3>2, <3>3, <4>1 DEF TypeOK
      <4>2. CASE b # c
        BY <2>3, <3>3, <4>2 DEF TypeOK
      <4> QED
        BY <4>1, <4>2
    <3> QED
      BY <3>4
  <2> QED
    BY <1>9, <2>2, <2>3 DEF EdgeAnswer
<1>10. CASE RotateBegin \/ RotateEnd \/ EdgeStart
  BY <1>10 DEF RotateBegin, RotateEnd, EdgeStart
<1>11. CASE EdgeStop
  BY <1>11 DEF EdgeStop
<1>12. CASE UNCHANGED vars
  BY <1>12 DEF vars
<1> QED
  BY <1>1, <1>2, <1>3, <1>4, <1>5, <1>6, <1>7, <1>8, <1>9, <1>10, <1>11, <1>12
  DEF Next, ClientStep, Edge, Finished

-----------------------------------------------------------------------------
(* What a returned verdict says, the edge said last, and it has nothing left  *)
(* of the call to judge.                                                      *)
SaidLast(c, d) ==
    /\ request[c] = {} /\ Len(judged[c]) = phase[c]
    /\ IsDecision(judged[c][phase[c]]) /\ judged[c][phase[c]].body = d

SaidHeld(c) ==
    Len(judged[c]) >= 1 /\ IsDecision(judged[c][1]) /\ judged[c][1].body = "held"

VerdictOK(c) ==
    pc[c] = "done" =>
        /\ result[c].allowed => SaidLast(c, "allow")
        /\ Decides(c) /\ PolicyDenied(result[c]) => SaidLast(c, "deny")
        /\ Decides(c) /\ result[c].held => SaidHeld(c)
        /\ Decides(c) /\ result[c].err # NoErr => ~result[c].allowed /\ (phase[c] = 2 => result[c].held)

Verdicts == \A c \in Calls : VerdictOK(c)

LEMMA InitVerdicts == Init => Verdicts
  BY DEF Init, Verdicts, VerdictOK

(* A step that leaves the returned calls and what was said alone. *)
LEMMA QuietVerdicts ==
    ASSUME TypeOK, Wire, Verdicts, NEW c \in Calls, NEW v, v # "done",
           pc' = [pc EXCEPT ![c] = v], pc[c] # "done",
           UNCHANGED <<judged, result, arg>>,
           \A b \in Calls \ {c} : request'[b] = request[b] /\ phase'[b] = phase[b]
    PROVE  Verdicts'
<1>1. ASSUME NEW b \in Calls PROVE VerdictOK(b)'
  <2>1. CASE b = c
    BY <2>1 DEF VerdictOK, TypeOK
  <2>2. CASE b # c
    <3>1. VerdictOK(b) /\ pc'[b] = pc[b] /\ phase'[b] = phase[b] /\ request'[b] = request[b]
      BY <2>2 DEF Verdicts, TypeOK
    <3> QED
      BY <3>1 DEF VerdictOK, SaidLast, SaidHeld, Decides
  <2> QED
    BY <2>1, <2>2
<1> QED
  BY <1>1 DEF Verdicts

(* A step that returns the verdict v of call c. *)
LEMMA ReturnVerdicts ==
    ASSUME TypeOK, Verdicts, NEW c \in Calls, NEW v,
           pc' = [pc EXCEPT ![c] = "done"], result' = [result EXCEPT ![c] = v],
           UNCHANGED <<wireVars, arg, phase>>,
           v.allowed => SaidLast(c, "allow"),
           Decides(c) /\ PolicyDenied(v) => SaidLast(c, "deny"),
           Decides(c) /\ v.held => SaidHeld(c),
           Decides(c) /\ v.err # NoErr => ~v.allowed /\ (phase[c] = 2 => v.held)
    PROVE  Verdicts'
<1>1. ASSUME NEW b \in Calls PROVE VerdictOK(b)'
  <2>1. CASE b = c
    <3>1. result'[b] = v
      BY <2>1 DEF TypeOK
    <3> QED
      BY <2>1, <3>1 DEF VerdictOK, SaidLast, SaidHeld, Decides, wireVars
  <2>2. CASE b # c
    <3>1. VerdictOK(b) /\ pc'[b] = pc[b] /\ result'[b] = result[b]
      BY <2>2 DEF Verdicts, TypeOK
    <3> QED
      BY <3>1 DEF VerdictOK, SaidLast, SaidHeld, Decides, wireVars
  <2> QED
    BY <2>1, <2>2
<1> QED
  BY <1>1 DEF Verdicts

LEMMA FailVerdicts ==
    ASSUME TypeOK, Wire, Verdicts, NEW c \in Calls, NEW e \in Kinds, Fail(c, e),
           UNCHANGED <<wireVars, arg>>
    PROVE  Verdicts'
<1> DEFINE v == verdict(c, NoDecision, e)
<1>1. /\ phase' = phase /\ pc' = [pc EXCEPT ![c] = "done"] /\ result' = [result EXCEPT ![c] = v]
  BY FailStep
<1>2. e # NoErr /\ phase[c] \in 1..2
  BY DEF Kinds, NoErr, TypeOK
<1>3. /\ ~v.allowed
      /\ ~(Decides(c) /\ PolicyDenied(v))
      /\ Decides(c) /\ v.held => phase[c] = 2
      /\ Decides(c) /\ phase[c] = 2 => v.held
  BY <1>2, VerdictFacts DEF NoDecision
<1>4. Decides(c) /\ v.held => SaidHeld(c)
  BY <1>3 DEF Wire, WireOK, SaidHeld
<1> HIDE DEF v
<1> QED
  BY <1>1, <1>3, <1>4, ReturnVerdicts

LEMMA NextVerdicts == TypeOK /\ Wire /\ Verdicts /\ [Next]_vars => Verdicts'
<1> SUFFICES ASSUME TypeOK, Wire, Verdicts, [Next]_vars PROVE Verdicts'
  OBVIOUS
<1>1. ASSUME NEW c \in Calls, Invoke(c) PROVE Verdicts'
  BY <1>1, QuietVerdicts DEF Invoke, wireVars
<1>2. ASSUME NEW c \in Calls, BeginRequest(c) PROVE Verdicts'
  <2>1. CASE refusal(c) # NoErr
    BY <1>2, <2>1, OwnErrors, FailVerdicts DEF BeginRequest
  <2>2. CASE refusal(c) = NoErr
    BY <1>2, <2>2, QuietVerdicts DEF BeginRequest, wireVars
  <2> QED
    BY <2>1, <2>2
<1>3. ASSUME NEW c \in Calls, ReadToken(c) PROVE Verdicts'
  <2>1. CASE Fail(c, contextError(c))
    BY <1>3, <2>1, OwnErrors, FailVerdicts DEF ReadToken
  <2>2. CASE tokenError(c) # NoErr /\ Fail(c, tokenError(c))
    BY <1>3, <2>2, OwnErrors, FailVerdicts DEF ReadToken
  <2>3. CASE pc' = [pc EXCEPT ![c] = "dial"] /\ UNCHANGED <<phase, attempt, result>>
    BY <1>3, <2>3, QuietVerdicts DEF ReadToken, wireVars
  <2> QED
    BY <1>3, <2>1, <2>2, <2>3 DEF ReadToken
<1>4. ASSUME NEW c \in Calls, Send(c) PROVE Verdicts'
  <2>1. \A b \in Calls \ {c} : request'[b] = request[b]
    BY <1>4 DEF Send, TypeOK
  <2> QED
    BY <1>4, <2>1, QuietVerdicts DEF Send
<1>5. ASSUME NEW c \in Calls, Break(c) PROVE Verdicts'
  BY <1>5, OwnErrors, FailVerdicts DEF Break
<1>6. ASSUME NEW c \in Calls, Receive(c) PROVE Verdicts'
  <2>1. PICK r \in reply[c] :
           \/ /\ readBounded(r) # NoErr
              /\ Fail(c, readBounded(r))
           \/ /\ pc' = [pc EXCEPT ![c] = "loop"]
              /\ UNCHANGED <<phase, result>>
           \/ Fail(c, "unauthorized")
           \/ /\ r.status # 401
              /\ Conclude(c, outcomeDecision(arg[c].op, r), outcomeErr(arg[c].op, r))
    BY <1>6 DEF Receive
  <2>2. UNCHANGED <<wireVars, arg>> /\ pc[c] = "wait" /\ r \in Response /\ arg[c].op \in Ops
    BY <1>6 DEF Receive, TypeOK, Arg
  <2>3. CASE readBounded(r) # NoErr /\ Fail(c, readBounded(r))
    BY <2>2, <2>3, OwnErrors, FailVerdicts
  <2>4. CASE pc' = [pc EXCEPT ![c] = "loop"] /\ UNCHANGED <<phase, result>>
    BY <2>2, <2>4, QuietVerdicts DEF wireVars
  <2>5. CASE Fail(c, "unauthorized")
    BY <2>2, <2>5, FailVerdicts DEF Kinds
  <2>6. CASE r.status # 401 /\ Conclude(c, outcomeDecision(arg[c].op, r), outcomeErr(arg[c].op, r))
    <3> DEFINE d == outcomeDecision(arg[c].op, r)
               e == outcomeErr(arg[c].op, r)
               v == verdict(c, d, e)
    <3>1. Len(judged[c]) = phase[c] /\ judged[c][phase[c]] = r /\ request[c] = {}
      BY <2>2, <2>6 DEF Wire, WireOK
    <3>2. d \in Decisions \cup {NoDecision} /\ e \in Kinds \cup {NoErr} /\ phase[c] \in 1..2
      BY <2>2, OutcomeType DEF TypeOK
    <3>3. d # NoDecision => SaidLast(c, d)
      BY <2>2, <3>1, OutcomeIsDecision DEF SaidLast
    <3>4. Decides(c) /\ e = NoErr => d \in Decisions
      BY <2>2, OutcomeTotal DEF Decides
    <3>5. CASE /\ StartsHold(c, d, e) /\ result' = result
               /\ pc' = [pc EXCEPT ![c] = "enter"] /\ phase' = [phase EXCEPT ![c] = 2]
      <4>1. \A b \in Calls \ {c} : request'[b] = request[b] /\ phase'[b] = phase[b]
        BY <2>2, <3>5 DEF wireVars, TypeOK
      <4> QED
        BY <2>2, <3>5, <4>1, QuietVerdicts DEF wireVars
    <3>6. CASE /\ phase' = phase /\ pc' = [pc EXCEPT ![c] = "done"]
               /\ result' = [result EXCEPT ![c] = v]
      <4>1. /\ v.allowed => d = "allow"
            /\ v.err = e
            /\ Decides(c) /\ PolicyDenied(v) => e = NoErr /\ d \notin {"allow", "held"}
            /\ Decides(c) /\ v.held => phase[c] = 2 \/ (e = NoErr /\ d = "held")
            /\ Decides(c) /\ e # NoErr => ~v.allowed /\ (phase[c] = 2 => v.held)
        BY <3>2, VerdictFacts
      <4>2. v.allowed => SaidLast(c, "allow")
        BY <3>3, <4>1 DEF NoDecision
      <4>3. Decides(c) /\ PolicyDenied(v) => SaidLast(c, "deny")
        <5>1. ASSUME Decides(c), PolicyDenied(v) PROVE d = "deny"
          BY <3>4, <4>1, <5>1 DEF Decisions
        <5> QED
          BY <3>3, <5>1 DEF NoDecision
      <4>4. Decides(c) /\ v.held => SaidHeld(c)
        <5>1. CASE phase[c] = 2
          BY <5>1 DEF Wire, WireOK, SaidHeld
        <5>2. CASE phase[c] = 1 /\ d = "held"
          BY <3>1, <3>3, <5>2 DEF SaidLast, SaidHeld, NoDecision
        <5> QED
          BY <3>2, <4>1, <5>1, <5>2
      <4> HIDE DEF v
      <4> QED
        BY <2>2, <3>6, <4>1, <4>2, <4>3, <4>4, ReturnVerdicts
    <3> QED
      BY <2>6, <3>5, <3>6, ConcludeStep
  <2> QED
    BY <2>1, <2>3, <2>4, <2>5, <2>6
<1>7. ASSUME UNCHANGED <<judged, arg, pc, phase, result>>,
             \A b \in Calls : request[b] = {} => request'[b] = {}
      PROVE  Verdicts'
  BY <1>7 DEF Verdicts, VerdictOK, SaidLast, SaidHeld, Decides
<1>8. ASSUME NEW c \in Calls, EdgeAnswer(c) PROVE Verdicts'
  <2>1. /\ request[c] # {} /\ request' = [request EXCEPT ![c] = {}]
        /\ UNCHANGED <<arg, pc, phase, result>>
    BY <1>8 DEF EdgeAnswer
  <2>2. CASE judged' = judged
    <3>1. \A b \in Calls : request[b] = {} => request'[b] = {}
      BY <2>1 DEF TypeOK
    <3> QED
      BY <1>7, <2>1, <2>2, <3>1
  <2>3. ASSUME NEW r \in Responses, judged' = [judged EXCEPT ![c] = Append(@, r)] PROVE Verdicts'
    <3>1. ASSUME NEW b \in Calls PROVE VerdictOK(b)'
      <4>1. CASE b = c
        <5>1. judged'[c] = Append(judged[c], r) /\ judged[c] \in Seq(Response) /\ r \in Response
          BY <2>3, ResponsesAssumption DEF TypeOK
        <5>2. SaidHeld(c) => SaidHeld(c)'
          BY <5>1, AppendFacts DEF SaidHeld
        <5>3. ~SaidLast(c, "allow") /\ ~SaidLast(c, "deny")
          BY <2>1 DEF SaidLast
        <5>4. VerdictOK(c)
          BY DEF Verdicts
        <5> QED
          BY <2>1, <4>1, <5>2, <5>3, <5>4 DEF VerdictOK, Decides
      <4>2. CASE b # c
        <5>1. judged'[b] = judged[b] /\ request'[b] = request[b] /\ VerdictOK(b)
          BY <2>1, <2>3, <4>2 DEF TypeOK, Verdicts
        <5> QED
          BY <2>1, <5>1 DEF VerdictOK, SaidLast, SaidHeld, Decides
      <4> QED
        BY <4>1, <4>2
    <3> QED
      BY <3>1 DEF Verdicts
  <2> QED
    BY <1>8, <2>2, <2>3 DEF EdgeAnswer
<1>9. ASSUME NEW c \in Calls, EndParent(c) \/ Expire(c) PROVE Verdicts'
  BY <1>7, <1>9 DEF EndParent, Expire, wireVars
<1>10. CASE Tick
  BY <1>7, <1>10 DEF Tick, wireVars
<1>11. CASE RotateBegin \/ RotateEnd \/ EdgeStart
  BY <1>7, <1>11 DEF RotateBegin, RotateEnd, EdgeStart, wireVars
<1>12. CASE EdgeStop
  BY <1>7, <1>12 DEF EdgeStop
<1>13. CASE UNCHANGED vars
  BY <1>7, <1>13 DEF vars, wireVars
<1> QED
  BY <1>1, <1>2, <1>3, <1>4, <1>5, <1>6, <1>8, <1>9, <1>10, <1>11, <1>12, <1>13
  DEF Next, ClientStep, Edge, Finished

-----------------------------------------------------------------------------
(* Time: what a running request may still take keeps the call within its      *)
(* deadline, and phase 2 starts within the deadline of phase 1.               *)
ClockOK(c) ==
    /\ pc[c] = "idle" => phase[c] = 1
    /\ pc[c] = "idle" \/ (pc[c] = "enter" /\ phase[c] = 1) => elapsed[c] = 0
    /\ pc[c] = "enter" /\ phase[c] = 2 => elapsed[c] <= cfg.timeout /\ Decides(c)
    /\ pc[c] \in {"loop", "dial", "wait"} => elapsed[c] + timer[c] <= Deadline(c)
    /\ elapsed[c] <= Deadline(c)

Clock == \A c \in Calls : ClockOK(c)

LEMMA DeadlineType ==
    ASSUME TypeOK, NEW c \in Calls
    PROVE  /\ Deadline(c) \in Nat
           /\ Decides(c) /\ phase[c] = 2 => Deadline(c) = cfg.timeout + cfg.hold + HoldMargin
           /\ Decides(c) /\ phase[c] = 1 => Deadline(c) = cfg.timeout
           /\ phase[c] = 1 => Deadline(c) = requestTimeout(c)
           /\ Decides(c) /\ phase[c] = 2 =>
                requestTimeout(c) <= cfg.hold + HoldMargin /\ requestTimeout(c) \in Nat
<1>1. cfg.hold \in Nat /\ cfg.timeout \in Nat /\ phase[c] \in 1..2
  BY DEF TypeOK, Config
<1>2. holdSeconds(c) * Second <= cfg.hold /\ requestTimeout(c) \in Nat
  BY TimeoutType
<1>3. holdSeconds(c) * Second \in Nat
  BY TimeoutType, BoundsAssumption
<1>4. Decides(c) /\ phase[c] = 2 => requestTimeout(c) = holdSeconds(c) * Second + HoldMargin
  BY DEF requestTimeout, Decides
<1>5. Decides(c) /\ phase[c] = 2 => requestTimeout(c) <= cfg.hold + HoldMargin
  <2> DEFINE k == holdSeconds(c) * Second
  <2>1. k \in Nat /\ k <= cfg.hold /\ k + HoldMargin <= cfg.hold + HoldMargin
    <3>1. k \in Nat /\ k <= cfg.hold
      BY <1>2, <1>3
    <3> HIDE DEF k
    <3> QED
      BY <1>1, <3>1, BoundsAssumption
  <2> QED
    BY <1>4, <2>1
<1> QED
  BY <1>1, <1>2, <1>5, BoundsAssumption DEF Deadline, requestTimeout, Decides

LEMMA InitClock == Init => Clock
<1> SUFFICES ASSUME Init, NEW c \in Calls PROVE ClockOK(c)
  BY DEF Clock
<1>1. Deadline(c) \in Nat
  BY InitTypeOK, DeadlineType
<1> QED
  BY <1>1 DEF Init, ClockOK

(* A step that ends call c, or moves it between two points of its request     *)
(* or out of idle, in no time.                                                *)
LEMMA QuietClock ==
    ASSUME TypeOK, Clock, NEW c \in Calls, NEW v,
           pc' = [pc EXCEPT ![c] = v],
           \/ v = "done"
           \/ v \in {"loop", "dial", "wait"} /\ pc[c] \in {"loop", "dial", "wait"}
           \/ v = "enter" /\ pc[c] = "idle",
           UNCHANGED <<cfg, arg, phase, timer, elapsed>>
    PROVE  Clock'
<1>1. ASSUME NEW b \in Calls PROVE ClockOK(b)'
  <2>1. ClockOK(b) /\ Deadline(b)' = Deadline(b)
    BY DEF Clock, Deadline, Decides
  <2>2. CASE b = c
    <3>1. pc'[b] = v
      BY <2>2 DEF TypeOK
    <3> QED
      BY <2>1, <2>2, <3>1 DEF ClockOK, Decides
  <2>3. CASE b # c
    BY <2>1, <2>3 DEF ClockOK, TypeOK, Decides
  <2> QED
    BY <2>2, <2>3
<1> QED
  BY <1>1 DEF Clock

LEMMA FailClock ==
    ASSUME TypeOK, Clock, NEW c \in Calls, NEW e \in Kinds, Fail(c, e),
           UNCHANGED <<cfg, arg, timer, elapsed>>
    PROVE  Clock'
  BY FailStep, QuietClock

LEMMA NextClock == TypeOK /\ Clock /\ [Next]_vars => Clock'
<1> SUFFICES ASSUME TypeOK, Clock, [Next]_vars PROVE Clock'
  OBVIOUS
<1>1. ASSUME NEW c \in Calls, Invoke(c) PROVE Clock'
  BY <1>1, QuietClock DEF Invoke, timeVars
<1>2. ASSUME NEW c \in Calls, BeginRequest(c) PROVE Clock'
  <2>1. CASE refusal(c) # NoErr
    BY <1>2, <2>1, OwnErrors, FailClock DEF BeginRequest
  <2>2. CASE refusal(c) = NoErr
    <3>1. /\ pc[c] = "enter" /\ pc' = [pc EXCEPT ![c] = "loop"]
          /\ timer' = [timer EXCEPT ![c] = requestTimeout(c)]
          /\ UNCHANGED <<cfg, arg, phase, elapsed>>
      BY <1>2, <2>2 DEF BeginRequest
    <3>2. ASSUME NEW b \in Calls PROVE ClockOK(b)'
      <4>1. ClockOK(b) /\ Deadline(b)' = Deadline(b)
        BY <3>1 DEF Clock, Deadline, Decides
      <4>2. CASE b = c
        <5>1. /\ pc'[b] = "loop" /\ timer'[b] = requestTimeout(b) /\ requestTimeout(b) \in Nat
              /\ elapsed[b] \in Nat /\ phase[b] \in 1..2 /\ cfg.hold \in Nat
              /\ cfg.timeout \in Nat
          BY <3>1, <4>2, TimeoutType DEF TypeOK, Config
        <5>2. elapsed[b] + requestTimeout(b) <= Deadline(b)
          <6>1. CASE phase[b] = 1
            BY <3>1, <4>1, <4>2, <5>1, <6>1, DeadlineType DEF ClockOK
          <6>2. CASE phase[b] = 2
            <7>1. elapsed[b] <= cfg.timeout /\ Decides(b)
              BY <3>1, <4>1, <4>2, <6>2 DEF ClockOK
            <7>2. /\ Deadline(b) = cfg.timeout + cfg.hold + HoldMargin
                  /\ requestTimeout(b) <= cfg.hold + HoldMargin
              BY <6>2, <7>1, DeadlineType
            <7> QED
              BY <5>1, <7>1, <7>2, BoundsAssumption
          <6> QED
            BY <5>1, <6>1, <6>2
        <5> QED
          BY <3>1, <4>1, <5>1, <5>2 DEF ClockOK
      <4>3. CASE b # c
        BY <3>1, <4>1, <4>3 DEF ClockOK, TypeOK, Decides
      <4> QED
        BY <4>2, <4>3
    <3> QED
      BY <3>2 DEF Clock
  <2> QED
    BY <2>1, <2>2
<1>3. ASSUME NEW c \in Calls, ReadToken(c) PROVE Clock'
  <2>1. UNCHANGED <<cfg, arg, timer, elapsed>> /\ pc[c] = "loop"
    BY <1>3 DEF ReadToken, timeVars
  <2>2. CASE Fail(c, contextError(c))
    BY <2>1, <2>2, OwnErrors, FailClock
  <2>3. CASE tokenError(c) # NoErr /\ Fail(c, tokenError(c))
    BY <2>1, <2>3, OwnErrors, FailClock
  <2>4. CASE pc' = [pc EXCEPT ![c] = "dial"] /\ UNCHANGED <<phase, attempt, result>>
    BY <2>1, <2>4, QuietClock
  <2> QED
    BY <1>3, <2>2, <2>3, <2>4 DEF ReadToken
<1>4. ASSUME NEW c \in Calls, Send(c) PROVE Clock'
  BY <1>4, QuietClock DEF Send, timeVars
<1>5. ASSUME NEW c \in Calls, Break(c) PROVE Clock'
  BY <1>5, OwnErrors, FailClock DEF Break, timeVars
<1>6. ASSUME NEW c \in Calls, Receive(c) PROVE Clock'
  <2>1. PICK r \in reply[c] :
           \/ readBounded(r) # NoErr /\ Fail(c, readBounded(r))
           \/ pc' = [pc EXCEPT ![c] = "loop"] /\ UNCHANGED <<phase, result>>
           \/ Fail(c, "unauthorized")
           \/ Conclude(c, outcomeDecision(arg[c].op, r), outcomeErr(arg[c].op, r))
    BY <1>6 DEF Receive
  <2>2. UNCHANGED <<cfg, arg, timer, elapsed>> /\ pc[c] = "wait"
    BY <1>6 DEF Receive, timeVars
  <2>3. CASE readBounded(r) # NoErr /\ Fail(c, readBounded(r))
    BY <2>2, <2>3, OwnErrors, FailClock
  <2>4. CASE pc' = [pc EXCEPT ![c] = "loop"] /\ UNCHANGED <<phase, result>>
    BY <2>2, <2>4, QuietClock
  <2>5. CASE Fail(c, "unauthorized")
    BY <2>2, <2>5, FailClock DEF Kinds
  <2>6. CASE Conclude(c, outcomeDecision(arg[c].op, r), outcomeErr(arg[c].op, r))
    <3> DEFINE d == outcomeDecision(arg[c].op, r)
               e == outcomeErr(arg[c].op, r)
    <3>1. CASE phase' = phase /\ pc' = [pc EXCEPT ![c] = "done"]
      BY <2>2, <3>1, QuietClock
    <3>2. CASE /\ StartsHold(c, d, e)
               /\ pc' = [pc EXCEPT ![c] = "enter"] /\ phase' = [phase EXCEPT ![c] = 2]
      <4>1. Decides(c) /\ phase[c] = 1
        BY <3>2 DEF StartsHold
      <4>2. ASSUME NEW b \in Calls PROVE ClockOK(b)'
        <5>1. ClockOK(b)
          BY DEF Clock
        <5>2. CASE b = c
          <6>1. pc'[b] = "enter" /\ phase'[b] = 2 /\ Decides(b)' /\ elapsed'[b] = elapsed[b]
            BY <2>2, <3>2, <4>1, <5>2 DEF TypeOK, Decides
          <6>2. elapsed[b] <= cfg.timeout /\ elapsed[b] \in Nat /\ cfg.hold \in Nat /\ cfg.timeout \in Nat
            BY <4>1, <5>1, <5>2, DeadlineType DEF ClockOK, TypeOK, Config
          <6>3. Deadline(b)' = cfg.timeout + cfg.hold + HoldMargin
            BY <2>2, <6>1 DEF Deadline, Decides
          <6>4. elapsed'[b] <= Deadline(b)'
            BY <6>1, <6>2, <6>3, BoundsAssumption
          <6>5. cfg' = cfg
            BY <2>2
          <6> QED
            BY <6>1, <6>2, <6>4, <6>5 DEF ClockOK
        <5>3. CASE b # c
          <6>1. pc'[b] = pc[b] /\ phase'[b] = phase[b] /\ Deadline(b)' = Deadline(b)
            BY <2>2, <3>2, <5>3 DEF TypeOK, Deadline, Decides
          <6> QED
            BY <2>2, <5>1, <6>1 DEF ClockOK, Decides
        <5> QED
          BY <5>2, <5>3
      <4> QED
        BY <4>2 DEF Clock
    <3> QED
      BY <2>6, <3>1, <3>2, ConcludeStep
  <2> QED
    BY <2>1, <2>3, <2>4, <2>5, <2>6
<1>7. CASE Tick
  <2>1. ASSUME NEW b \in Calls PROVE ClockOK(b)'
    <3>1. ClockOK(b) /\ Deadline(b)' = Deadline(b) /\ Deadline(b) \in Nat
      BY <1>7, DeadlineType DEF Clock, Tick, Deadline, Decides
    <3>2. UNCHANGED <<pc, phase, arg>> /\ timer[b] \in Nat /\ elapsed[b] \in Nat
      BY <1>7 DEF Tick, TypeOK
    <3>3. CASE Running(b)
      <4>1. /\ timer'[b] = timer[b] - 1 /\ elapsed'[b] = elapsed[b] + 1 /\ timer[b] > 0
            /\ pc[b] \in {"loop", "dial", "wait"}
        BY <1>7, <3>3 DEF Tick, Running, TypeOK
      <4>2. elapsed'[b] + timer'[b] <= Deadline(b) /\ elapsed'[b] <= Deadline(b)
        BY <3>1, <3>2, <4>1 DEF ClockOK
      <4> QED
        BY <3>1, <3>2, <4>1, <4>2 DEF ClockOK
    <3>4. CASE ~Running(b)
      <4>1. timer'[b] = timer[b] /\ elapsed'[b] = elapsed[b] /\ pc[b] \in {"idle", "done"}
        BY <1>7, <3>4 DEF Tick, Running
      <4> QED
        BY <3>1, <3>2, <4>1 DEF ClockOK
    <3> QED
      BY <3>3, <3>4
  <2> QED
    BY <2>1 DEF Clock
<1>8. CASE UNCHANGED <<cfg, arg, pc, phase, timer, elapsed>>
  BY <1>8 DEF Clock, ClockOK, Deadline, Decides
<1> QED
  BY <1>1, <1>2, <1>3, <1>4, <1>5, <1>6, <1>7, <1>8
  DEF Next, ClientStep, EndParent, Expire, Edge, RotateBegin, RotateEnd, EdgeStop, EdgeStart,
      EdgeAnswer, Finished, vars, timeVars

-----------------------------------------------------------------------------
(* Tokens: what a call presents it read from the file, so a rejection means   *)
(* the edge has minted another token since, and it was a minted token.        *)
TokenOK(c) ==
    /\ pc[c] \in {"loop", "dial", "wait"} /\ attempt[c] = 2 =>
         firstTok[c] >= 1 /\ token >= firstTok[c] + 1
    /\ pc[c] \in {"dial", "wait"} /\ arg[c].op # "health" =>
         /\ tok[c] >= 1 /\ tok[c] <= token
         /\ attempt[c] = 1 => firstTok[c] = tok[c]
         /\ attempt[c] = 2 => tok[c] >= firstTok[c] + 1
    /\ \A q \in request[c] : q.op # "health" => q.tok >= 1 /\ q.tok <= token
    /\ pc[c] = "wait" => \A q \in request[c] : q.op = arg[c].op /\ q.tok = tok[c]
    /\ pc[c] = "wait" => \A r \in reply[c] :
         r.status = 401 => arg[c].op # "health" /\ token >= tok[c] + 1
    /\ pc[c] = "done" /\ result[c].err = "unauthorized" =>
         firstTok[c] >= 1 /\ token >= firstTok[c] + attempt[c]

Tokens == cfg.tokenFile = "edge" => \A c \in Calls : TokenOK(c)

LEMMA InitTokens == Init => Tokens
  BY DEF Init, Tokens, TokenOK

(* A step of call c leaves what is known of the others alone.                 *)
LEMMA OtherTokens ==
    ASSUME TypeOK, NEW b \in Calls, TokenOK(b),
           pc'[b] = pc[b], attempt'[b] = attempt[b], tok'[b] = tok[b], firstTok'[b] = firstTok[b],
           request'[b] = {} \/ request'[b] = request[b], reply'[b] = reply[b],
           arg' = arg, result'[b] = result[b], token' \in Int, token' >= token
    PROVE  TokenOK(b)'
<1>1. token \in Int /\ tok[b] \in Int /\ firstTok[b] \in Int /\ attempt[b] \in Int
  <2>1. attempt[b] \in 1..2
    BY DEF TypeOK
  <2> QED
    BY <2>1 DEF TypeOK
<1>2. \A k \in Int : token >= k => token' >= k
  BY <1>1
<1>3. firstTok[b] + 1 \in Int /\ firstTok[b] + attempt[b] \in Int /\ tok[b] + 1 \in Int
  BY <1>1
<1>4. tok[b] <= token => tok[b] <= token'
  BY <1>1
<1>5. \A q \in request[b] : q.tok \in Int /\ (q.tok <= token => q.tok <= token')
  BY <1>1 DEF TypeOK
<1> QED
  BY <1>2, <1>3, <1>4, <1>5 DEF TokenOK

(* A call that returns anything but a rejection.                              *)
LEMMA EndTokens ==
    ASSUME TypeOK, Tokens, NEW c \in Calls, NEW v,
           pc' = [pc EXCEPT ![c] = "done"], result' = [result EXCEPT ![c] = v],
           \/ v.err # "unauthorized"
           \/ pc[c] = "wait" /\ \E r \in reply[c] : r.status = 401,
           UNCHANGED <<cfg, edgeVars, wireVars, arg, attempt, tokVars>>
    PROVE  Tokens'
<1> SUFFICES ASSUME cfg.tokenFile = "edge", NEW b \in Calls PROVE TokenOK(b)'
  BY DEF Tokens
<1>1. TokenOK(b)
  BY DEF Tokens
<1>2. token \in Int /\ tok[b] \in Int /\ firstTok[b] \in Int
  BY DEF TypeOK
<1>3. CASE b = c
  <2>1. pc'[b] = "done" /\ result'[b] = v
    BY <1>3 DEF TypeOK
  <2>2. pc[c] = "wait" /\ (\E r \in reply[c] : r.status = 401)
          => firstTok[c] >= 1 /\ token >= firstTok[c] + attempt[c]
    <3>1. attempt[c] \in 1..2
      BY DEF TypeOK
    <3> QED
      BY <1>1, <1>2, <1>3, <3>1 DEF TokenOK
  <2>3. \A q \in request[b] : q.op # "health" => q.tok >= 1 /\ q.tok <= token
    BY <1>1 DEF TokenOK
  <2>4. UNCHANGED <<token, firstTok, attempt, request>>
    BY DEF edgeVars, tokVars, wireVars
  <2> QED
    BY <1>3, <2>1, <2>2, <2>3, <2>4 DEF TokenOK
<1>4. CASE b # c
  <2>1. pc'[b] = pc[b] /\ result'[b] = result[b]
    BY <1>4 DEF TypeOK
  <2> QED
    BY <1>1, <1>2, <2>1, OtherTokens DEF edgeVars, wireVars, tokVars
<1> QED
  BY <1>3, <1>4

LEMMA FailTokens ==
    ASSUME TypeOK, Tokens, NEW c \in Calls, NEW e \in Silent, Fail(c, e),
           UNCHANGED <<cfg, edgeVars, wireVars, arg, tokVars>>
    PROVE  Tokens'
<1>1. e \in Kinds /\ e # "unauthorized" /\ phase[c] \in 1..2
  BY OwnErrors DEF TypeOK
<1>2. verdict(c, NoDecision, e).err = e
  BY <1>1, VerdictFacts
<1>3. /\ pc' = [pc EXCEPT ![c] = "done"] /\ attempt' = attempt
      /\ result' = [result EXCEPT ![c] = verdict(c, NoDecision, e)]
  BY <1>1, FailStep
<1> QED
  BY <1>1, <1>2, <1>3, EndTokens

LEMMA NextTokens == TypeOK /\ EdgeOK /\ Wire /\ Tokens /\ [Next]_vars => Tokens'
<1> SUFFICES ASSUME TypeOK, EdgeOK, Wire, Tokens, [Next]_vars PROVE Tokens'
  OBVIOUS
<1>1. ASSUME NEW c \in Calls, Invoke(c) PROVE Tokens'
  BY <1>1 DEF Invoke, Tokens, TokenOK, TypeOK, edgeVars, wireVars, tokVars
<1>2. ASSUME NEW c \in Calls, BeginRequest(c) PROVE Tokens'
  <2>1. CASE refusal(c) # NoErr
    BY <1>2, <2>1, OwnErrors, FailTokens DEF BeginRequest
  <2>2. CASE refusal(c) = NoErr
    BY <1>2, <2>2 DEF BeginRequest, Tokens, TokenOK, TypeOK, edgeVars, wireVars, tokVars
  <2> QED
    BY <2>1, <2>2
<1>3. ASSUME NEW c \in Calls, ReadToken(c) PROVE Tokens'
  <2>1. UNCHANGED <<cfg, edgeVars, wireVars, arg>> /\ pc[c] = "loop"
    BY <1>3 DEF ReadToken
  <2>2. CASE Fail(c, contextError(c)) /\ UNCHANGED tokVars
    BY <2>1, <2>2, OwnErrors, FailTokens
  <2>3. CASE tokenError(c) # NoErr /\ Fail(c, tokenError(c)) /\ UNCHANGED tokVars
    BY <2>1, <2>3, OwnErrors, FailTokens
  <2>4. ASSUME NEW t, t = (IF arg[c].op = "health" THEN NoToken ELSE tokenRead(c)),
               arg[c].op = "health" \/ tokenError(c) = NoErr,
               tok' = [tok EXCEPT ![c] = t],
               firstTok' = [firstTok EXCEPT ![c] = IF attempt[c] = 1 THEN t ELSE @],
               pc' = [pc EXCEPT ![c] = "dial"], UNCHANGED <<phase, attempt, result>>
        PROVE  Tokens'
    <3> SUFFICES ASSUME cfg.tokenFile = "edge", NEW b \in Calls PROVE TokenOK(b)'
      BY <2>1 DEF Tokens
    <3>1. TokenOK(b) /\ token \in Int
      BY DEF Tokens, TypeOK
    <3>2. CASE b = c
      <4>1. pc'[b] = "dial" /\ tok'[b] = t /\ firstTok'[b] = (IF attempt[b] = 1 THEN t ELSE firstTok[b])
        BY <2>4, <3>2 DEF TypeOK
      <4>2. arg[c].op # "health" => t = token /\ t >= 1
        BY <2>4 DEF tokenRead, tokenError, EdgeOK, NoErr, Absent, Empty, TypeOK
      <4>3. attempt[b] = 2 => firstTok[b] >= 1 /\ token >= firstTok[b] + 1
        BY <2>1, <3>1, <3>2 DEF TokenOK
      <4>4. UNCHANGED <<token, arg, request>> /\ attempt'[b] = attempt[b] /\ attempt[b] \in 1..2
        BY <2>1, <2>4 DEF edgeVars, wireVars, TypeOK
      <4> QED
        BY <3>1, <3>2, <4>1, <4>2, <4>3, <4>4 DEF TokenOK
    <3>3. CASE b # c
      <4>1. pc'[b] = pc[b] /\ tok'[b] = tok[b] /\ firstTok'[b] = firstTok[b]
        BY <2>4, <3>3 DEF TypeOK
      <4> QED
        BY <2>1, <2>4, <3>1, <4>1, OtherTokens DEF edgeVars, wireVars
    <3> QED
      BY <3>2, <3>3
  <2> QED
    BY <1>3, <2>2, <2>3, <2>4 DEF ReadToken
<1>4. ASSUME NEW c \in Calls, Send(c) PROVE Tokens'
  <2> SUFFICES ASSUME cfg.tokenFile = "edge", NEW b \in Calls PROVE TokenOK(b)'
    BY <1>4 DEF Tokens, Send
  <2>1. TokenOK(b)
    BY DEF Tokens
  <2>2. CASE b = c
    BY <1>4, <2>1, <2>2 DEF Send, TokenOK, TypeOK, edgeVars, tokVars
  <2>3. CASE b # c
    <3>1. pc'[b] = pc[b] /\ request'[b] = request[b] /\ reply'[b] = reply[b] /\ token \in Int
      BY <1>4, <2>3 DEF Send, TypeOK
    <3>2. UNCHANGED <<arg, attempt, tok, firstTok, result, token>>
      BY <1>4 DEF Send, edgeVars, tokVars
    <3>3. token' >= token
      BY <3>1, <3>2
    <3> QED
      BY <2>1, <3>1, <3>2, <3>3, OtherTokens
  <2> QED
    BY <2>2, <2>3
<1>5. ASSUME NEW c \in Calls, Break(c) PROVE Tokens'
  BY <1>5, OwnErrors, FailTokens DEF Break
<1>6. ASSUME NEW c \in Calls, Receive(c) PROVE Tokens'
  <2>1. PICK r \in reply[c] :
           \/ readBounded(r) # NoErr /\ Fail(c, readBounded(r))
           \/ /\ r.status = 401 /\ mayRetry(c)
              /\ attempt' = [attempt EXCEPT ![c] = @ + 1]
              /\ pc' = [pc EXCEPT ![c] = "loop"]
              /\ UNCHANGED <<phase, result>>
           \/ r.status = 401 /\ Fail(c, "unauthorized")
           \/ Conclude(c, outcomeDecision(arg[c].op, r), outcomeErr(arg[c].op, r))
    BY <1>6 DEF Receive
  <2>2. /\ UNCHANGED <<cfg, edgeVars, wireVars, arg, tokVars>>
        /\ pc[c] = "wait" /\ r \in Response /\ arg[c].op \in Ops
    BY <1>6 DEF Receive, TypeOK, Arg
  <2>3. CASE readBounded(r) # NoErr /\ Fail(c, readBounded(r))
    BY <2>2, <2>3, OwnErrors, FailTokens
  <2>4. CASE /\ r.status = 401 /\ mayRetry(c)
             /\ attempt' = [attempt EXCEPT ![c] = @ + 1]
             /\ pc' = [pc EXCEPT ![c] = "loop"]
             /\ UNCHANGED <<phase, result>>
    <3> SUFFICES ASSUME cfg.tokenFile = "edge", NEW b \in Calls PROVE TokenOK(b)'
      BY <2>2 DEF Tokens
    <3>1. TokenOK(b)
      BY DEF Tokens
    <3>2. CASE b = c
      <4>1. firstTok[b] >= 1 /\ token >= firstTok[b] + 1
        BY <2>2, <2>4, <3>1, <3>2 DEF TokenOK, mayRetry
      <4>2. /\ pc'[b] = "loop" /\ token' = token /\ firstTok'[b] = firstTok[b]
            /\ request' = request
        BY <2>2, <2>4, <3>2 DEF TypeOK, edgeVars, tokVars, wireVars
      <4> QED
        BY <3>1, <4>1, <4>2 DEF TokenOK
    <3>3. CASE b # c
      <4>1. pc'[b] = pc[b] /\ attempt'[b] = attempt[b] /\ token \in Int
        BY <2>4, <3>3 DEF TypeOK
      <4> QED
        BY <2>2, <2>4, <3>1, <4>1, OtherTokens DEF edgeVars, wireVars, tokVars
    <3> QED
      BY <3>2, <3>3
  <2>5. CASE r.status = 401 /\ Fail(c, "unauthorized")
    <3>1. /\ pc' = [pc EXCEPT ![c] = "done"] /\ attempt' = attempt
          /\ result' = [result EXCEPT ![c] = verdict(c, NoDecision, "unauthorized")]
      BY <2>5, FailStep DEF Kinds
    <3>2. \E x \in reply[c] : x.status = 401
      BY <2>5
    <3> DEFINE v == verdict(c, NoDecision, "unauthorized")
    <3>3. result' = [result EXCEPT ![c] = v]
      BY <3>1
    <3> HIDE DEF v
    <3> QED
      BY <2>2, <3>1, <3>2, <3>3, EndTokens
  <2>6. CASE Conclude(c, outcomeDecision(arg[c].op, r), outcomeErr(arg[c].op, r))
    <3> DEFINE d == outcomeDecision(arg[c].op, r)
               e == outcomeErr(arg[c].op, r)
    <3>1. d \in Decisions \cup {NoDecision} /\ e \in Kinds \cup {NoErr} /\ e # "unauthorized"
      BY <2>2, OutcomeType
    <3>2. verdict(c, d, e).err = e
      BY <3>1, VerdictFacts DEF TypeOK
    <3> HIDE DEF d, e
    <3>3. CASE /\ attempt' = attempt /\ pc' = [pc EXCEPT ![c] = "done"]
               /\ result' = [result EXCEPT ![c] = verdict(c, d, e)]
      BY <2>2, <3>1, <3>2, <3>3, EndTokens
    <3>4. CASE /\ attempt' = attempt /\ result' = result
               /\ pc' = [pc EXCEPT ![c] = "enter"]
      BY <2>2, <3>4 DEF Tokens, TokenOK, TypeOK, edgeVars, wireVars, tokVars
    <3> QED
      BY <2>6, <3>3, <3>4, ConcludeStep DEF d, e
  <2> QED
    BY <2>1, <2>3, <2>4, <2>5, <2>6
<1>7. ASSUME UNCHANGED <<cfg, edgeVars, wireVars, arg, pc, attempt, tokVars, result>>
      PROVE  Tokens'
  BY <1>7 DEF Tokens, TokenOK, edgeVars, wireVars, tokVars
<1>8. ASSUME NEW c \in Calls, EdgeAnswer(c) PROVE Tokens'
  <2> SUFFICES ASSUME cfg.tokenFile = "edge", NEW b \in Calls PROVE TokenOK(b)'
    BY <1>8 DEF Tokens, EdgeAnswer
  <2>1. /\ UNCHANGED <<cfg, edgeVars, arg, pc, attempt, tokVars, result>>
        /\ request' = [request EXCEPT ![c] = {}] /\ TokenOK(b)
    BY <1>8 DEF EdgeAnswer, Tokens
  <2>2. PICK q \in request[c] :
           \/ /\ q.op # "health" /\ q.tok # token
              /\ reply' = [reply EXCEPT ![c] = {Unauthorized401}]
           \/ \E r \in Responses : reply' = [reply EXCEPT ![c] = {r}]
    BY <1>8 DEF EdgeAnswer
  <2>3. CASE b = c
    <3>1. token \in Int /\ tok[c] \in Int /\ pc[c] \in {"wait", "done"}
      BY <2>2 DEF TypeOK, Wire, WireOK
    <3>2. pc[c] = "wait" => q.op = arg[c].op /\ q.tok = tok[c]
      BY <2>1, <2>2, <2>3 DEF TokenOK
    <3>3. request'[c] = {}
      BY <2>1 DEF TypeOK
    <3>4. CASE q.op # "health" /\ q.tok # token /\ reply' = [reply EXCEPT ![c] = {Unauthorized401}]
      <4>1. pc[c] = "wait" => arg[c].op # "health" /\ token >= tok[c] + 1
        BY <2>1, <2>3, <3>1, <3>2, <3>4 DEF TokenOK
      <4>2. reply'[c] = {Unauthorized401}
        BY <3>4 DEF TypeOK
      <4> QED
        BY <2>1, <2>3, <3>3, <4>1, <4>2 DEF TokenOK, edgeVars, tokVars
    <3>5. CASE \E r \in Responses : reply' = [reply EXCEPT ![c] = {r}]
      <4>1. \A r \in reply'[c] : r.status # 401
        BY <3>5, ResponsesAssumption DEF TypeOK
      <4> QED
        BY <2>1, <2>3, <3>3, <4>1 DEF TokenOK, edgeVars, tokVars
    <3> QED
      BY <2>2, <3>4, <3>5
  <2>4. CASE b # c
    <3>1. request'[b] = request[b] /\ reply'[b] = reply[b] /\ token \in Int
      BY <2>1, <2>2, <2>4 DEF TypeOK
    <3> QED
      BY <2>1, <3>1, OtherTokens DEF edgeVars, tokVars
  <2> QED
    BY <2>3, <2>4
<1>9. CASE RotateBegin \/ RotateEnd \/ EdgeStop \/ EdgeStart
  <2> SUFFICES ASSUME cfg.tokenFile = "edge", NEW b \in Calls PROVE TokenOK(b)'
    BY <1>9 DEF Tokens, RotateBegin, RotateEnd, EdgeStop, EdgeStart
  <2>1. TokenOK(b)
    BY DEF Tokens
  <2>2. /\ UNCHANGED <<reply, arg, pc, attempt, tokVars, result>>
        /\ token' \in Int /\ token' >= token
        /\ request'[b] = {} \/ request'[b] = request[b]
    BY <1>9 DEF RotateBegin, RotateEnd, EdgeStop, EdgeStart, wireVars, TypeOK
  <2> QED
    BY <2>1, <2>2, OtherTokens DEF tokVars
<1> QED
  BY <1>1, <1>2, <1>3, <1>4, <1>5, <1>6, <1>7, <1>8, <1>9
  DEF Next, ClientStep, EndParent, Expire, Tick, Edge, Finished, vars

-----------------------------------------------------------------------------
(* What a request asks: only a client with a valid address gets past          *)
(* validation, a request of a decision carries the hold of its phase, and     *)
(* phase 2 has a whole second to wait.                                        *)
RequestOK(c) ==
    /\ pc[c] \in {"loop", "dial", "wait"} \/ request[c] # {} => cfg.addrOK
    /\ \A q \in request[c] : Decides(c) => q.hold = holdField(c)
    /\ phase[c] = 2 => holdSeconds(c) > 0

Requests == \A c \in Calls : RequestOK(c)

LEMMA InitRequests == Init => Requests
  BY DEF Init, Requests, RequestOK

(* A step that sends nothing, and validates nothing it has not before. *)
LEMMA QuietRequests ==
    ASSUME Requests, UNCHANGED <<cfg, arg, phase>>,
           \A c \in Calls :
             /\ request'[c] \subseteq request[c]
             /\ \/ pc'[c] \notin {"loop", "dial", "wait"}
                \/ pc[c] \in {"loop", "dial", "wait"}
    PROVE  Requests'
<1> SUFFICES ASSUME NEW c \in Calls PROVE RequestOK(c)'
  BY DEF Requests
<1>1. RequestOK(c) /\ request'[c] \subseteq request[c]
  BY DEF Requests
<1>2. holdField(c)' = holdField(c) /\ holdSeconds(c)' = holdSeconds(c) /\ Decides(c)' = Decides(c)
  BY DEF holdField, holdSeconds, holdBudget, Decides
<1> QED
  BY <1>1, <1>2 DEF RequestOK

LEMMA MoveRequests ==
    ASSUME TypeOK, Requests, NEW c \in Calls, NEW v, pc' = [pc EXCEPT ![c] = v],
           v \in {"loop", "dial", "wait"} => pc[c] \in {"loop", "dial", "wait"},
           UNCHANGED <<cfg, arg, phase, request>>
    PROVE  Requests'
  BY QuietRequests DEF TypeOK

LEMMA FailRequests ==
    ASSUME TypeOK, Requests, NEW c \in Calls, NEW e \in Kinds, Fail(c, e),
           UNCHANGED <<cfg, arg, request>>
    PROVE  Requests'
  BY FailStep, MoveRequests

LEMMA NextRequests == TypeOK /\ Wire /\ Requests /\ [Next]_vars => Requests'
<1> SUFFICES ASSUME TypeOK, Wire, Requests, [Next]_vars PROVE Requests'
  OBVIOUS
<1>1. ASSUME NEW c \in Calls, Invoke(c) PROVE Requests'
  BY <1>1, MoveRequests DEF Invoke, wireVars
<1>2. ASSUME NEW c \in Calls, BeginRequest(c) PROVE Requests'
  <2>1. CASE refusal(c) # NoErr
    BY <1>2, <2>1, OwnErrors, FailRequests DEF BeginRequest, wireVars
  <2>2. CASE refusal(c) = NoErr
    <3>1. pc' = [pc EXCEPT ![c] = "loop"] /\ UNCHANGED <<cfg, arg, phase, request>> /\ cfg.addrOK
      BY <1>2, <2>2 DEF BeginRequest, wireVars, refusal, NoErr
    <3>2. ASSUME NEW b \in Calls PROVE RequestOK(b)'
      <4>1. RequestOK(b)
        BY DEF Requests
      <4>2. holdField(b)' = holdField(b) /\ holdSeconds(b)' = holdSeconds(b) /\ Decides(b)' = Decides(b)
        BY <3>1 DEF holdField, holdSeconds, holdBudget, Decides
      <4> QED
        BY <3>1, <4>1, <4>2 DEF RequestOK
    <3> QED
      BY <3>2 DEF Requests
  <2> QED
    BY <2>1, <2>2
<1>3. ASSUME NEW c \in Calls, ReadToken(c) PROVE Requests'
  <2>1. UNCHANGED <<cfg, arg, request>> /\ pc[c] = "loop"
    BY <1>3 DEF ReadToken, wireVars
  <2>2. CASE Fail(c, contextError(c))
    BY <2>1, <2>2, OwnErrors, FailRequests
  <2>3. CASE tokenError(c) # NoErr /\ Fail(c, tokenError(c))
    BY <2>1, <2>3, OwnErrors, FailRequests
  <2>4. CASE pc' = [pc EXCEPT ![c] = "dial"] /\ phase' = phase
    BY <2>1, <2>4, MoveRequests
  <2> QED
    BY <1>3, <2>2, <2>3, <2>4 DEF ReadToken
<1>4. ASSUME NEW c \in Calls, Send(c) PROVE Requests'
  <2>1. /\ pc[c] = "dial" /\ pc' = [pc EXCEPT ![c] = "wait"]
        /\ request' = [request EXCEPT ![c] =
                         {[op |-> arg[c].op, tok |-> tok[c], hold |-> holdField(c)]}]
        /\ UNCHANGED <<cfg, arg, phase>>
    BY <1>4 DEF Send
  <2>2. ASSUME NEW b \in Calls PROVE RequestOK(b)'
    <3>1. RequestOK(b)
      BY DEF Requests
    <3>2. holdField(b)' = holdField(b) /\ holdSeconds(b)' = holdSeconds(b) /\ Decides(b)' = Decides(b)
      BY <2>1 DEF holdField, holdSeconds, holdBudget, Decides
    <3>3. CASE b = c
      <4>1. request'[b] = {[op |-> arg[b].op, tok |-> tok[b], hold |-> holdField(b)]} /\ cfg.addrOK
        BY <2>1, <3>1, <3>3 DEF TypeOK, RequestOK
      <4> QED
        BY <2>1, <3>1, <3>2, <4>1 DEF RequestOK
    <3>4. CASE b # c
      BY <2>1, <3>1, <3>2, <3>4 DEF TypeOK, RequestOK
    <3> QED
      BY <3>3, <3>4
  <2> QED
    BY <2>2 DEF Requests
<1>5. ASSUME NEW c \in Calls, Break(c) PROVE Requests'
  BY <1>5, OwnErrors, FailRequests DEF Break, wireVars
<1>6. ASSUME NEW c \in Calls, Receive(c) PROVE Requests'
  <2>1. PICK r \in reply[c] :
           \/ readBounded(r) # NoErr /\ Fail(c, readBounded(r))
           \/ pc' = [pc EXCEPT ![c] = "loop"] /\ phase' = phase
           \/ Fail(c, "unauthorized")
           \/ Conclude(c, outcomeDecision(arg[c].op, r), outcomeErr(arg[c].op, r))
    BY <1>6 DEF Receive
  <2>2. UNCHANGED <<cfg, arg, request>> /\ pc[c] = "wait" /\ request[c] = {}
    BY <1>6, <2>1 DEF Receive, wireVars, Wire, WireOK
  <2>3. CASE readBounded(r) # NoErr /\ Fail(c, readBounded(r))
    BY <2>2, <2>3, OwnErrors, FailRequests
  <2>4. CASE pc' = [pc EXCEPT ![c] = "loop"] /\ phase' = phase
    BY <2>2, <2>4, MoveRequests
  <2>5. CASE Fail(c, "unauthorized")
    BY <2>2, <2>5, FailRequests DEF Kinds
  <2>6. CASE Conclude(c, outcomeDecision(arg[c].op, r), outcomeErr(arg[c].op, r))
    <3>1. CASE phase' = phase /\ pc' = [pc EXCEPT ![c] = "done"]
      BY <2>2, <3>1, MoveRequests
    <3>2. CASE /\ holdSeconds(c) > 0
               /\ pc' = [pc EXCEPT ![c] = "enter"] /\ phase' = [phase EXCEPT ![c] = 2]
      <4>1. ASSUME NEW b \in Calls PROVE RequestOK(b)'
        <5>1. RequestOK(b)
          BY DEF Requests
        <5>2. holdSeconds(b)' = holdSeconds(b) /\ Decides(b)' = Decides(b)
          BY <2>2 DEF holdSeconds, holdBudget, Decides
        <5>3. CASE b = c
          <6>1. pc'[b] = "enter" /\ request'[b] = {} /\ holdSeconds(b)' > 0
            BY <2>2, <3>2, <5>2, <5>3 DEF TypeOK
          <6> QED
            BY <6>1 DEF RequestOK
        <5>4. CASE b # c
          <6>1. pc'[b] = pc[b] /\ phase'[b] = phase[b] /\ request'[b] = request[b] /\ cfg' = cfg
            BY <2>2, <3>2, <5>4 DEF TypeOK
          <6>2. holdField(b)' = holdField(b)
            BY <2>2, <5>2, <6>1 DEF holdField
          <6> QED
            BY <5>1, <5>2, <6>1, <6>2 DEF RequestOK
        <5> QED
          BY <5>3, <5>4
      <4> QED
        BY <4>1 DEF Requests
    <3> QED
      BY <2>6, <3>1, <3>2, ConcludeStep DEF StartsHold
  <2> QED
    BY <2>1, <2>3, <2>4, <2>5, <2>6
<1>7. CASE /\ UNCHANGED <<cfg, arg, pc, phase>>
           /\ \A c \in Calls : request'[c] \subseteq request[c]
  BY <1>7, QuietRequests
<1>8. ASSUME NEW c \in Calls, EdgeAnswer(c) PROVE Requests'
  BY <1>7, <1>8 DEF EdgeAnswer, TypeOK
<1>9. CASE EdgeStop
  BY <1>7, <1>9 DEF EdgeStop
<1>10. CASE UNCHANGED <<cfg, arg, pc, phase, request>>
  BY <1>7, <1>10
<1> QED
  BY <1>1, <1>2, <1>3, <1>4, <1>5, <1>6, <1>8, <1>9, <1>10
  DEF Next, ClientStep, EndParent, Expire, Tick, Edge, RotateBegin, RotateEnd, EdgeStart,
      Finished, vars, timeVars, wireVars

-----------------------------------------------------------------------------
(* The inductive invariant: the type invariant, the edge's file, the wire,    *)
(* the verdicts returned, the time spent, the tokens presented and what is    *)
(* asked.                                                                     *)
IInv == TypeOK /\ EdgeOK /\ Wire /\ Verdicts /\ Clock /\ Tokens /\ Requests

THEOREM Inductive == Spec => []IInv
<1>1. Init => IInv
  BY InitTypeOK, InitEdgeOK, InitWire, InitVerdicts, InitClock, InitTokens,
     InitRequests DEF IInv
<1>2. IInv /\ [Next]_vars => IInv'
  BY NextTypeOK, NextEdgeOK, NextWire, NextVerdicts, NextClock, NextTokens,
     NextRequests DEF IInv
<1> QED
  BY <1>1, <1>2, PTL DEF Spec

(* Every variable keeps its type. *)
THEOREM TypeCorrect == Spec => []TypeOK
<1>1. IInv => TypeOK
  BY DEF IInv
<1> QED
  BY <1>1, Inductive, PTL

(* A call says "allowed" only if the edge's last word to it was an allow. *)
THEOREM NeverFabricated == Spec => []AllowIsTheEdges
<1>1. ASSUME IInv PROVE AllowIsTheEdges
  <2>1. \A c \in Calls : VerdictOK(c) /\ phase[c] \in 1..2
    BY <1>1 DEF IInv, TypeOK, Verdicts
  <2> QED
    BY <2>1 DEF VerdictOK, SaidLast, AllowIsTheEdges, Returned, Judged, LastJudged
<1> QED
  BY <1>1, Inductive, PTL

(* A verdict of Decide tells an outage, a denial and a hold apart. *)
THEOREM DistinctOutcomes == Spec => []OutageIsNotPolicy
<1>1. ASSUME IInv PROVE OutageIsNotPolicy
  <2> SUFFICES ASSUME NEW c \in Calls, Returned(c), Decides(c)
      PROVE /\ PolicyDenied(result[c]) =>
                 Judged(c) /\ IsDecision(LastJudged(c)) /\ LastJudged(c).body = "deny"
            /\ result[c].held => Judged(c) /\ IsDecision(judged[c][1]) /\ judged[c][1].body = "held"
            /\ Unreachable(result[c]) => ~result[c].allowed /\ ~PolicyDenied(result[c])
            /\ Unreachable(result[c]) /\ phase[c] = 2 => result[c].held
    BY DEF OutageIsNotPolicy
  <2>1. VerdictOK(c) /\ phase[c] \in 1..2 /\ Len(judged[c]) \in Nat
    BY <1>1 DEF IInv, TypeOK, Verdicts
  <2> QED
    BY <2>1 DEF VerdictOK, SaidLast, SaidHeld, Returned, Judged, LastJudged, Unreachable, PolicyDenied
<1> QED
  BY <1>1, Inductive, PTL

(* The edge judges a call at most once per phase. *)
THEOREM JudgedOnce == Spec => []JudgedOncePerPhase
<1>1. ASSUME IInv PROVE JudgedOncePerPhase
  <2>1. \A c \in Calls : WireOK(c) /\ Len(judged[c]) \in Nat
    BY <1>1 DEF IInv, Wire, TypeOK
  <2> QED
    BY <2>1 DEF WireOK, JudgedOncePerPhase, Judged
<1> QED
  BY <1>1, Inductive, PTL

(* No call outlasts its deadline. *)
THEOREM Bounded == Spec => []DeadlineBound
<1>1. IInv => DeadlineBound
  BY DEF IInv, Clock, ClockOK, DeadlineBound
<1> QED
  BY <1>1, Inductive, PTL

(* No request asks the edge to wait past the budget or the cap of its call. *)
THEOREM HoldBudgeted == Spec => []HoldWithinBudget
<1>1. ASSUME IInv PROVE HoldWithinBudget
  <2> SUFFICES ASSUME NEW c \in Calls, Decides(c), NEW q \in request[c]
      PROVE /\ q.hold > 0 <=> phase[c] = 2
            /\ q.hold * Second <= cfg.hold
            /\ arg[c].op = "capped" /\ q.hold > 0 => q.hold * Second <= arg[c].budget
    BY DEF HoldWithinBudget
  <2>1. /\ RequestOK(c) /\ TypeOK /\ q.hold = holdField(c)
    BY <1>1 DEF IInv, Requests, RequestOK
  <2>2. /\ holdBudget(c) \in Nat /\ holdSeconds(c) \in Nat /\ holdSeconds(c) * Second <= holdBudget(c)
        /\ holdBudget(c) <= cfg.hold /\ cfg.hold \in Nat /\ arg[c].budget \in Int /\ phase[c] \in 1..2
    BY <2>1, TimeoutType, DivFact, BoundsAssumption DEF TypeOK, Config, Arg, holdSeconds
  <2>3. arg[c].op = "capped" /\ holdBudget(c) > 0 => holdBudget(c) <= arg[c].budget
    BY <2>2 DEF holdBudget
  <2>4. CASE phase[c] = 1
    <3>1. q.hold = 0
      BY <2>1, <2>4 DEF holdField, Decides
    <3> QED
      BY <2>2, <2>4, <3>1, BoundsAssumption
  <2>5. CASE phase[c] = 2
    <3>1. q.hold = holdSeconds(c) /\ holdSeconds(c) > 0
      BY <2>1, <2>5 DEF holdField, Decides, RequestOK
    <3> DEFINE n == holdSeconds(c)
               k == n * Second
    <3>2. n \in Nat /\ n >= 1 /\ k \in Nat /\ k >= 1
      BY <2>2, <3>1, BoundsAssumption, SMTT(30)
    <3>3. k <= holdBudget(c) /\ q.hold = n /\ q.hold * Second = k
      BY <2>2, <3>1
    <3> HIDE DEF n, k
    <3>4. holdBudget(c) > 0 /\ k <= cfg.hold
      BY <2>2, <3>2, <3>3
    <3>5. arg[c].op = "capped" => k <= arg[c].budget
      BY <2>2, <2>3, <3>2, <3>3, <3>4
    <3> QED
      BY <2>5, <3>2, <3>3, <3>4, <3>5
  <2> QED
    BY <2>2, <2>4, <2>5
<1> QED
  BY <1>1, Inductive, PTL

(* Each rejection a call reports is a token minted since its first read, and  *)
(* no request goes out without one.                                           *)
THEOREM RotationsTold == Spec => []RejectionsAreRotations
<1>1. ASSUME IInv PROVE RejectionsAreRotations
  <2> SUFFICES ASSUME cfg.tokenFile = "edge", NEW c \in Calls
      PROVE /\ Returned(c) /\ result[c].err = "unauthorized" =>
                 firstTok[c] >= 1 /\ token >= firstTok[c] + attempt[c]
            /\ \A q \in request[c] : q.op # "health" => q.tok \in 1..token
    BY DEF RejectionsAreRotations
  <2>1. TokenOK(c) /\ token \in Int /\ \A q \in request[c] : q.tok \in Int
    BY <1>1 DEF IInv, Tokens, TypeOK
  <2> QED
    BY <2>1 DEF TokenOK, Returned
<1> QED
  BY <1>1, Inductive, PTL
=============================================================================
