--------------------- MODULE AdmissionRefinementProofs ---------------------
(***************************************************************************)
(* Every behaviour of the client that makes decisions only is one of the    *)
(* contract, but for its fairness: Init is ContractInit, and a step opens,  *)
(* judges or closes a call of the contract, or does not show in it.         *)
(***************************************************************************)
EXTENDS AdmissionRefinement, AdmissionClientProofs

(* The last answer, if it is a decision, is the edge's word. *)
LEMMA LastWord ==
    ASSUME NEW s \in Seq(Response), Len(s) > 0, IsDecision(s[Len(s)])
    PROVE  Word(s) = s[Len(s)].body
<1> DEFINE n == Len(s)
           m == CHOOSE i \in Said(s) : \A j \in Said(s) : j <= i
<1>1. n \in Nat /\ DOMAIN s = 1..n
  OBVIOUS
<1>2. n \in Said(s) /\ \A j \in Said(s) : j \in Nat /\ j <= n
  BY <1>1 DEF Said
<1>3. m \in Said(s) /\ \A j \in Said(s) : j <= m
  BY <1>2
<1>4. m = n
  BY <1>1, <1>2, <1>3
<1> QED
  BY <1>2, <1>4 DEF Word

(* Before it is asked there is no word. *)
LEMMA NoWord ==
    ASSUME NEW s \in Seq(Response), Len(s) = 0
    PROVE  Word(s) = NoDecision /\ ~WasHeld(s)
<1>1. Said(s) = {}
  BY DEF Said
<1> QED
  BY <1>1 DEF Word, WasHeld

LEMMA FirstHeld ==
    ASSUME NEW s \in Seq(Response), Len(s) > 0, IsDecision(s[1]), s[1].body = "held"
    PROVE  WasHeld(s) /\ (Len(s) = 1 => Word(s) = "held")
<1>1. 1 \in Said(s)
  BY DEF Said
<1>2. WasHeld(s)
  BY <1>1 DEF WasHeld
<1> QED
  BY <1>2, LastWord

(* One more answer is a new word, or does not change the word. *)
LEMMA NextWord ==
    ASSUME NEW s \in Seq(Response), NEW r \in Response, Len(s) <= 1,
           Len(s) = 1 => IsDecision(s[1]) /\ s[1].body = "held"
    PROVE  /\ Word(Append(s, r)) = IF IsDecision(r) THEN r.body ELSE Word(s)
           /\ WasHeld(Append(s, r)) <=> WasHeld(s) \/ (IsDecision(r) /\ r.body = "held")
<1> DEFINE t == Append(s, r)
           n == Len(s)
<1>1. /\ t \in Seq(Response) /\ n \in 0..1 /\ Len(t) = n + 1 /\ t[n + 1] = r
      /\ n = 1 => t[1] = s[1]
  BY AppendFacts
<1> HIDE DEF t, n
<1>2. /\ IsDecision(r) => Said(t) = Said(s) \cup {n + 1}
      /\ ~IsDecision(r) => Said(t) = Said(s)
      /\ \A i \in Said(s) : i = 1 /\ n = 1
  <2>1. DOMAIN s = 1..n /\ DOMAIN t = 1..(n + 1)
    BY <1>1 DEF n
  <2>2. CASE n = 0
    BY <1>1, <2>1, <2>2 DEF Said
  <2>3. CASE n = 1
    BY <1>1, <2>1, <2>3 DEF Said
  <2> QED
    BY <1>1, <2>2, <2>3
<1>3. \A i \in Said(s) : t[i] = s[i]
  BY <1>1, <1>2
<1>4. CASE IsDecision(r)
  <2>1. Word(t) = r.body
    <3>1. Len(t) > 0 /\ t[Len(t)] = r
      BY <1>1
    <3> QED
      BY <1>1, <1>4, <3>1, LastWord
  <2>2. Said(t) = Said(s) \cup {n + 1}
    BY <1>2, <1>4
  <2>3. WasHeld(t) <=> WasHeld(s) \/ r.body = "held"
    BY <1>1, <1>3, <2>2 DEF WasHeld
  <2> QED
    BY <1>4, <2>1, <2>3 DEF t
<1>5. CASE ~IsDecision(r)
  <2>1. Said(t) = Said(s)
    BY <1>2, <1>5
  <2>2. WasHeld(t) <=> WasHeld(s)
    BY <1>3, <2>1 DEF WasHeld
  <2>3. Word(t) = Word(s)
    <3>1. CASE Said(s) = {}
      BY <2>1, <3>1 DEF Word
    <3>2. CASE Said(s) # {}
      <4>1. Said(s) = {1}
        BY <1>2, <3>2
      <4>2. (CHOOSE i \in Said(s) : \A j \in Said(s) : j <= i) = 1
        BY <4>1
      <4>3. t[1] = s[1]
        BY <1>3, <4>1
      <4>4. Word(s) = s[1].body
        BY <3>2, <4>2 DEF Word
      <4>5. Word(t) = t[1].body
        BY <2>1, <3>2, <4>2 DEF Word
      <4> QED
        BY <4>3, <4>4, <4>5
    <3> QED
      BY <3>1, <3>2
  <2> QED
    BY <1>5, <2>2, <2>3 DEF t
<1> QED
  BY <1>4, <1>5

-----------------------------------------------------------------------------
OnlyDecides == \A c \in Calls : Decides(c)

(* A step that does not show in the contract. *)
LEMMA HiddenStep ==
    ASSUME TypeOK, UNCHANGED <<judged, result>>, \A c \in Calls : Stage(c)' = Stage(c)
    PROVE  UNCHANGED Contract!contractVars
  BY DEF Contract!contractVars

(* pc moves between two places of the same stage. *)
LEMMA SameStage ==
    ASSUME TypeOK, NEW c \in Calls, NEW v, pc' = [pc EXCEPT ![c] = v],
           pc[c] \notin {"idle", "done"}, v \notin {"idle", "done"}, UNCHANGED <<judged, result>>
    PROVE  UNCHANGED Contract!contractVars
<1>1. \A b \in Calls : Stage(b)' = Stage(b)
  BY DEF TypeOK, Stage
<1> QED
  BY <1>1, HiddenStep

LEMMA OpenStep ==
    ASSUME TypeOK, NEW c \in Calls, Invoke(c)
    PROVE  Contract!Open(c)
<1>1. /\ pc[c] = "idle" /\ pc' = [pc EXCEPT ![c] = "enter"] /\ UNCHANGED <<judged, result>>
  BY DEF Invoke, wireVars
<1>2. Stage(c) = "idle" /\ \A b \in Calls : Stage(b)' = IF b = c THEN "open" ELSE Stage(b)
  BY <1>1 DEF TypeOK, Stage
<1> QED
  BY <1>1, <1>2 DEF Contract!Open

LEMMA CloseStep ==
    ASSUME TypeOK, NEW c \in Calls, NEW v \in Contract!Verdicts(c),
           pc[c] \notin {"idle", "done"}, pc' = [pc EXCEPT ![c] = "done"],
           result' = [result EXCEPT ![c] = v], judged' = judged
    PROVE  Contract!Close(c)
<1>1. Stage(c) = "open" /\ \A b \in Calls : Stage(b)' = IF b = c THEN "closed" ELSE Stage(b)
  BY DEF TypeOK, Stage
<1> QED
  BY <1>1 DEF Contract!Close

(* A failure closes the call with an error the contract allows. *)
LEMMA FailCloses ==
    ASSUME TypeOK, Wire, OnlyDecides, NEW c \in Calls, NEW e \in Kinds, Fail(c, e),
           pc[c] \notin {"idle", "done"}, judged' = judged
    PROVE  Contract!Close(c)
<1> DEFINE v == verdict(c, NoDecision, e)
<1>1. pc' = [pc EXCEPT ![c] = "done"] /\ result' = [result EXCEPT ![c] = v]
  BY FailStep
<1>2. Decides(c) /\ e # NoErr /\ phase[c] \in 1..2 /\ judged[c] \in Seq(Response)
  BY DEF OnlyDecides, Kinds, NoErr, TypeOK
<1>3. v = IF phase[c] = 1 THEN unreachableVerdict(e) ELSE holdFailedVerdict(e)
  BY <1>2 DEF verdict
<1>4. phase[c] = 2 => WasHeld(judged[c])
  <2>1. phase[c] = 2 => Len(judged[c]) > 0 /\ IsDecision(judged[c][1]) /\ judged[c][1].body = "held"
    BY <1>2 DEF Wire, WireOK
  <2> QED
    BY <1>2, <2>1, FirstHeld
<1>5. v \in Contract!Verdicts(c)
  <2>1. CASE phase[c] = 1
    BY <1>3, <2>1 DEF Contract!Verdicts, Contract!unreachableVerdict, unreachableVerdict,
          Contract!NoDecision, NoDecision
  <2>2. CASE phase[c] = 2
    BY <1>3, <1>4, <2>2 DEF Contract!Verdicts, Contract!holdFailedVerdict, holdFailedVerdict,
          Contract!NoDecision, NoDecision
  <2> QED
    BY <1>2, <2>1, <2>2
<1> HIDE DEF v
<1> QED
  BY <1>1, <1>5, CloseStep

(* An answer is a word of the contract when it is a decision, whether or not  *)
(* anyone still waits for it; any other is not seen there.                    *)
LEMMA AnswerStep ==
    ASSUME TypeOK, Wire, NEW c \in Calls, EdgeAnswer(c)
    PROVE  (\E d \in Decisions : Contract!Judge(c, d)) \/ UNCHANGED Contract!contractVars
<1>1. request[c] # {} /\ UNCHANGED <<pc, result>>
  BY DEF EdgeAnswer
<1>2. \A b \in Calls : Stage(b)' = Stage(b)
  BY <1>1 DEF Stage
<1>3. CASE judged' = judged
  BY <1>1, <1>2, <1>3, HiddenStep
<1>4. ASSUME NEW r \in Responses, judged' = [judged EXCEPT ![c] = Append(@, r)]
      PROVE  (\E d \in Decisions : Contract!Judge(c, d)) \/ UNCHANGED Contract!contractVars
  <2> DEFINE s == judged[c]
             t == Append(s, r)
  <2>1. /\ s \in Seq(Response) /\ r \in Response /\ phase[c] \in 1..2
        /\ Len(s) = phase[c] - 1 /\ pc[c] \in {"wait", "done"}
        /\ phase[c] = 2 => Len(s) >= 1 /\ IsDecision(s[1]) /\ s[1].body = "held"
    BY <1>1, ResponsesAssumption DEF TypeOK, Wire, WireOK
  <2>2. Len(s) <= 1 /\ (Len(s) = 1 => IsDecision(s[1]) /\ s[1].body = "held")
    BY <2>1
  <2>3. /\ Word(t) = IF IsDecision(r) THEN r.body ELSE Word(s)
        /\ WasHeld(t) <=> WasHeld(s) \/ (IsDecision(r) /\ r.body = "held")
    BY <2>1, <2>2, NextWord
  <2>4. \A b \in Calls : judged'[b] = IF b = c THEN t ELSE judged[b]
    BY <1>4 DEF TypeOK
  <2>5. /\ Stage(c) # "idle"
        /\ Word(s) = NoDecision \/ (Word(s) = "held" /\ WasHeld(s))
    <3>1. Stage(c) # "idle"
      BY <2>1 DEF Stage
    <3>2. CASE phase[c] = 1
      BY <2>1, <3>1, <3>2, NoWord
    <3>3. CASE phase[c] = 2
      <4>1. Len(s) = 1 /\ IsDecision(s[1]) /\ s[1].body = "held"
        BY <2>1, <3>3
      <4> QED
        BY <2>1, <3>1, <4>1, FirstHeld
    <3> QED
      BY <2>1, <3>2, <3>3
  <2>6. WasHeld(s) \in BOOLEAN /\ WasHeld(t) \in BOOLEAN
    BY DEF WasHeld
  <2> HIDE DEF t
  <2>7. CASE IsDecision(r)
    <3>1. r.body \in Decisions
      BY <2>7 DEF IsDecision
    <3>2. \A b \in Calls : Word(judged'[b]) = IF b = c THEN r.body ELSE Word(judged[b])
      BY <2>3, <2>4, <2>7
    <3>3. \A b \in Calls :
            WasHeld(judged'[b]) = IF b = c THEN WasHeld(s) \/ r.body = "held" ELSE WasHeld(judged[b])
      BY <2>3, <2>4, <2>6, <2>7
    <3>4. Contract!Judge(c, r.body)
      BY <1>1, <1>2, <2>5, <3>2, <3>3 DEF Contract!Judge, Contract!NoDecision, NoDecision
    <3> QED
      BY <3>1, <3>4
  <2>8. CASE ~IsDecision(r)
    <3>1. \A b \in Calls : Word(judged'[b]) = Word(judged[b])
      BY <2>3, <2>4, <2>8
    <3>2. \A b \in Calls : WasHeld(judged'[b]) = WasHeld(judged[b])
      BY <2>3, <2>4, <2>6, <2>8
    <3> QED
      BY <1>1, <1>2, <3>1, <3>2 DEF Contract!contractVars
  <2> QED
    BY <2>7, <2>8
<1> QED
  BY <1>3, <1>4 DEF EdgeAnswer

(* An answer that arrives is retried, starts phase 2, or closes the call with *)
(* the edge's word or with an error.                                          *)
LEMMA ReceiveStep ==
    ASSUME TypeOK, Wire, OnlyDecides, NEW c \in Calls, Receive(c)
    PROVE  Contract!Close(c) \/ UNCHANGED Contract!contractVars
<1>1. PICK r \in reply[c] :
         \/ readBounded(r) # NoErr /\ Fail(c, readBounded(r))
         \/ pc' = [pc EXCEPT ![c] = "loop"] /\ UNCHANGED <<phase, result>>
         \/ Fail(c, "unauthorized")
         \/ /\ r.status # 401
            /\ Conclude(c, outcomeDecision(arg[c].op, r), outcomeErr(arg[c].op, r))
  BY DEF Receive
<1>2. /\ pc[c] = "wait" /\ judged' = judged /\ r \in Response
      /\ arg[c].op \in {"decide", "capped"} /\ arg[c].op \in Ops /\ Decides(c)
      /\ judged[c] \in Seq(Response) /\ phase[c] \in 1..2
  BY DEF Receive, wireVars, TypeOK, OnlyDecides, Decides, Ops
<1>3. CASE readBounded(r) # NoErr /\ Fail(c, readBounded(r))
  BY <1>2, <1>3, OwnErrors, FailCloses
<1>4. CASE pc' = [pc EXCEPT ![c] = "loop"] /\ UNCHANGED <<phase, result>>
  BY <1>2, <1>4, SameStage
<1>5. CASE Fail(c, "unauthorized")
  BY <1>2, <1>5, FailCloses DEF Kinds
<1>6. CASE /\ r.status # 401
           /\ Conclude(c, outcomeDecision(arg[c].op, r), outcomeErr(arg[c].op, r))
  <2> DEFINE d == outcomeDecision(arg[c].op, r)
             e == outcomeErr(arg[c].op, r)
  <2>1. d \in Decisions \cup {NoDecision} /\ e \in Kinds \cup {NoErr}
    BY <1>2, OutcomeType
  <2>2. Len(judged[c]) = phase[c] /\ judged[c][phase[c]] = r
    BY <1>2, <1>6 DEF Wire, WireOK
  <2>3. e = NoErr => Word(judged[c]) = d /\ d \in Decisions
    <3>1. SUFFICES ASSUME e = NoErr PROVE Word(judged[c]) = d /\ d \in Decisions
      OBVIOUS
    <3>2. d \in Decisions
      BY <1>2, <3>1, OutcomeTotal
    <3>3. d # NoDecision
      BY <3>2 DEF Decisions, NoDecision
    <3>4. IsDecision(r) /\ d = r.body
      BY <1>2, <3>3, OutcomeIsDecision
    <3> QED
      BY <1>2, <2>2, <3>2, <3>4, LastWord
  <2>4. Conclude(c, d, e)
    BY <1>6
  <2> HIDE DEF d, e
  <2>5. CASE e # NoErr
    <3>1. e \in Kinds /\ ~StartsHold(c, d, e) /\ ~StartsHold(c, NoDecision, e)
      BY <2>1, <2>5 DEF StartsHold
    <3>2. verdict(c, d, e) = verdict(c, NoDecision, e)
      BY <1>2, <2>5 DEF verdict
    <3>3. Fail(c, e)
      BY <2>4, <3>1, <3>2 DEF Conclude, Fail
    <3> QED
      BY <1>2, <3>1, <3>3, FailCloses
  <2>6. CASE e = NoErr /\ pc' = [pc EXCEPT ![c] = "enter"] /\ result' = result
    BY <1>2, <2>6, SameStage
  <2>7. CASE /\ e = NoErr /\ pc' = [pc EXCEPT ![c] = "done"]
             /\ result' = [result EXCEPT ![c] = verdict(c, d, e)]
    <3>1. verdict(c, d, e) = verdictFor(Word(judged[c])) /\ Word(judged[c]) # NoDecision
      BY <1>2, <2>3, <2>7 DEF verdict, Decisions, NoDecision
    <3>2. verdict(c, d, e) \in Contract!Verdicts(c)
      BY <3>1 DEF Contract!Verdicts, Contract!verdictFor, verdictFor, Contract!NoDecision, NoDecision,
            Contract!NoErr, NoErr
    <3> QED
      BY <1>2, <2>7, <3>2, CloseStep
  <2> QED
    BY <2>4, <2>5, <2>6, <2>7, ConcludeStep
<1> QED
  BY <1>1, <1>3, <1>4, <1>5, <1>6

-----------------------------------------------------------------------------
LEMMA InitContract == Init => Contract!ContractInit
<1> SUFFICES ASSUME Init PROVE Contract!ContractInit
  OBVIOUS
<1>1. \A c \in Calls : Stage(c) = "idle"
  BY DEF Init, Stage
<1>2. \A c \in Calls : Word(judged[c]) = NoDecision /\ WasHeld(judged[c]) = FALSE
  <2>1. \A c \in Calls : judged[c] = <<>>
    BY DEF Init
  <2>2. <<>> \in Seq(Response) /\ Len(<<>>) = 0
    OBVIOUS
  <2>3. Word(<<>>) = NoDecision /\ ~WasHeld(<<>>) /\ WasHeld(<<>>) \in BOOLEAN
    BY <2>2, NoWord DEF WasHeld
  <2> QED
    BY <2>1, <2>3
<1>3. result = [c \in Calls |-> returned(NoDecision, NoErr)]
  BY DEF Init, NoResult
<1> QED
  BY <1>1, <1>2, <1>3 DEF Contract!ContractInit, Contract!returned, returned,
     Contract!NoDecision, NoDecision, Contract!NoErr, NoErr

LEMMA StepOfContract ==
    ASSUME TypeOK, Wire, OnlyDecides, [Next]_vars
    PROVE  [Contract!ContractNext]_(Contract!contractVars)
<1> DEFINE Shown(c) == \/ Contract!Open(c) \/ Contract!Close(c)
                       \/ \E d \in Contract!Decisions : Contract!Judge(c, d)
           Step == (\E c \in Calls : Shown(c)) \/ UNCHANGED Contract!contractVars
<1> SUFFICES Step
  BY DEF Contract!ContractNext
<1>0. ASSUME UNCHANGED <<pc, judged, result>> PROVE Step
  <2>1. \A c \in Calls : Stage(c)' = Stage(c)
    BY <1>0 DEF Stage
  <2> QED
    BY <1>0, <2>1, HiddenStep
<1>1. ASSUME NEW c \in Calls, Invoke(c) PROVE Step
  BY <1>1, OpenStep
<1>2. ASSUME NEW c \in Calls, BeginRequest(c) PROVE Step
  <2>1. pc[c] = "enter" /\ judged' = judged
    BY <1>2 DEF BeginRequest, wireVars
  <2>2. CASE refusal(c) # NoErr
    <3>1. Fail(c, refusal(c)) /\ refusal(c) \in Kinds
      BY <1>2, <2>2, OwnErrors DEF BeginRequest
    <3> QED
      BY <2>1, <3>1, FailCloses
  <2>3. CASE refusal(c) = NoErr
    BY <1>2, <2>1, <2>3, SameStage DEF BeginRequest
  <2> QED
    BY <2>2, <2>3
<1>3. ASSUME NEW c \in Calls, ReadToken(c) PROVE Step
  <2>1. pc[c] = "loop" /\ judged' = judged
    BY <1>3 DEF ReadToken, wireVars
  <2>2. ASSUME NEW e \in Kinds, Fail(c, e) PROVE Step
    BY <2>1, <2>2, FailCloses
  <2>3. CASE pc' = [pc EXCEPT ![c] = "dial"] /\ result' = result
    BY <2>1, <2>3, SameStage
  <2> QED
    BY <1>3, <2>2, <2>3, OwnErrors DEF ReadToken
<1>4. ASSUME NEW c \in Calls, Send(c) PROVE Step
  BY <1>4, SameStage DEF Send
<1>5. ASSUME NEW c \in Calls, Break(c) PROVE Step
  <2>1. pc[c] \notin {"idle", "done"} /\ judged' = judged /\ \E e \in transportErrors(c) : Fail(c, e)
    BY <1>5 DEF Break, wireVars
  <2> QED
    BY <2>1, OwnErrors, FailCloses
<1>6. ASSUME NEW c \in Calls, Receive(c) PROVE Step
  BY <1>6, ReceiveStep
<1>7. ASSUME NEW c \in Calls, EdgeAnswer(c) PROVE Step
  BY <1>7, AnswerStep DEF Contract!Decisions, Decisions
<1>8. ASSUME NEW c \in Calls, EndParent(c) \/ Expire(c) PROVE Step
  BY <1>0, <1>8 DEF EndParent, Expire, wireVars
<1>9. CASE Tick \/ RotateBegin \/ RotateEnd \/ EdgeStop \/ EdgeStart \/ UNCHANGED vars
  BY <1>0, <1>9 DEF Tick, RotateBegin, RotateEnd, EdgeStop, EdgeStart, vars, wireVars
<1> HIDE DEF Step
<1> QED
  BY <1>1, <1>2, <1>3, <1>4, <1>5, <1>6, <1>7, <1>8, <1>9 DEF Next, ClientStep, Edge, Finished

(* What a call asks never changes. *)
LEMMA ArgsKept ==
    ASSUME \A a \in Args : a.op \in {"decide", "capped"}
    PROVE  /\ Init => OnlyDecides
           /\ OnlyDecides /\ [Next]_vars => OnlyDecides'
<1>1. Init => OnlyDecides
  BY DEF Init, OnlyDecides, Decides
<1>2. [Next]_vars => arg' = arg
  BY DEF Next, ClientStep, Edge, Finished, Invoke, BeginRequest, ReadToken, Send, Break, Receive,
     EndParent, Expire, Tick, EdgeAnswer, RotateBegin, RotateEnd, EdgeStop, EdgeStart, vars
<1> QED
  BY <1>1, <1>2 DEF OnlyDecides, Decides

(* The safety part of ImplementsContract (client.go:172-178), for any number  *)
(* of decisions at a time and any answers: each closes with the edge's word   *)
(* or an error that allows nothing, once, and the edge gives it one word, or  *)
(* another after it held the call.                                            *)
THEOREM KeepsContract ==
    ASSUME \A a \in Args : a.op \in {"decide", "capped"}
    PROVE  Spec => Contract!ContractSafety
<1>1. Init => Contract!ContractInit
  BY InitContract
<1>2. IInv => TypeOK /\ Wire
  BY DEF IInv
<1>3. TypeOK /\ Wire /\ OnlyDecides /\ [Next]_vars => [Contract!ContractNext]_(Contract!contractVars)
  BY StepOfContract
<1>4. Spec => []OnlyDecides
  <2>1. Init => OnlyDecides
    BY ArgsKept
  <2>2. OnlyDecides /\ [Next]_vars => OnlyDecides'
    BY ArgsKept
  <2> QED
    BY <2>1, <2>2, PTL DEF Spec
<1> QED
  BY <1>1, <1>2, <1>3, <1>4, Inductive, PTL DEF Spec, Contract!ContractSafety
=============================================================================
