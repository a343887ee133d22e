------------------------- MODULE GovernedCallProofs -------------------------
(***************************************************************************)
(* Proofs about GovernedCall, for any set of calls, inputs and updates.      *)
(***************************************************************************)
EXTENDS GovernedCall, FiniteSetTheorems, TLAPS

(* The merged input is an object with the edge's keys over the caller's. *)
LEMMA MergeFacts ==
    ASSUME NEW in \in Object, NEW u \in Object
    PROVE  /\ mergeInput(in, u) \in Object
           /\ DOMAIN mergeInput(in, u) = DOMAIN in \cup DOMAIN u
           /\ \A f \in DOMAIN mergeInput(in, u) :
                mergeInput(in, u)[f] = IF f \in DOMAIN u THEN u[f] ELSE in[f]
<1>1. PICK S \in SUBSET Fields : in \in [S -> Values]
  BY DEF Object
<1>2. PICK T \in SUBSET Fields : u \in [T -> Values]
  BY DEF Object
<1>3. mergeInput(in, u) \in [S \cup T -> Values] /\ S \cup T \in SUBSET Fields
  BY <1>1, <1>2 DEF mergeInput
<1>4. mergeInput(in, u) \in Object
  BY <1>3 DEF Object
<1> QED
  BY <1>4 DEF mergeInput

LEMMA NoUpdateIsObject == NoUpdate \in Object
<1>1. NoUpdate \in [{} -> Values] /\ {} \in SUBSET Fields
  BY DEF NoUpdate
<1> QED
  BY <1>1 DEF Object

(* The verdicts of the contract, and what an allowing one means. *)
LEMMA VerdictsOfContract ==
    ASSUME TypeOK, NEW k \in Calls, NEW v \in Verdicts(k)
    PROVE  v \in Verdict /\ (v.allowed => word[k] = "allow")
<1>1. word[k] \in Decisions \cup {NoDecision}
  BY DEF TypeOK
<1>2. CASE word[k] # NoDecision /\ v = verdictFor(word[k])
  BY <1>1, <1>2 DEF verdictFor, Verdict, Decisions
<1>3. ASSUME NEW e \in Failures, v = unreachableVerdict(e) \/ v = holdFailedVerdict(e)
      PROVE  v \in Verdict /\ ~v.allowed
  <2>1. e \in Kinds
    BY FailuresAssumption
  <2>2. CASE v = unreachableVerdict(e)
    BY <2>1, <2>2 DEF unreachableVerdict, Verdict
  <2>3. CASE v = holdFailedVerdict(e)
    BY <2>1, <2>3 DEF holdFailedVerdict, Verdict, Decisions
  <2> QED
    BY <1>3, <2>2, <2>3
<1>4. \/ word[k] # NoDecision /\ v = verdictFor(word[k])
      \/ \E e \in Failures : v = unreachableVerdict(e)
      \/ \E e \in Failures : v = holdFailedVerdict(e)
  <2>1. \/ v \in (IF word[k] = NoDecision THEN {} ELSE {verdictFor(word[k])})
        \/ v \in {unreachableVerdict(e) : e \in Failures}
        \/ v \in (IF wasHeld[k] THEN {holdFailedVerdict(e) : e \in Failures} ELSE {})
    BY DEF Verdicts
  <2> QED
    BY <2>1
<1> QED
  BY <1>2, <1>3, <1>4

LEMMA InitTypeOK == Init => TypeOK
<1> SUFFICES ASSUME Init PROVE TypeOK
  OBVIOUS
<1>1. returned(NoDecision, NoErr) \in Verdict
  BY DEF returned, Verdict, NoDecision, NoErr
<1>2. input \in [Calls -> Object] /\ update \in [Calls -> Object] /\ ran \in [Calls -> SUBSET Object]
  BY NoUpdateIsObject, ObjectsAssumption DEF Init
<1>3. stats \in Stats /\ snap \in Stats /\ loads \in 0..6
  BY DEF Init, Stats, NoStats
<1> QED
  BY <1>1, <1>2, <1>3 DEF Init, ContractInit, TypeOK

(* A counter stays a counter. *)
LEMMA AddType ==
    ASSUME TypeOK, NEW n \in {Counters[i] : i \in 1..6}, Add(n)
    PROVE  stats' \in Stats
  BY DEF TypeOK, Add, Stats

LEMMA CounterNames ==
    \A n \in {"admitted", "allowed", "denied", "held", "unreachable", "routed"} :
        n \in {Counters[i] : i \in 1..6}
<1>1. /\ Counters[1] = "admitted" /\ Counters[2] = "allowed" /\ Counters[3] = "denied"
      /\ Counters[4] = "held" /\ Counters[5] = "unreachable" /\ Counters[6] = "routed"
  BY DEF Counters
<1>2. 1 \in 1..6 /\ 2 \in 1..6 /\ 3 \in 1..6 /\ 4 \in 1..6 /\ 5 \in 1..6 /\ 6 \in 1..6
  OBVIOUS
<1> QED
  BY <1>1, <1>2

LEMMA NextTypeOK == TypeOK /\ [Next]_vars => TypeOK'
<1> SUFFICES ASSUME TypeOK, [Next]_vars PROVE TypeOK'
  OBVIOUS
<1> USE DEF TypeOK, contractVars, callVars, snapVars
<1>1. ASSUME NEW k \in Calls, CountAdmitted(k) PROVE TypeOK'
  BY <1>1, AddType, CounterNames DEF CountAdmitted
<1>2. ASSUME NEW k \in Calls, Ask(k) PROVE TypeOK'
  BY <1>2 DEF Ask, Open
<1>3. ASSUME NEW k \in Calls, Decided(k) PROVE TypeOK'
  <2>1. PICK v \in Verdicts(k) : outcome' = [outcome EXCEPT ![k] = v]
    BY <1>3 DEF Decided, Close
  <2>2. v \in Verdict
    BY VerdictsOfContract
  <2> QED
    BY <1>3, <2>1, <2>2 DEF Decided, Close
<1>4. ASSUME NEW k \in Calls, Count(k) PROVE TypeOK'
  <2>1. stats' \in Stats
    BY <1>4, AddType, CounterNames DEF Count
  <2>2. pc' \in [Calls -> {"idle", "asking", "deciding", "counting", "allowed", "heldToo",
                           "admitted", "ran", "refused"}]
    BY <1>4 DEF Count
  <2> QED
    BY <1>4, <2>1, <2>2 DEF Count
<1>5. ASSUME NEW k \in Calls, CountHeld(k) PROVE TypeOK'
  BY <1>5, AddType, CounterNames DEF CountHeld
<1>6. ASSUME NEW k \in Calls, CountRouted(k) PROVE TypeOK'
  <2>1. stats' \in Stats
    BY <1>6, AddType, CounterNames DEF CountRouted
  <2> QED
    BY <1>6, <2>1 DEF CountRouted
<1>7. ASSUME NEW k \in Calls, Run(k) PROVE TypeOK'
  <2>1. mergeInput(input[k], update[k]) \in Object
    BY MergeFacts
  <2>2. ran' = [ran EXCEPT ![k] = ran[k] \cup {mergeInput(input[k], update[k])}]
    BY <1>7 DEF Run
  <2>3. ran' \in [Calls -> SUBSET Object]
    BY <2>1, <2>2
  <2> QED
    BY <1>7, <2>3 DEF Run
<1>8. ASSUME NEW k \in Calls, EdgeJudge(k) PROVE TypeOK'
  <2>1. PICK d \in Decisions :
           /\ Judge(k, d)
           /\ \E u \in Updates \cup {NoUpdate} : update' = [update EXCEPT ![k] = u]
           /\ \E b \in {d = "allow", FALSE} : routed' = [routed EXCEPT ![k] = b]
    BY <1>8 DEF EdgeJudge
  <2>2. Updates \cup {NoUpdate} \subseteq Object
    BY NoUpdateIsObject, ObjectsAssumption
  <2>3. update' \in [Calls -> Object] /\ routed' \in [Calls -> BOOLEAN]
    <3>1. update' \in [Calls -> Object]
      BY <2>1, <2>2
    <3>2. PICK b \in {d = "allow", FALSE} : routed' = [routed EXCEPT ![k] = b]
      BY <2>1
    <3>3. b \in BOOLEAN
      OBVIOUS
    <3> QED
      BY <3>1, <3>2, <3>3
  <2>4. word' \in [Calls -> Decisions \cup {NoDecision}] /\ wasHeld' \in [Calls -> BOOLEAN]
    BY <2>1 DEF Judge
  <2> QED
    BY <1>8, <2>1, <2>3, <2>4 DEF EdgeJudge, Judge
<1>9. CASE Load
  <2>1. loads + 1 \in 1..6 /\ loads' = loads + 1
    BY <1>9 DEF Load
  <2>2. Counters[loads + 1] \in {Counters[i] : i \in 1..6}
    BY <2>1
  <2>3. stats[Counters[loads + 1]] \in Nat
    BY <2>2 DEF Stats
  <2>4. snap' \in Stats
    BY <1>9, <2>2, <2>3 DEF Load, Stats
  <2> QED
    BY <1>9, <2>1, <2>4 DEF Load
<1>10. CASE UNCHANGED vars
  BY <1>10 DEF vars
<1> QED
  BY <1>1, <1>2, <1>3, <1>4, <1>5, <1>6, <1>7, <1>8, <1>9, <1>10 DEF Next, Finished

-----------------------------------------------------------------------------
(* A call past the allow has a closed decision that is the edge's last word,  *)
(* and what ran is the input of that decision, merged.                        *)
CallOK(k) ==
    /\ pc[k] \in {"idle", "asking"} => stage[k] = "idle"
    /\ pc[k] \notin {"idle", "asking", "deciding"} => stage[k] = "closed"
    /\ stage[k] # "closed" => ~outcome[k].allowed
    /\ outcome[k].allowed => word[k] = "allow"
    /\ pc[k] \in {"allowed", "admitted", "ran"} => outcome[k].allowed
    /\ ran[k] # {} => pc[k] = "ran"
    /\ ran[k] \subseteq {mergeInput(input[k], update[k])}

CallsOK == \A k \in Calls : CallOK(k)

LEMMA InitCallsOK == Init => CallsOK
<1> SUFFICES ASSUME Init, NEW k \in Calls PROVE CallOK(k)
  BY DEF CallsOK
<1>1. ~returned(NoDecision, NoErr).allowed
  BY DEF returned, NoDecision
<1>2. pc[k] = "idle" /\ stage[k] = "idle" /\ ran[k] = {} /\ ~outcome[k].allowed
  BY <1>1 DEF Init, ContractInit
<1> QED
  BY <1>2 DEF CallOK

LEMMA NextCallsOK == TypeOK /\ CallsOK /\ [Next]_vars => CallsOK'
<1> SUFFICES ASSUME TypeOK, CallsOK, [Next]_vars, NEW b \in Calls PROVE CallOK(b)'
  BY DEF CallsOK
<1>0. CallOK(b)
  BY DEF CallsOK
<1> USE DEF contractVars, callVars
<1>1. ASSUME NEW k \in Calls,
             UNCHANGED <<contractVars, input, update, ran>>,
             \/ /\ pc[k] = "idle" /\ pc' = [pc EXCEPT ![k] = "asking"]
             \/ /\ pc[k] \in {"counting", "heldToo"}
                /\ \/ outcome[k].allowed /\ pc' = [pc EXCEPT ![k] = "allowed"]
                   \/ \E to \in {"refused", "heldToo"} : pc' = [pc EXCEPT ![k] = to]
             \/ pc[k] = "allowed" /\ pc' = [pc EXCEPT ![k] = "admitted"]
      PROVE  CallOK(b)'
  <2>1. CASE b = k
    BY <1>0, <1>1, <2>1 DEF CallOK, TypeOK
  <2>2. CASE b # k
    <3>1. pc'[b] = pc[b]
      BY <1>1, <2>2 DEF TypeOK
    <3> QED
      BY <1>0, <1>1, <3>1 DEF CallOK
  <2> QED
    BY <2>1, <2>2
<1>2. ASSUME NEW k \in Calls, CountAdmitted(k) \/ Count(k) \/ CountHeld(k) \/ CountRouted(k)
      PROVE  CallOK(b)'
  BY <1>1, <1>2 DEF CountAdmitted, Count, CountHeld, CountRouted
<1>3. ASSUME NEW k \in Calls, Ask(k) PROVE CallOK(b)'
  <2>1. CASE b = k
    BY <1>0, <1>3, <2>1 DEF Ask, Open, CallOK, TypeOK
  <2>2. CASE b # k
    BY <1>0, <1>3, <2>2 DEF Ask, Open, CallOK, TypeOK
  <2> QED
    BY <2>1, <2>2
<1>4. ASSUME NEW k \in Calls, Decided(k) PROVE CallOK(b)'
  <2>1. PICK v \in Verdicts(k) : outcome' = [outcome EXCEPT ![k] = v]
    BY <1>4 DEF Decided, Close
  <2>2. v.allowed => word[k] = "allow"
    BY VerdictsOfContract
  <2>3. CASE b = k
    BY <1>0, <1>4, <2>1, <2>2, <2>3 DEF Decided, Close, CallOK, TypeOK
  <2>4. CASE b # k
    BY <1>0, <1>4, <2>1, <2>4 DEF Decided, Close, CallOK, TypeOK
  <2> QED
    BY <2>3, <2>4
<1>5. ASSUME NEW k \in Calls, Run(k) PROVE CallOK(b)'
  <2> DEFINE m == mergeInput(input[k], update[k])
  <2>1. /\ pc[k] = "admitted" /\ pc' = [pc EXCEPT ![k] = "ran"]
        /\ ran' = [ran EXCEPT ![k] = ran[k] \cup {m}]
        /\ UNCHANGED <<contractVars, input, update>>
    BY <1>5 DEF Run
  <2> HIDE DEF m
  <2>2. CASE b = k
    <3>1. pc'[b] = "ran" /\ ran'[b] = {m}
      BY <1>0, <2>1, <2>2 DEF CallOK, TypeOK
    <3>2. mergeInput(input[b], update[b])' = m
      BY <2>1, <2>2 DEF m
    <3>3. ran'[b] \subseteq {mergeInput(input[b], update[b])'}
      BY <3>1, <3>2
    <3> QED
      BY <1>0, <2>1, <2>2, <3>1, <3>3 DEF CallOK
  <2>3. CASE b # k
    <3>1. pc'[b] = pc[b] /\ ran'[b] = ran[b]
      BY <2>1, <2>3 DEF TypeOK
    <3> QED
      BY <1>0, <2>1, <3>1 DEF CallOK, mergeInput
  <2> QED
    BY <2>2, <2>3
<1>6. ASSUME NEW k \in Calls, EdgeJudge(k) PROVE CallOK(b)'
  <2>1. PICK d \in Decisions :
           /\ Judge(k, d)
           /\ \E u : update' = [update EXCEPT ![k] = u]
    BY <1>6 DEF EdgeJudge
  <2>2. UNCHANGED <<pc, input, ran, stage, outcome>>
    BY <1>6, <2>1 DEF EdgeJudge, Judge
  <2>3. CASE b = k
    <3>1. word[b] # "allow"
      BY <2>1, <2>3 DEF Judge, NoDecision
    <3>2. ~outcome[b].allowed /\ ran[b] = {}
      BY <1>0, <3>1 DEF CallOK
    <3> QED
      BY <1>0, <2>2, <3>2 DEF CallOK
  <2>4. CASE b # k
    <3>1. word'[b] = word[b] /\ update'[b] = update[b]
      BY <2>1, <2>4 DEF Judge, TypeOK
    <3> QED
      BY <1>0, <2>2, <3>1 DEF CallOK
  <2> QED
    BY <2>3, <2>4
<1>7. CASE Load \/ UNCHANGED vars
  BY <1>0, <1>7 DEF Load, vars, CallOK
<1> QED
  BY <1>2, <1>3, <1>4, <1>5, <1>6, <1>7 DEF Next, Finished

-----------------------------------------------------------------------------
IInv == TypeOK /\ CallsOK

THEOREM Inductive == Spec => []IInv
<1>1. Init => IInv
  BY InitTypeOK, InitCallsOK DEF IInv
<1>2. IInv /\ [Next]_vars => IInv'
  BY NextTypeOK, NextCallsOK DEF IInv
<1> QED
  BY <1>1, <1>2, PTL DEF Spec

(* Every variable keeps its type. *)
THEOREM TypeCorrect == Spec => []TypeOK
<1>1. IInv => TypeOK
  BY DEF IInv
<1> QED
  BY <1>1, Inductive, PTL

(* A tool runs only what the edge allowed. *)
THEOREM OnlyTheAllowedRuns == Spec => []RunsWhatWasAllowed
<1>1. ASSUME IInv PROVE RunsWhatWasAllowed
  <2> SUFFICES ASSUME NEW k \in Calls, NEW r \in ran[k]
      PROVE /\ word[k] = "allow"
            /\ DOMAIN r = DOMAIN input[k] \cup DOMAIN update[k]
            /\ \A f \in DOMAIN r :
                 r[f] = IF f \in DOMAIN update[k] THEN update[k][f] ELSE input[k][f]
    BY DEF RunsWhatWasAllowed
  <2>1. CallOK(k) /\ input[k] \in Object /\ update[k] \in Object
    BY <1>1 DEF IInv, CallsOK, TypeOK
  <2>2. r = mergeInput(input[k], update[k]) /\ word[k] = "allow"
    BY <2>1 DEF CallOK
  <2> DEFINE m == mergeInput(input[k], update[k])
  <2>3. /\ DOMAIN m = DOMAIN input[k] \cup DOMAIN update[k]
        /\ \A f \in DOMAIN m :
             m[f] = IF f \in DOMAIN update[k] THEN update[k][f] ELSE input[k][f]
    BY <2>1, MergeFacts
  <2> HIDE DEF m
  <2> QED
    BY <2>2, <2>3 DEF m
<1> QED
  BY <1>1, Inductive, PTL

-----------------------------------------------------------------------------
(* The counters.  Each is the number of calls that have passed the point at   *)
(* which it is counted, whatever the others are doing.                        *)
Started == {k \in Calls : pc[k] # "idle"}
Passed == {k \in Calls : pc[k] \in {"allowed", "admitted", "ran"}}
Refused == {k \in Calls : pc[k] = "refused" /\ PolicyDenied(outcome[k])}
Failed == {k \in Calls : pc[k] \in {"heldToo", "refused"} /\ Unreachable(outcome[k])}
Held == {k \in Calls : pc[k] = "refused" /\ outcome[k].held}
Routable == {k \in Calls : pc[k] \in {"admitted", "ran"}}

Balance ==
    /\ IsFiniteSet(Started)
    /\ stats["admitted"] = Cardinality(Started)
    /\ stats["allowed"] = Cardinality(Passed)
    /\ stats["denied"] = Cardinality(Refused)
    /\ stats["unreachable"] = Cardinality(Failed)
    /\ stats["held"] = Cardinality(Held)
    /\ stats["routed"] <= Cardinality(Routable)

(* An allow is not a hold nor a failure, and what a call ended with fits its  *)
(* verdict.                                                                   *)
EndOK(k) ==
    /\ outcome[k].allowed => ~Unreachable(outcome[k]) /\ ~outcome[k].held
    /\ pc[k] \in {"refused", "heldToo"} => ~outcome[k].allowed
    /\ pc[k] = "heldToo" => Unreachable(outcome[k]) /\ outcome[k].held
    /\ pc[k] = "ran" => ran[k] # {}

EndsOK == \A k \in Calls : EndOK(k)

LEMMA VerdictsAreOfOneKind ==
    ASSUME TypeOK, NEW k \in Calls, NEW v \in Verdicts(k)
    PROVE  v.allowed => ~Unreachable(v) /\ ~v.held
<1>1. \/ word[k] # NoDecision /\ v = verdictFor(word[k])
      \/ \E e \in Failures : v = unreachableVerdict(e) \/ v = holdFailedVerdict(e)
  <2>1. \/ v \in (IF word[k] = NoDecision THEN {} ELSE {verdictFor(word[k])})
        \/ v \in {unreachableVerdict(e) : e \in Failures}
        \/ v \in (IF wasHeld[k] THEN {holdFailedVerdict(e) : e \in Failures} ELSE {})
    BY DEF Verdicts
  <2> QED
    BY <2>1
<1>2. CASE v = verdictFor(word[k])
  BY <1>2 DEF verdictFor, Unreachable
<1>3. CASE \E e \in Failures : v = unreachableVerdict(e) \/ v = holdFailedVerdict(e)
  BY <1>3 DEF unreachableVerdict, holdFailedVerdict
<1> QED
  BY <1>1, <1>2, <1>3

LEMMA InitEndsOK == Init => EndsOK
<1> SUFFICES ASSUME Init, NEW k \in Calls PROVE EndOK(k)
  BY DEF EndsOK
<1>1. ~returned(NoDecision, NoErr).allowed
  BY DEF returned, NoDecision
<1>2. pc[k] = "idle" /\ ~outcome[k].allowed
  BY <1>1 DEF Init, ContractInit
<1> QED
  BY <1>2 DEF EndOK

LEMMA NextEndsOK == TypeOK /\ CallsOK /\ EndsOK /\ [Next]_vars => EndsOK'
<1> SUFFICES ASSUME TypeOK, CallsOK, EndsOK, [Next]_vars, NEW b \in Calls PROVE EndOK(b)'
  BY DEF EndsOK
<1>0. EndOK(b)
  BY DEF EndsOK
<1> USE DEF contractVars, callVars
<1>1. ASSUME UNCHANGED <<pc, outcome, ran>> PROVE EndOK(b)'
  BY <1>0, <1>1 DEF EndOK
<1>2. ASSUME NEW k \in Calls, NEW to, UNCHANGED <<outcome, ran>>,
             pc' = [pc EXCEPT ![k] = to],
             /\ to # "ran"
             /\ to \in {"refused", "heldToo"} => ~outcome[k].allowed
             /\ to = "heldToo" => Unreachable(outcome[k]) /\ outcome[k].held
      PROVE  EndOK(b)'
  <2>1. CASE b = k
    BY <1>0, <1>2, <2>1 DEF EndOK, TypeOK
  <2>2. CASE b # k
    BY <1>0, <1>2, <2>2 DEF EndOK, TypeOK
  <2> QED
    BY <2>1, <2>2
<1>3. ASSUME NEW k \in Calls, CountAdmitted(k) \/ Ask(k) \/ CountRouted(k) PROVE EndOK(b)'
  BY <1>2, <1>3 DEF CountAdmitted, Ask, Open, CountRouted
<1>4. ASSUME NEW k \in Calls, Decided(k) PROVE EndOK(b)'
  <2>1. PICK v \in Verdicts(k) : outcome' = [outcome EXCEPT ![k] = v]
    BY <1>4 DEF Decided, Close
  <2>2. v.allowed => ~Unreachable(v) /\ ~v.held
    BY VerdictsAreOfOneKind
  <2>3. pc' = [pc EXCEPT ![k] = "counting"] /\ ran' = ran
    BY <1>4 DEF Decided
  <2>4. CASE b = k
    <3>1. outcome'[b] = v /\ pc'[b] = "counting"
      BY <2>1, <2>3, <2>4 DEF TypeOK
    <3> QED
      BY <2>2, <3>1 DEF EndOK
  <2>5. CASE b # k
    <3>1. outcome'[b] = outcome[b] /\ pc'[b] = pc[b] /\ ran'[b] = ran[b]
      BY <2>1, <2>3, <2>5 DEF TypeOK
    <3> QED
      BY <1>0, <3>1 DEF EndOK
  <2> QED
    BY <2>4, <2>5
<1>5. ASSUME NEW k \in Calls, Count(k) PROVE EndOK(b)'
  <2>1. PICK to \in {"allowed", "refused", "heldToo"} :
           /\ pc' = [pc EXCEPT ![k] = to]
           /\ to \in {"refused", "heldToo"} => ~outcome[k].allowed
           /\ to = "heldToo" => Unreachable(outcome[k]) /\ outcome[k].held
    BY <1>5 DEF Count
  <2> QED
    BY <1>2, <1>5, <2>1 DEF Count
<1>6. ASSUME NEW k \in Calls, CountHeld(k) PROVE EndOK(b)'
  <2>1. ~outcome[k].allowed
    BY <1>6 DEF CountHeld, EndsOK, EndOK
  <2> QED
    BY <1>2, <1>6, <2>1 DEF CountHeld
<1>7. ASSUME NEW k \in Calls, Run(k) PROVE EndOK(b)'
  <2>1. PICK x : ran' = [ran EXCEPT ![k] = ran[k] \cup {x}]
    BY <1>7 DEF Run
  <2>2. pc' = [pc EXCEPT ![k] = "ran"] /\ outcome' = outcome
    BY <1>7 DEF Run
  <2>3. CASE b = k
    BY <1>0, <2>1, <2>2, <2>3 DEF EndOK, TypeOK
  <2>4. CASE b # k
    BY <1>0, <2>1, <2>2, <2>4 DEF EndOK, TypeOK
  <2> QED
    BY <2>3, <2>4
<1>8. ASSUME NEW k \in Calls, EdgeJudge(k) PROVE EndOK(b)'
  BY <1>1, <1>8 DEF EdgeJudge, Judge
<1>9. CASE Load \/ UNCHANGED vars
  BY <1>1, <1>9 DEF Load, vars
<1> QED
  BY <1>3, <1>4, <1>5, <1>6, <1>7, <1>8, <1>9 DEF Next, Finished

LEMMA OneMore ==
    ASSUME NEW S, NEW T, NEW k, IsFiniteSet(S), k \notin S, T = S \cup {k}
    PROVE  IsFiniteSet(T) /\ Cardinality(T) = Cardinality(S) + 1
  BY FS_AddElement

LEMMA InitBalance == Init => Balance
<1> SUFFICES ASSUME Init PROVE Balance
  OBVIOUS
<1>1. /\ Started = {} /\ Passed = {} /\ Refused = {} /\ Failed = {} /\ Held = {} /\ Routable = {}
  BY DEF Init, Started, Passed, Refused, Failed, Held, Routable
<1>2. \A n \in {"admitted", "allowed", "denied", "held", "unreachable", "routed"} : stats[n] = 0
  BY CounterNames DEF Init, NoStats
<1> QED
  BY <1>1, <1>2, FS_EmptySet DEF Balance

(* Every set that is counted is finite, as the calls begun are. *)
LEMMA CountedFinite ==
    ASSUME Balance
    PROVE  /\ IsFiniteSet(Passed) /\ IsFiniteSet(Refused) /\ IsFiniteSet(Failed)
           /\ IsFiniteSet(Held) /\ IsFiniteSet(Routable)
           /\ \A S \in SUBSET Started : Cardinality(S) \in Nat
           /\ Passed \subseteq Started /\ Refused \subseteq Started /\ Failed \subseteq Started
           /\ Held \subseteq Started /\ Routable \subseteq Passed
<1>1. /\ Passed \subseteq Started /\ Refused \subseteq Started /\ Failed \subseteq Started
      /\ Held \subseteq Started /\ Routable \subseteq Passed
  BY DEF Started, Passed, Refused, Failed, Held, Routable
<1>2. IsFiniteSet(Started)
  BY DEF Balance
<1>3. \A S \in SUBSET Started : IsFiniteSet(S)
  BY <1>2, FS_Subset
<1>4. \A S \in SUBSET Started : Cardinality(S) \in Nat
  BY <1>3, FS_CardinalityType
<1> QED
  BY <1>1, <1>3, <1>4

(* A step that counts nothing, and moves no call past a count. *)
LEMMA QuietBalance ==
    ASSUME Balance, stats' = stats,
           /\ Started' = Started /\ Passed' = Passed /\ Refused' = Refused
           /\ Failed' = Failed /\ Held' = Held /\ Routable' = Routable
    PROVE  Balance'
  BY DEF Balance

(* One more on one counter, and one more call in the set it counts. *)
LEMMA AddOne ==
    ASSUME TypeOK, NEW n \in {Counters[i] : i \in 1..6}, Add(n)
    PROVE  /\ stats'[n] = stats[n] + 1
           /\ \A m \in {Counters[i] : i \in 1..6} \ {n} : stats'[m] = stats[m]
  BY DEF TypeOK, Stats, Add

LEMMA NextBalance ==
    TypeOK /\ CallsOK /\ EndsOK /\ Balance /\ [Next]_vars => Balance'
<1> SUFFICES ASSUME TypeOK, CallsOK, EndsOK, Balance, [Next]_vars PROVE Balance'
  OBVIOUS
<1> DEFINE D == {Counters[i] : i \in 1..6}
<1>a. /\ "admitted" \in D /\ "allowed" \in D /\ "denied" \in D /\ "held" \in D
      /\ "unreachable" \in D /\ "routed" \in D
  BY CounterNames
<1>b. \A n \in D : stats[n] \in Nat
  BY DEF TypeOK, Stats
<1>c. pc \in [Calls -> {"idle", "asking", "deciding", "counting", "allowed", "heldToo",
                        "admitted", "ran", "refused"}]
  BY DEF TypeOK
<1>d. /\ IsFiniteSet(Started) /\ IsFiniteSet(Passed) /\ IsFiniteSet(Refused)
      /\ IsFiniteSet(Failed) /\ IsFiniteSet(Held) /\ IsFiniteSet(Routable)
  BY CountedFinite DEF Balance
<1> HIDE DEF D
<1>1. ASSUME NEW k \in Calls, CountAdmitted(k) PROVE Balance'
  <2>1. pc[k] = "idle" /\ pc' = [pc EXCEPT ![k] = "asking"] /\ outcome' = outcome /\ Add("admitted")
    BY <1>1 DEF CountAdmitted, contractVars
  <2>2. stats'["admitted"] = stats["admitted"] + 1 /\ \A m \in D \ {"admitted"} : stats'[m] = stats[m]
    BY <1>a, <2>1, AddOne DEF D
  <2>3. Started' = Started \cup {k} /\ k \notin Started
    BY <1>c, <2>1 DEF Started
  <2>4. /\ Passed' = Passed /\ Refused' = Refused /\ Failed' = Failed /\ Held' = Held
        /\ Routable' = Routable
    BY <1>c, <2>1 DEF Passed, Refused, Failed, Held, Routable
  <2>5. IsFiniteSet(Started') /\ Cardinality(Started') = Cardinality(Started) + 1
    BY <1>d, <2>3, OneMore
  <2> QED
    BY <1>a, <2>2, <2>4, <2>5 DEF Balance
<1>2. ASSUME NEW k \in Calls, Ask(k) PROVE Balance'
  <2>1. pc[k] = "asking" /\ pc' = [pc EXCEPT ![k] = "deciding"] /\ outcome' = outcome /\ stats' = stats
    BY <1>2 DEF Ask, Open
  <2>2. /\ Started' = Started /\ Passed' = Passed /\ Refused' = Refused /\ Failed' = Failed
        /\ Held' = Held /\ Routable' = Routable
    BY <1>c, <2>1 DEF Started, Passed, Refused, Failed, Held, Routable
  <2> QED
    BY <2>1, <2>2, QuietBalance
<1>3. ASSUME NEW k \in Calls, Decided(k) PROVE Balance'
  <2>1. PICK v : outcome' = [outcome EXCEPT ![k] = v]
    BY <1>3 DEF Decided, Close
  <2>2. pc[k] = "deciding" /\ pc' = [pc EXCEPT ![k] = "counting"] /\ stats' = stats
    BY <1>3 DEF Decided
  <2>3. \A b \in Calls : b # k => outcome'[b] = outcome[b] /\ pc'[b] = pc[b]
    BY <1>c, <2>1, <2>2 DEF TypeOK
  <2>4. pc'[k] = "counting"
    BY <1>c, <2>2
  <2>5. /\ Started' = Started /\ Passed' = Passed /\ Routable' = Routable
    BY <2>2, <2>3, <2>4 DEF Started, Passed, Routable
  <2>6. Refused' = Refused /\ Failed' = Failed /\ Held' = Held
    BY <2>2, <2>3, <2>4 DEF Refused, Failed, Held, PolicyDenied, Unreachable
  <2> QED
    BY <2>2, <2>5, <2>6, QuietBalance
<1>4. ASSUME NEW k \in Calls, Count(k) PROVE Balance'
  <2>1. pc[k] = "counting" /\ outcome' = outcome
    BY <1>4 DEF Count, contractVars
  <2>2. outcome[k].allowed => ~Unreachable(outcome[k]) /\ ~outcome[k].held
    BY DEF EndsOK, EndOK
  <2>3. CASE outcome[k].allowed
    <3>1. pc' = [pc EXCEPT ![k] = "allowed"] /\ Add("allowed")
      BY <1>4, <2>3 DEF Count
    <3>2. stats'["allowed"] = stats["allowed"] + 1 /\ \A m \in D \ {"allowed"} : stats'[m] = stats[m]
      BY <1>a, <3>1, AddOne DEF D
    <3>3. Passed' = Passed \cup {k} /\ k \notin Passed
      BY <1>c, <2>1, <3>1 DEF Passed
    <3>4. /\ Started' = Started /\ Refused' = Refused /\ Failed' = Failed /\ Held' = Held
          /\ Routable' = Routable
      BY <1>c, <2>1, <3>1 DEF Started, Refused, Failed, Held, Routable
    <3>5. Cardinality(Passed') = Cardinality(Passed) + 1
      BY <1>d, <3>3, OneMore
    <3> QED
      BY <1>a, <3>2, <3>4, <3>5 DEF Balance
  <2>4. CASE ~outcome[k].allowed /\ Unreachable(outcome[k])
    <3>1. /\ pc' = [pc EXCEPT ![k] = IF outcome[k].held THEN "heldToo" ELSE "refused"]
          /\ Add("unreachable")
      BY <1>4, <2>4 DEF Count
    <3>2. /\ stats'["unreachable"] = stats["unreachable"] + 1
          /\ \A m \in D \ {"unreachable"} : stats'[m] = stats[m]
      BY <1>a, <3>1, AddOne DEF D
    <3>3. Failed' = Failed \cup {k} /\ k \notin Failed
      BY <1>c, <2>1, <2>4, <3>1 DEF Failed
    <3>4. /\ Started' = Started /\ Passed' = Passed /\ Routable' = Routable
      BY <1>c, <2>1, <3>1 DEF Started, Passed, Routable
    <3>5. Refused' = Refused /\ Held' = Held
      BY <1>c, <2>1, <2>4, <3>1 DEF Refused, Held, PolicyDenied, Unreachable
    <3>6. Cardinality(Failed') = Cardinality(Failed) + 1
      BY <1>d, <3>3, OneMore
    <3> QED
      BY <1>a, <3>2, <3>4, <3>5, <3>6 DEF Balance
  <2>5. CASE ~outcome[k].allowed /\ ~Unreachable(outcome[k]) /\ outcome[k].held
    <3>1. pc' = [pc EXCEPT ![k] = "refused"] /\ Add("held")
      BY <1>4, <2>5 DEF Count
    <3>2. stats'["held"] = stats["held"] + 1 /\ \A m \in D \ {"held"} : stats'[m] = stats[m]
      BY <1>a, <3>1, AddOne DEF D
    <3>3. Held' = Held \cup {k} /\ k \notin Held
      BY <1>c, <2>1, <2>5, <3>1 DEF Held
    <3>4. /\ Started' = Started /\ Passed' = Passed /\ Routable' = Routable
      BY <1>c, <2>1, <3>1 DEF Started, Passed, Routable
    <3>5. Refused' = Refused /\ Failed' = Failed
      BY <1>c, <2>1, <2>5, <3>1 DEF Refused, Failed, PolicyDenied, Unreachable
    <3>6. Cardinality(Held') = Cardinality(Held) + 1
      BY <1>d, <3>3, OneMore
    <3> QED
      BY <1>a, <3>2, <3>4, <3>5, <3>6 DEF Balance
  <2>6. CASE ~outcome[k].allowed /\ ~Unreachable(outcome[k]) /\ ~outcome[k].held
    <3>1. pc' = [pc EXCEPT ![k] = "refused"] /\ Add("denied")
      BY <1>4, <2>6 DEF Count
    <3>2. stats'["denied"] = stats["denied"] + 1 /\ \A m \in D \ {"denied"} : stats'[m] = stats[m]
      BY <1>a, <3>1, AddOne DEF D
    <3>3. Refused' = Refused \cup {k} /\ k \notin Refused
      BY <1>c, <2>1, <2>6, <3>1 DEF Refused, PolicyDenied, Unreachable
    <3>4. /\ Started' = Started /\ Passed' = Passed /\ Routable' = Routable
      BY <1>c, <2>1, <3>1 DEF Started, Passed, Routable
    <3>5. Held' = Held /\ Failed' = Failed
      BY <1>c, <2>1, <2>6, <3>1 DEF Held, Failed, Unreachable
    <3>6. Cardinality(Refused') = Cardinality(Refused) + 1
      BY <1>d, <3>3, OneMore
    <3> QED
      BY <1>a, <3>2, <3>4, <3>5, <3>6 DEF Balance
  <2> QED
    BY <2>3, <2>4, <2>5, <2>6
<1>5. ASSUME NEW k \in Calls, CountHeld(k) PROVE Balance'
  <2>1. pc[k] = "heldToo" /\ pc' = [pc EXCEPT ![k] = "refused"] /\ outcome' = outcome /\ Add("held")
    BY <1>5 DEF CountHeld, contractVars
  <2>2. Unreachable(outcome[k]) /\ outcome[k].held
    BY <2>1 DEF EndsOK, EndOK
  <2>3. stats'["held"] = stats["held"] + 1 /\ \A m \in D \ {"held"} : stats'[m] = stats[m]
    BY <1>a, <2>1, AddOne DEF D
  <2>4. Held' = Held \cup {k} /\ k \notin Held
    BY <1>c, <2>1, <2>2 DEF Held
  <2>5. Started' = Started /\ Passed' = Passed /\ Routable' = Routable
    BY <1>c, <2>1 DEF Started, Passed, Routable
  <2>6. Refused' = Refused /\ Failed' = Failed
    BY <1>c, <2>1, <2>2 DEF Refused, Failed, PolicyDenied, Unreachable
  <2>7. Cardinality(Held') = Cardinality(Held) + 1
    BY <1>d, <2>4, OneMore
  <2> QED
    BY <1>a, <2>3, <2>5, <2>6, <2>7 DEF Balance
<1>6. ASSUME NEW k \in Calls, CountRouted(k) PROVE Balance'
  <2>1. /\ pc[k] = "allowed" /\ pc' = [pc EXCEPT ![k] = "admitted"] /\ outcome' = outcome
        /\ Add("routed") \/ stats' = stats
    BY <1>6 DEF CountRouted, contractVars
  <2>2. stats'["routed"] <= stats["routed"] + 1 /\ \A m \in D \ {"routed"} : stats'[m] = stats[m]
    <3>1. CASE Add("routed")
      <4>1. stats'["routed"] = stats["routed"] + 1 /\ \A m \in D \ {"routed"} : stats'[m] = stats[m]
        BY <1>a, <3>1, AddOne DEF D
      <4> QED
        BY <1>a, <1>b, <4>1
    <3>2. CASE stats' = stats
      BY <1>a, <1>b, <3>2
    <3> QED
      BY <2>1, <3>1, <3>2
  <2>3. Routable' = Routable \cup {k} /\ k \notin Routable
    BY <1>c, <2>1 DEF Routable
  <2>4. /\ Started' = Started /\ Passed' = Passed /\ Refused' = Refused
        /\ Failed' = Failed /\ Held' = Held
    BY <1>c, <2>1 DEF Started, Passed, Refused, Failed, Held
  <2>5. Cardinality(Routable') = Cardinality(Routable) + 1 /\ Cardinality(Routable) \in Nat
    BY <1>d, <2>3, OneMore, FS_CardinalityType
  <2>6. stats'["routed"] <= Cardinality(Routable')
    <3>1. stats["routed"] <= Cardinality(Routable) /\ stats["routed"] \in Nat
      BY <1>a, <1>b DEF Balance
    <3>2. stats'["routed"] \in Nat
      <4>1. stats' \in Stats
        BY <1>a, <2>1, AddType DEF D, TypeOK
      <4> QED
        BY <1>a, <4>1 DEF Stats, D
    <3> QED
      BY <2>2, <2>5, <3>1, <3>2
  <2> QED
    BY <1>a, <2>2, <2>4, <2>6 DEF Balance
<1>7. ASSUME NEW k \in Calls, Run(k) PROVE Balance'
  <2>1. pc[k] = "admitted" /\ pc' = [pc EXCEPT ![k] = "ran"] /\ outcome' = outcome /\ stats' = stats
    BY <1>7 DEF Run, contractVars
  <2>2. /\ Started' = Started /\ Passed' = Passed /\ Refused' = Refused /\ Failed' = Failed
        /\ Held' = Held /\ Routable' = Routable
    BY <1>c, <2>1 DEF Started, Passed, Refused, Failed, Held, Routable
  <2> QED
    BY <2>1, <2>2, QuietBalance
<1>8. ASSUME UNCHANGED <<pc, outcome, stats>> PROVE Balance'
  <2>1. /\ Started' = Started /\ Passed' = Passed /\ Refused' = Refused /\ Failed' = Failed
        /\ Held' = Held /\ Routable' = Routable
    BY <1>8 DEF Started, Passed, Refused, Failed, Held, Routable
  <2> QED
    BY <1>8, <2>1, QuietBalance
<1>9. ASSUME NEW k \in Calls, EdgeJudge(k) PROVE Balance'
  BY <1>8, <1>9 DEF EdgeJudge, Judge
<1>10. CASE Load \/ UNCHANGED vars
  BY <1>8, <1>10 DEF Load, vars, contractVars, callVars
<1> QED
  BY <1>1, <1>2, <1>3, <1>4, <1>5, <1>6, <1>7, <1>9, <1>10 DEF Next, Finished

THEOREM Counting == Spec => [](IInv /\ EndsOK /\ Balance)
<1>1. Init => IInv /\ EndsOK /\ Balance
  BY InitTypeOK, InitCallsOK, InitEndsOK, InitBalance DEF IInv
<1>2. IInv /\ EndsOK /\ Balance /\ [Next]_vars => (IInv /\ EndsOK /\ Balance)'
  BY NextTypeOK, NextCallsOK, NextEndsOK, NextBalance DEF IInv
<1> QED
  BY <1>1, <1>2, PTL DEF Spec

(* With no call in progress the counters account for every call, however the  *)
(* calls were interleaved and however many there were.                        *)
THEOREM CountersAccount == Spec => []StatsAccount
<1>1. ASSUME IInv, EndsOK, Balance PROVE StatsAccount
  <2> SUFFICES ASSUME \A k \in Calls : pc[k] = "idle" \/ k \in Ended
      PROVE  /\ stats["admitted"] = Cardinality(Ended)
             /\ stats["allowed"] = Cardinality({k \in Ended : ran[k] # {}})
             /\ stats["denied"] = Cardinality({k \in Ended : PolicyDenied(outcome[k])})
             /\ stats["unreachable"] = Cardinality({k \in Ended : Unreachable(outcome[k])})
             /\ stats["held"] = Cardinality({k \in Ended : outcome[k].held})
             /\ stats["routed"] <= stats["allowed"]
    BY DEF StatsAccount
  <2>1. \A k \in Calls : pc[k] \in {"idle", "ran", "refused"}
    BY DEF Ended
  <2>2. \A k \in Calls :
          /\ pc[k] = "ran" => outcome[k].allowed /\ ~Unreachable(outcome[k]) /\ ~outcome[k].held
          /\ ran[k] # {} <=> pc[k] = "ran"
    BY <1>1 DEF IInv, CallsOK, CallOK, EndsOK, EndOK
  <2>3. Started = Ended
    BY <2>1 DEF Started, Ended
  <2>4. Passed = {k \in Ended : ran[k] # {}}
    BY <2>1, <2>2 DEF Passed, Ended
  <2>5. Refused = {k \in Ended : PolicyDenied(outcome[k])}
    BY <2>1, <2>2 DEF Refused, Ended, PolicyDenied
  <2>6. Failed = {k \in Ended : Unreachable(outcome[k])}
    BY <2>1, <2>2 DEF Failed, Ended
  <2>7. Held = {k \in Ended : outcome[k].held}
    BY <2>1, <2>2 DEF Held, Ended
  <2>8. stats["routed"] <= stats["allowed"]
    <3>1. Routable \in SUBSET Passed /\ IsFiniteSet(Passed)
      BY <1>1, CountedFinite
    <3>2. Cardinality(Routable) <= Cardinality(Passed)
      BY <3>1, FS_Subset
    <3>3. Cardinality(Routable) \in Nat /\ Cardinality(Passed) \in Nat
      BY <1>1, CountedFinite, FS_CardinalityType
    <3>4. stats["routed"] \in Nat
      BY <1>1, CounterNames DEF IInv, TypeOK, Stats
    <3>5. stats["routed"] <= Cardinality(Routable) /\ stats["allowed"] = Cardinality(Passed)
      BY <1>1 DEF Balance
    <3> QED
      BY <3>2, <3>3, <3>4, <3>5
  <2> QED
    BY <1>1, <2>3, <2>4, <2>5, <2>6, <2>7, <2>8 DEF Balance
<1> QED
  BY <1>1, Counting, PTL
=============================================================================
