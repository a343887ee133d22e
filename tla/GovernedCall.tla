---------------------------- MODULE GovernedCall ----------------------------
(***************************************************************************)
(* A governed tool call: Governor.Admit and the wrappers around it           *)
(* (govern/governor.go, tool.go, caller.go), many at a time on one Governor. *)
(* Client.Decide is its contract, AdmissionContract, which AdmissionClient   *)
(* is shown to implement.  What Admit does first, registering the tool and   *)
(* attesting, is the module Attestation and returns nothing Admit looks at.  *)
(*                                                                           *)
(* The counters are six separate atomics: each Add and each Load is a step.  *)
(***************************************************************************)
EXTENDS AdmissionContract, FiniteSets

CONSTANTS
    Fields,     \* argument names of the tools
    Values,     \* argument values
    Inputs,     \* what callers pass to the tools
    Updates     \* the updated_input of an allow; the empty map when absent

(* A JSON object, as a function from some of the fields. *)
Object == UNION {[S -> Values] : S \in SUBSET Fields}

NoUpdate == [f \in {} |-> f]

ASSUME ObjectsAssumption == Inputs \subseteq Object /\ Updates \subseteq Object

VARIABLES
    pc,         \* pc[k]: where call k is in Admit and in the wrapper
    input,      \* input[k]: the caller's own map
    update,     \* update[k]: the updated_input of the edge's latest decision
    routed,     \* routed[k]: that decision has a routed_to
    ran,        \* ran[k]: the inputs the inner tool was called with
    stats,      \* the governor's counters
    snap,       \* what a concurrent Stats() has loaded so far
    loads       \* how many counters it has loaded

callVars == <<pc, input, update, routed, ran>>
snapVars == <<snap, loads>>
vars == <<contractVars, callVars, stats, snapVars>>

(* The counters, in the order Stats() loads them. *)
Counters == <<"admitted", "allowed", "denied", "held", "unreachable", "routed">>
Stats == [{Counters[i] : i \in 1..6} -> Nat]
NoStats == [n \in {Counters[i] : i \in 1..6} |-> 0]

(* Mutant: a counter is taken down instead of up. *)
AddDown(n) == stats' = [stats EXCEPT ![n] = @ - 1]

Add(n) == stats' = [stats EXCEPT ![n] = @ + 1]

-----------------------------------------------------------------------------
(* Mutant: the two maps.Copy calls are swapped. *)
mergeInputUnder(in, updated) ==
    [f \in DOMAIN in \cup DOMAIN updated |-> IF f \in DOMAIN in THEN in[f] ELSE updated[f]]

(* mergeInput: a new map, the edge's keys over the caller's. *)
mergeInput(in, updated) ==
    [f \in DOMAIN in \cup DOMAIN updated |-> IF f \in DOMAIN updated THEN updated[f] ELSE in[f]]

Init ==
    /\ ContractInit
    /\ pc = [k \in Calls |-> "idle"]
    /\ input \in [Calls -> Inputs]
    /\ update = [k \in Calls |-> NoUpdate]
    /\ routed = [k \in Calls |-> FALSE]
    /\ ran = [k \in Calls |-> {}]
    /\ stats = NoStats /\ snap = NoStats /\ loads = 0

(* g.stats.admitted.Add(1) *)
CountAdmitted(k) ==
    /\ pc[k] = "idle"
    /\ pc' = [pc EXCEPT ![k] = "asking"]
    /\ Add("admitted")
    /\ UNCHANGED <<contractVars, input, update, routed, ran, snapVars>>

(* g.client.Decide is called, and returns. *)
Ask(k) ==
    /\ pc[k] = "asking" /\ Open(k)
    /\ pc' = [pc EXCEPT ![k] = "deciding"]
    /\ UNCHANGED <<input, update, routed, ran, stats, snapVars>>

Decided(k) ==
    /\ pc[k] = "deciding" /\ Close(k)
    /\ pc' = [pc EXCEPT ![k] = "counting"]
    /\ UNCHANGED <<input, update, routed, ran, stats, snapVars>>

(* Mutant: a call whose hold failed is counted as unreachable only. *)
CountOnce(k) ==
    /\ pc[k] = "counting"
    /\ \/ outcome[k].allowed /\ Add("allowed") /\ pc' = [pc EXCEPT ![k] = "allowed"]
       \/ /\ ~outcome[k].allowed /\ Unreachable(outcome[k])
          /\ Add("unreachable") /\ pc' = [pc EXCEPT ![k] = "refused"]
       \/ /\ ~outcome[k].allowed /\ ~Unreachable(outcome[k])
          /\ Add(IF outcome[k].held THEN "held" ELSE "denied")
          /\ pc' = [pc EXCEPT ![k] = "refused"]
    /\ UNCHANGED <<contractVars, input, update, routed, ran, snapVars>>

(* The switch over the verdict.  What is not allowed is refused: a           *)
(* DeniedError with the verdict in it, and nothing runs.                      *)
Count(k) ==
    /\ pc[k] = "counting"
    /\ \/ outcome[k].allowed /\ Add("allowed") /\ pc' = [pc EXCEPT ![k] = "allowed"]
       \/ /\ ~outcome[k].allowed /\ Unreachable(outcome[k])
          /\ Add("unreachable")
          /\ pc' = [pc EXCEPT ![k] = IF outcome[k].held THEN "heldToo" ELSE "refused"]
       \/ /\ ~outcome[k].allowed /\ ~Unreachable(outcome[k])
          /\ Add(IF outcome[k].held THEN "held" ELSE "denied")
          /\ pc' = [pc EXCEPT ![k] = "refused"]
    /\ UNCHANGED <<contractVars, input, update, routed, ran, snapVars>>

CountHeld(k) ==
    /\ pc[k] = "heldToo"
    /\ Add("held")
    /\ pc' = [pc EXCEPT ![k] = "refused"]
    /\ UNCHANGED <<contractVars, input, update, routed, ran, snapVars>>

CountRouted(k) ==
    /\ pc[k] = "allowed"
    /\ IF routed[k] THEN Add("routed") ELSE UNCHANGED stats
    /\ pc' = [pc EXCEPT ![k] = "admitted"]
    /\ UNCHANGED <<contractVars, input, update, routed, ran, snapVars>>

(* Mutant: the wrapper runs the tool unless policy denied it. *)
RunUnlessDenied(k) ==
    /\ pc[k] = "admitted" \/ (pc[k] = "refused" /\ ~PolicyDenied(outcome[k]))
    /\ ran' = [ran EXCEPT ![k] = @ \cup {mergeInput(input[k], update[k])}]
    /\ pc' = [pc EXCEPT ![k] = "ran"]
    /\ UNCHANGED <<contractVars, input, update, routed, stats, snapVars>>

(* Admit returned the merged input and no error: the wrapper runs the inner   *)
(* tool, once, with it.                                                       *)
Run(k) ==
    /\ pc[k] = "admitted"
    /\ ran' = [ran EXCEPT ![k] = @ \cup {mergeInput(input[k], update[k])}]
    /\ pc' = [pc EXCEPT ![k] = "ran"]
    /\ UNCHANGED <<contractVars, input, update, routed, stats, snapVars>>

(* Stats() loads the next counter. *)
Load ==
    /\ loads < 6
    /\ snap' = [snap EXCEPT ![Counters[loads + 1]] = stats[Counters[loads + 1]]]
    /\ loads' = loads + 1
    /\ UNCHANGED <<contractVars, callVars, stats>>

(* The edge decides (external); an allow may rewrite or route the input. *)
EdgeJudge(k) ==
    /\ \E d \in Decisions :
         /\ Judge(k, d)
         /\ update' \in {[update EXCEPT ![k] = u] :
                            u \in IF d = "allow" THEN Updates ELSE {NoUpdate}}
         /\ routed' \in {[routed EXCEPT ![k] = b] : b \in {d = "allow", FALSE}}
    /\ UNCHANGED <<pc, input, ran, stats, snapVars>>

Finished ==
    /\ \A k \in Calls : pc[k] \in {"ran", "refused"}
    /\ loads = 6
    /\ UNCHANGED vars

Next ==
    \/ \E k \in Calls : \/ CountAdmitted(k) \/ Ask(k) \/ Decided(k) \/ Count(k)
                        \/ CountHeld(k) \/ CountRouted(k) \/ Run(k) \/ EdgeJudge(k)
    \/ Load
    \/ Finished

Spec == Init /\ [][Next]_vars

-----------------------------------------------------------------------------
TypeOK ==
    /\ stage \in [Calls -> {"idle", "open", "closed"}]
    /\ word \in [Calls -> Decisions \cup {NoDecision}]
    /\ wasHeld \in [Calls -> BOOLEAN]
    /\ outcome \in [Calls -> Verdict]
    /\ pc \in [Calls -> {"idle", "asking", "deciding", "counting", "allowed", "heldToo",
                         "admitted", "ran", "refused"}]
    /\ input \in [Calls -> Object] /\ update \in [Calls -> Object]
    /\ routed \in [Calls -> BOOLEAN]
    /\ ran \in [Calls -> SUBSET Object]
    /\ stats \in Stats /\ snap \in Stats /\ loads \in 0..6

(* Only what the edge allowed runs, and with the input it allowed              *)
(* (governor.go:208-211): the tool of a call runs only when the edge's last    *)
(* word on it, however late it came, is an allow, and every argument it sees   *)
(* is the edge's where the edge rewrote it and the caller's where it did not.  *)
RunsWhatWasAllowed ==
    \A k \in Calls : \A r \in ran[k] :
        /\ word[k] = "allow"
        /\ DOMAIN r = DOMAIN input[k] \cup DOMAIN update[k]
        /\ \A f \in DOMAIN r :
             r[f] = IF f \in DOMAIN update[k] THEN update[k][f] ELSE input[k][f]

(* With no call in progress the counters account for every governed call      *)
(* (governor.go:180-190): allowed for each tool that ran, denied for each      *)
(* policy denial, unreachable for each failure, held for each hold, whether    *)
(* it stayed unanswered or the wait for it failed.                             *)
Ended == {k \in Calls : pc[k] \in {"ran", "refused"}}
StatsAccount ==
    (\A k \in Calls : pc[k] = "idle" \/ k \in Ended) =>
        /\ stats["admitted"] = Cardinality(Ended)
        /\ stats["allowed"] = Cardinality({k \in Ended : ran[k] # {}})
        /\ stats["denied"] = Cardinality({k \in Ended : PolicyDenied(outcome[k])})
        /\ stats["unreachable"] = Cardinality({k \in Ended : Unreachable(outcome[k])})
        /\ stats["held"] = Cardinality({k \in Ended : outcome[k].held})
        /\ stats["routed"] <= stats["allowed"]

(* governor.go:196: "Stats returns a snapshot of the counters".  In a snapshot *)
(* no more calls have ended than were admitted.                                *)
StatsIsASnapshot ==
    loads = 6 => snap["allowed"] + snap["denied"] + snap["unreachable"] <= snap["admitted"]
=============================================================================
