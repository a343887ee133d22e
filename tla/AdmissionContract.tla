------------------------- MODULE AdmissionContract -------------------------
(***************************************************************************)
(* What Client.Decide promises, without tokens, retries, deadlines or wire: *)
(* the edge gives a call one word, or "held" and then one more; the call    *)
(* closes, whatever happens, with a verdict that either repeats the edge's  *)
(* current word or is an error that allows nothing.                         *)
(***************************************************************************)
EXTENDS Admission

CONSTANTS
    Calls,
    Failures    \* the kinds of failure a call may meet

ASSUME FailuresAssumption == Failures \subseteq Kinds

VARIABLES
    stage,      \* stage[c]: "idle", "open" or "closed"
    word,       \* word[c]: the edge's latest decision on call c
    wasHeld,    \* wasHeld[c]: the edge has held call c
    outcome     \* outcome[c]: the Verdict the call closed with

contractVars == <<stage, word, wasHeld, outcome>>

ContractInit ==
    /\ stage = [c \in Calls |-> "idle"]
    /\ word = [c \in Calls |-> NoDecision]
    /\ wasHeld = [c \in Calls |-> FALSE]
    /\ outcome = [c \in Calls |-> returned(NoDecision, NoErr)]

(* The application calls Decide. *)
Open(c) ==
    /\ stage[c] = "idle"
    /\ stage' = [stage EXCEPT ![c] = "open"]
    /\ UNCHANGED <<word, wasHeld, outcome>>

(* The edge decides on a call it has not decided on, or has only held; it    *)
(* may do so after the call gave up waiting.                                 *)
Judge(c, d) ==
    /\ stage[c] # "idle"
    /\ word[c] = NoDecision \/ (word[c] = "held" /\ wasHeld[c])
    /\ word' = [word EXCEPT ![c] = d]
    /\ wasHeld' = [wasHeld EXCEPT ![c] = @ \/ d = "held"]
    /\ UNCHANGED <<stage, outcome>>

(* The verdicts a call may close with. *)
Verdicts(c) ==
    (IF word[c] = NoDecision THEN {} ELSE {verdictFor(word[c])})
      \cup {unreachableVerdict(e) : e \in Failures}
      \cup (IF wasHeld[c] THEN {holdFailedVerdict(e) : e \in Failures} ELSE {})

Close(c) ==
    /\ stage[c] = "open"
    /\ stage' = [stage EXCEPT ![c] = "closed"]
    /\ \E v \in Verdicts(c) : outcome' = [outcome EXCEPT ![c] = v]
    /\ UNCHANGED <<word, wasHeld>>

ContractNext ==
    \E c \in Calls : Open(c) \/ Close(c) \/ \E d \in Decisions : Judge(c, d)

ContractSafety == ContractInit /\ [][ContractNext]_contractVars

(* Every call closes: the promise that Decide never blocks forever. *)
ContractSpec == ContractSafety /\ \A c \in Calls : WF_contractVars(Close(c))
=============================================================================
