------------------------ MODULE AdmissionRefinement ------------------------
(***************************************************************************)
(* How a decision of AdmissionClient is one of AdmissionContract: the stage *)
(* is the program counter without its details, and the word is the latest   *)
(* of the edge's answers that is a decision.                                *)
(***************************************************************************)
EXTENDS AdmissionClient

(* Of the answers to a call, the genuine decisions, by their place. *)
Said(answers) == {i \in DOMAIN answers : IsDecision(answers[i])}
Word(answers) ==
    IF Said(answers) = {} THEN NoDecision
    ELSE answers[CHOOSE i \in Said(answers) : \A j \in Said(answers) : j <= i].body
WasHeld(answers) == \E i \in Said(answers) : answers[i].body = "held"
Stage(c) == IF pc[c] = "idle" THEN "idle" ELSE IF pc[c] = "done" THEN "closed" ELSE "open"

Contract == INSTANCE AdmissionContract WITH
    stage <- [c \in Calls |-> Stage(c)],
    word <- [c \in Calls |-> Word(judged[c])],
    wasHeld <- [c \in Calls |-> WasHeld(judged[c])],
    outcome <- result,
    Failures <- Kinds

(* Decide implements its contract (client.go:172-178): each verdict repeats  *)
(* the edge's current word or is an error that allows nothing, the edge is   *)
(* asked again only after it held the call, and every call closes.           *)
ImplementsContract == Contract!ContractSpec
=============================================================================
