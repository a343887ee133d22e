----------------------------- MODULE Admission -----------------------------
(***************************************************************************)
(* The vocabulary of the admission protocol and its pure functions: what   *)
(* an HTTP answer means (client.go: interpret, types.go: parseDecision),    *)
(* and how an answer or a failure becomes the Verdict of the two-phase      *)
(* decision (client.go: verdictFor, unreachableVerdict, holdFailedVerdict). *)
(* Reasons, ids, scores and messages are left out: no property is about     *)
(* their wording.                                                           *)
(***************************************************************************)
EXTENDS Integers

NoErr == "none"

(* errors.go: the kinds of failure to obtain a decision. *)
Kinds == {"config", "unreachable", "timeout", "canceled", "unauthorized",
          "not_ready", "protocol", "payload_too_large"}

(* types.go: the three answers of the edge; "nil" is the absent *Decision. *)
Decisions == {"allow", "deny", "held"}
NoDecision == "nil"

-----------------------------------------------------------------------------
(***************************************************************************)
(* An HTTP answer, as far as the client looks at it.  302 and 500 stand for *)
(* "any other status".  A body is classified by what the parsers see:       *)
(*   allow, deny, held   a well-formed decision                             *)
(*   unknown             an object whose decision is missing or unrecognized*)
(*   mistyped            an allow whose risk_score or updated_input has the *)
(*                       wrong JSON type                                    *)
(*   null                the JSON value null                                *)
(*   not_object          any other JSON value that is not an object         *)
(*   not_json            not JSON at all (an empty body included)           *)
(*   too_long            more than maxResponseBytes                         *)
(***************************************************************************)
Statuses == {200, 204, 302, 400, 401, 500, 503}
Versions == {"1", "other", "absent"}
Bodies == Decisions \cup {"unknown", "mistyped", "null", "not_object", "not_json", "too_long"}

Response == [status : Statuses, version : Versions, body : Bodies]

Unauthorized401 == [status |-> 401, version |-> "1", body |-> "not_json"]

(* The size check that ends roundTrip: it comes before the status is looked *)
(* at, so an oversized 401 is a protocol error and is not retried.          *)
readBounded(r) == IF r.body = "too_long" THEN "protocol" ELSE NoErr

(* Mutant: a 200 without the version header is obeyed. *)
interpretAnyPeer(r) ==
    IF r.version = "other" THEN "protocol"
    ELSE IF r.status = 204 THEN NoErr
    ELSE IF r.status = 503 THEN "not_ready"
    ELSE IF r.status # 200 \/ r.body = "not_json" THEN "protocol" ELSE NoErr

(* interpret: the error the contract implies, in the order of the code. *)
interpret(r) ==
    IF r.version = "other" THEN "protocol"
    ELSE IF r.status = 204 THEN NoErr
    ELSE IF r.status = 200 /\ r.version = "absent" THEN "protocol"
    ELSE IF r.status = 503 THEN "not_ready"
    ELSE IF r.status # 200 THEN "protocol"
    ELSE IF r.body = "not_json" THEN "protocol" ELSE NoErr

(* The bytes interpret hands on: a 204 has none, whatever was sent. *)
content(r) == IF r.status = 204 THEN "not_json" ELSE r.body

(* Mutant: an unrecognized decision falls into the deny of verdictFor. *)
parseDecisionLenient(body) == IF body \in Decisions \cup {"unknown"} THEN NoErr ELSE "protocol"

(* parseDecision: anything that is not a decision is refused. *)
parseDecision(body) == IF body \in Decisions THEN NoErr ELSE "protocol"

(* Health: any JSON object, and null (which unmarshals into a nil map). *)
parseHealth(body) ==
    IF body \in Decisions \cup {"unknown", "mistyped", "null"} THEN NoErr ELSE "protocol"

(* The error of one whole exchange whose answer is r, for the operation op: *)
(* admit parses a decision, Health an object, and Attest nothing.           *)
outcomeErr(op, r) ==
    IF interpret(r) # NoErr THEN interpret(r)
    ELSE CASE op = "health" -> parseHealth(content(r))
           [] op = "attest" -> NoErr
           [] OTHER         -> parseDecision(content(r))

(* The Decision of one whole exchange, nil when it failed or has none. *)
outcomeDecision(op, r) ==
    IF op \notin {"health", "attest"} /\ outcomeErr(op, r) = NoErr
    THEN content(r) ELSE NoDecision

-----------------------------------------------------------------------------
(* What a call returns.  For Admit, Attest and Health, which return a value *)
(* and an error, allowed is Decision.Allowed() and held is FALSE.           *)
Verdict == [allowed : BOOLEAN, decision : Decisions \cup {NoDecision},
            err : Kinds \cup {NoErr}, held : BOOLEAN]

verdictFor(d) ==
    [allowed |-> d = "allow", decision |-> d, err |-> NoErr, held |-> d = "held"]

unreachableVerdict(e) ==
    [allowed |-> FALSE, decision |-> NoDecision, err |-> e, held |-> FALSE]

holdFailedVerdict(e) ==
    [allowed |-> FALSE, decision |-> "held", err |-> e, held |-> TRUE]

returned(d, e) ==
    [allowed |-> d = "allow", decision |-> d, err |-> e, held |-> FALSE]

PolicyDenied(v) == ~v.allowed /\ v.err = NoErr /\ ~v.held

Unreachable(v) == v.err # NoErr

(* A genuine decision: the only kind of answer the adapter may obey. *)
IsDecision(r) == r.status = 200 /\ r.version = "1" /\ r.body \in Decisions
=============================================================================
