----------------------- MODULE MCAdmissionRefinement -----------------------
(* A decision, with and without a cap on its hold, against an edge that      *)
(* rotates its token, stops and restarts.                                    *)
EXTENDS AdmissionRefinement

MCArgs ==
    {[op |-> "decide", payload |-> p, budget |-> 0] : p \in {"fits", "borderline", "oversized"}}
      \cup {[op |-> "capped", payload |-> "fits", budget |-> 1]}
MCConfigs == [addrOK : {TRUE}, tokenFile : {"edge", "foreign"}, timeout : {2}, hold : {3}]

(* The client of the edge's own file, allowed to wait or not. *)
MCEdgeConfigs == [addrOK : {TRUE}, tokenFile : {"edge"}, timeout : {2}, hold : {0, 3}]

MCResponses ==
    [status : {200}, version : {"1"}, body : {"allow", "deny", "held", "unknown"}]
      \cup [status : {200}, version : {"absent"}, body : {"allow"}]
      \cup {[status |-> 503, version |-> "1", body |-> "not_json"]}
=============================================================================
