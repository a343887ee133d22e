------------------------- MODULE MCConfiguredClient -------------------------
(* One call of every operation, with every class of answer, by clients built *)
(* from environments and options of every kind, under a clock fine enough to *)
(* show the truncation of the hold budget.                                   *)
EXTENDS ConfiguredClient

MCArgs ==
    {a \in [op : Ops, payload : Payloads, budget : {NoHold, 0, 1, 3}] :
        /\ a \in Arg
        /\ a.op \in {"decide", "attest", "health"} => a.budget = 0
        /\ a.op = "admit" => a.budget \in {NoHold, 1}
        /\ a.op = "capped" => a.payload \in {"fits", "borderline"}
        /\ a.op = "capped" /\ a.payload = "borderline" => a.budget = 3}

(* Every answer to a request of the right version and status, and one answer *)
(* of each other class.                                                      *)
MCResponses ==
    [status : {200}, version : {"1"}, body : Bodies]
      \cup [status : {200}, version : {"other", "absent"}, body : {"allow", "held"}]
      \cup [status : {204, 302, 400, 500, 503}, version : {"1"}, body : {"allow"}]
      \cup [status : {204, 500}, version : {"absent"}, body : {"not_json"}]

MCConfigs ==
    [addrOK : BOOLEAN, tokenFile : {"unset", "edge", "foreign"},
     timeout : 1..MaxDuration, hold : 0..MaxDuration]

MCHosts == {"", "localhost", "127.0.0.1", "::ffff:127.0.0.1", "::1", "10.0.0.5", "example.com"}
MCParseIP ==
    [h \in MCHosts |->
        CASE h \in {"127.0.0.1", "::ffff:127.0.0.1"} -> "127.0.0.1"
          [] h \in {"::1", "10.0.0.5"} -> h
          [] OTHER -> NotIP]
MCDefaultAddr == [scheme |-> "unix", path |-> "/x"]

(* Addresses that end at one of a few local targets, and some refused. *)
tcp(h, p) == [scheme |-> "other", hostPort |-> TRUE, host |-> h, port |-> p]
MCAddresses ==
    {tcp("localhost", 1), tcp("::ffff:127.0.0.1", 1), tcp("127.0.0.1", 0), tcp("127.0.0.1", 3),
     tcp("10.0.0.5", 1), tcp("example.com", 1), [tcp("localhost", 1) EXCEPT !.hostPort = FALSE],
     [scheme |-> "unix", path |-> ""], [scheme |-> "absolute", path |-> "/x"]}

(* Two grids of floats that have every whole second, 16 grains, and miss     *)
(* some other durations: 24 grains, three units, is read as 22, and so is    *)
(* two.                                                                      *)
MCFloatSeconds == {x \in -150..150 : x % 16 = 0 \/ x % 5 = 2}
MCFloatNanos == {x \in -150..150 : x % 2 = 0}

(* Numbers around zero, the units and the ceilings, the range of a duration  *)
(* and that of a float, with a float or without.                             *)
MCTexts ==
    {[kind |-> k, amount |-> 0] : k \in {"blank", "malformed"}}
      \cup [kind : {"duration"}, amount : {-9, -8, 0, 1, 7, 8}]
      \cup [kind : {"seconds"}, amount : {-151, -66, 0, 3, 7, 8, 16, 24, 66, 151}]
Some(n) == [kind |-> "duration", amount |-> n]

(* One setting at a time is varied. *)
MCEnvironments ==
    [timeout : {Some(1)}, hold : MCTexts]
      \cup [timeout : MCTexts, hold : {Some(0)}]
      \cup [addr : MCAddresses, timeout : {Some(2)}, hold : {Some(0)}]
      \cup [tokenFile : {"foreign"}, timeout : {Some(2)}, hold : {Some(3)}]
MCOptionSets ==
    {<<>>} \cup [addr : {tcp("10.0.0.5", 1)}] \cup [tokenFile : {"unset"}, timeout : {7}, hold : {-1}]
=============================================================================
