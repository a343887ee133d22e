-------------------------- MODULE ConfiguredClient --------------------------
(***************************************************************************)
(* The admission client as New builds it: AdmissionClient with the          *)
(* configuration that Configuration makes of an environment and of options. *)
(***************************************************************************)
EXTENDS AdmissionClient, Configuration

CONSTANTS
    Environments,   \* the environments: see FromEnviron
    OptionSets      \* the options given to New: see withOptions

ASSUME SecondAssumption == PerSecond = Second
ASSUME EnvironmentsAssumption ==
    \A e \in Environments :
        /\ e.timeout \in Text /\ e.hold \in Text
        /\ "addr" \in DOMAIN e => e.addr \in Address
        /\ "tokenFile" \in DOMAIN e => e.tokenFile \in STRING
ASSUME OptionsAssumption ==
    \A o \in OptionSets :
        /\ "addr" \in DOMAIN o => o["addr"] \in Address
        /\ "tokenFile" \in DOMAIN o => o["tokenFile"] \in STRING
        /\ "timeout" \in DOMAIN o => o["timeout"] \in Duration
        /\ "hold" \in DOMAIN o => o["hold"] \in Duration

VARIABLES
    target,     \* network, address, host and port of the client
    meant       \* history: the durations the environment and the options mean

cvars == <<vars, target, meant>>

(* An option is a duration already, and always in range. *)
asText(d) == [kind |-> "duration", amount |-> d]
meantBy(e, o) ==
    [timeout |-> Meant(IF "timeout" \in DOMAIN o THEN asText(o["timeout"]) ELSE e.timeout,
                       DefaultTimeout, DefaultTimeout, MaxTimeout),
     hold |-> Meant(IF "hold" \in DOMAIN o THEN asText(o["hold"]) ELSE e.hold,
                    DefaultHoldTimeout, 0, MaxHoldTimeout)]

(* New *)
New(e, o) ==
    LET client == NewWithConfig(FromEnviron(e), o)
    IN /\ target = client.target
       /\ cfg = [addrOK |-> client.addrOK, tokenFile |-> client.tokenFile,
                 timeout |-> client.timeout, hold |-> client.hold]

CInit ==
    /\ \E e \in Environments, o \in OptionSets : New(e, o) /\ meant = meantBy(e, o)
    /\ Init

(* A client does not change once it is built. *)
CNext == Next /\ UNCHANGED <<target, meant>>

CSpec == CInit /\ [][CNext]_cvars

-----------------------------------------------------------------------------
(* Nothing is read or sent for a client whose address is not on the machine   *)
(* (config.go:167-170, "before any I/O"; client.go:81-84, 101-102): whatever  *)
(* the environment and the options say, a request that has left validation    *)
(* goes to a named socket or to a loopback literal, and to no name that       *)
(* something else would have to resolve.                                      *)
OnThisMachine ==
    \A c \in Calls : pc[c] \in {"loop", "dial", "wait"} \/ request[c] # {} => Local(target)

(* The durations are the ones that were meant, within the ceilings            *)
(* (config.go:79-113, 233-235): one too long for 64 bits or too short for a   *)
(* nanosecond does not turn into its opposite on the way, a whole number of   *)
(* seconds is kept, and the roundings of a fraction take it no further than   *)
(* to the duration beside it.                                                 *)
DurationsAsMeant == cfg.timeout \in meant.timeout /\ cfg.hold \in meant.hold

(* The ceilings bound every call (config.go:183-188): with the longest        *)
(* durations anyone may ask for, a decision ends within both of them and the  *)
(* margin.                                                                    *)
WithinCeilings ==
    \A c \in Calls : arg[c].op # "attest" => elapsed[c] <= MaxTimeout + MaxHoldTimeout + HoldMargin
=============================================================================
