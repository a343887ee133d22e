--------------------------- MODULE Configuration ---------------------------
(***************************************************************************)
(* How a client comes by its configuration (admission/config.go and         *)
(* NewWithConfig): durations and an address are read from the environment,  *)
(* options override them, and the result is clamped and validated.  Pure    *)
(* functions, over what the parsers can tell apart in a text.               *)
(***************************************************************************)
EXTENDS Integers

CONSTANTS
    MaxDuration,        \* the largest time.Duration
    PerSecond,          \* time.Second
    Grain,              \* grains in a unit of Duration: what texts and floats are counted in
    MaxFloat,           \* the largest number of seconds ParseFloat reads, in grains
    FloatSeconds,       \* the float64 numbers of seconds, in grains
    FloatNanos,         \* the float64 numbers of units of Duration, in grains
    Tolerance,          \* the most that a rounding is off below the ceilings, in grains
    DefaultTimeout, MaxTimeout, DefaultHoldTimeout, MaxHoldTimeout,
    MaxPort,
    Hosts,              \* the hosts an address may name
    ParseIP,            \* ParseIP[h]: net.ParseIP(h).String(), NotIP if it is none (external)
    Loopback,           \* the literals of IsLoopback
    DefaultAddr, DefaultTokenFile   \* PlatformDefaults

NotIP == "not an IP"

(* A duration of -MaxDuration - 1 exists, as in two's complement. *)
Duration == (-MaxDuration - 1)..MaxDuration

(* The text of a duration: blank, a bare number of seconds, a Go duration or  *)
(* neither.  A number of seconds is an amount of grains, for it may be finer  *)
(* than a duration, and larger than any; a Go duration is the whole number of *)
(* units that time.ParseDuration makes of it (external).                      *)
Text == [kind : {"blank", "seconds", "duration", "malformed"}, amount : Int]

(* An address: with a unix: or unix:// prefix and what follows it, possibly   *)
(* nothing; an absolute path; or anything else, which may or may not have the *)
(* form host:port of tcpAddr.  The host is without its brackets.              *)
Address ==
    [scheme : {"unix", "absolute"}, path : STRING]
      \cup [scheme : {"other"}, hostPort : BOOLEAN, host : Hosts, port : Nat]

Settings == [addr : Address, tokenFile : STRING, timeout : Duration, hold : Duration]

ASSUME TimeoutsAssumption ==
    /\ MaxDuration \in Nat /\ MaxFloat \in Nat
    /\ MaxTimeout \in 1..MaxDuration /\ DefaultTimeout \in 1..MaxTimeout
    /\ MaxHoldTimeout \in 0..MaxDuration /\ DefaultHoldTimeout \in 0..MaxHoldTimeout

distance(x, y) == IF x <= y THEN y - x ELSE x - y
ceilings == {MaxTimeout * Grain, MaxHoldTimeout * Grain}
overflow == (MaxDuration + 1) * Grain

(* Of float64: zero, the ceilings, the whole seconds below them and the ends  *)
(* of the range of a duration are exact, and below the ceilings a rounding is *)
(* off by far less than half a unit (6e-5 ns at 570 s).                       *)
ASSUME FloatAssumption ==
    /\ Grain \in Nat /\ PerSecond \in Nat \ {0} /\ Tolerance \in Nat /\ 2 * Tolerance < Grain
    /\ FloatSeconds \subseteq Int /\ FloatNanos \subseteq Int
    /\ {0} \cup ceilings \subseteq FloatSeconds \cap FloatNanos
    /\ {-overflow, overflow} \subseteq FloatNanos
    /\ \A h \in ceilings : \A x \in 0..h :
         /\ \E y \in FloatSeconds : distance(x, y) <= Tolerance
         /\ \E y \in FloatNanos : distance(x, y) <= Tolerance
         /\ x % (PerSecond * Grain) = 0 => x \in FloatSeconds \cap FloatNanos
ASSUME AddressAssumption ==
    /\ {"localhost", "127.0.0.1", ""} \subseteq Hosts /\ Loopback \subseteq Hosts
    /\ ParseIP \in [Hosts -> Hosts \cup {NotIP}]
    /\ MaxPort \in Nat /\ "" \notin Loopback /\ NotIP \notin Loopback
ASSUME DefaultsAssumption == DefaultAddr \in Address /\ DefaultTokenFile \in STRING

-----------------------------------------------------------------------------
(* Floating point rounds to the nearest number it has. *)
nearest(S, x) == CHOOSE y \in S : \A z \in S : distance(x, y) <= distance(x, z)

(* Conversion to an integer truncates towards zero. *)
truncated(z) == IF z >= 0 THEN z \div Grain ELSE -((-z) \div Grain)

(* Mutant: a number of seconds too large to convert becomes what the          *)
(* conversion makes of it, the smallest duration.                             *)
secondsToDurationUnchecked(seconds) ==
    LET nanos == nearest(FloatNanos, seconds)
    IN IF truncated(nanos) \in Duration THEN truncated(nanos) ELSE -MaxDuration - 1

(* The product of floats is rounded once more, saturates on either side and   *)
(* is truncated: the unit below a text that has no float is lost, and "1.001" *)
(* is 1000999999 ns.  (An infinite product saturates as any large one does.)  *)
secondsToDuration(seconds) ==
    LET nanos == nearest(FloatNanos, seconds)
    IN IF nanos >= overflow THEN MaxDuration
       ELSE IF nanos <= -overflow THEN -MaxDuration - 1
       ELSE truncated(nanos)

(* No number: blank and malformed text, or a number out of the range of its   *)
(* parser, ParseFloat's or that of time.ParseDuration.                        *)
unreadable(text) ==
    \/ text.kind \in {"blank", "malformed"}
    \/ text.kind = "seconds" /\ text.amount \notin (-MaxFloat)..MaxFloat
    \/ text.kind = "duration" /\ text.amount \notin Duration

ParseDuration(text, fallback) ==
    CASE unreadable(text) -> fallback
      [] ~unreadable(text) /\ text.kind = "seconds" ->
           secondsToDuration(nearest(FloatSeconds, text.amount))
      [] ~unreadable(text) /\ text.kind = "duration" -> text.amount

clampTimeout(d) == IF d <= 0 THEN DefaultTimeout ELSE IF d > MaxTimeout THEN MaxTimeout ELSE d
clampHold(d) == IF d < 0 THEN 0 ELSE IF d > MaxHoldTimeout THEN MaxHoldTimeout ELSE d

(* Mutant: the hold budget is not clamped. *)
NormalizedTimeout(k) == [k EXCEPT !.timeout = clampTimeout(@)]

Normalized(k) == [k EXCEPT !.timeout = clampTimeout(@), !.hold = clampHold(@)]

(* FromEnviron: an environment has a text for each duration, and an address   *)
(* and a token file unless they are blank.                                    *)
FromEnviron(e) ==
    Normalized([addr |-> IF "addr" \in DOMAIN e THEN e.addr ELSE DefaultAddr,
                tokenFile |-> IF "tokenFile" \in DOMAIN e THEN e.tokenFile ELSE DefaultTokenFile,
                timeout |-> ParseDuration(e.timeout, DefaultTimeout),
                hold |-> ParseDuration(e.hold, DefaultHoldTimeout)])

-----------------------------------------------------------------------------
Network(a) == IF a.scheme \in {"unix", "absolute"} THEN "unix" ELSE "tcp"

(* localhost is taken for 127.0.0.1, never resolved. *)
literal(host) == ParseIP[IF host = "localhost" THEN "127.0.0.1" ELSE host]

(* ParseLoopbackAddr accepts a plain host:port of a loopback literal. *)
loopbackAddr(a) == a.hostPort /\ a.port \in 1..MaxPort /\ literal(a.host) \in Loopback

ValidateAddr(a) == IF Network(a) = "unix" THEN a.path # "" ELSE loopbackAddr(a)

(* The options: the last of each kind, for the field it sets. *)
option(k, o, f) == IF f \in DOMAIN o THEN o[f] ELSE k[f]
withOptions(k, o) ==
    [addr |-> option(k, o, "addr"), tokenFile |-> option(k, o, "tokenFile"),
     timeout |-> option(k, o, "timeout"), hold |-> option(k, o, "hold")]

(* Mutant: the client dials the host as it was configured. *)
dialTargetAsConfigured(a) ==
    IF Network(a) = "unix" THEN [network |-> "unix", path |-> a.path]
    ELSE IF loopbackAddr(a) THEN [network |-> "tcp", host |-> a.host, port |-> a.port]
    ELSE [network |-> "tcp", host |-> "", port |-> 0]

(* What dial connects to: the parsed literal, or nothing if it was refused.   *)
dialTarget(a) ==
    IF Network(a) = "unix" THEN [network |-> "unix", path |-> a.path]
    ELSE IF loopbackAddr(a) THEN [network |-> "tcp", host |-> literal(a.host), port |-> a.port]
    ELSE [network |-> "tcp", host |-> "", port |-> 0]

(* The options are applied before anything is clamped or validated; a refused *)
(* address is kept as cfgErr, and fails every request.                        *)
NewWithConfig(k, o) ==
    LET c == Normalized(withOptions(k, o))
    IN [addrOK |-> ValidateAddr(c.addr), target |-> dialTarget(c.addr),
        tokenFile |-> c.tokenFile, timeout |-> c.timeout, hold |-> c.hold]

-----------------------------------------------------------------------------
(* On the machine: a named socket or a loopback literal, with a real port. *)
Local(t) ==
    IF t.network = "unix" THEN t.path # ""
    ELSE t.host \in Loopback /\ t.port \in 1..MaxPort

(* What a user means by a text, over the amount itself and with no float: at  *)
(* most high, and low if it is less than a unit of time.  A whole number of   *)
(* seconds means exactly that; a fraction of one may become any duration that *)
(* two roundings do not take it away from.                                    *)
held(d, low, high) == IF d <= 0 THEN low ELSE IF d >= high THEN high ELSE d
around(amount, high) ==
    {d \in 0..high : d * Grain <= amount + 2 * Tolerance /\ amount < (d + 1) * Grain + 2 * Tolerance}
Meant(text, fallback, low, high) ==
    CASE unreadable(text) -> {fallback}
      [] ~unreadable(text) /\ text.kind = "duration" -> {held(text.amount, low, high)}
      [] ~unreadable(text) /\ text.kind = "seconds" ->
           IF text.amount <= 0 THEN {low}
           ELSE IF text.amount >= high * Grain THEN {high}
           ELSE IF text.amount % (PerSecond * Grain) = 0 THEN {held(text.amount \div Grain, low, high)}
           ELSE {held(d, low, high) : d \in around(text.amount, high)}
=============================================================================
