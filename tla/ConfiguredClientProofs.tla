----------------------- MODULE ConfiguredClientProofs -----------------------
(***************************************************************************)
(* Proofs about Configuration and ConfiguredClient, for any environments,   *)
(* options, addresses, ranges and ceilings.                                 *)
(***************************************************************************)
EXTENDS ConfiguredClient, AdmissionClientProofs, WellFoundedInduction

-----------------------------------------------------------------------------
(* Rounding. *)

LEMMA DistanceType ==
    ASSUME NEW x \in Int, NEW y \in Int
    PROVE  distance(x, y) \in Nat
  BY DEF distance

(* A set of integers has a number nearest to any other. *)
LEMMA NearestExists ==
    ASSUME NEW S, S \subseteq Int, S # {}, NEW x \in Int
    PROVE  /\ nearest(S, x) \in S
           /\ \A z \in S : distance(x, nearest(S, x)) <= distance(x, z)
<1> DEFINE R == {ss \in Nat \X Nat : ss[1] < ss[2]}
           T == {distance(x, z) : z \in S}
<1>1. IsWellFoundedOn(R, Nat)
  BY NatLessThanWellFounded, Zenon DEF OpToRel
<1>2. \A m, n \in Nat : m < n => <<m, n>> \in R
  OBVIOUS
<1>3. T \subseteq Nat /\ T # {}
  BY DistanceType
<1> HIDE DEF R
<1>4. PICK n \in T : \A m \in T : ~ (<<m, n>> \in R)
  <2> HIDE DEF T
  <2> QED
    BY <1>1, <1>3, WFMin
<1>5. PICK y \in S : n = distance(x, y)
  BY <1>4
<1>6. \A z \in S : distance(x, y) <= distance(x, z)
  <2> SUFFICES ASSUME NEW z \in S PROVE distance(x, y) <= distance(x, z)
    OBVIOUS
  <2>1. distance(x, y) \in Nat /\ distance(x, z) \in Nat /\ distance(x, z) \in T
    BY DistanceType
  <2>2. ~ (distance(x, z) < distance(x, y))
    BY <1>2, <1>4, <1>5, <2>1
  <2> QED
    BY <2>1, <2>2
<1> QED
  BY <1>6 DEF nearest

(* Rounding is off by no more than any other choice would be, keeps what is   *)
(* on the grid and takes nothing past a point of it.                          *)
LEMMA NearestFacts ==
    ASSUME NEW S, S \subseteq Int, NEW p \in S, NEW x \in Int
    PROVE  /\ nearest(S, x) \in S /\ nearest(S, x) \in Int
           /\ distance(x, nearest(S, x)) <= distance(x, p)
           /\ x = p => nearest(S, x) = p
           /\ x <= p => nearest(S, x) <= p
           /\ x >= p => nearest(S, x) >= p
<1> DEFINE y == nearest(S, x)
<1>1. y \in S /\ distance(x, y) <= distance(x, p)
  BY NearestExists
<1>2. y \in Int /\ p \in Int
  BY <1>1
<1> HIDE DEF y
<1>3. /\ x = p => y = p
      /\ x <= p => y <= p
      /\ x >= p => y >= p
  BY <1>1, <1>2 DEF distance
<1> QED
  BY <1>1, <1>2, <1>3 DEF y

-----------------------------------------------------------------------------
(* The parser and the clamps. *)

LEMMA Overflow ==
    /\ MaxDuration \in Nat /\ Grain \in Nat /\ Grain >= 1
    /\ overflow \in Nat /\ overflow = MaxDuration * Grain + Grain
    /\ \A n \in 0..MaxDuration : n * Grain \in Nat /\ n * Grain < overflow
<1>1. MaxDuration \in Nat /\ Grain \in Nat /\ Grain >= 1
  BY TimeoutsAssumption, FloatAssumption
<1>2. overflow = MaxDuration * Grain + Grain /\ MaxDuration * Grain \in Nat
  BY <1>1, SMTT(30) DEF overflow
<1>3. ASSUME NEW n \in 0..MaxDuration PROVE n * Grain \in Nat /\ n * Grain <= MaxDuration * Grain
  <2>1. PICK k \in Nat : MaxDuration = n + k
    <3>1. MaxDuration - n \in Nat /\ MaxDuration = n + (MaxDuration - n)
      BY <1>1, <1>3
    <3> QED
      BY <3>1
  <2>2. MaxDuration * Grain = n * Grain + k * Grain /\ n * Grain \in Nat /\ k * Grain \in Nat
    BY <1>1, <2>1, SMTT(30)
  <2> QED
    BY <2>2
<1> QED
  BY <1>1, <1>2, <1>3

(* Truncation is at most the number itself and more than one unit below it,   *)
(* for what is not negative.                                                  *)
LEMMA Truncation ==
    ASSUME NEW z \in Int
    PROVE  /\ truncated(z) \in Int
           /\ z <= 0 => truncated(z) <= 0
           /\ z >= 0 => /\ truncated(z) \in Nat
                        /\ truncated(z) * Grain <= z
                        /\ z < (truncated(z) + 1) * Grain
           /\ \A n \in Nat : z >= n * Grain => truncated(z) >= n
           /\ \A n \in Nat : z <= n * Grain => truncated(z) <= n
           /\ \A n \in Nat : z < (n + 1) * Grain => truncated(z) <= n
           /\ \A n \in Nat : z > -((n + 1) * Grain) => truncated(z) >= -n
  BY Overflow, SMTT(60) DEF truncated
(* ParseDuration returns a duration. *)
LEMMA ParseType ==
    ASSUME NEW t \in Text, NEW f \in Duration
    PROVE  ParseDuration(t, f) \in Duration
<1>1. CASE unreadable(t)
  BY <1>1 DEF ParseDuration
<1>2. CASE ~unreadable(t) /\ t.kind = "duration"
  BY <1>2 DEF ParseDuration, unreadable
<1>3. CASE ~unreadable(t) /\ t.kind = "seconds"
  <2> DEFINE y == nearest(FloatSeconds, t.amount)
             z == nearest(FloatNanos, y)
  <2>1. t.amount \in Int /\ FloatSeconds \subseteq Int /\ 0 \in FloatSeconds
    BY FloatAssumption DEF Text
  <2>2. y \in Int /\ FloatNanos \subseteq Int /\ 0 \in FloatNanos
    BY <2>1, NearestFacts, FloatAssumption
  <2> HIDE DEF y
  <2>3. z \in Int
    BY <2>2, NearestFacts
  <2>4. ParseDuration(t, f) = secondsToDuration(y)
    BY <1>3 DEF ParseDuration, unreadable, y
  <2>5. secondsToDuration(y) = IF z >= overflow THEN MaxDuration
                               ELSE IF z <= -overflow THEN -MaxDuration - 1 ELSE truncated(z)
    BY DEF secondsToDuration
  <2> HIDE DEF z
  <2>6. z < overflow /\ z > -overflow => truncated(z) \in Duration
    <3>1. overflow = (MaxDuration + 1) * Grain
      BY DEF overflow
    <3>2. z < overflow => truncated(z) <= MaxDuration
      BY <2>3, <3>1, Overflow, Truncation
    <3>3. z > -overflow => truncated(z) >= -MaxDuration
      BY <2>3, <3>1, Overflow, Truncation
    <3>4. truncated(z) \in Int /\ MaxDuration \in Nat
      BY <2>3, Overflow, Truncation
    <3> QED
      BY <3>2, <3>3, <3>4 DEF Duration
  <2>7. MaxDuration \in Duration /\ -MaxDuration - 1 \in Duration
    BY Overflow DEF Duration
  <2> QED
    BY <2>3, <2>4, <2>5, <2>6, <2>7, Overflow
<1> QED
  BY <1>1, <1>2, <1>3 DEF Text, unreadable

(* What the two roundings and the truncation make of a number of seconds,     *)
(* told from the number itself: the range of a duration does not show once    *)
(* the result is held below a ceiling h.                                      *)
LEMMA ParsedSeconds ==
    ASSUME NEW x \in Int, NEW h \in {MaxTimeout, MaxHoldTimeout}
    PROVE  LET d == secondsToDuration(nearest(FloatSeconds, x))
           IN /\ x <= 0 => d <= 0
              /\ x >= h * Grain => d >= h
              /\ x > 0 /\ x < h * Grain => d \in around(x, h)
              /\ x > 0 /\ x < h * Grain /\ x % (PerSecond * Grain) = 0 => d = x \div Grain
<1> DEFINE y == nearest(FloatSeconds, x)
           z == nearest(FloatNanos, y)
           d == secondsToDuration(y)
           top == h * Grain
<1>1. h \in 0..MaxDuration /\ h \in Nat /\ h <= MaxDuration
  BY TimeoutsAssumption
<1>2. top \in Nat /\ top < overflow /\ overflow \in Nat /\ top \in ceilings
  BY <1>1, Overflow DEF ceilings
<1>3. /\ FloatSeconds \subseteq Int /\ 0 \in FloatSeconds /\ top \in FloatSeconds
      /\ FloatNanos \subseteq Int /\ 0 \in FloatNanos /\ top \in FloatNanos
      /\ Tolerance \in Nat
  BY <1>2, FloatAssumption
<1>4. /\ y \in Int
      /\ x <= 0 => y <= 0
      /\ x >= 0 => y >= 0
      /\ x <= top => y <= top
      /\ x >= top => y >= top
  <2> HIDE DEF top, y
  <2> QED
    BY <1>3, NearestFacts DEF y
<1>5. /\ z \in Int
      /\ y <= 0 => z <= 0
      /\ y >= 0 => z >= 0
      /\ y <= top => z <= top
      /\ y >= top => z >= top
  <2> HIDE DEF top, y, z
  <2> QED
    BY <1>3, <1>4, NearestFacts DEF z
<1>6. d = IF z >= overflow THEN MaxDuration
          ELSE IF z <= -overflow THEN -MaxDuration - 1 ELSE truncated(z)
  BY DEF secondsToDuration
<1> HIDE DEF d, z, y
<1>7. x <= 0 => d <= 0
  <2>1. truncated(z) \in Int /\ (z <= 0 => truncated(z) <= 0)
    BY <1>5, Truncation
  <2> QED
    BY <1>2, <1>4, <1>5, <1>6, <2>1, Overflow
<1>8. x >= top => d >= h
  <2>1. truncated(z) \in Int /\ (z >= top => truncated(z) >= h)
    BY <1>1, <1>5, Truncation
  <2> HIDE DEF top
  <2> QED
    BY <1>1, <1>2, <1>4, <1>5, <1>6, <2>1, Overflow
<1>9. ASSUME x > 0, x < top PROVE d \in around(x, h)
  <2>1. y \in 0..top /\ z \in 0..top
    <3> HIDE DEF top
    <3> QED
      BY <1>2, <1>4, <1>5, <1>9
  <2>2. d = truncated(z)
    <3> HIDE DEF top
    <3> QED
      BY <1>2, <1>6, <2>1
  <2>3. d \in Nat /\ d * Grain <= z /\ z < (d + 1) * Grain /\ d <= h
    BY <1>1, <1>5, <2>1, <2>2, Truncation
  <2>4. distance(x, y) <= Tolerance
    <3>1. PICK p \in FloatSeconds : distance(x, p) <= Tolerance
      BY <1>2, <1>9, FloatAssumption
    <3>2. distance(x, y) <= distance(x, p)
      BY <1>3, NearestFacts DEF y
    <3>3. distance(x, y) \in Nat /\ distance(x, p) \in Nat
      BY <1>3, <1>4, DistanceType
    <3> QED
      BY <1>3, <3>1, <3>2, <3>3
  <2>5. distance(y, z) <= Tolerance
    <3>1. PICK p \in FloatNanos : distance(y, p) <= Tolerance
      BY <1>2, <2>1, FloatAssumption
    <3>2. distance(y, z) <= distance(y, p)
      BY <1>3, <1>4, NearestFacts DEF z
    <3>3. distance(y, z) \in Nat /\ distance(y, p) \in Nat
      BY <1>3, <1>4, <1>5, DistanceType
    <3> QED
      BY <1>3, <3>1, <3>2, <3>3
  <2>6. z <= x + 2 * Tolerance /\ x <= z + 2 * Tolerance
    BY <1>3, <1>4, <1>5, <2>4, <2>5 DEF distance
  <2>7. d * Grain \in Int /\ (d + 1) * Grain \in Int
    BY <2>3, Overflow, SMTT(30)
  <2>8. d * Grain <= x + 2 * Tolerance /\ x < (d + 1) * Grain + 2 * Tolerance
    BY <1>3, <1>5, <2>3, <2>6, <2>7
  <2> QED
    BY <1>1, <2>3, <2>8 DEF around
<1>10. ASSUME x > 0, x < top, x % (PerSecond * Grain) = 0 PROVE d = x \div Grain
  <2>1. x \in FloatSeconds /\ x \in FloatNanos
    <3>1. x \in 0..top
      <4> HIDE DEF top
      <4> QED
        BY <1>2, <1>10
    <3> QED
      BY <1>2, <1>10, <3>1, FloatAssumption
  <2>2. y = x
    BY <1>3, <2>1, NearestFacts DEF y
  <2>3. z = x
    BY <1>3, <2>1, <2>2, NearestFacts DEF z
  <2>4. d = truncated(x)
    <3> HIDE DEF top
    <3> QED
      BY <1>2, <1>6, <1>10, <2>3
  <2> QED
    BY <1>10, <2>4 DEF truncated
<1> QED
  BY <1>7, <1>8, <1>9, <1>10 DEF d, y

(* The reading of a text, held below a ceiling, is one that is meant. *)
LEMMA TextMeant ==
    ASSUME NEW t \in Text, NEW f \in Duration, ~unreadable(t),
           NEW h \in {MaxTimeout, MaxHoldTimeout}, NEW low \in 0..h
    PROVE  held(ParseDuration(t, f), low, h) \in Meant(t, f, low, h)
<1> DEFINE d == ParseDuration(t, f)
<1>1. d \in Int /\ h \in Nat /\ t.amount \in Int
  BY ParseType, TimeoutsAssumption DEF Duration, Text
<1>2. CASE t.kind = "duration"
  <2>1. d = t.amount
    BY <1>2 DEF ParseDuration
  <2> QED
    BY <1>2, <2>1 DEF Meant
<1>3. CASE t.kind = "seconds"
  <2> DEFINE x == t.amount
             top == h * Grain
  <2>1. d = secondsToDuration(nearest(FloatSeconds, x))
    BY <1>3 DEF ParseDuration
  <2>2. /\ x <= 0 => d <= 0
        /\ x >= top => d >= h
        /\ x > 0 /\ x < top => d \in around(x, h)
        /\ x > 0 /\ x < top /\ x % (PerSecond * Grain) = 0 => d = x \div Grain
    BY <1>1, <2>1, ParsedSeconds
  <2>3. Meant(t, f, low, h) =
          IF x <= 0 THEN {low}
          ELSE IF x >= top THEN {h}
          ELSE IF x % (PerSecond * Grain) = 0 THEN {held(x \div Grain, low, h)}
          ELSE {held(n, low, h) : n \in around(x, h)}
    BY <1>3 DEF Meant
  <2>4. x \in Int /\ top \in Int
    BY <1>1, Overflow, TimeoutsAssumption
  <2> HIDE DEF d, x, top
  <2>5. CASE x <= 0
    BY <2>2, <2>3, <2>5 DEF held, d
  <2>6. CASE x > 0 /\ x >= top
    <3>1. held(d, low, h) = h
      BY <1>1, <2>2, <2>6 DEF held, d
    <3> QED
      BY <2>3, <2>4, <2>6, <3>1 DEF d
  <2>7. CASE x > 0 /\ x < top
    BY <2>2, <2>3, <2>4, <2>7 DEF d
  <2> QED
    BY <2>4, <2>5, <2>6, <2>7
<1> QED
  BY <1>2, <1>3 DEF Text, unreadable

(* Clamping twice changes nothing. *)
LEMMA ClampTwice ==
    ASSUME NEW d \in Duration
    PROVE  /\ clampTimeout(d) \in 1..MaxTimeout /\ clampTimeout(clampTimeout(d)) = clampTimeout(d)
           /\ clampHold(d) \in 0..MaxHoldTimeout /\ clampHold(clampHold(d)) = clampHold(d)
  BY TimeoutsAssumption, SMTT(30) DEF clampTimeout, clampHold, Duration

(* The clamped reading of a text is one that is meant, for each duration. *)
LEMMA ClampHeld ==
    ASSUME NEW d \in Int
    PROVE  /\ clampTimeout(d) = held(d, DefaultTimeout, MaxTimeout)
           /\ clampHold(d) = held(d, 0, MaxHoldTimeout)
  BY TimeoutsAssumption DEF clampTimeout, clampHold, held

LEMMA TimeoutMeant ==
    ASSUME NEW t \in Text
    PROVE  clampTimeout(ParseDuration(t, DefaultTimeout))
             \in Meant(t, DefaultTimeout, DefaultTimeout, MaxTimeout)
<1>1. DefaultTimeout \in Duration /\ DefaultTimeout \in 0..MaxTimeout /\ DefaultTimeout >= 1
  BY TimeoutsAssumption DEF Duration
<1>2. CASE unreadable(t)
  <2>1. ParseDuration(t, DefaultTimeout) = DefaultTimeout
    BY <1>2 DEF ParseDuration
  <2>2. clampTimeout(DefaultTimeout) = DefaultTimeout
    BY <1>1, TimeoutsAssumption DEF clampTimeout
  <2> QED
    BY <1>2, <2>1, <2>2 DEF Meant
<1>3. CASE ~unreadable(t)
  <2>1. ParseDuration(t, DefaultTimeout) \in Int
    BY <1>1, ParseType, TimeoutsAssumption DEF Duration
  <2>2. held(ParseDuration(t, DefaultTimeout), DefaultTimeout, MaxTimeout)
          \in Meant(t, DefaultTimeout, DefaultTimeout, MaxTimeout)
    BY <1>1, <1>3, TextMeant
  <2> QED
    BY <2>1, <2>2, ClampHeld
<1> QED
  BY <1>2, <1>3

LEMMA HoldMeant ==
    ASSUME NEW t \in Text
    PROVE  clampHold(ParseDuration(t, DefaultHoldTimeout))
             \in Meant(t, DefaultHoldTimeout, 0, MaxHoldTimeout)
<1>1. DefaultHoldTimeout \in Duration /\ DefaultHoldTimeout \in 0..MaxHoldTimeout
      /\ MaxHoldTimeout \in Nat /\ 0 \in 0..MaxHoldTimeout
  BY TimeoutsAssumption DEF Duration
<1>2. CASE unreadable(t)
  <2>1. ParseDuration(t, DefaultHoldTimeout) = DefaultHoldTimeout
    BY <1>2 DEF ParseDuration
  <2>2. clampHold(DefaultHoldTimeout) = DefaultHoldTimeout
    BY <1>1 DEF clampHold
  <2> QED
    BY <1>2, <2>1, <2>2 DEF Meant
<1>3. CASE ~unreadable(t)
  <2>1. ParseDuration(t, DefaultHoldTimeout) \in Int
    BY <1>1, ParseType, TimeoutsAssumption DEF Duration
  <2>2. held(ParseDuration(t, DefaultHoldTimeout), 0, MaxHoldTimeout)
          \in Meant(t, DefaultHoldTimeout, 0, MaxHoldTimeout)
    BY <1>1, <1>3, TextMeant
  <2> QED
    BY <2>1, <2>2, ClampHeld
<1> QED
  BY <1>2, <1>3

(* An option is read as it is. *)
LEMMA OptionText ==
    ASSUME NEW d \in Duration, NEW f
    PROVE  asText(d) \in Text /\ ParseDuration(asText(d), f) = d
<1>1. d \in Int
  BY TimeoutsAssumption DEF Duration
<1> QED
  BY <1>1 DEF asText, Text, ParseDuration, unreadable

(* A client built from an environment and options has the durations they      *)
(* mean, within the ceilings, and dials only what is on the machine unless    *)
(* its address was refused.                                                   *)
LEMMA NewIsSound ==
    ASSUME NEW e \in Environments, NEW o \in OptionSets, New(e, o), meant = meantBy(e, o)
    PROVE  /\ DurationsAsMeant
           /\ cfg.timeout <= MaxTimeout /\ cfg.hold <= MaxHoldTimeout
           /\ cfg.addrOK => Local(target)
<1> DEFINE k == FromEnviron(e)
           c == NewWithConfig(k, o)
           w == withOptions(k, o)
           parsedT == ParseDuration(e.timeout, DefaultTimeout)
           parsedH == ParseDuration(e.hold, DefaultHoldTimeout)
<1>1. e.timeout \in Text /\ e.hold \in Text
  BY EnvironmentsAssumption
<1>2. DefaultTimeout \in Duration /\ DefaultHoldTimeout \in Duration
  BY TimeoutsAssumption DEF Duration
<1>3. parsedT \in Duration /\ parsedH \in Duration
  BY <1>1, <1>2, ParseType
<1>4. k.timeout = clampTimeout(parsedT) /\ k.hold = clampHold(parsedH)
  BY DEF FromEnviron, Normalized
<1>5. cfg.timeout = clampTimeout(w.timeout) /\ cfg.hold = clampHold(w.hold)
      /\ cfg.addrOK = ValidateAddr(w.addr) /\ target = dialTarget(w.addr)
  BY DEF New, NewWithConfig, Normalized, withOptions
<1>6. w.timeout = option(k, o, "timeout") /\ w.hold = option(k, o, "hold")
      /\ w.addr = option(k, o, "addr")
  BY DEF withOptions
<1> HIDE DEF k, w, parsedT, parsedH
<1>7. cfg.timeout \in meant.timeout /\ cfg.timeout <= MaxTimeout
  <2>1. CASE "timeout" \in DOMAIN o
    <3> DEFINE d == o["timeout"]
    <3>1. d \in Duration /\ w.timeout = d
      BY <1>6, <2>1, OptionsAssumption DEF option
    <3>2. meant.timeout = Meant(asText(d), DefaultTimeout, DefaultTimeout, MaxTimeout)
      BY <2>1 DEF meantBy
    <3> HIDE DEF d
    <3>3. clampTimeout(d) \in meant.timeout
      BY <3>1, <3>2, OptionText, TimeoutMeant
    <3> QED
      BY <1>5, <3>1, <3>3, ClampTwice
  <2>2. CASE "timeout" \notin DOMAIN o
    <3>1. w.timeout = clampTimeout(parsedT)
      BY <1>4, <1>6, <2>2 DEF option
    <3>2. meant.timeout = Meant(e.timeout, DefaultTimeout, DefaultTimeout, MaxTimeout)
      BY <2>2 DEF meantBy
    <3>3. clampTimeout(parsedT) \in meant.timeout
      BY <1>1, <3>2, TimeoutMeant DEF parsedT
    <3> QED
      BY <1>3, <1>5, <3>1, <3>3, ClampTwice
  <2> QED
    BY <2>1, <2>2
<1>8. cfg.hold \in meant.hold /\ cfg.hold <= MaxHoldTimeout
  <2>1. CASE "hold" \in DOMAIN o
    <3> DEFINE d == o["hold"]
    <3>1. d \in Duration /\ w.hold = d
      BY <1>6, <2>1, OptionsAssumption DEF option
    <3>2. meant.hold = Meant(asText(d), DefaultHoldTimeout, 0, MaxHoldTimeout)
      BY <2>1 DEF meantBy
    <3> HIDE DEF d
    <3>3. clampHold(d) \in meant.hold
      BY <3>1, <3>2, OptionText, HoldMeant
    <3> QED
      BY <1>5, <3>1, <3>3, ClampTwice
  <2>2. CASE "hold" \notin DOMAIN o
    <3>1. w.hold = clampHold(parsedH)
      BY <1>4, <1>6, <2>2 DEF option
    <3>2. meant.hold = Meant(e.hold, DefaultHoldTimeout, 0, MaxHoldTimeout)
      BY <2>2 DEF meantBy
    <3>3. clampHold(parsedH) \in meant.hold
      BY <1>1, <3>2, HoldMeant DEF parsedH
    <3> QED
      BY <1>3, <1>5, <3>1, <3>3, ClampTwice
  <2> QED
    BY <2>1, <2>2
<1>9. cfg.addrOK => Local(target)
  <2>1. ASSUME cfg.addrOK PROVE Local(target)
    BY <1>5, <2>1 DEF ValidateAddr, dialTarget, loopbackAddr, Local, Network
  <2> QED
    BY <2>1
<1> QED
  BY <1>7, <1>8, <1>9 DEF DurationsAsMeant

-----------------------------------------------------------------------------
(* A configured client is an admission client, of a configuration that never  *)
(* changes: the invariants of AdmissionClientProofs hold of it, and so does   *)
(* what New makes sure of.                                                    *)
Built ==
    /\ DurationsAsMeant
    /\ cfg.timeout <= MaxTimeout /\ cfg.hold <= MaxHoldTimeout
    /\ cfg.addrOK => Local(target)

CInv == IInv /\ Built

LEMMA SameConfiguration == ASSUME [Next]_vars PROVE cfg' = cfg
  BY DEF Next, ClientStep, Edge, Finished, vars, edgeVars, Invoke, BeginRequest, ReadToken, Send,
         Break, Receive, EndParent, Expire, Tick, RotateBegin, RotateEnd, EdgeStop, EdgeStart, EdgeAnswer

LEMMA InitCInv == CInit => CInv
<1> SUFFICES ASSUME CInit PROVE CInv
  OBVIOUS
<1>1. IInv
  BY InitTypeOK, InitEdgeOK, InitWire, InitVerdicts, InitClock, InitTokens,
     InitRequests DEF IInv, CInit
<1>2. PICK e \in Environments, o \in OptionSets : New(e, o) /\ meant = meantBy(e, o)
  BY DEF CInit
<1> QED
  BY <1>1, <1>2, NewIsSound DEF CInv, Built

LEMMA NextCInv == CInv /\ [CNext]_cvars => CInv'
<1> SUFFICES ASSUME CInv, [CNext]_cvars PROVE CInv'
  OBVIOUS
<1>1. [Next]_vars /\ UNCHANGED <<target, meant>>
  BY DEF CNext, cvars
<1>2. IInv'
  BY <1>1, NextTypeOK, NextEdgeOK, NextWire, NextVerdicts, NextClock, NextTokens,
     NextRequests DEF IInv, CInv
<1>3. Built'
  BY <1>1, SameConfiguration DEF CInv, Built, DurationsAsMeant
<1> QED
  BY <1>2, <1>3 DEF CInv

LEMMA ConfiguredInductive == CSpec => []CInv
  BY InitCInv, NextCInv, PTL DEF CSpec

(* Whatever the environment and the options say, a request goes to a named    *)
(* socket or a loopback literal.                                              *)
THEOREM StaysLocal == CSpec => []OnThisMachine
<1>1. CInv => OnThisMachine
  BY DEF CInv, Built, IInv, Requests, RequestOK, OnThisMachine
<1> QED
  BY <1>1, ConfiguredInductive, PTL

(* The durations are the ones that were meant, whatever was written.          *)
THEOREM DurationsMeant == CSpec => []DurationsAsMeant
<1>1. CInv => DurationsAsMeant
  BY DEF CInv, Built
<1> QED
  BY <1>1, ConfiguredInductive, PTL

(* No call but an attest outlasts the ceilings and the margin.                *)
THEOREM CeilingsKept == CSpec => []WithinCeilings
<1>1. ASSUME CInv PROVE WithinCeilings
  <2> SUFFICES ASSUME NEW c \in Calls, arg[c].op # "attest"
      PROVE elapsed[c] <= MaxTimeout + MaxHoldTimeout + HoldMargin
    BY DEF WithinCeilings
  <2>1. /\ cfg.timeout \in Nat /\ cfg.hold \in Nat /\ elapsed[c] \in Nat
        /\ cfg.timeout <= MaxTimeout /\ cfg.hold <= MaxHoldTimeout
        /\ MaxTimeout \in Nat /\ MaxHoldTimeout \in Nat /\ HoldMargin \in Nat
    BY <1>1, TimeoutsAssumption, BoundsAssumption DEF CInv, Built, IInv, TypeOK, Config
  <2>2. elapsed[c] <= Deadline(c)
    BY <1>1 DEF CInv, IInv, Clock, ClockOK
  <2>3. Deadline(c) = cfg.timeout \/ Deadline(c) = cfg.timeout + cfg.hold + HoldMargin
    BY DEF Deadline
  <2> QED
    BY <2>1, <2>2, <2>3
<1> QED
  BY <1>1, ConfiguredInductive, PTL
=============================================================================
