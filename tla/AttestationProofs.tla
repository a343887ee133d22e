------------------------- MODULE AttestationProofs -------------------------
(***************************************************************************)
(* Proofs about Attestation, for any number of callers, tools and sessions  *)
(* and any deadlines with AttestTimeout < RetryInterval.                    *)
(***************************************************************************)
EXTENDS Attestation, TLAPS

(* A call's tool is hooked before its snapshot is taken, so the snapshot      *)
(* names it; and a snapshot names only hooked tools.                          *)
SnapshotOK ==
    \A k \in Callers :
        /\ att[k] \subseteq hooked
        /\ pc[k] \in {"snapshot", "check", "attesting", "admitting"} => tool[k] \in hooked
        /\ pc[k] \in {"check", "attesting", "admitting"} => tool[k] \in att[k]

(* What the edge acknowledged, or what was confirmed before, was reported. *)
ReportOK ==
    \A k \in Callers :
        /\ pc[k] = "attesting" /\ arrived[k] => att[k] \in reports
        /\ pc[k] = "admitting" /\ why[k] \in {"current", "confirmed"} => att[k] \in reports

(* While a session was never attested, the attempt under way is the one that  *)
(* attestAttempted records: the clock of the throttle and the timer of the    *)
(* attestation run in step.                                                   *)
FlightOK ==
    \A k \in Callers :
        pc[k] = "attesting" /\ attested[session[k]] = {} =>
            age[session[k]] = AttestTimeout - left[k]

(* SingleFlight, caller by caller. *)
OneFlight ==
    \A k, m \in Callers :
        /\ pc[k] = "attesting" /\ pc[m] = "attesting" /\ session[k] = session[m]
        /\ attested[session[k]] = {}
        => k = m

IInv == TypeOK /\ ConfirmedWasReported /\ SnapshotOK /\ ReportOK /\ FlightOK /\ OneFlight

-----------------------------------------------------------------------------
(* The initial states satisfy the inductive invariant. *)
LEMMA InitIInv == Init => IInv
  BY TimesAssumption DEF Init, IInv, TypeOK, ConfirmedWasReported, SnapshotOK, ReportOK, FlightOK,
     OneFlight, Never

(* Every step preserves the types. *)
LEMMA NextTypeOK == TypeOK /\ [Next]_vars => TypeOK'
<1> SUFFICES ASSUME TypeOK, [Next]_vars PROVE TypeOK'
  OBVIOUS
<1> USE DEF TypeOK
<1>1. ASSUME NEW t \in Tools, Declare(t) PROVE TypeOK'
  BY <1>1 DEF Declare
<1>2. ASSUME NEW k \in Callers, NEW t \in Tools, NEW s \in Sessions, Call(k, t, s) PROVE TypeOK'
  BY <1>2 DEF Call
<1>3. ASSUME NEW k \in Callers, Register(k) PROVE TypeOK'
  BY <1>3 DEF Register
<1>4. ASSUME NEW k \in Callers, TakeAttestation(k) PROVE TypeOK'
  BY <1>4 DEF TakeAttestation
<1>5. ASSUME NEW k \in Callers, ShouldAttest(k) PROVE TypeOK'
  <2>1. ASSUME NEW reason \in {"current", "throttled"}, Skip(k, reason) PROVE TypeOK'
    BY <1>5, <2>1 DEF ShouldAttest, Skip
  <2>2. CASE StartAttest(k)
    <3>1. age' \in [Sessions -> {Never} \cup 0..RetryInterval]
      BY <1>5, <2>2, TimesAssumption DEF StartAttest
    <3>2. left' \in [Callers -> 0..AttestTimeout]
      BY <1>5, <2>2, TimesAssumption DEF StartAttest
    <3> QED
      BY <1>5, <2>2, <3>1, <3>2 DEF ShouldAttest, StartAttest
  <2> QED
    BY <1>5, <2>1, <2>2 DEF ShouldAttest
<1>6. ASSUME NEW k \in Callers, AttestOK(k) PROVE TypeOK'
  BY <1>6 DEF AttestOK
<1>7. ASSUME NEW k \in Callers, AttestErr(k) PROVE TypeOK'
  BY <1>7 DEF AttestErr
<1>8. ASSUME NEW k \in Callers, FinishCall(k) PROVE TypeOK'
  BY <1>8, TimesAssumption DEF FinishCall
<1>9. ASSUME NEW k \in Callers, Arrive(k) PROVE TypeOK'
  BY <1>9 DEF Arrive
<1>10. CASE Tick
  <2>1. left' \in [Callers -> 0..AttestTimeout]
    <3>1. ASSUME NEW k \in Callers
          PROVE (IF pc[k] = "attesting" THEN left[k] - 1 ELSE left[k]) \in 0..AttestTimeout
      BY <1>10, TimesAssumption DEF Tick
    <3> QED
      BY <3>1, <1>10 DEF Tick
  <2>2. age' \in [Sessions -> {Never} \cup 0..RetryInterval]
    <3>1. ASSUME NEW s \in Sessions
          PROVE (IF age[s] = Never \/ age[s] = RetryInterval THEN age[s] ELSE age[s] + 1)
                    \in {Never} \cup 0..RetryInterval
      <4>1. age[s] = Never \/ age[s] \in 0..RetryInterval
        OBVIOUS
      <4>2. CASE age[s] = Never \/ age[s] = RetryInterval
        BY <4>1, <4>2
      <4>3. CASE age[s] # Never /\ age[s] # RetryInterval
        <5> HIDE DEF TypeOK
        <5>1. age[s] + 1 \in 0..RetryInterval
          BY <4>1, <4>3, TimesAssumption
        <5> QED
          BY <4>3, <5>1
      <4> QED
        BY <4>2, <4>3
    <3> QED
      BY <3>1, <1>10 DEF Tick
  <2> QED
    BY <2>1, <2>2, <1>10 DEF Tick
<1>11. CASE UNCHANGED vars
  BY <1>11 DEF vars
<1> QED
  BY <1>1, <1>2, <1>3, <1>4, <1>5, <1>6, <1>7, <1>8, <1>9, <1>10, <1>11 DEF Next, CallerStep


(* Every step preserves the parts of the invariant about what is reported.   *)
LEMMA NextReportsOK ==
    TypeOK /\ ConfirmedWasReported /\ SnapshotOK /\ ReportOK /\ [Next]_vars
        => ConfirmedWasReported' /\ SnapshotOK' /\ ReportOK'
<1> DEFINE R == ConfirmedWasReported /\ SnapshotOK /\ ReportOK
<1> SUFFICES ASSUME TypeOK, R, [Next]_vars PROVE R'
  OBVIOUS
<1> USE DEF TypeOK, ConfirmedWasReported, SnapshotOK, ReportOK
<1>1. ASSUME NEW t \in Tools, Declare(t) PROVE R'
  BY <1>1 DEF Declare
<1>2. ASSUME NEW k \in Callers, NEW t \in Tools, NEW s \in Sessions, Call(k, t, s) PROVE R'
  BY <1>2 DEF Call
<1>3. ASSUME NEW k \in Callers, Register(k) PROVE R'
  BY <1>3 DEF Register
<1>4. ASSUME NEW k \in Callers, TakeAttestation(k) PROVE R'
  BY <1>4 DEF TakeAttestation
<1>5. ASSUME NEW k \in Callers, ShouldAttest(k) PROVE R'
  BY <1>5 DEF ShouldAttest, Skip, StartAttest
<1>6. ASSUME NEW k \in Callers, AttestOK(k) PROVE R'
  BY <1>6 DEF AttestOK
<1>7. ASSUME NEW k \in Callers, AttestErr(k) PROVE R'
  BY <1>7 DEF AttestErr
<1>8. ASSUME NEW k \in Callers, FinishCall(k) PROVE R'
  BY <1>8 DEF FinishCall
<1>9. ASSUME NEW k \in Callers, Arrive(k) PROVE R'
  BY <1>9 DEF Arrive
<1>10. CASE Tick
  BY <1>10 DEF Tick
<1>11. CASE UNCHANGED vars
  BY <1>11 DEF vars
<1> QED
  BY <1>1, <1>2, <1>3, <1>4, <1>5, <1>6, <1>7, <1>8, <1>9, <1>10, <1>11 DEF Next, CallerStep

(* Every step preserves the single flight of a first attestation.  The step   *)
(* that could break it, ShouldAttest, finds the attempt under way recorded    *)
(* less than RetryInterval ago.                                               *)
LEMMA NextSingleFlight ==
    TypeOK /\ SnapshotOK /\ FlightOK /\ OneFlight /\ [Next]_vars => FlightOK' /\ OneFlight'
<1> DEFINE F == FlightOK /\ OneFlight
<1> SUFFICES ASSUME TypeOK, SnapshotOK, F, [Next]_vars PROVE F'
  OBVIOUS
<1> USE DEF TypeOK, FlightOK, OneFlight
<1>1. ASSUME NEW t \in Tools, Declare(t) PROVE F'
  BY <1>1 DEF Declare
<1>2. ASSUME NEW k \in Callers, NEW t \in Tools, NEW s \in Sessions, Call(k, t, s) PROVE F'
  BY <1>2 DEF Call
<1>3. ASSUME NEW k \in Callers, Register(k) PROVE F'
  BY <1>3 DEF Register
<1>4. ASSUME NEW k \in Callers, TakeAttestation(k) PROVE F'
  BY <1>4 DEF TakeAttestation
<1>5. ASSUME NEW k \in Callers, ShouldAttest(k) PROVE F'
  <2>1. CASE UNCHANGED <<age, left, arrived>> /\ pc' = [pc EXCEPT ![k] = "admitting"]
    BY <1>5, <2>1 DEF ShouldAttest
  <2>2. CASE ~Throttled(session[k]) /\ StartAttest(k)
    <3>1. ASSUME NEW m \in Callers, pc[m] = "attesting", session[m] = session[k]
          PROVE  attested[session[k]] # {}
      <4> SUFFICES ASSUME attested[session[k]] = {} PROVE FALSE
        OBVIOUS
      <4>1. age[session[k]] = AttestTimeout - left[m] /\ left[m] \in 0..AttestTimeout
        BY <3>1
      <4>2. age[session[k]] # Never /\ age[session[k]] < RetryInterval
        <5> HIDE DEF TypeOK, FlightOK, OneFlight
        <5> QED
          BY <4>1, TimesAssumption DEF Never
      <4> QED
        BY <2>2, <4>2 DEF Throttled
    <3>2. /\ hooked' = hooked /\ attested' = attested /\ session' = session
          /\ age' = [age EXCEPT ![session[k]] = 0]
          /\ left' = [left EXCEPT ![k] = AttestTimeout]
          /\ pc' = [pc EXCEPT ![k] = "attesting"]
      BY <1>5, <2>2 DEF ShouldAttest, StartAttest
    <3>3. ASSUME NEW m \in Callers, pc'[m] = "attesting", attested'[session'[m]] = {}
          PROVE  age'[session'[m]] = AttestTimeout - left'[m]
      <4>1. session[k] \in Sessions /\ session[m] \in Sessions /\ session'[m] = session[m]
        BY <3>2
      <4>2. CASE m = k
        <5>1. age'[session[m]] = 0 /\ left'[m] = AttestTimeout
          BY <3>2, <4>1, <4>2
        <5> QED
          BY <4>1, <5>1, TimesAssumption
      <4>3. CASE m # k
        <5>1. pc[m] = "attesting" /\ attested[session[m]] = {} /\ left'[m] = left[m]
          BY <3>2, <3>3, <4>1, <4>3
        <5>2. session[m] # session[k]
          BY <3>1, <5>1
        <5>3. age'[session[m]] = age[session[m]]
          BY <3>2, <4>1, <5>2
        <5> QED
          BY <4>1, <5>1, <5>3
      <4> QED
        BY <4>2, <4>3
    <3>4. OneFlight'
      BY <3>1, <3>2
    <3> QED
      BY <3>3, <3>4
  <2> QED
    BY <1>5, <2>1, <2>2 DEF ShouldAttest, Skip
<1>6. ASSUME NEW k \in Callers, AttestOK(k) PROVE F'
  <2>1. att[k] # {}
    BY <1>6 DEF AttestOK, SnapshotOK
  <2> QED
    BY <1>6, <2>1 DEF AttestOK
<1>7. ASSUME NEW k \in Callers, AttestErr(k) PROVE F'
  BY <1>7 DEF AttestErr
<1>8. ASSUME NEW k \in Callers, FinishCall(k) PROVE F'
  BY <1>8 DEF FinishCall
<1>9. ASSUME NEW k \in Callers, Arrive(k) PROVE F'
  BY <1>9 DEF Arrive
<1>10. CASE Tick
  <2>1. OneFlight'
    BY <1>10 DEF Tick
  <2>2. ASSUME NEW k \in Callers, pc'[k] = "attesting", attested'[session'[k]] = {}
        PROVE age'[session'[k]] = AttestTimeout - left'[k]
    <3>1. /\ pc[k] = "attesting" /\ attested[session[k]] = {}
          /\ session'[k] = session[k] /\ session[k] \in Sessions
          /\ left[k] \in 1..AttestTimeout /\ left'[k] = left[k] - 1
      BY <1>10, <2>2 DEF Tick
    <3>2. age[session[k]] = AttestTimeout - left[k]
      BY <3>1
    <3>3. age'[session[k]] = age[session[k]] + 1
      BY <1>10, <3>1, <3>2, TimesAssumption DEF Tick, Never
    <3> QED
      BY <3>1, <3>2, <3>3, TimesAssumption
  <2> QED
    BY <2>1, <2>2
<1>11. CASE UNCHANGED vars
  BY <1>11 DEF vars
<1> QED
  BY <1>1, <1>2, <1>3, <1>4, <1>5, <1>6, <1>7, <1>8, <1>9, <1>10, <1>11 DEF Next, CallerStep

(* The inductive invariant holds throughout. *)
THEOREM Inductive == Spec => []IInv
<1>1. IInv /\ [Next]_vars => IInv'
  BY NextTypeOK, NextReportsOK, NextSingleFlight DEF IInv
<1> QED
  BY InitIInv, <1>1, PTL DEF Spec

(* Type correctness of the inventory and of every caller. *)
THEOREM TypeCorrect == Spec => []TypeOK
  BY Inductive, PTL DEF IInv

(* A hash held as confirmed was sent to the edge and names hooked tools only. *)
THEOREM ConfirmedReported == Spec => []ConfirmedWasReported
  BY Inductive, PTL DEF IInv

(* Unless attesting failed or was throttled, the edge knows of a tool before  *)
(* it is asked to admit it.                                                   *)
THEOREM ReportedBeforeAdmit == Spec => []ToolReportedBeforeAdmit
<1>1. IInv => ToolReportedBeforeAdmit
  BY DEF IInv, SnapshotOK, ReportOK, ToolReportedBeforeAdmit
<1> QED
  BY Inductive, <1>1, PTL

(* A session never attested has at most one attestation under way, for any    *)
(* number of concurrent callers.                                              *)
THEOREM FirstAttestSingleFlight == Spec => []SingleFlight
<1>1. IInv => SingleFlight
  BY DEF IInv, TypeOK, OneFlight, SingleFlight, InFlight
<1> QED
  BY Inductive, <1>1, PTL
=============================================================================
