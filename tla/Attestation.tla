---------------------------- MODULE Attestation ----------------------------
(***************************************************************************)
(* The governor's tool inventory and its attestation (govern/governor.go:   *)
(* Declare, register, Attestation, shouldAttest, ensureAttested), driven by *)
(* goroutines that make governed calls one after the other, on several      *)
(* sessions, with one Governor between them.                                *)
(*                                                                          *)
(* The mutex is taken and released three times on the way to an             *)
(* attestation: by register, by HookedTools and by shouldAttest, and a      *)
(* fourth time to record the success; each critical section is one step.    *)
(* The config hash is represented by the set of hooked tools, the only      *)
(* part of the hashed document that changes after construction.             *)
(***************************************************************************)
EXTENDS Integers, FiniteSets

CONSTANTS
    Callers,        \* goroutines making governed calls
    Tools,          \* tool names (not the empty string)
    Sessions,       \* session ids
    AttestTimeout,  \* deadline of one attestation, in ticks
    RetryInterval   \* attestRetryInterval, in ticks

(* 5 s and 30 s in the code. *)
ASSUME TimesAssumption ==
    /\ AttestTimeout \in Nat \ {0} /\ RetryInterval \in Nat
    /\ AttestTimeout < RetryInterval

VARIABLES
    hooked,     \* g.hooked
    attested,   \* attested[s]: the hash confirmed for s, {} when absent
    age,        \* age[s]: ticks since attestAttempted[s], Never when absent
    pc,         \* pc[k]: where caller k is in Governor.Admit
    tool, session,  \* what caller k was asked to run, and for whom
    att,        \* att[k]: the Attestation() caller k took
    left,       \* left[k]: ticks left to caller k's attestation
    arrived,    \* arrived[k]: the edge has received caller k's attestation
    why,        \* why[k]: how ensureAttested ended for caller k
    reports,    \* history: every set of tools the edge was told of
    ended       \* history, ended[s]: how the last attestation for s ended, and its hash

vars == <<hooked, attested, age, pc, tool, session, att, left, arrived, why, reports, ended>>

Never == -1

(* Wrap declares the name when a tool is wrapped, at any time; an application *)
(* may do so ahead of time.  dedupe drops the empty name and repeats.         *)
Declare(t) ==
    /\ hooked' = hooked \cup {t}
    /\ UNCHANGED <<attested, age, pc, tool, session, att, left, arrived, why, reports, ended>>

Init ==
    /\ hooked = {} /\ reports = {}
    /\ ended = [s \in Sessions |-> [how |-> "none", hash |-> {}]]
    /\ attested = [s \in Sessions |-> {}]
    /\ age = [s \in Sessions |-> Never]
    /\ pc = [k \in Callers |-> "idle"]
    /\ tool \in [Callers -> Tools]
    /\ session \in [Callers -> Sessions]
    /\ att = [k \in Callers |-> {}]
    /\ left = [k \in Callers |-> 0]
    /\ arrived = [k \in Callers |-> FALSE]
    /\ why = [k \in Callers |-> "none"]

(* A governed call starts: sessionFor picks its session. *)
Call(k, t, s) ==
    /\ pc[k] = "idle"
    /\ pc' = [pc EXCEPT ![k] = "register"]
    /\ tool' = [tool EXCEPT ![k] = t]
    /\ session' = [session EXCEPT ![k] = s]
    /\ UNCHANGED <<hooked, attested, age, att, left, arrived, why, reports, ended>>

(* Mutant: the name is registered for the next attestation only. *)
RegisterLate(k) ==
    /\ pc[k] = "register"
    /\ att' = [att EXCEPT ![k] = hooked]
    /\ hooked' = hooked \cup {tool[k]}
    /\ pc' = [pc EXCEPT ![k] = "check"]
    /\ UNCHANGED <<attested, age, tool, session, left, arrived, why, reports, ended>>

Register(k) ==
    /\ pc[k] = "register"
    /\ hooked' = hooked \cup {tool[k]}
    /\ pc' = [pc EXCEPT ![k] = "snapshot"]
    /\ UNCHANGED <<attested, age, tool, session, att, left, arrived, why, reports, ended>>

(* Attestation(): HookedTools under the lock, then the hash, outside it. *)
TakeAttestation(k) ==
    /\ pc[k] = "snapshot"
    /\ att' = [att EXCEPT ![k] = hooked]
    /\ pc' = [pc EXCEPT ![k] = "check"]
    /\ UNCHANGED <<hooked, attested, age, tool, session, left, arrived, why, reports, ended>>

(* Mutant: a session whose attestation failed once is not attested again. *)
ThrottledForGood(s) == age[s] # Never /\ attested[s] = {}

(* shouldAttest's throttle: an attempt was made, none has succeeded yet, and  *)
(* the last one is recent.                                                    *)
Throttled(s) == age[s] # Never /\ attested[s] = {} /\ age[s] < RetryInterval

(* ensureAttested does not send: the hash is confirmed, or too early. *)
Skip(k, reason) ==
    /\ pc' = [pc EXCEPT ![k] = "admitting"]
    /\ why' = [why EXCEPT ![k] = reason]
    /\ UNCHANGED <<age, left, arrived>>

(* Mutant: attestAttempted is written when the attempt has failed. *)
StartAttestUnmarked(k) ==
    /\ pc' = [pc EXCEPT ![k] = "attesting"]
    /\ left' = [left EXCEPT ![k] = AttestTimeout]
    /\ arrived' = [arrived EXCEPT ![k] = FALSE]
    /\ UNCHANGED <<age, why>>

(* Mutant: the deadline of the attempt is the interval between attempts. *)
StartAttestSlow(k) ==
    /\ pc' = [pc EXCEPT ![k] = "attesting"]
    /\ age' = [age EXCEPT ![session[k]] = 0]
    /\ left' = [left EXCEPT ![k] = RetryInterval]
    /\ arrived' = [arrived EXCEPT ![k] = FALSE]
    /\ UNCHANGED why

(* attestAttempted[session] = now; then client.Attest is called. *)
StartAttest(k) ==
    /\ pc' = [pc EXCEPT ![k] = "attesting"]
    /\ age' = [age EXCEPT ![session[k]] = 0]
    /\ left' = [left EXCEPT ![k] = AttestTimeout]
    /\ arrived' = [arrived EXCEPT ![k] = FALSE]
    /\ UNCHANGED why

ShouldAttest(k) ==
    /\ pc[k] = "check"
    /\ \/ attested[session[k]] = att[k] /\ Skip(k, "current")
       \/ attested[session[k]] # att[k] /\ Throttled(session[k]) /\ Skip(k, "throttled")
       \/ attested[session[k]] # att[k] /\ ~Throttled(session[k]) /\ StartAttest(k)
    /\ UNCHANGED <<hooked, attested, tool, session, att, reports, ended>>

(* The edge receives POST /v1/attest (external). *)
Arrive(k) ==
    /\ pc[k] = "attesting" /\ ~arrived[k]
    /\ arrived' = [arrived EXCEPT ![k] = TRUE]
    /\ reports' = reports \cup {att[k]}
    /\ UNCHANGED <<hooked, attested, age, pc, tool, session, att, left, why, ended>>

(* Mutant: what is recorded is the configuration as it is by now. *)
AttestOKRecordsCurrent(k) ==
    /\ pc[k] = "attesting" /\ arrived[k]
    /\ attested' = [attested EXCEPT ![session[k]] = hooked]
    /\ pc' = [pc EXCEPT ![k] = "admitting"]
    /\ why' = [why EXCEPT ![k] = "confirmed"]
    /\ ended' = [ended EXCEPT ![session[k]] = [how |-> "ok", hash |-> att[k]]]
    /\ UNCHANGED <<hooked, age, tool, session, att, left, arrived, reports>>

(* client.Attest succeeds: the edge received the report and said so; the     *)
(* hash that was sent is recorded.                                           *)
AttestOK(k) ==
    /\ pc[k] = "attesting" /\ arrived[k]
    /\ attested' = [attested EXCEPT ![session[k]] = att[k]]
    /\ pc' = [pc EXCEPT ![k] = "admitting"]
    /\ why' = [why EXCEPT ![k] = "confirmed"]
    /\ ended' = [ended EXCEPT ![session[k]] = [how |-> "ok", hash |-> att[k]]]
    /\ UNCHANGED <<hooked, age, tool, session, att, left, arrived, reports>>

(* client.Attest fails, at the latest at its deadline: a warning, nothing    *)
(* recorded.                                                                 *)
AttestErr(k) ==
    /\ pc[k] = "attesting"
    /\ pc' = [pc EXCEPT ![k] = "admitting"]
    /\ why' = [why EXCEPT ![k] = "failed"]
    /\ ended' = [ended EXCEPT ![session[k]] = [how |-> "failed", hash |-> att[k]]]
    /\ UNCHANGED <<hooked, attested, age, tool, session, att, left, arrived, reports>>

(* Client.Decide and, on an allow, the tool: see AdmissionClient and         *)
(* GovernedCall.  The call's own variables die with it.                      *)
FinishCall(k) ==
    /\ pc[k] = "admitting"
    /\ pc' = [pc EXCEPT ![k] = "idle"]
    /\ att' = [att EXCEPT ![k] = {}]
    /\ left' = [left EXCEPT ![k] = 0]
    /\ arrived' = [arrived EXCEPT ![k] = FALSE]
    /\ why' = [why EXCEPT ![k] = "none"]
    /\ UNCHANGED <<hooked, attested, age, tool, session, reports, ended>>

(* A tick passes; an attestation never outlives its deadline.  Ages beyond   *)
(* RetryInterval are all alike.                                              *)
Tick ==
    /\ \A k \in Callers : pc[k] = "attesting" => left[k] > 0
    /\ left' = [k \in Callers |-> IF pc[k] = "attesting" THEN left[k] - 1 ELSE left[k]]
    /\ age' = [s \in Sessions |->
                 IF age[s] = Never \/ age[s] = RetryInterval THEN age[s] ELSE age[s] + 1]
    /\ UNCHANGED <<hooked, attested, pc, tool, session, att, arrived, why, reports, ended>>

CallerStep(k) ==
    \/ Register(k) \/ TakeAttestation(k) \/ ShouldAttest(k)
    \/ AttestOK(k) \/ AttestErr(k) \/ FinishCall(k)

Next ==
    \/ \E t \in Tools : Declare(t)
    \/ \E k \in Callers : \/ \E t \in Tools, s \in Sessions : Call(k, t, s)
                          \/ CallerStep(k) \/ Arrive(k)
    \/ Tick

Spec == Init /\ [][Next]_vars

(* Time passes, goroutines run, and the application goes on making calls;    *)
(* the edge owes nothing, so an attestation may fail each time.              *)
Fairness ==
    /\ WF_vars(Tick)
    /\ \A k \in Callers :
         /\ WF_vars(\E t \in Tools, s \in Sessions : Call(k, t, s))
         /\ WF_vars(CallerStep(k))

FairSpec == Spec /\ Fairness

-----------------------------------------------------------------------------
InFlight(s) == {k \in Callers : pc[k] = "attesting" /\ session[k] = s}

TypeOK ==
    /\ hooked \in SUBSET Tools
    /\ attested \in [Sessions -> SUBSET Tools]
    /\ age \in [Sessions -> {Never} \cup 0..RetryInterval]
    /\ pc \in [Callers -> {"idle", "register", "snapshot", "check", "attesting", "admitting"}]
    /\ tool \in [Callers -> Tools] /\ session \in [Callers -> Sessions]
    /\ att \in [Callers -> SUBSET Tools]
    /\ left \in [Callers -> 0..AttestTimeout]
    /\ arrived \in [Callers -> BOOLEAN]
    /\ why \in [Callers -> {"none", "current", "throttled", "confirmed", "failed"}]
    /\ reports \in SUBSET SUBSET Tools
    /\ ended \in [Sessions -> [how : {"none", "ok", "failed"}, hash : SUBSET Tools]]

(* A hash the governor holds as confirmed is one the edge was really sent,    *)
(* and it names nothing that is not hooked (governor.go:148-149, 321-323;     *)
(* SECURITY.md:32): a tool registered while an attestation is under way is    *)
(* not taken as reported.                                                     *)
ConfirmedWasReported ==
    \A s \in Sessions : attested[s] # {} => attested[s] \in reports /\ attested[s] \subseteq hooked

(* Unless attesting failed or is being throttled, the edge has been told of a *)
(* tool before it is asked to admit it (governor.go:217-218: register, then   *)
(* ensureAttested, then Decide), even if another caller's older report is     *)
(* confirmed in between.                                                      *)
ToolReportedBeforeAdmit ==
    \A k \in Callers : pc[k] = "admitting" /\ why[k] \in {"current", "confirmed"} =>
        \E r \in reports : tool[k] \in r

(* A session that was never attested has at most one attestation under way,   *)
(* however many callers start it at once (shouldAttest marks the attempt in   *)
(* the critical section that decides on it, governor.go:287-303).             *)
SingleFlight ==
    \A s \in Sessions : attested[s] = {} =>
        \A k, m \in InFlight(s) : k = m

(* "IsRetriedLater" (govern_test.go:442): a session whose confirmed hash is   *)
(* out of date is attested again, or already being attested, later on.        *)
RetriedLater ==
    \A s \in Sessions :
        attested[s] # hooked ~> attested[s] = hooked \/ InFlight(s) # {}

-----------------------------------------------------------------------------
(* govern_test.go:249: "The attestation precedes the first admission of the   *)
(* session": the edge has at least been sent one, or one has failed.          *)
AttestPrecedesAdmit ==
    \A k \in Callers : pc[k] = "admitting" =>
        \/ ended[session[k]].how # "none"
        \/ \E m \in InFlight(session[k]) : arrived[m]

(* govern_test.go:454: "retries of a failed attestation are throttled": a     *)
(* caller never starts, inside the interval, the attestation that was the     *)
(* last one to fail for its session.                                          *)
FailedAttestThrottled ==
    [][\A k \in Callers :
         pc[k] = "check" /\ pc'[k] = "attesting"
           /\ ended[session[k]] = [how |-> "failed", hash |-> att[k]]
         => age[session[k]] >= RetryInterval]_vars
=============================================================================
