# Verification of mitrity-go

TLA+ models of the MITRITY governance adapter for Go agents, the TLC runs that
check them on small instances, and TLAPS proofs of their main properties for
every value of their constants.

The adapter sits between an agent and its tools. Before a tool runs, package
`govern` asks the MITRITY edge on the same machine, through package
`admission`, whether it may; it runs the tool on an allow, with the edge's
rewriting of the input merged over the agent's, and refuses it otherwise. What
has to be right is what happens when something goes wrong between the two: the
edge restarts and changes its token, answers late, twice, wrongly or not at
all, holds the call for a human, or the agent gives up in the middle.

## Inventory

| Component | State | Operations | What makes it correct |
| --- | --- | --- | --- |
| Request engine (`admission/client.go`) | none between calls; per call a deadline, an attempt count, the token read, the answer | `Admit`, `Attest`, `Health` over `request`, `roundTrip`, `interpret` | never an allow the edge did not give; one retry, of a 401 only, with a fresh token; one deadline for both attempts; always returns |
| Two-phase decision (`client.go`: `decide`) | phase, hold budget | `Decide`, `DecideWithHoldBudget` | a verdict is the edge's word or an error that allows nothing; waiting only on a hold and within the budget; outage, denial and hold told apart |
| Protocol types (`types.go`, `errors.go`) | none | `wire`, `parseDecision`, `Verdict`, `Kind` | nothing that is not a decision is read as one |
| Configuration (`config.go`, `NewWithConfig`) | none; the client keeps its result unchanged | `FromEnviron`, options, `Normalized`, `ParseDuration`, `ParseLoopbackAddr` | the durations that were meant, within the ceilings; no connection off the machine; bad input falls back |
| Canonical JSON (`canonical.go`) | a buffer while it writes | `CanonicalJSON`, `ConfigHash` | equal configurations have equal bytes, names in the order of RFC 8785; different ones do not |
| Inventory and attestation (`govern/governor.go`) | hooked tools, confirmed hash and last attempt per session, under one mutex | `Declare`, `register`, `Attestation`, `shouldAttest`, `ensureAttested` | what is recorded as reported was reported; a tool is reported before it is admitted; a failed report is made again |
| Governed call (`governor.go`: `Admit`; `tool.go`, `caller.go`, `errors.go`) | six atomic counters | `Admit`, `Wrap`, `WrapCaller`, `Stats` | a tool runs only what was allowed; every call is counted |
| Fake edge (`internal/edgetest`) | token, token file, scripted answers | serve, rotate | stand-in for the edge, which is another program |
| Auto-merge gate (`.github/scripts/automerge-gate.sh`) | what it has read of a pull request so far | one evaluation per workflow completion, `disarm`, `merge_now` with three attempts | merges only the commit it verified, fails closed, does not sit on a ready pull request |

The components interact by plain calls, with one Governor and one Client shared
by any number of goroutines: a governed call registers its tool, attests when
its session needs it, calls `Decide`, counts the verdict and runs the tool. The
client and the edge interact by one connection per request and by the token
file, which the edge rewrites while clients read it. Nothing is persisted by
the adapter.

The gate is apart from all this: a shell script of the repository's own CI,
which shares no code with the adapter, and the one other place where something
is read first and acted on later.

The hard behaviour is all in the interleavings: the file and the token change
between read and use, contexts and deadlines end at any point of an exchange,
the edge judges requests whose caller has gone, goroutines meet in the
critical sections of the governor, which are four per call and not one, and a
pull request moves between any two of the gate's dozen reads. The rest is at
boundaries: durations at the ends of 64 bits, names whose order differs by
encoding. The list with its lines is `hazards` in PROJECT.json.

## Modules

| Module | Models |
| --- | --- |
| `Admission` | the vocabulary, and the pure functions `interpret`, `parseDecision`, `verdictFor`, ... : what an answer means |
| `AdmissionClient` | the request engine and the two-phase decision, against the edge |
| `AdmissionContract` | what `Decide` promises, without tokens, retries, deadlines or wire |
| `AdmissionRefinement` | how the state of `AdmissionClient` is one of `AdmissionContract` |
| `Configuration` | from the texts of the environment and the options to the clamped durations and the dial target, as functions |
| `ConfiguredClient` | `AdmissionClient` with the configuration `New` builds by `Configuration` |
| `Attestation` | the governor's inventory and attestation |
| `GovernedCall` | `Governor.Admit` after the attestation, the wrappers and the counters, on top of `AdmissionContract` |
| `Canonical` | `CanonicalJSON`, as a writer with a list of what it has still to write |
| `AutomergeGate` | an evaluation of the gate, read by read, and the pull request that changes meanwhile |
| `CanonicalReference` | what `Canonical` is to write and what a value means, by its own recursion, and the properties |
| `MCConfiguredClient`, `MCAdmissionRefinement`, `MCGovernedCall`, `MCCanonical`, `MCAutomergeGate` | instances for TLC |
| `AdmissionClientProofs`, `AdmissionRefinementProofs`, `ConfiguredClientProofs`, `AttestationProofs`, `GovernedCallProofs`, `CanonicalProofs`, `AutomergeGateProofs` | theorems and proofs |
| `Recursion` | why a recursive function is what its definition says, and induction: for `CanonicalProofs` |

`GovernedCall` calls the client through its contract; the run
`ClientRefinement` shows that `AdmissionClient` implements the contract, by the
mapping of `AdmissionRefinement`: the stage of a call is its `pc` without the
details, the word the latest decision in `judged`. The
two meet in the verdict, so the whole path from a token file to a tool's
arguments is covered in two steps small enough to check. `ConfiguredClient`
joins the other end: the path from an environment variable to the bound on a
decision.

### AdmissionClient and the code

One call `c` is one goroutine in one of the five operations. `pc[c]` follows
`request`: `enter` (validate, encode, start the deadline), `loop` (top of the
attempt loop), `dial` (token read), `wait` (request on the wire), `done`. Each
action is a stretch of code between two points where the world can change:

* `BeginRequest` is `wire()`, the `cfgErr` check, `encode` and
  `context.WithTimeout`, in that order of refusals. `refusal` states it.
* `ReadToken` is the `ctx.Err()` check and `readToken`. The file may be absent,
  empty (truncated and not yet written), the edge's, or one it never honours.
* `Send` and `Break` are the two ways a `roundTrip` goes: the request is on the
  wire, or the exchange breaks, at any point. A broken exchange does not tell
  whether the edge judged the request, and the edge may judge it later still.
* `Receive` is everything after the answer: the size check, the 401 and its one
  retry, `interpret`, the parser, and, through `Conclude`, the rest of `decide`:
  phase 2 or the verdict. An answer that arrives in the tick in which the
  context ends may still be received, as it may in `net/http`.
* `EndParent`, `Expire` and `Tick` are the caller's context, the deadline and
  the clock. A tick never passes a call whose context has ended, or that is
  between two requests: nothing blocks there.

A configuration is `[addrOK, tokenFile, timeout, hold]`, an argument
`[op, payload, budget]`. A payload is one of five fates of a body: refused by
`wire()`, not serializable, over the cap, just under it so that phase 2 no longer
fits, or comfortably under. An answer is
`[status, version, body]` with a body classified by what the parsers can tell
apart. A tick is half a second in the runs (`Second = 2`), so that truncation of
the hold budget to whole seconds shows.

`judged[c]` is a history variable: every answer but 401 that the edge gave call
`c`, delivered or not. It is what the properties compare a verdict with.

The edge is external. `EdgeAnswer` and the rotation follow the fake edge: a 401
for a token that is not the current one, with the lock held while the file is
rewritten; otherwise any answer. A stop loses the requests not answered and
leaves or removes the file, a start mints a new token.

### Configuration and the code

A text is what the parsers can tell apart: blank, a bare number of seconds, a Go
duration, malformed, and the number it stands for. A number of seconds is counted
in grains, parts of the unit of a duration, so that it may be finer than any
duration, and it may be larger than any. Seconds go through float64: `ParseFloat`
rounds the text to the nearest number of seconds there is (`FloatSeconds`),
`secondsToDuration` rounds the product to the nearest number of units there is
(`FloatNanos`), saturates, and truncates. A text without a float of its own may so
lose a unit: "1.001" is 1000999999 ns, in the model as in the code.
`FloatAssumption` says what is used of float64: zero, whole seconds, the ceilings
and the ends of the range are exact, and a rounding below the ceilings is off by
less than half a unit. `ParseDuration` falls back, `Normalized` clamps, as the
functions of those names. An address is one of
the forms the parsers distinguish; `net.ParseIP` is a constant function from hosts
to literals. `NewWithConfig` applies the options, then clamps and validates, in
that order. `ConfiguredClient` starts in the result (`New`), keeps the dial
target in `target`, and in `meant` the durations the texts may mean, computed on
the amounts themselves and not by the functions under check: one for a Go
duration, a whole number of seconds or a number out of range, and for a fraction
of a second those that two roundings do not exclude.

### Attestation and the code

`register`, `HookedTools` (in `Attestation()`), `shouldAttest` and the recording
of a success are four critical sections of one mutex, hence four actions,
`Register`, `TakeAttestation`, `ShouldAttest` and `AttestOK`, between which any
other goroutine may run. The config hash is represented by the set of hooked
tools, the only part of the hashed document that changes after construction.
`age[s]` is the time since the last attempt, counted up to `RetryInterval`,
beyond which all ages are alike. Wrapped tools are declared at any time
(`Declare`). `reports` and `ended` are history.

### GovernedCall and the code

Each atomic `Add` and each atomic `Load` is an action. `Ask` and `Decided` are
the call and the return of `Client.Decide`, joined to `Open` and `Close` of the
contract. An input is a function from argument names to values, and
`mergeInput` the function the two `maps.Copy` build.

### Canonical and the code

`canonical`, `writeObject` and `writeEscaped` recurse over a value and append to a
buffer. `todo` is that recursion as a list: `Write` takes a value off it, writes
a scalar or puts the parts in its place, `WriteItem` and `WriteMember` write the
next part, `Refuse` is an error return. `WriteMember` takes any name no other
precedes, which is a Go map's random order followed by `sort.Slice`, unstable.
Strings are code points, with negative numbers for the bytes that are not UTF-8,
and are written down to the escape. What encoding/json makes of a value that is
not generic (`roundTrip`) is part of the input.

`CanonicalReference` is about a set of values that has the parts of each of its
members, and a depth that is less for the parts, which is to say that values are
finite. On it are defined `Serializable`, `Meaning` and `Reference`, each as an
operator that takes the function itself (`ReferenceOf`) and the function.

### AutomergeGate and the code

`pc` is the next read of the script. Each action is one read and the decision
the script takes on it: to go on, to exit (`Stop`), or to exit through `disarm`,
whose own call may fail. Each read may fail, and each says what was true when it
was made: between any two the pull request may be pushed to, retargeted, retitled,
closed, reviewed, and its jobs run. The variables in capitals in the comments are
the shell's. `read_head_jobs` is `ListRuns` and one `ReadJobs` for each run it
listed: the jobs of each are as they are when they are read, so that what `Judge`
judges is a listing that may never have been, and a run that starts after the
listing is not in it. `MergeState` and `Merge` are what GitHub answers: CLEAN only with
the checks of the default branch passed, a merge only of the head named by
`--match-head-commit`. `Start` is `auto-merge.yml`: one evaluation at a time, and
one more pending however many completions came meanwhile.

`moved`, `quiet`, `landed` and `vouched` are history: whether head or base changed,
whether nothing happened at all, the jobs there were when this attempt listed the
runs, and the checks that runs have passed since.

## Runs

| Run | Module, instance | What it shows |
| --- | --- | --- |
| `ClientCall` | `MCConfiguredClient`: one call of any kind, clients from environments and options of every kind, all answer classes, up to three tokens | the ten safety properties of the configured client |
| `ClientRefinement` | `MCAdmissionRefinement`: one decision, with or without a cap | the client implements its contract, liveness included; every call returns |
| `Attest` | `Attestation`: 2 callers, 2 tools, 1 session | reported before admitted, single flight, nothing recorded that was not sent; an out-of-date attestation is made again |
| `GovernedCalls` | `MCGovernedCall`: 2 calls and one `Stats` | only the allowed runs, on the merged input; the counters add up |
| `Gate` | `MCAutomergeGate`: two commits, nine kinds of pull request, two changes at any moment, any read failing | what is merged is what was verified; nothing ready is left; every completion is evaluated |
| `ConfigHash` | `MCCanonical`: 957 documents | the bytes do not depend on the order of maps, and tell values apart |
| `ClientUnauthorized`, `AttestOrder`, `AttestThrottle`, `StatsSnapshot`, `GateStacked`, `GateProbe` | as above | the six findings |

The properties:

* `AllowIsTheEdges`: a call says allowed only if the edge's last word to it was
  an allow, in a 200 of the right version, whatever was lost or retried.
* `OutageIsNotPolicy`: a policy denial repeats a denial, a hold was really held,
  an error is neither an allow nor a denial, and one of phase 2 still says that the
  call was held.
* `JudgedOncePerPhase`: the edge judges a call once, and again only to wait on
  its own hold. A lost answer is never asked for again.
* `RejectionsAreRotations`: a call that is told its token was rejected has seen the
  edge mint one more for each attempt it made, since the retry reads the file anew;
  and no request leaves with anything but a token of the edge's file. It does not say
  that a restart never costs a call: an attempt that finds the file truncated or
  absent ends it as unreachable.
* `HoldWithinBudget`, `DeadlineBound`: the wait asked for and the time taken.
* `OnThisMachine`: nothing is read or sent for a client unless it dials a named
  socket or a loopback literal.
* `DurationsAsMeant`, `WithinCeilings`: an overflow or a sign does not turn a
  duration into its opposite, whole seconds and Go durations are kept exactly, a
  fraction of a second is taken no further than two roundings take it, and no setting
  makes a decision take longer than the ceilings and the margin.
* `ConfirmedWasReported`, `ToolReportedBeforeAdmit`, `SingleFlight`,
  `RetriedLater`: see the comments in `Attestation`.
* `RunsWhatWasAllowed`, `StatsAccount`: see `GovernedCall`.
* `Pinned`, `Unambiguous`: in whatever order a map is ranged over, the bytes are
  the reference's, or the value is refused as it should; no two values that mean
  different things have the same bytes. The reference takes a value as a whole and
  orders names by code point with the surrogate range moved, not by code units. It
  shares with the module only the text of a scalar, which `Unambiguous` and `TypeOK`
  are about: integers beyond 2^53 are written in full, as the code does, which is
  not what RFC 8785 makes of them.
* `MergedAsVerified`: no merge without the approvals of that very commit.
* `NothingMergedOver`: whatever was pushed or run again meanwhile, what is merged is
  the commit that was evaluated, and each check it requires was passed, after the
  attempt that merged it listed the runs, by a run at least as new as any that had
  the check by then. The merge state GitHub answered before is not enough for that:
  it is the reading of every listed run that shows it. It is also all there is: the
  runs are read one after another, and one that starts after the listing is not
  among them, so nothing says that all checks were passed at one time.
* `SurfaceUntouched`, `SecurityNotWaived`: no merge of a change to the workflows, or
  around the security agent by a read that failed: what the filter calls for, a
  security run at the head where the base has the workflow, or standing requested
  changes. What a filter of paths or the workflow surface is matched against is the
  commit's list of files, provided head and base did not move: the script does not
  pin that list. Security runs on a base without the workflow are `ProbesFailClosed`,
  which does not hold.
* `ReadyIsMerged`, `CompletionEvaluated`: the gate is not correct by refusing
  everything. An undisturbed evaluation of a ready pull request merges it, and a
  completion during an evaluation, however it fails, retries or waits, leads to
  another one.

### Bounds, and why they are enough

* One call in the client runs. Calls share the edge and its file, and no
  client state: `Client` is read-only after construction. What another call can
  do to this one, the edge does anyway by itself. The proofs cover any set of
  calls.
* `MaxToken = 3`: three tokens are what two rejections of one call take, so a
  fourth mints nothing that has not been seen. With two, `RejectionsAreRotations`
  would speak of first attempts only.
* `AttestTimeout = 3`, `HoldMargin = 1` ticks, `Second = 2`, hold budgets from 0 to
  two seconds, caps of none, 0, half, and one and a half: every case of
  `decide` occurs, the truncated one included.
* `MaxDuration = 7`, defaults of 1 and 2, ceilings of 2 and 4, `Grain = 8` grains in
  a unit, `MaxFloat = 150` grains: the texts are numbers on both sides of zero, of a
  unit, of the ceilings, of the range of a duration and of that of a float. The two
  grids have every whole second and miss other durations: three units, a second and a
  half, becomes two, as "1.001" becomes a nanosecond less. `Tolerance = 3` is nearly
  half a unit, in place of 6e-5 ns at 570 s: rounding does far more in the run than in
  the code. One setting is varied at a time: the functions treat each
  field without looking at the others. The options vary every field against it.
* `AttestTimeout = 1 < RetryInterval = 2`, as 5 s < 30 s in the code: an attempt
  ends before its throttle does.
* Two callers: every interleaving of two in the four critical sections. The
  properties relate at most two callers and one session; sessions share nothing but
  the inventory, which other callers and `Declare` extend anyway. The proofs cover
  any number of callers, tools and sessions.
* The gate: two commits are a push and a push back. Five job sets tell a
  re-run, a run that is newer, unfinished or failed, a run without the check and one
  of another event apart, and let a check be run again in one run while the next is
  being read.
  `MaxChanges = 2` changes per pull request: every property but the liveness ones
  relates a read to one change after it, or to one that is undone. The proofs cover
  any number of changes, commits and jobs. Reviews and jobs of the first head start
  in any state; a pull request on another base is in the runs by being retargeted,
  except for a dry one.
* `MaxExact = 12` in place of 2^53. The documents are every scalar, lists of
  one and two, objects of two and three names out of eleven (those that code points
  and code units order differently among them), nested ones, values that go through
  encoding/json, and configurations of the hashed form. No document has two names
  that read alike once their invalid bytes are replaced (`ReadableAssumption`), see
  the remarks. The proofs cover documents of any size and depth.
* In `GovernedCalls`, one kind of failure: nothing in `govern` looks at the kind.
  Its calls are symmetric, and it checks no liveness property.

### Fairness

`AdmissionClient`: the clock ticks, deadlines fire, and a call runs on when it
can by itself (`BeginRequest`, `ReadToken`) or when its context has ended (then
`Break` returns). Nothing is assumed of the edge or the network: no answer, no
connection, no refusal is ever owed. That is what the Go runtime gives, and it is
enough for `EveryCallReturns`.

`Attestation`: the clock, the goroutines, and an application that goes on making
calls, without which nothing is ever retried, since the governor has no
goroutine of its own. An attestation may fail every time.

`AutomergeGate`: a queued workflow is started and the script runs on; its reads
end, one way or the other. Nothing is assumed of the pull request, and no read
ever has to succeed.

## Findings

Six places where a comment or a test says something the code does not do. Each
is a run expected to violate the property that states the words; PROJECT.json
quotes them.

1. `KindUnauthorized` is documented as following a re-read and a retry. When the
   context ends before the first 401 is received there is neither: a caller that
   cancels is told of a rejected token, while the edge's file holds a new one that
   was never read.
2. "The attestation precedes the first admission of the session" holds for one
   caller. With two, the second is throttled by the first and may be first.
3. "Retries of a failed attestation are throttled" only for a session never
   attested. Once attested, a failing re-attestation is retried by every call.
4. `Stats` is not a snapshot: six loads, between which calls go on.
5. "Stacked PRs are never merged by the gate": the base is read once, at the start,
   and only the head is pinned. A pull request retargeted before the merge is merged
   into the other branch, if GitHub finds that one clean too.
6. "Every probe fails CLOSED" of the three that tell whether the security agent is
   required, the security runs of the head among them. A failed query for these is
   passed over when the base's security-review.yml could not be fetched, which it
   cannot when the base has none: a head with such a run is merged without the review
   that the same run requires when the query succeeds.

Remarks without a run, from the same reading:

* config.go:43-44 says nothing is blocked on an attestation, yet the governed call
  that makes one waits for it before it asks for its decision.
* config.go:37 gives 600 s as what a hook may take. The ceilings and the margin add
  up to 30 + 570 + 5, which is what `WithinCeilings` bounds a call by.
* Two names with different invalid bytes read alike, sort as equal, and are
  written in the order of the map: for these the bytes are not pinned
  (canonical.go:19-22). `Pinned` excludes them.
* A `json.Number` that is an integer literal is copied whatever its size, while
  the same number as a float is refused above 2^53.
* Of a Dependabot pull request, automerge-gate.sh:32 and 65 name different
  conditions. The model has those of the script's statements.

## Proofs

Each component's proofs are in a module of their own. All are of the form
`Spec => []P` by an inductive invariant `IInv`, with one lemma per conjunct of
`IInv` stating that every step preserves it, and one step per action under it.
They assume what the `ASSUME`s of the modules say of the constants: sets of
arguments, configurations and answers of the right shape, an edge that answers
401 only to tokens it does not hold, natural numbers for the times. Nothing is
assumed about how many calls, callers, tools or sessions there are.

* `AdmissionClientProofs` proves `TypeOK`, `AllowIsTheEdges`,
  `OutageIsNotPolicy`, `JudgedOncePerPhase`, `DeadlineBound` and
  `RejectionsAreRotations` (`RotationsTold`), and `HoldWithinBudget` (theorem `HoldBudgeted`). None but
  the first is inductive. The invariant adds:
  * `EdgeOK`: a readable token file holds the edge's token, so a read is current
    when it is made;
  * `Wire`: at most one request of a call is outstanding, it is of the current
    phase, and an answer under way is the last thing judged, which is why a
    verdict is about the right answer;
  * `Verdicts`: what was returned, the edge said last, and nothing is left of the
    call for it to judge, which is why a late judgment cannot make an allow
    stale;
  * `Clock`: time spent plus time left is within the deadline, and phase 2 starts
    within that of phase 1;
  * `Tokens`: each rejection is one token later than the one presented;
  * `Requests`: what is on the wire, or still to be judged, is what the
    configuration and the argument call for in its phase.
* `ConfiguredClientProofs` proves `OnThisMachine`, `DurationsAsMeant` and
  `WithinCeilings`. A step of `CSpec` is a step of `AdmissionClient`, and leaves the
  client as it was built, so its invariant is the one above with `Built`. What is
  left is about the functions: that the result of `NewWithConfig` satisfies the
  assumption `AdmissionClient` makes on its configurations, that a parsed, clamped
  number is one that was meant (`ParsedSeconds`, `TextMeant`), and that an
  address which validates dials a local target. For every width of a duration, every
  ceiling and every pair of grids that `FloatAssumption` holds of: rounding exists
  (`NearestExists`) and takes nothing past a number that is on the grid
  (`NearestFacts`), so the ceilings and whole seconds stay where they are.
* `CanonicalProofs` proves `TypeOK`, `Pinned` (`BytesPinned`) and `Unambiguous`
  (`HashTellsApart`), for documents of any size and depth. The last two assume
  `Readable`: no object has two names that read alike.
  * The recursive functions of the reference and the digits of `formatInt` are what
    their definitions say because these look at lower ranks only. `Recursion` proves
    that once (`Recursive`), with the operator that defines a function as a
    parameter of the module, to be instantiated for each. Induction is over sets of
    naturals, sequences or depths, from the well-foundedness of the naturals.
  * The invariant `WriterInv`: what is written, followed by what the tasks on
    `todo` are to write, is the reference of the document, as long as they are JSON;
    and the writer fails only on what is not. A step replaces its task by others that
    together write the same (`Replaces`, with a lemma for each kind of step).
    `Pinned` is the case in which nothing is left.
  * `lessUTF16` is a strict total order (`StrictOrder`), by which one name comes
    first among those left (`OneFirst`), which is why the order of the map does not
    show. It is the order the reference states of characters (`UnitOrder`): a pair of
    surrogates is where `Place` puts the character.
  * A text tells what was written, whatever follows it: escapes (`WrittenApart`), for
    no character is written as the beginning of another; figures (`IntegersApart`);
    lists, for no element begins as a bracket or a comma (`ListsApart`); and, by
    induction on the depth, every value (`JsonTold`).
* `AttestationProofs` proves `TypeOK`, `ConfirmedWasReported`,
  `ToolReportedBeforeAdmit` and `SingleFlight`. The invariant adds that a snapshot
  taken by a caller contains its own tool and only hooked ones, and that an
  attestation in flight on a never-attested session is younger than its throttle.
* `AdmissionRefinementProofs` proves the safety part of `ImplementsContract`
  (`KeepsContract`) for clients that only make decisions, which are what the
  contract speaks of: each action is a step of the contract or a stutter, from the
  invariant above, `Wire` and `Verdicts` in particular.
* `GovernedCallProofs` proves `TypeOK`, `RunsWhatWasAllowed` and `StatsAccount`
  (`CountersAccount`). The invariant adds that an allow is the edge's last word,
  which the contract closes, and that each counter is the number of calls that have
  passed the point where it is counted. That the calls begun so far are finitely
  many, without which there is no number, is part of it.
* `AutomergeGateProofs` proves `TypeOK`, `MergedAsVerified`, `NothingMergedOver`,
  `SurfaceUntouched`, `SecurityNotWaived` and `ReadyIsMerged`. The invariant says, for each point of
  the script, what has been verified on the way to it: the approvals of
  `sha` from `state` on, whether a security review is required once the filter was
  evaluated (`Closed`), and, as long as head and base did not move, that the base is the
  default one and that the list of files is the commit's (`Still`, `Listed`). For
  `NothingMergedOver` it says that jobs only ever go on (`Grown`), that what was read
  of a run has happened since the listing (`Gathered`), and that a check whose verdict
  is green is vouched for by the newest run listed that has it (`Judged`). For any
  commits, jobs and changes. `ReadyIsMerged` (`ReadyMerged`)
  needs besides that what was read is what is, in an evaluation nothing disturbed
  (`Fresh`), and a hypothesis on the jobs: an attempt of a run has one job of a name,
  as in the instance. With two, GitHub may find clean what `JOB_RULE` takes for
  failed (`PassingIsGreen` is where it is used).

Only model-checked: liveness (`EveryCallReturns`, `RetriedLater`,
`CompletionEvaluated`), which is out of the prover's reach, and with it the fairness
part of `ImplementsContract`. Every invariant the runs check is proved.

## Not modelled, and the plan

Abstracted, with what it costs:

* A listing of several pages is one read, and so are the three tries of
  `retry_read`: an item that moves from one page to another during a listing is not
  seen.
* The default branch's workflows do not change during an evaluation of the gate. Of
  `security-review.yml` a base has or lacks it: the script's look for runs
  when it could not fetch the file is modelled, a file removed in between is not.
* The answers of regular expressions, `ParseFloat`, `time.ParseDuration`,
  `net.ParseIP` and encoding/json are inputs. SHA-256 is injective.
* The text of reasons and log lines, ids, scores and the JSON documents beyond what
  a parser can refuse in them: nothing branches on them.
* Construction options of the governor, its session, cwd and tool_use_id look-ups:
  they fill fields of a request no property looks at. The session of a call is an
  input of `Attestation`.
* The empty tool name, which `register` keeps and `Declare` and `New` drop.
* The `errors.Is` relation of the kinds and `Kind.String`, constant tables.
* The other CI workflows, declarative configuration of a hosted service. The edge
  itself is another program, and its stand-in's scripting is test equipment.

Of the plan nothing is left that the tools can do: what is model-checked only is
liveness.
