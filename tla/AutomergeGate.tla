--------------------------- MODULE AutomergeGate ---------------------------
(***************************************************************************)
(* The auto-merge gate (.github/scripts/automerge-gate.sh), run by          *)
(* auto-merge.yml each time a workflow of the pull request completes, one   *)
(* evaluation at a time.  An evaluation is a sequence of reads over the     *)
(* network, each of which may fail; between two of them commits are pushed, *)
(* reviews submitted, jobs run, the title edited, the base retargeted.      *)
(*                                                                          *)
(* pc is the next read: pr, branch, files, reviews, title, filter, runs,    *)
(* then merge_now's state, checks, list, jobs (run by run) and the merge     *)
(* itself.  The last of retry_read's three attempts is the read that fails.  *)
(***************************************************************************)
EXTENDS Integers

CONSTANTS
    Commits,    \* the heads the pull request may have
    Settings,   \* what is fixed for the pull request: a set of Setting
    JobSets,    \* the jobs a commit may have had, at one time or another
    Required,   \* the contexts branch protection requires of the default branch
    MaxChanges  \* bound on the number of changes to the pull request

Agents == {"code", "security", "dependency"}
Review == [state : {"APPROVED", "CHANGES_REQUESTED"}, commit : Commits]

(* No review, or a latest one that only comments or was dismissed. *)
NoReview == [state |-> "none", commit |-> "none"]

(* What a commit changes: the workflow surface, paths of the security        *)
(* filter, or neither; huge is more files than the API lists.                *)
FileLists == {"plain", "matching", "surface"}

(* filter: the paths of the base's security-review.yml, if it has one; all   *)
(* is also a filter the gate cannot evaluate.  runs: the commits for which a *)
(* Security Review Agent run exists.                                         *)
Setting == [dependabot : BOOLEAN, filter : {"absent", "paths", "all"},
            files : [Commits -> FileLists \cup {"huge"}], runs : SUBSET Commits, dry : BOOLEAN]

(* A workflow job.  result is its conclusion, or its status when it has none.*)
Job == [run : Nat, attempt : Nat, id : Nat, name : STRING,
        event : {"pull_request", "push"}, result : STRING]

ASSUME SettingsAssumption == Settings \subseteq Setting
ASSUME JobsAssumption == JobSets \subseteq SUBSET Job
ASSUME CommitsAssumption == "none" \notin Commits

VARIABLES
    set,        \* the Setting of this pull request
    open, head, base, title, armed,
    review,     \* review[k]: agent k's latest review
    jobs,       \* jobs[h]: the jobs of every attempt of every run at h
    pending,    \* a workflow has completed and the gate is to run for it
    changes,    \* number of changes so far
    pc,
    sha,        \* HEAD_SHA
    baseRef,    \* BASE_REF
    seen,       \* REVIEWS
    files,      \* CHANGED
    fetched,    \* BASE_WF was fetched
    required,   \* SECURITY_REQUIRED
    attempt,    \* ATTEMPT
    unread,     \* the runs read_head_jobs has listed and not read yet
    read,       \* the jobs it has read so far
    landed,     \* history: the jobs at HEAD_SHA when this attempt listed the runs
    vouched,    \* history: the runs and contexts that have passed since then
    moved,      \* history: head or base changed since the evaluation began
    quiet       \* history: nothing changed and no read failed since then

pullVars == <<set, open, head, base, title, armed, review, jobs>>
readVars == <<sha, baseRef, seen, files, fetched, required>>
jobVars == <<unread, read>>
seenVars == <<landed, vouched>>
mergeVars == <<attempt, jobVars, seenVars>>
vars == <<pullVars, pending, changes, pc, readVars, mergeVars, moved, quiet>>

-----------------------------------------------------------------------------
(* JOB_RULE: of the jobs of a name, the latest by run, attempt and id.       *)
later(a, b) ==
    \/ a.run > b.run
    \/ a.run = b.run /\ a.attempt > b.attempt
    \/ a.run = b.run /\ a.attempt = b.attempt /\ a.id >= b.id

latest(J, c) == {j \in J : j.name = c /\ \A i \in J : i.name = c => later(j, i)}

isGreen(j) == j.result \in {"success", "skipped", "neutral"}

verdictOK(J, c) == latest(J, c) # {} /\ \A j \in latest(J, c) : isGreen(j)

green(J) == \A c \in Required : verdictOK(J, c)

(* Mutant: the jobs of every event vouch. *)
headJobsAnyEvent(J) == J

(* Only pull_request runs are listed. *)
headJobs(J) == {j \in J : j.event = "pull_request"}

(* GitHub's own reading of the checks the default branch requires (external): *)
(* a run has passed a check when no later attempt supersedes the job that     *)
(* did; and a commit, when no newer run has that check.                       *)
of(J, c) == {j \in J : j.name = c /\ j.event = "pull_request"}
passed(J, r, c) ==
    \E j \in of(J, c) : j.run = r /\ isGreen(j) /\ \A i \in of(J, c) : i.run = r => i.attempt <= j.attempt
passing(J) ==
    \A c \in Required :
        \E j \in of(J, c) : passed(J, j.run, c) /\ \A i \in of(J, c) : i.run <= j.run

vouching(J) == {w \in {j.run : j \in J} \X Required : passed(J, w[1], w[2])}

(* How the jobs of a commit go on (external): attempts and runs are added, and *)
(* a job that is over stays as it ended.                                      *)
Over(j) == j.result \notin {"queued", "in_progress"}
follows(J, K) ==
    \A j \in J : \E k \in K : [k EXCEPT !.result = j.result] = j /\ (Over(j) => k = j)

(* Mutant: an approval counts whatever commit it is of. *)
approvedAnywhere(R, k, h) == R[k].state = "APPROVED"

approved(R, k, h) == R[k] = [state |-> "APPROVED", commit |-> h]

(* A standing request for changes on the head itself ends the evaluation. *)
requested(R, k, h) == R[k] = [state |-> "CHANGES_REQUESTED", commit |-> h]

(* What GitHub lists for the head: its files against its base.  Against      *)
(* another base they may be any; of a huge pull request some are left out.   *)
listing ==
    IF base = "default" /\ set.files[head] # "huge" THEN {set.files[head]} ELSE FileLists

-----------------------------------------------------------------------------
Init ==
    /\ set \in Settings
    /\ open = TRUE /\ head \in Commits /\ base \in {"default", "other"}
    /\ title \in {"patch", "bump"} /\ armed \in BOOLEAN
    /\ review \in [Agents -> Review \cup {NoReview}]
    /\ jobs \in [Commits -> JobSets]
    /\ pending = TRUE /\ changes = 0
    /\ pc = "idle" /\ sha = "none" /\ baseRef = "none"
    /\ seen = [k \in Agents |-> NoReview]
    /\ files = "plain" /\ fetched = FALSE /\ required = FALSE
    /\ attempt = 1 /\ unread = {} /\ read = {} /\ landed = {} /\ vouched = {}
    /\ moved = FALSE /\ quiet = TRUE

(* A job of the workflow starts: one at a time, and the completions that     *)
(* come meanwhile leave one more to run (auto-merge.yml).                    *)
Start ==
    /\ pc = "idle" /\ pending
    /\ pending' = FALSE /\ pc' = "pr"
    /\ moved' = FALSE /\ quiet' = TRUE
    /\ UNCHANGED <<pullVars, changes, readVars, mergeVars>>

(* The script exits, and what it has read is gone. *)
Exit ==
    /\ pc' = "idle"
    /\ sha' = "none" /\ baseRef' = "none" /\ seen' = [k \in Agents |-> NoReview]
    /\ files' = "plain" /\ fetched' = FALSE /\ required' = FALSE
    /\ attempt' = 1 /\ unread' = {} /\ read' = {} /\ landed' = {} /\ vouched' = {}

(* It does so with nothing but a line in the log... *)
Stop == Exit /\ UNCHANGED pullVars

(* ... or with disarm, whose own call may fail. *)
Disarm ==
    /\ Exit
    /\ armed' \in IF set.dry THEN {armed} ELSE {armed, FALSE}
    /\ UNCHANGED <<set, open, head, base, title, review, jobs>>

(* A read succeeds, or it fails or GitHub does not go along. *)
Undisturbed == UNCHANGED <<pending, changes, moved>>
Proceeds == Undisturbed /\ quiet' = quiet
Setback == Undisturbed /\ quiet' = FALSE

(* gh pr view: head, base, state, author and number of files of one moment.  *)
ReadPR ==
    /\ pc = "pr"
    /\ \/ Setback /\ Disarm
       \/ Proceeds /\ ~open /\ Stop
       \/ /\ Proceeds /\ open /\ pc' = "branch"
          /\ sha' = head /\ baseRef' = base
          /\ UNCHANGED <<pullVars, seen, files, fetched, required, mergeVars>>

(* Mutant: a listing that GitHub cuts short is taken as complete. *)
tooManyFilesNever == FALSE

(* N_FILES, of the answer of ReadPR. *)
tooManyFiles == set.files[sha] = "huge"

(* The default branch is read, a stacked pull request and one of too many    *)
(* files refused.                                                            *)
ReadDefaultBranch ==
    /\ pc = "branch"
    /\ \/ Setback /\ Disarm
       \/ Proceeds /\ (baseRef # "default" \/ tooManyFiles) /\ Disarm
       \/ /\ Proceeds /\ baseRef = "default" /\ ~tooManyFiles
          /\ pc' = "files" /\ UNCHANGED <<pullVars, readVars, mergeVars>>

(* The names of the files as they are now; an empty list is a failed read. *)
ReadFiles ==
    /\ pc = "files"
    /\ \/ Setback /\ Disarm
       \/ \E f \in listing :
            \/ Proceeds /\ f = "surface" /\ Disarm
            \/ /\ Proceeds /\ f # "surface" /\ pc' = "reviews" /\ files' = f
               /\ UNCHANGED <<pullVars, sha, baseRef, seen, fetched, required, mergeVars>>

ReadReviews ==
    /\ pc = "reviews"
    /\ \/ Setback /\ Disarm
       \/ Proceeds /\ (\E k \in Agents : requested(review, k, sha)) /\ Disarm
       \/ /\ Proceeds /\ \A k \in Agents : ~requested(review, k, sha)
          /\ pc' = (IF set.dependabot THEN "title" ELSE "filter") /\ seen' = review
          /\ UNCHANGED <<pullVars, sha, baseRef, files, fetched, required, mergeVars>>

(* merge_now starts its first attempt, or the next of its three. *)
MergeNow == pc' = "state" /\ UNCHANGED <<pullVars, readVars, mergeVars>>

(* Dependabot: a patch bump by its title, as it is now, and the dependency   *)
(* agent's approval of the head.                                             *)
ReadTitle ==
    /\ pc = "title"
    /\ \/ Setback /\ Disarm
       \/ Proceeds /\ ~(title = "patch" /\ approved(seen, "dependency", sha)) /\ Disarm
       \/ Proceeds /\ title = "patch" /\ approved(seen, "dependency", sha) /\ MergeNow

(* The path filter of the base evaluated over the files that were listed.    *)
pathsRequire == set.filter = "all" \/ (set.filter = "paths" /\ files = "matching")

(* Mutant: a filter that cannot be fetched requires nothing. *)
unfetchedRequiresNever == {FALSE}

(* The fetch failed: required unless a listing of the base's workflows comes *)
(* back without security-review.yml.                                         *)
unfetchedRequires == IF set.filter = "absent" THEN {FALSE, TRUE} ELSE {TRUE}

ReadFilter ==
    /\ pc = "filter" /\ pc' = "runs"
    /\ \/ /\ set.filter # "absent" /\ Proceeds
          /\ fetched' = TRUE /\ required' = pathsRequire
       \/ \E r \in unfetchedRequires :
            /\ Undisturbed /\ fetched' = FALSE /\ required' = r
            /\ quiet' = (quiet /\ set.filter = "absent" /\ ~r)
    /\ UNCHANGED <<pullVars, sha, baseRef, seen, files, mergeVars>>

(* The decision, once it is known whether the security agent is required:    *)
(* a run of it at the head, a failed look for one, or its standing request   *)
(* for changes, on whatever commit, require it too.                          *)
Decide(need) ==
    LET ok == approved(seen, "code", sha) /\ (need => approved(seen, "security", sha))
    IN \/ ~ok /\ Disarm
       \/ /\ ok /\ pc' = "state" /\ required' = need
          /\ UNCHANGED <<pullVars, sha, baseRef, seen, files, fetched, mergeVars>>

ReadRuns ==
    /\ pc = "runs"
    /\ LET standing == seen["security"].state = "CHANGES_REQUESTED"
       IN \/ Proceeds /\ Decide(required \/ standing \/ sha \in set.runs)
          \/ Setback /\ Decide(required \/ standing \/ fetched)

-----------------------------------------------------------------------------
(* Mutant: the attempts are not counted. *)
NextAttemptForever == pc' = "state" /\ UNCHANGED <<pullVars, readVars, mergeVars>>

(* What an attempt has read is not used by the next one. *)
Forget == unread' = {} /\ read' = {} /\ landed' = {} /\ vouched' = {}

(* Mutant: a fourth attempt is made. *)
NextAttemptFourth ==
    \/ attempt < 4 /\ pc' = "state" /\ attempt' = attempt + 1 /\ Forget /\ UNCHANGED <<pullVars, readVars>>
    \/ attempt = 4 /\ Stop

NextAttempt ==
    \/ attempt < 3 /\ pc' = "state" /\ attempt' = attempt + 1 /\ Forget /\ UNCHANGED <<pullVars, readVars>>
    \/ attempt = 3 /\ Stop

(* GitHub's merge state and head of one moment.  CLEAN is only said when the *)
(* checks the default branch requires have passed (external).  A state that   *)
(* is not CLEAN has the jobs read too, for the log.                           *)
MergeState ==
    /\ pc = "state"
    /\ \/ Setback /\ Stop
       \/ Proceeds /\ head # sha /\ Stop
       \/ Setback /\ head = sha /\ NextAttempt                 \* UNKNOWN
       \/ Setback /\ head = sha /\ Stop                        \* not CLEAN
       \/ /\ Proceeds /\ head = sha /\ open
          /\ base = "default" => passing(jobs[head])
          /\ pc' = "checks" /\ UNCHANGED <<pullVars, readVars, mergeVars>>

(* The branch's required contexts, refused when none is visible. *)
ReadChecks ==
    /\ pc = "checks"
    /\ \/ Setback /\ Stop
       \/ Proceeds /\ Required # {} /\ pc' = "list" /\ UNCHANGED <<pullVars, readVars, mergeVars>>

(* read_head_jobs lists the pull_request runs at HEAD_SHA... *)
ListRuns ==
    /\ pc = "list"
    /\ \/ Setback /\ Stop
       \/ /\ Proceeds /\ pc' = "jobs"
          /\ unread' = {j.run : j \in headJobs(jobs[sha])} /\ read' = {}
          /\ landed' = jobs[sha] /\ vouched' = vouching(jobs[sha])
          /\ UNCHANGED <<pullVars, readVars, attempt>>

(* ... and reads the jobs of one after another, as they are by then. *)
ReadJobs ==
    /\ pc = "jobs"
    /\ \E r \in unread :
         \/ Setback /\ Stop
         \/ /\ Proceeds /\ pc' = pc /\ unread' = unread \ {r}
            /\ read' = read \cup {j \in headJobs(jobs[sha]) : j.run = r}
            /\ UNCHANGED <<pullVars, readVars, attempt, seenVars>>

(* Mutant: runs that could not be read are passed over. *)
JudgePartial ==
    /\ pc = "jobs" /\ Proceeds
    /\ \/ green(read) /\ pc' = "merge" /\ UNCHANGED <<pullVars, readVars, mergeVars>>
       \/ unread = {} /\ ~green(read) /\ Stop

(* One verdict for each required context, of all that was read. *)
Judge ==
    /\ pc = "jobs" /\ unread = {} /\ Proceeds
    /\ \/ green(read) /\ pc' = "merge" /\ UNCHANGED <<pullVars, readVars, mergeVars>>
       \/ ~green(read) /\ Stop

(* --match-head-commit: GitHub refuses when the head is another. *)
mergesHead == open /\ head = sha

Merge ==
    /\ pc = "merge"
    /\ \/ Proceeds /\ set.dry /\ Stop
       \/ /\ Proceeds /\ ~set.dry /\ mergesHead
          /\ pc' = "merged" /\ open' = FALSE
          /\ UNCHANGED <<set, head, base, title, armed, review, jobs, readVars, mergeVars>>
       \/ Setback /\ ~set.dry /\ NextAttempt                   \* refused

GateStep ==
    \/ ReadPR \/ ReadDefaultBranch \/ ReadFiles \/ ReadReviews \/ ReadTitle
    \/ ReadFilter \/ ReadRuns \/ MergeState \/ ReadChecks \/ ListRuns \/ ReadJobs \/ Judge
    \/ Merge

-----------------------------------------------------------------------------
(* The pull request changes (external), as long as it is open. *)
Change ==
    /\ open /\ changes < MaxChanges
    /\ changes' = changes + 1 /\ quiet' = FALSE
    /\ UNCHANGED <<set, armed, pc, readVars, attempt, jobVars, landed>>

(* A push, possibly of a commit that was the head before. *)
Push ==
    /\ Change /\ head' \in Commits \ {head} /\ moved' = TRUE
    /\ UNCHANGED <<open, base, title, review, jobs, pending, vouched>>

Retarget ==
    /\ Change /\ base' \in {"default", "other"} \ {base} /\ moved' = TRUE
    /\ UNCHANGED <<open, head, title, review, jobs, pending, vouched>>

EditTitle ==
    /\ Change /\ title' \in {"patch", "bump"} \ {title}
    /\ UNCHANGED <<open, head, base, review, jobs, pending, moved, vouched>>

Close ==
    /\ Change /\ open' = FALSE
    /\ UNCHANGED <<head, base, title, review, jobs, pending, moved, vouched>>

(* An agent reviews the commit its workflow was started for, which completes *)
(* after.                                                                    *)
SubmitReview ==
    /\ Change /\ pending' = TRUE
    /\ \E k \in Agents, r \in Review \cup {NoReview} : review' = [review EXCEPT ![k] = r]
    /\ UNCHANGED <<open, head, base, title, jobs, moved, vouched>>

(* Runs start, jobs end, and are run again, at the head or at a commit that   *)
(* was.                                                                       *)
RunJobs ==
    /\ Change /\ pending' = TRUE
    /\ \E h \in Commits : \E J \in JobSets \ {jobs[h]} :
         /\ follows(jobs[h], J) /\ jobs' = [jobs EXCEPT ![h] = J]
         /\ vouched' = IF h = sha /\ pc \in {"jobs", "merge"} THEN vouched \cup vouching(J) ELSE vouched
    /\ UNCHANGED <<open, head, base, title, review, moved>>

Pull == Push \/ Retarget \/ EditTitle \/ Close \/ SubmitReview \/ RunJobs

Finished == (pc = "merged" \/ (pc = "idle" /\ ~pending)) /\ UNCHANGED vars

Next == Start \/ GateStep \/ Pull \/ Finished

(* Actions runs the workflow it has queued, and the script runs on. *)
Spec == Init /\ [][Next]_vars
FairSpec == Spec /\ WF_vars(Start) /\ WF_vars(GateStep)

-----------------------------------------------------------------------------
TypeOK ==
    /\ set \in Setting /\ open \in BOOLEAN /\ head \in Commits
    /\ base \in {"default", "other"} /\ title \in {"patch", "bump"} /\ armed \in BOOLEAN
    /\ review \in [Agents -> Review \cup {NoReview}]
    /\ jobs \in [Commits -> SUBSET Job]
    /\ pending \in BOOLEAN /\ changes \in Nat
    /\ pc \in {"idle", "pr", "branch", "files", "reviews", "title", "filter", "runs",
               "state", "checks", "list", "jobs", "merge", "merged"}
    /\ sha \in Commits \cup {"none"} /\ baseRef \in {"default", "other", "none"}
    /\ sha = "none" <=> pc \in {"idle", "pr"}
    /\ seen \in [Agents -> Review \cup {NoReview}]
    /\ files \in FileLists /\ fetched \in BOOLEAN /\ required \in BOOLEAN
    /\ attempt \in 1..3 /\ unread \in SUBSET Nat /\ read \in SUBSET Job
    /\ landed \in SUBSET Job /\ vouched \in SUBSET (Nat \X Required)
    /\ moved \in BOOLEAN /\ quiet \in BOOLEAN

Merged == pc = "merged"

(* "A merge happens only for the exact commit whose reviews it verified"      *)
(* (automerge-gate.sh:10-12, 15-18): what is merged, whatever was pushed or   *)
(* reviewed meanwhile, is a commit of which the evaluation read the approval  *)
(* of the agents this pull request needs, each as its latest review.          *)
MergedAsVerified ==
    Merged =>
        LET ok(k) == seen[k].state = "APPROVED" /\ seen[k].commit = head
        IN IF set.dependabot THEN ok("dependency")
           ELSE ok("code") /\ (required => ok("security"))

(* "A push or a check that landed while the reviews were being evaluated is   *)
(* never merged over" (automerge-gate.sh:163-166): what is merged is the      *)
(* commit that was evaluated, and each check it requires has been passed,     *)
(* since the attempt that merged it listed the runs, by a run at least as new *)
(* as any that had the check by then.  GitHub's word that the merge state is  *)
(* CLEAN is older than that and is not enough; and as the runs are read one   *)
(* after another while they go on, not even this says that all was green at   *)
(* one time.                                                                  *)
NothingMergedOver ==
    Merged =>
        /\ head = sha
        /\ \A c \in Required : \E w \in vouched : w[2] = c /\ \A j \in of(landed, c) : j.run <= w[1]

(* The workflow surface is not changed by what is merged                      *)
(* (automerge-gate.sh:20-25), unless the head or base it was checked for left *)
(* and came back during the evaluation: the list of files is not pinned.      *)
SurfaceUntouched == Merged /\ ~moved => set.files[head] \in {"plain", "matching"}

(* The security review is required by "facts a PR cannot influence"           *)
(* (automerge-gate.sh:67-71), whichever probe of them fails: what the base's  *)
(* filter calls for it to review, what has a security run at its head, and    *)
(* what it has requested changes on, is not merged without its approval.      *)
(* Where the base has no security workflow at all, a run at the head counts   *)
(* only if the look for it succeeds: see ProbesFailClosed.                    *)
SecurityNotWaived ==
    Merged /\ ~set.dependabot
      /\ \/ set.filter = "all"
         \/ set.filter = "paths" /\ set.files[head] = "matching" /\ ~moved
         \/ set.filter # "absent" /\ head \in set.runs
         \/ seen["security"].state = "CHANGES_REQUESTED"
      => seen["security"] = [state |-> "APPROVED", commit |-> head]

(* A pull request is ready, told from its own state and not from the reads.   *)
NeedsSecurity ==
    \/ set.filter = "all" \/ (set.filter = "paths" /\ set.files[head] = "matching")
    \/ head \in set.runs \/ review["security"].state = "CHANGES_REQUESTED"
Needed ==
    IF set.dependabot THEN {"dependency"}
    ELSE {"code"} \cup IF NeedsSecurity THEN {"security"} ELSE {}
Ready ==
    /\ open /\ base = "default" /\ ~set.dry
    /\ set.files[head] \in {"plain", "matching"}
    /\ \A k \in Needed : review[k] = [state |-> "APPROVED", commit |-> head]
    /\ \A k \in Agents : review[k] # [state |-> "CHANGES_REQUESTED", commit |-> head]
    /\ set.dependabot => title = "patch"
    /\ passing(jobs[head])

(* The gate does not sit on a ready pull request: an evaluation that ends     *)
(* without a merge has met a failed read, a change or a refusal by GitHub, or *)
(* the pull request was not ready (automerge-gate.sh:77-83, "merged by hand"  *)
(* is for the rest only).                                                     *)
ReadyIsMerged == [][pc \notin {"idle", "merged"} /\ pc' = "idle" /\ quiet' => ~Ready]_vars

(* "The next completion re-evaluates" (automerge-gate.sh:13, 168-169): each   *)
(* completion is followed by an evaluation that starts after it, however the  *)
(* reads of the one under way fail, retry or wait, unless that one merges.    *)
CompletionEvaluated == pending ~> ~pending \/ Merged

-----------------------------------------------------------------------------
(* automerge-gate.sh:43-44: "Stacked PRs (base other than the default branch) *)
(* are never merged by the gate", and 228: "The gate only ever merges into    *)
(* the default branch".                                                       *)
StackedNeverMerged == Merged => base = "default"

(* automerge-gate.sh:69-71: the security agent is required by "any Security   *)
(* Review Agent run for the head", and "Every probe fails CLOSED (required    *)
(* and unsatisfied ...)".                                                     *)
ProbesFailClosed ==
    Merged /\ ~set.dependabot /\ head \in set.runs
      => seen["security"] = [state |-> "APPROVED", commit |-> head]
=============================================================================
