------------------------ MODULE AutomergeGateProofs ------------------------
(***************************************************************************)
(* What the gate merges, for any commits, settings, jobs and number of      *)
(* changes to the pull request.  An evaluation carries what it has read     *)
(* from step to step; the invariant says what that still means when it is   *)
(* used.                                                                    *)
(***************************************************************************)
EXTENDS AutomergeGate, TLAPS

Approval(h) == [state |-> "APPROVED", commit |-> h]

Merging == {"state", "checks", "list", "jobs", "merge", "merged"}

(* The approvals were read, of the commit the evaluation is about. *)
Verified ==
    /\ pc = "title" => set.dependabot
    /\ pc \in {"filter", "runs"} => ~set.dependabot
    /\ pc \in Merging /\ set.dependabot => seen["dependency"] = Approval(sha)
    /\ pc \in Merging /\ ~set.dependabot =>
         seen["code"] = Approval(sha) /\ (required => seen["security"] = Approval(sha))

(* What was merged is that commit, and nothing changes afterwards. *)
Pinned == pc = "merged" => head = sha /\ ~open

(* Unless the pull request moved it is what it was at the first read. *)
Still ==
    pc \notin {"idle", "pr"} /\ ~moved =>
        /\ head = sha /\ base = baseRef
        /\ pc # "branch" => baseRef = "default" /\ set.files[sha] # "huge"

(* Unless it moved, the list of files is that of the commit. *)
Listed ==
    pc \notin {"idle", "pr", "branch", "files"} /\ ~moved =>
        files = set.files[sha] /\ files # "surface"

(* Once the filter was evaluated, what calls for a security review got it.  A *)
(* filter that is there was fetched, or its absence from a failed read         *)
(* required the review at once; so the look for a run may fail.                *)
Calls == set.filter = "all" \/ (set.filter = "paths" /\ files = "matching")
Noticed == (set.filter # "absent" /\ sha \in set.runs) \/ seen["security"].state = "CHANGES_REQUESTED"
Closed ==
    ~set.dependabot =>
        /\ pc \in {"runs"} \cup Merging /\ Calls => required
        /\ pc = "runs" /\ set.filter # "absent" => fetched \/ required
        /\ pc \in Merging /\ Noticed => required

(* While the runs are read one by one, the jobs at the listing have jobs of   *)
(* the same run and name after them, and what passes now was noted.           *)
Grown ==
    pc = "jobs" =>
        /\ \A c \in Required : \A i \in of(landed, c) : \E k \in of(jobs[sha], c) : k.run = i.run
        /\ vouching(jobs[sha]) \subseteq vouched

(* Each run of the listing is still unread or represented in what was read,   *)
(* and what passes by the jobs that were read was noted.                      *)
Gathered ==
    pc = "jobs" =>
        /\ \A j \in read : j.event = "pull_request" /\ j.run \notin unread
        /\ \A c \in Required : \A i \in of(landed, c) :
               i.run \in unread \/ \E k \in of(read, c) : k.run = i.run
        /\ \A c \in Required : \A r \in Nat : passed(read, r, c) => <<r, c>> \in vouched

(* Each context has a run that passed it and that none of the listing follows.*)
Covered(c) == \E w \in vouched : w[2] = c /\ \A i \in of(landed, c) : i.run <= w[1]
Judged == pc \in {"merge", "merged"} => \A c \in Required : Covered(c)

IInv ==
    /\ TypeOK /\ Verified /\ Pinned /\ Still /\ Listed /\ Closed
    /\ Grown /\ Gathered /\ Judged

-----------------------------------------------------------------------------
(* What passes is a run and a required context. *)
LEMMA VouchingType ==
    ASSUME NEW J \in SUBSET Job
    PROVE  vouching(J) \subseteq Nat \X Required
  <1>1. {j.run : j \in J} \subseteq Nat
    BY DEF Job
  <1> QED BY <1>1 DEF vouching

LEMMA ListingOK ==
    ASSUME TypeOK
    PROVE  listing \subseteq FileLists
  BY DEF TypeOK, Setting, listing, FileLists

(* The type invariant holds initially. *)
LEMMA InitType == Init => TypeOK
  <1> SUFFICES ASSUME Init PROVE TypeOK
    OBVIOUS
  <1>1. set \in Setting /\ jobs \in [Commits -> SUBSET Job]
    BY SettingsAssumption, JobsAssumption DEF Init
  <1>2. review \in [Agents -> Review \cup {NoReview}] /\ seen \in [Agents -> Review \cup {NoReview}]
    BY DEF Init
  <1>3. /\ open \in BOOLEAN /\ armed \in BOOLEAN /\ pending \in BOOLEAN
        /\ fetched \in BOOLEAN /\ required \in BOOLEAN
        /\ moved \in BOOLEAN /\ quiet \in BOOLEAN
    BY DEF Init
  <1>4. /\ head \in Commits /\ base \in {"default", "other"} /\ title \in {"patch", "bump"}
        /\ changes \in Nat /\ attempt \in 1..3 /\ unread \in SUBSET Nat
        /\ read \in SUBSET Job /\ landed \in SUBSET Job /\ vouched \in SUBSET (Nat \X Required)
        /\ pc = "idle" /\ sha = "none" /\ baseRef = "none" /\ files \in FileLists
    BY DEF Init, FileLists
  <1> QED BY <1>1, <1>2, <1>3, <1>4 DEF TypeOK

LEMMA ExitType ==
    ASSUME TypeOK, Exit
    PROVE  /\ pc' = "idle" /\ sha' = "none" /\ baseRef' = "none" /\ files' \in FileLists
           /\ seen' \in [Agents -> Review \cup {NoReview}]
           /\ fetched' \in BOOLEAN /\ required' \in BOOLEAN /\ attempt' \in 1..3
           /\ unread' \in SUBSET Nat /\ read' \in SUBSET Job
           /\ landed' \in SUBSET Job /\ vouched' \in SUBSET (Nat \X Required)
  <1>1. seen' \in [Agents -> Review \cup {NoReview}]
    BY DEF Exit
  <1>2. /\ fetched' \in BOOLEAN /\ required' \in BOOLEAN
    BY DEF Exit
  <1>3. /\ pc' = "idle" /\ sha' = "none" /\ baseRef' = "none" /\ files' \in FileLists
        /\ attempt' \in 1..3 /\ unread' = {} /\ read' = {} /\ landed' = {} /\ vouched' = {}
    BY DEF Exit, FileLists
  <1> QED BY <1>1, <1>2, <1>3

(* Ending an evaluation preserves the types. *)
LEMMA EndType ==
    ASSUME TypeOK, Stop \/ Disarm, Proceeds \/ Setback
    PROVE  TypeOK'
  <1> USE ExitType DEF TypeOK, Proceeds, Setback, Undisturbed, pullVars
  <1>1. CASE Stop
    BY <1>1 DEF Stop
  <1>2. CASE Disarm
    <2>1. armed' \in BOOLEAN
      BY <1>2 DEF Disarm
    <2> QED BY <1>2, <2>1 DEF Disarm
  <1> QED BY <1>1, <1>2

(* So does starting another attempt. *)
LEMMA AttemptType ==
    ASSUME TypeOK, NextAttempt, Setback, pc \notin {"idle", "pr"}
    PROVE  TypeOK'
  <1>1. CASE Stop
    BY <1>1, EndType
  <1>2. CASE attempt < 3 /\ attempt' = attempt + 1 /\ pc' = "state"
               /\ Forget /\ UNCHANGED <<pullVars, readVars>>
    <2>1. attempt' \in 1..3
      BY <1>2 DEF TypeOK
    <2>2. quiet' \in BOOLEAN
      BY DEF Setback
    <2>3. unread' = {} /\ read' = {} /\ landed' = {} /\ vouched' = {}
      BY <1>2 DEF Forget
    <2> QED BY <1>2, <2>1, <2>2, <2>3 DEF TypeOK, Setback, Undisturbed, pullVars, readVars
  <1> QED BY <1>1, <1>2 DEF NextAttempt

(* A change of the pull request touches nothing of the evaluation. *)
LEMMA ChangeType ==
    ASSUME TypeOK, Change
    PROVE  /\ quiet' \in BOOLEAN /\ changes' \in Nat /\ armed' \in BOOLEAN
           /\ UNCHANGED <<set, pc, readVars, attempt, jobVars, landed>>
  <1>1. quiet' \in BOOLEAN
    BY DEF Change
  <1>2. changes' \in Nat
    BY DEF TypeOK, Change
  <1> QED BY <1>1, <1>2 DEF TypeOK, Change

(* Every step preserves the types. *)
LEMMA TypeStep ==
    ASSUME TypeOK, [Next]_vars
    PROVE  TypeOK'
  <1> USE DEF Proceeds, Undisturbed, pullVars, readVars, jobVars, seenVars, mergeVars
  <1>1. CASE Start
    BY <1>1 DEF TypeOK, Start
  <1>2. CASE ReadPR
    <2>1. CASE (Setback /\ Disarm) \/ (Proceeds /\ Stop)
      BY <2>1, EndType
    <2>2. CASE /\ Proceeds /\ pc' = "branch" /\ sha' = head /\ baseRef' = base
               /\ UNCHANGED <<pullVars, seen, files, fetched, required, mergeVars>>
      BY <2>2, CommitsAssumption DEF TypeOK
    <2> QED BY <1>2, <2>1, <2>2 DEF ReadPR
  <1>3. CASE ReadDefaultBranch
    <2>1. CASE (Setback \/ Proceeds) /\ Disarm
      BY <2>1, EndType
    <2>2. CASE Proceeds /\ pc' = "files" /\ UNCHANGED <<pullVars, readVars, mergeVars>>
      BY <1>3, <2>2 DEF TypeOK, ReadDefaultBranch
    <2> QED BY <1>3, <2>1, <2>2 DEF ReadDefaultBranch
  <1>4. CASE ReadFiles
    <2>1. CASE (Setback \/ Proceeds) /\ Disarm
      BY <2>1, EndType
    <2>2. ASSUME NEW f \in listing, Proceeds, pc' = "reviews", files' = f,
                 UNCHANGED <<pullVars, sha, baseRef, seen, fetched, required, mergeVars>>
          PROVE  TypeOK'
      <3>1. files' \in FileLists
        BY <2>2, ListingOK
      <3> QED BY <1>4, <2>2, <3>1 DEF TypeOK, ReadFiles
    <2> QED BY <1>4, <2>1, <2>2 DEF ReadFiles
  <1>5. CASE ReadReviews
    <2>1. CASE (Setback \/ Proceeds) /\ Disarm
      BY <2>1, EndType
    <2>2. CASE /\ Proceeds /\ pc' \in {"title", "filter"} /\ seen' = review
               /\ UNCHANGED <<pullVars, sha, baseRef, files, fetched, required, mergeVars>>
      BY <1>5, <2>2 DEF TypeOK, ReadReviews
    <2> QED BY <1>5, <2>1, <2>2 DEF ReadReviews
  <1>6. CASE ReadTitle
    <2>1. CASE (Setback \/ Proceeds) /\ Disarm
      BY <2>1, EndType
    <2>2. CASE Proceeds /\ MergeNow
      BY <1>6, <2>2 DEF TypeOK, ReadTitle, MergeNow
    <2> QED BY <1>6, <2>1, <2>2 DEF ReadTitle
  <1>7. CASE ReadFilter
    <2>1. required' \in BOOLEAN
      BY <1>7 DEF ReadFilter, pathsRequire, unfetchedRequires
    <2>2. quiet' \in BOOLEAN
      BY <1>7 DEF TypeOK, ReadFilter
    <2>3. fetched' \in BOOLEAN
      BY <1>7 DEF ReadFilter
    <2>4. /\ pc = "filter" /\ pc' = "runs"
          /\ UNCHANGED <<pullVars, sha, baseRef, seen, files, mergeVars, pending, changes, moved>>
      BY <1>7 DEF ReadFilter
    <2> QED BY <2>1, <2>2, <2>3, <2>4 DEF TypeOK
  <1>8. CASE ReadRuns
    <2>1. ASSUME NEW n, n \in BOOLEAN, Proceeds \/ Setback, Decide(n)
          PROVE  TypeOK'
      <3>1. CASE Disarm
        BY <2>1, <3>1, EndType
      <3>2. CASE /\ pc' = "state" /\ required' = n
                 /\ UNCHANGED <<pullVars, sha, baseRef, seen, files, fetched, mergeVars>>
        <4>1. quiet' \in BOOLEAN /\ required' \in BOOLEAN
          BY <2>1, <3>2 DEF TypeOK, Setback
        <4>2. UNCHANGED <<pending, changes, moved>>
          BY <2>1 DEF Setback
        <4> QED BY <1>8, <3>2, <4>1, <4>2 DEF TypeOK, ReadRuns
      <3> QED BY <2>1, <3>1, <3>2 DEF Decide
    <2>2. (required \/ seen["security"].state = "CHANGES_REQUESTED" \/ sha \in set.runs) \in BOOLEAN
      OBVIOUS
    <2>3. (required \/ seen["security"].state = "CHANGES_REQUESTED" \/ fetched) \in BOOLEAN
      OBVIOUS
    <2> QED BY <1>8, <2>1, <2>2, <2>3 DEF ReadRuns
  <1>9. CASE MergeState
    <2>1. CASE (Setback \/ Proceeds) /\ Stop
      BY <2>1, EndType
    <2>2. CASE Setback /\ NextAttempt
      BY <1>9, <2>2, AttemptType DEF MergeState
    <2>3. CASE Proceeds /\ pc' = "checks" /\ UNCHANGED <<pullVars, readVars, mergeVars>>
      BY <1>9, <2>3 DEF TypeOK, MergeState
    <2> QED BY <1>9, <2>1, <2>2, <2>3 DEF MergeState
  <1>10. CASE ReadChecks
    <2>1. CASE Setback /\ Stop
      BY <2>1, EndType
    <2>2. CASE Proceeds /\ pc' = "list" /\ UNCHANGED <<pullVars, readVars, mergeVars>>
      BY <1>10, <2>2 DEF TypeOK, ReadChecks
    <2> QED BY <1>10, <2>1, <2>2 DEF ReadChecks
  <1>11. CASE ListRuns
    <2>1. CASE Setback /\ Stop
      BY <2>1, EndType
    <2>2. CASE /\ Proceeds /\ pc' = "jobs"
               /\ unread' = {j.run : j \in headJobs(jobs[sha])} /\ read' = {}
               /\ landed' = jobs[sha] /\ vouched' = vouching(jobs[sha])
               /\ UNCHANGED <<pullVars, readVars, attempt>>
      <3>1. sha \in Commits
        BY <1>11 DEF TypeOK, ListRuns
      <3>2. jobs[sha] \in SUBSET Job
        BY <3>1 DEF TypeOK
      <3>3. unread' \in SUBSET Nat
        BY <2>2, <3>2 DEF Job, headJobs
      <3>4. landed' \in SUBSET Job /\ vouched' \in SUBSET (Nat \X Required)
        BY <2>2, <3>2, VouchingType
      <3> QED BY <1>11, <2>2, <3>3, <3>4 DEF TypeOK, ListRuns
    <2> QED BY <1>11, <2>1, <2>2 DEF ListRuns
  <1>12. CASE ReadJobs
    <2>1. CASE Setback /\ Stop
      BY <2>1, EndType
    <2>2. ASSUME NEW r \in unread, Proceeds, pc' = pc, unread' = unread \ {r},
                 read' = read \cup {j \in headJobs(jobs[sha]) : j.run = r},
                 UNCHANGED <<pullVars, readVars, attempt, seenVars>>
          PROVE  TypeOK'
      <3>1. sha \in Commits
        BY <1>12 DEF TypeOK, ReadJobs
      <3>2. read' \in SUBSET Job
        BY <2>2, <3>1 DEF TypeOK, headJobs
      <3>3. unread' \in SUBSET Nat
        BY <2>2 DEF TypeOK
      <3> QED BY <2>2, <3>2, <3>3 DEF TypeOK
    <2> QED BY <1>12, <2>1, <2>2 DEF ReadJobs
  <1>13. CASE Judge
    <2>1. CASE Proceeds /\ Stop
      BY <2>1, EndType
    <2>2. CASE Proceeds /\ pc' = "merge" /\ UNCHANGED <<pullVars, readVars, mergeVars>>
      BY <1>13, <2>2 DEF TypeOK, Judge
    <2> QED BY <1>13, <2>1, <2>2 DEF Judge
  <1>14. CASE Merge
    <2>1. CASE Proceeds /\ Stop
      BY <2>1, EndType
    <2>2. CASE /\ Proceeds /\ pc' = "merged" /\ open' = FALSE
               /\ UNCHANGED <<set, head, base, title, armed, review, jobs, readVars, mergeVars>>
      BY <1>14, <2>2 DEF TypeOK, Merge
    <2>3. CASE Setback /\ NextAttempt
      BY <1>14, <2>3, AttemptType DEF Merge
    <2> QED BY <1>14, <2>1, <2>2, <2>3 DEF Merge
  <1>15. CASE Push \/ Retarget \/ EditTitle \/ Close
    <2>1. CASE Push
      <3>1. moved' \in BOOLEAN
        BY <2>1 DEF Push
      <3>2. /\ quiet' \in BOOLEAN /\ changes' \in Nat /\ armed' \in BOOLEAN
            /\ UNCHANGED <<set, pc, readVars, attempt, jobVars, landed>>
        BY <2>1, ChangeType DEF Push
      <3> QED BY <2>1, <3>1, <3>2 DEF TypeOK, Push
    <2>2. CASE Retarget
      <3>1. moved' \in BOOLEAN
        BY <2>2 DEF Retarget
      <3>2. /\ quiet' \in BOOLEAN /\ changes' \in Nat /\ armed' \in BOOLEAN
            /\ UNCHANGED <<set, pc, readVars, attempt, jobVars, landed>>
        BY <2>2, ChangeType DEF Retarget
      <3> QED BY <2>2, <3>1, <3>2 DEF TypeOK, Retarget
    <2>3. CASE EditTitle
      <3>1. /\ quiet' \in BOOLEAN /\ changes' \in Nat /\ armed' \in BOOLEAN
            /\ UNCHANGED <<set, pc, readVars, attempt, jobVars, landed>>
        BY <2>3, ChangeType DEF EditTitle
      <3> QED BY <2>3, <3>1 DEF TypeOK, EditTitle
    <2>4. CASE Close
      <3>1. open' \in BOOLEAN
        BY <2>4 DEF Close
      <3>2. /\ quiet' \in BOOLEAN /\ changes' \in Nat /\ armed' \in BOOLEAN
            /\ UNCHANGED <<set, pc, readVars, attempt, jobVars, landed>>
        BY <2>4, ChangeType DEF Close
      <3> QED BY <2>4, <3>1, <3>2 DEF TypeOK, Close
    <2> QED BY <1>15, <2>1, <2>2, <2>3, <2>4
  <1>16. CASE SubmitReview
    <2>1. PICK k \in Agents, r \in Review \cup {NoReview} : review' = [review EXCEPT ![k] = r]
      BY <1>16 DEF SubmitReview
    <2>2. review' \in [Agents -> Review \cup {NoReview}]
      BY <2>1 DEF TypeOK
    <2>3. pending' \in BOOLEAN
      BY <1>16 DEF SubmitReview
    <2>4. /\ quiet' \in BOOLEAN /\ changes' \in Nat /\ armed' \in BOOLEAN
          /\ UNCHANGED <<set, pc, readVars, attempt, jobVars, landed>>
      BY <1>16, ChangeType DEF SubmitReview
    <2> QED BY <1>16, <2>2, <2>3, <2>4 DEF TypeOK, SubmitReview
  <1>17. CASE RunJobs
    <2>1. jobs' \in [Commits -> SUBSET Job]
      BY <1>17, JobsAssumption DEF TypeOK, RunJobs
    <2>2. vouched' \in SUBSET (Nat \X Required)
      <3>1. PICK h \in Commits, J \in JobSets :
              vouched' = IF h = sha /\ pc \in {"jobs", "merge"} THEN vouched \cup vouching(J) ELSE vouched
        BY <1>17 DEF RunJobs
      <3> QED BY <3>1, VouchingType, JobsAssumption DEF TypeOK
    <2>3. pending' \in BOOLEAN
      BY <1>17 DEF RunJobs
    <2>4. /\ quiet' \in BOOLEAN /\ changes' \in Nat /\ armed' \in BOOLEAN
          /\ UNCHANGED <<set, pc, readVars, attempt, jobVars, landed>>
      BY <1>17, ChangeType DEF RunJobs
    <2> QED BY <1>17, <2>1, <2>2, <2>3, <2>4 DEF TypeOK, RunJobs
  <1>18. CASE UNCHANGED vars
    BY <1>18 DEF TypeOK, vars
  <1> QED BY <1>1, <1>2, <1>3, <1>4, <1>5, <1>6, <1>7, <1>8, <1>9, <1>10, <1>11, <1>12, <1>13,
             <1>14, <1>15, <1>16, <1>17, <1>18 DEF Next, GateStep, Pull, Finished

-----------------------------------------------------------------------------
(* What the ends of an evaluation, the attempts and the changes of the pull   *)
(* request leave alone, for the lemmas below.                                *)
LEMMA EndStep ==
    ASSUME Stop \/ Disarm
    PROVE  pc' = "idle" /\ UNCHANGED <<set, open, head, base>>
  BY DEF Stop, Disarm, Exit, pullVars

LEMMA AttemptStep ==
    ASSUME NextAttempt
    PROVE  /\ pc' \in {"idle", "state"} /\ UNCHANGED <<set, open, head, base>>
           /\ pc' = "state" => UNCHANGED readVars
  BY EndStep DEF NextAttempt, pullVars

(* A change leaves what the evaluation has read, and marks a move. *)
LEMMA PullStep ==
    ASSUME TypeOK, Pull
    PROVE  /\ open /\ UNCHANGED <<set, pc, readVars>>
           /\ (head' = head /\ base' = base /\ moved' = moved) \/ moved'
           /\ UNCHANGED <<jobVars, landed>> /\ vouched \subseteq vouched'
  <1>1. open /\ UNCHANGED <<set, pc, readVars>>
    BY DEF Pull, Push, Retarget, EditTitle, Close, SubmitReview, RunJobs, Change
  <1>2. (head' = head /\ base' = base /\ moved' = moved) \/ moved'
    BY DEF Pull, Push, Retarget, EditTitle, Close, SubmitReview, RunJobs
  <1>3. UNCHANGED <<jobVars, landed>> /\ vouched \subseteq vouched'
    <2>1. CASE RunJobs
      BY <2>1 DEF RunJobs, Change
    <2>2. CASE Push \/ Retarget \/ EditTitle \/ Close \/ SubmitReview
      BY <2>2 DEF Push, Retarget, EditTitle, Close, SubmitReview, Change
    <2> QED BY <2>1, <2>2 DEF Pull
  <1> QED BY <1>1, <1>2, <1>3

LEMMA VerifiedStep ==
    ASSUME TypeOK, Verified, [Next]_vars
    PROVE  Verified'
  <1> USE DEF Merging
  <1>1. CASE Stop \/ Disarm
    BY <1>1, EndStep DEF Verified
  <1>2. CASE Start \/ ReadPR \/ ReadDefaultBranch \/ ReadFiles
    <2>1. CASE pc' \in {"pr", "branch", "files", "reviews"}
      BY <2>1 DEF Verified
    <2> QED BY <1>1, <1>2, <2>1 DEF Start, ReadPR, ReadDefaultBranch, ReadFiles
  <1>3. CASE ReadReviews
    <2>1. CASE pc' = (IF set.dependabot THEN "title" ELSE "filter") /\ set' = set
      BY <2>1 DEF Verified
    <2> QED BY <1>1, <1>3, <2>1 DEF ReadReviews, pullVars
  <1>4. CASE ReadTitle
    <2>1. CASE approved(seen, "dependency", sha) /\ MergeNow
      <3>1. set.dependabot
        BY <1>4 DEF Verified, ReadTitle
      <3>2. UNCHANGED <<set, sha, seen>> /\ pc' = "state"
        BY <2>1 DEF MergeNow, pullVars, readVars
      <3> QED BY <2>1, <3>1, <3>2 DEF Verified, approved, Approval
    <2> QED BY <1>1, <1>4, <2>1 DEF ReadTitle
  <1>5. CASE ReadFilter
    BY <1>5 DEF ReadFilter, Verified, pullVars
  <1>6. CASE ReadRuns
    <2>1. PICK n : Decide(n)
      BY <1>6 DEF ReadRuns
    <2>2. CASE /\ approved(seen, "code", sha) /\ (n => approved(seen, "security", sha))
               /\ pc' = "state" /\ required' = n /\ UNCHANGED <<pullVars, sha, seen>>
      <3>1. ~set.dependabot /\ set' = set
        BY <1>6, <2>2 DEF Verified, ReadRuns, pullVars
      <3> QED BY <2>2, <3>1 DEF Verified, approved, Approval
    <2> QED BY <1>1, <2>1, <2>2 DEF Decide
  <1>7. ASSUME UNCHANGED <<set, readVars>>, pc' = pc \/ (pc \in Merging /\ pc' \in Merging)
        PROVE  Verified'
    <2>1. UNCHANGED <<set, seen, sha, required>>
      BY <1>7 DEF readVars
    <2> QED BY <1>7, <2>1 DEF Verified, Approval
  <1>8. CASE MergeState \/ Merge
    <2>1. CASE NextAttempt
      BY <1>1, <1>7, <1>8, <2>1 DEF NextAttempt, MergeState, Merge, pullVars
    <2> QED BY <1>1, <1>7, <1>8, <2>1 DEF MergeState, Merge, pullVars
  <1>9. CASE ReadChecks \/ ListRuns \/ ReadJobs \/ Judge
    BY <1>1, <1>7, <1>9 DEF ReadChecks, ListRuns, ReadJobs, Judge, pullVars
  <1>10. CASE Pull
    BY <1>7, <1>10, PullStep
  <1>11. CASE UNCHANGED vars
    BY <1>7, <1>11 DEF vars, pullVars
  <1> QED BY <1>2, <1>3, <1>4, <1>5, <1>6, <1>8, <1>9, <1>10, <1>11 DEF Next, GateStep, Finished

LEMMA PinnedStep ==
    ASSUME TypeOK, Pinned, [Next]_vars
    PROVE  Pinned'
  <1>1. CASE pc' # "merged"
    BY <1>1 DEF Pinned
  <1>2. CASE pc' = "merged" /\ pc = "merged"
    <2>1. ~Pull
      BY <1>2, PullStep DEF Pinned
    <2>2. UNCHANGED vars
      BY <1>2, <2>1 DEF Next, Start, GateStep, ReadPR, ReadDefaultBranch, ReadFiles, ReadReviews,
           ReadTitle, ReadFilter, ReadRuns, MergeState, ReadChecks, ListRuns, ReadJobs, Judge,
           Merge, Finished
    <2> QED BY <2>2 DEF Pinned, vars, pullVars, readVars
  <1>3. CASE pc' = "merged" /\ pc # "merged"
    <2>1. ~(Stop \/ Disarm \/ NextAttempt \/ Pull)
      BY <1>3, EndStep, AttemptStep, PullStep
    <2>2. Merge
      BY <1>3, <2>1 DEF Next, Start, GateStep, ReadPR, ReadDefaultBranch, ReadFiles, ReadReviews,
           ReadTitle, MergeNow, ReadFilter, ReadRuns, Decide, MergeState, ReadChecks, ListRuns,
           ReadJobs, Judge,
           Finished, vars
    <2> QED BY <2>1, <2>2 DEF Merge, mergesHead, Pinned, readVars
  <1> QED BY <1>1, <1>2, <1>3

LEMMA StillStep ==
    ASSUME TypeOK, Still, [Next]_vars
    PROVE  Still'
  <1> DEFINE Early == {"idle", "pr", "branch"}
  <1>1. CASE Stop \/ Disarm \/ Start
    BY <1>1, EndStep DEF Still, Start
  <1>2. CASE ReadPR
    <2>1. CASE pc' = "branch" /\ sha' = head /\ baseRef' = base /\ UNCHANGED pullVars
      BY <2>1 DEF Still, pullVars
    <2> QED BY <1>1, <1>2, <2>1 DEF ReadPR
  <1>3. CASE ReadDefaultBranch
    <2>1. CASE /\ Proceeds /\ baseRef = "default" /\ ~tooManyFiles /\ pc' = "files"
               /\ UNCHANGED <<pullVars, readVars>>
      BY <1>3, <2>1 DEF Still, ReadDefaultBranch, tooManyFiles, pullVars, readVars, Proceeds, Undisturbed
    <2> QED BY <1>1, <1>3, <2>1 DEF ReadDefaultBranch
  <1>4. ASSUME UNCHANGED <<set, head, base, moved, sha, baseRef>>,
               pc' = pc \/ (pc \notin Early /\ pc' \notin Early)
        PROVE  Still'
    BY <1>4 DEF Still
  <1>5. CASE ReadFiles \/ ReadReviews \/ ReadTitle \/ ReadFilter
    BY <1>1, <1>4, <1>5 DEF ReadFiles, ReadReviews, ReadTitle, MergeNow, ReadFilter,
         Proceeds, Setback, Undisturbed, pullVars, readVars
  <1>6. CASE ReadRuns
    <2>1. PICK n : Decide(n) /\ moved' = moved
      BY <1>6 DEF ReadRuns, Proceeds, Setback, Undisturbed
    <2> QED BY <1>1, <1>4, <1>6, <2>1 DEF ReadRuns, Decide, pullVars
  <1>7. CASE MergeState \/ ReadChecks \/ ListRuns \/ ReadJobs \/ Judge
    BY <1>1, <1>4, <1>7 DEF MergeState, NextAttempt, ReadChecks, ListRuns, ReadJobs, Judge,
         Proceeds, Setback, Undisturbed, pullVars, readVars
  <1>8. CASE Merge
    BY <1>1, <1>4, <1>8 DEF Merge, NextAttempt, Proceeds, Setback, Undisturbed, pullVars, readVars
  <1>9. CASE Pull
    <2>1. CASE moved'
      BY <2>1 DEF Still
    <2>2. CASE head' = head /\ base' = base /\ moved' = moved
      BY <1>4, <1>9, <2>2, PullStep DEF readVars
    <2> QED BY <1>9, <2>1, <2>2, PullStep
  <1>10. CASE UNCHANGED vars
    BY <1>4, <1>10 DEF vars, pullVars, readVars
  <1> QED BY <1>1, <1>2, <1>3, <1>5, <1>6, <1>7, <1>8, <1>9, <1>10 DEF Next, GateStep, Finished

LEMMA ListedStep ==
    ASSUME TypeOK, Still, Listed, [Next]_vars
    PROVE  Listed'
  <1> DEFINE Early == {"idle", "pr", "branch", "files"}
  <1>1. CASE Stop \/ Disarm \/ pc' \in Early
    BY <1>1, EndStep DEF Listed
  <1>2. CASE Start \/ ReadPR \/ ReadDefaultBranch
    BY <1>1, <1>2 DEF Start, ReadPR, ReadDefaultBranch
  <1>3. CASE ReadFiles
    <2>1. ASSUME NEW f \in listing, f # "surface", Proceeds, files' = f,
                 UNCHANGED <<pullVars, sha>>
          PROVE  Listed'
      <3>1. CASE moved
        BY <2>1, <3>1 DEF Listed, Proceeds, Undisturbed
      <3>2. CASE ~moved
        <4>1. f = set.files[sha]
          BY <1>3, <2>1, <3>2 DEF ReadFiles, Still, listing
        <4> QED BY <2>1, <4>1 DEF Listed, pullVars
      <3> QED BY <3>1, <3>2
    <2> QED BY <1>1, <1>3, <2>1 DEF ReadFiles
  <1>4. ASSUME UNCHANGED <<set, moved, sha, files>>,
               pc' = pc \/ (pc \notin Early /\ pc' \notin Early)
        PROVE  Listed'
    BY <1>4 DEF Listed
  <1>5. CASE ReadReviews \/ ReadTitle \/ ReadFilter
    BY <1>1, <1>4, <1>5 DEF ReadReviews, ReadTitle, MergeNow, ReadFilter,
         Proceeds, Setback, Undisturbed, pullVars, readVars
  <1>6. CASE ReadRuns
    <2>1. PICK n : Decide(n) /\ moved' = moved
      BY <1>6 DEF ReadRuns, Proceeds, Setback, Undisturbed
    <2> QED BY <1>1, <1>4, <1>6, <2>1 DEF ReadRuns, Decide, pullVars
  <1>7. CASE MergeState \/ ReadChecks \/ ListRuns \/ ReadJobs \/ Judge
    BY <1>1, <1>4, <1>7 DEF MergeState, NextAttempt, ReadChecks, ListRuns, ReadJobs, Judge,
         Proceeds, Setback, Undisturbed, pullVars, readVars
  <1>8. CASE Merge
    BY <1>1, <1>4, <1>8 DEF Merge, NextAttempt, Proceeds, Setback, Undisturbed, pullVars, readVars
  <1>9. CASE Pull
    <2>1. CASE moved'
      BY <2>1 DEF Listed
    <2>2. CASE moved' = moved
      BY <1>4, <1>9, <2>2, PullStep DEF readVars
    <2> QED BY <1>9, <2>1, <2>2, PullStep
  <1>10. CASE UNCHANGED vars
    BY <1>4, <1>10 DEF vars, pullVars, readVars
  <1> QED BY <1>2, <1>3, <1>5, <1>6, <1>7, <1>8, <1>9, <1>10 DEF Next, GateStep, Finished

LEMMA ClosedStep ==
    ASSUME TypeOK, Verified, Closed, [Next]_vars
    PROVE  Closed'
  <1> USE DEF Merging
  <1> DEFINE Late == {"runs"} \cup Merging
  <1>1. CASE Stop \/ Disarm \/ pc' \notin Late
    BY <1>1, EndStep DEF Closed
  <1>2. CASE Start \/ ReadPR \/ ReadDefaultBranch \/ ReadFiles \/ ReadReviews
    BY <1>1, <1>2 DEF Start, ReadPR, ReadDefaultBranch, ReadFiles, ReadReviews
  <1>3. CASE ReadTitle
    <2>1. CASE MergeNow
      <3>1. set'.dependabot
        BY <1>3, <2>1 DEF ReadTitle, Verified, MergeNow, pullVars
      <3> QED BY <3>1 DEF Closed
    <2> QED BY <1>1, <1>3, <2>1 DEF ReadTitle
  <1>4. CASE ReadFilter
    <2>1. UNCHANGED <<set, files>> /\ pc' = "runs"
      BY <1>4 DEF ReadFilter, pullVars
    <2>2. (Calls => required') /\ (set.filter # "absent" => fetched' \/ required')
      <3>1. CASE fetched' = TRUE /\ required' = pathsRequire
        BY <3>1 DEF pathsRequire, Calls
      <3>2. CASE \E r \in unfetchedRequires : required' = r
        <4>1. CASE set.filter = "absent"
          BY <4>1 DEF Calls
        <4>2. CASE set.filter # "absent"
          BY <3>2, <4>2 DEF unfetchedRequires
        <4> QED BY <4>1, <4>2
      <3> QED BY <1>4, <3>1, <3>2 DEF ReadFilter
    <2> QED BY <2>1, <2>2 DEF Closed, Calls
  <1>5. CASE ReadRuns
    <2>1. PICK n : Decide(n) /\ (~set.dependabot => (required \/ Noticed => n))
      <3>1. pc = "runs"
        BY <1>5 DEF ReadRuns
      <3>2. ~set.dependabot /\ set.filter # "absent" => fetched \/ required
        BY <3>1 DEF Closed
      <3> QED BY <1>5, <3>2 DEF ReadRuns, Noticed
    <2>2. CASE pc' = "state" /\ required' = n /\ UNCHANGED <<pullVars, sha, seen, files>>
      <3>1. UNCHANGED <<set, sha, seen, files>> /\ pc = "runs"
        BY <1>5, <2>2 DEF ReadRuns, pullVars
      <3> QED BY <2>1, <2>2, <3>1 DEF Closed, Calls, Noticed
    <2> QED BY <1>1, <2>1, <2>2 DEF Decide
  <1>6. ASSUME UNCHANGED <<set, readVars>>, pc' = pc \/ (pc \in Merging /\ pc' \in Merging)
        PROVE  Closed'
    BY <1>6 DEF Closed, Calls, Noticed, readVars
  <1>7. CASE MergeState \/ ReadChecks \/ ListRuns \/ ReadJobs \/ Judge
    BY <1>1, <1>6, <1>7 DEF MergeState, NextAttempt, ReadChecks, ListRuns, ReadJobs, Judge, pullVars
  <1>8. CASE Merge
    BY <1>1, <1>6, <1>8 DEF Merge, NextAttempt, pullVars
  <1>9. CASE Pull
    BY <1>6, <1>9, PullStep
  <1>10. CASE UNCHANGED vars
    BY <1>6, <1>10 DEF vars, pullVars
  <1> QED BY <1>2, <1>3, <1>4, <1>5, <1>7, <1>8, <1>9, <1>10 DEF Next, GateStep, Finished

-----------------------------------------------------------------------------
(* Jobs that go on keep a job for each that was there. *)
LEMMA FollowsOf ==
    ASSUME NEW J \in SUBSET Job, NEW K \in SUBSET Job, follows(J, K), NEW c
    PROVE  \A i \in of(J, c) : \E k \in of(K, c) : k.run = i.run
  <1> SUFFICES ASSUME NEW i \in of(J, c) PROVE \E k \in of(K, c) : k.run = i.run
    OBVIOUS
  <1>1. i \in J /\ i.name = c /\ i.event = "pull_request"
    BY DEF of
  <1>2. PICK k \in K : [k EXCEPT !.result = i.result] = i
    BY <1>1 DEF follows
  <1>3. k \in Job
    BY <1>2
  <1>4. k.run = i.run /\ k.name = i.name /\ k.event = i.event
    BY <1>2, <1>3 DEF Job
  <1> QED BY <1>1, <1>2, <1>4 DEF of

(* The steps at which an attempt is not between the listing and the verdict. *)
LEMMA Elsewhere ==
    ASSUME TypeOK, [Next]_vars
    PROVE  \/ pc' \notin {"jobs", "merge", "merged"} \/ ListRuns \/ ReadJobs \/ Judge \/ Merge
           \/ Pull /\ pc' = pc
           \/ UNCHANGED vars
  <1>1. CASE Stop \/ Disarm \/ NextAttempt
    BY <1>1, EndStep, AttemptStep
  <1>2. CASE Start \/ ReadPR \/ ReadDefaultBranch \/ ReadFiles \/ ReadReviews \/ ReadTitle
               \/ ReadFilter \/ MergeState \/ ReadChecks
    BY <1>1, <1>2 DEF Start, ReadPR, ReadDefaultBranch, ReadFiles, ReadReviews, ReadTitle, MergeNow,
         ReadFilter, MergeState, ReadChecks
  <1>3. CASE ReadRuns
    BY <1>1, <1>3 DEF ReadRuns, Decide
  <1> QED BY <1>1, <1>2, <1>3, PullStep DEF Next, GateStep, Finished

LEMMA GrownStep ==
    ASSUME TypeOK, Grown, [Next]_vars
    PROVE  Grown'
  <1> USE DEF Grown
  <1>1. CASE pc' # "jobs"
    BY <1>1
  <1>2. CASE Stop \/ NextAttempt
    BY <1>1, <1>2, EndStep, AttemptStep
  <1>3. CASE ListRuns
    <2>1. CASE landed' = jobs[sha] /\ vouched' = vouching(jobs[sha]) /\ UNCHANGED <<jobs, sha>>
      BY <2>1
    <2> QED BY <1>2, <1>3, <2>1 DEF ListRuns, pullVars, readVars
  <1>4. ASSUME UNCHANGED <<jobs, sha, landed, vouched, pc>>
        PROVE  Grown'
    BY <1>4
  <1>5. CASE ReadJobs
    BY <1>2, <1>4, <1>5 DEF ReadJobs, pullVars, readVars, seenVars
  <1>6. CASE Judge \/ Merge
    BY <1>1, <1>2, <1>6 DEF Judge, Merge
  <1>7. CASE Pull /\ pc' = "jobs"
    <2>1. pc = "jobs" /\ UNCHANGED <<sha, landed>>
      BY <1>7, PullStep DEF readVars
    <2>2. CASE RunJobs
      <3>1. PICK h \in Commits, J \in JobSets :
              /\ follows(jobs[h], J) /\ jobs' = [jobs EXCEPT ![h] = J]
              /\ vouched' = IF h = sha /\ pc \in {"jobs", "merge"} THEN vouched \cup vouching(J) ELSE vouched
        BY <2>2 DEF RunJobs
      <3>2. sha \in Commits
        BY <2>1 DEF TypeOK
      <3>3. CASE h # sha
        <4>1. jobs'[sha] = jobs[sha] /\ vouched' = vouched
          BY <3>1, <3>2, <3>3 DEF TypeOK
        <4> QED BY <2>1, <4>1
      <3>4. CASE h = sha
        <4>1. jobs'[sha] = J /\ vouched' = vouched \cup vouching(J)
          BY <2>1, <3>1, <3>2, <3>4 DEF TypeOK
        <4>2. jobs[sha] \in SUBSET Job /\ J \in SUBSET Job
          BY <3>1, <3>2, JobsAssumption DEF TypeOK
        <4>3. ASSUME NEW c \in Required, NEW i \in of(landed, c)
              PROVE  \E k \in of(J, c) : k.run = i.run
          <5>1. PICK k \in of(jobs[sha], c) : k.run = i.run
            BY <2>1, <4>3
          <5> QED BY <3>1, <3>4, <4>2, <5>1, FollowsOf
        <4>4. vouching(jobs'[sha]) \subseteq vouched'
          BY <4>1
        <4>5. \A c \in Required : \A i \in of(landed', c) : \E k \in of(jobs'[sha'], c) : k.run = i.run
          BY <2>1, <4>1, <4>3
        <4> QED BY <2>1, <4>4, <4>5
      <3> QED BY <3>3, <3>4
    <2>3. CASE Push \/ Retarget \/ EditTitle \/ Close \/ SubmitReview
      BY <1>4, <2>1, <2>3, <1>7 DEF Push, Retarget, EditTitle, Close, SubmitReview
    <2> QED BY <1>7, <2>2, <2>3 DEF Pull
  <1>8. CASE UNCHANGED vars
    BY <1>4, <1>8 DEF vars, pullVars, readVars, mergeVars, seenVars
  <1> QED BY <1>1, <1>3, <1>5, <1>6, <1>7, <1>8, Elsewhere

(* What the jobs of one run that were just read pass was passed at the commit.*)
LEMMA PassedByRead ==
    ASSUME NEW A \in SUBSET Job, NEW J \in SUBSET Job, NEW B, NEW r, NEW q, NEW c,
           \A j \in A : j.run # r,
           \A j : j \in B <=> j \in A \/ (j \in headJobs(J) /\ j.run = r),
           passed(B, q, c)
    PROVE  IF q = r THEN passed(J, r, c) ELSE passed(A, q, c)
  <1>1. PICK k \in of(B, c) : k.run = q /\ isGreen(k) /\ \A i \in of(B, c) : i.run = q => i.attempt <= k.attempt
    BY DEF passed
  <1>2. CASE q = r
    <2>1. k \in of(J, c)
      BY <1>1, <1>2 DEF of, headJobs
    <2>2. \A i \in of(J, c) : i.run = r => i \in of(B, c)
      BY DEF of, headJobs
    <2> QED BY <1>1, <1>2, <2>1, <2>2 DEF passed
  <1>3. CASE q # r
    <2>1. k \in of(A, c)
      BY <1>1, <1>3 DEF of, headJobs
    <2>2. \A i \in of(A, c) : i \in of(B, c)
      BY DEF of
    <2> QED BY <1>1, <1>3, <2>1, <2>2 DEF passed
  <1> QED BY <1>2, <1>3

LEMMA GatheredStep ==
    ASSUME TypeOK, Grown, Gathered, [Next]_vars
    PROVE  Gathered'
  <1> USE DEF Gathered
  <1>1. CASE pc' # "jobs"
    BY <1>1
  <1>2. CASE Stop \/ NextAttempt
    BY <1>1, <1>2, EndStep, AttemptStep
  <1>3. CASE ListRuns
    <2>1. CASE /\ unread' = {j.run : j \in headJobs(jobs[sha])} /\ read' = {}
               /\ landed' = jobs[sha]
      <3>1. \A c \in Required : \A i \in of(landed', c) : i.run \in unread'
        BY <2>1 DEF of, headJobs
      <3>2. \A c \in Required : \A r \in Nat : ~passed(read', r, c)
        BY <2>1 DEF passed, of
      <3> QED BY <2>1, <3>1, <3>2
    <2> QED BY <1>2, <1>3, <2>1 DEF ListRuns
  <1>4. CASE ReadJobs
    <2>1. ASSUME NEW r \in unread, unread' = unread \ {r}, pc = "jobs",
                 read' = read \cup {j \in headJobs(jobs[sha]) : j.run = r},
                 UNCHANGED <<landed, vouched>>
          PROVE  Gathered'
      <3>1. sha \in Commits /\ jobs[sha] \in SUBSET Job /\ read \in SUBSET Job
        BY <2>1 DEF TypeOK
      <3>2. \A j \in read' : j.event = "pull_request" /\ j.run \notin unread'
        BY <2>1 DEF headJobs
      <3>3. ASSUME NEW c \in Required, NEW i \in of(landed', c)
            PROVE  i.run \in unread' \/ \E k \in of(read', c) : k.run = i.run
        <4>1. CASE i.run = r
          <5>1. PICK k \in of(jobs[sha], c) : k.run = r
            BY <2>1, <3>3, <4>1 DEF Grown
          <5>2. k \in of(read', c)
            BY <2>1, <5>1 DEF of, headJobs
          <5> QED BY <4>1, <5>1, <5>2
        <4>2. CASE i.run # r
          <5>1. i.run \in unread \/ \E k \in of(read, c) : k.run = i.run
            BY <2>1, <3>3
          <5>2. of(read, c) \subseteq of(read', c)
            BY <2>1 DEF of
          <5> QED BY <2>1, <4>2, <5>1, <5>2
        <4> QED BY <4>1, <4>2
      <3>4. ASSUME NEW c \in Required, NEW q \in Nat, passed(read', q, c)
            PROVE  <<q, c>> \in vouched
        <4>0. /\ \A j \in read : j.run # r
              /\ \A j : j \in read' <=> j \in read \/ (j \in headJobs(jobs[sha]) /\ j.run = r)
          BY <2>1
        <4>1. IF q = r THEN passed(jobs[sha], r, c) ELSE passed(read, q, c)
          BY <3>1, <3>4, <4>0, PassedByRead
        <4>2. CASE q = r
          <5>1. passed(jobs[sha], r, c)
            BY <4>1, <4>2
          <5>2. PICK k \in jobs[sha] : k.run = r
            BY <5>1 DEF passed, of
          <5>3. <<r, c>> \in vouching(jobs[sha])
            BY <5>1, <5>2 DEF vouching
          <5> QED BY <2>1, <4>2, <5>3 DEF Grown
        <4>3. CASE q # r
          BY <2>1, <4>1, <4>3
        <4> QED BY <4>2, <4>3
      <3>5. vouched' = vouched
        BY <2>1
      <3> QED BY <3>2, <3>3, <3>4, <3>5
    <2> QED BY <1>2, <1>4, <2>1 DEF ReadJobs, seenVars
  <1>5. CASE Judge \/ Merge
    BY <1>1, <1>2, <1>5 DEF Judge, Merge
  <1>6. ASSUME UNCHANGED <<unread, read, landed>>, pc' = pc, vouched \subseteq vouched'
        PROVE  Gathered'
    BY <1>6
  <1>7. CASE Pull
    BY <1>6, <1>7, PullStep DEF jobVars
  <1>8. CASE UNCHANGED vars
    BY <1>6, <1>8 DEF vars, mergeVars, jobVars, seenVars
  <1> QED BY <1>1, <1>3, <1>4, <1>5, <1>7, <1>8, Elsewhere

(* A green verdict on what was read covers the context. *)
LEMMA GreenCovers ==
    ASSUME TypeOK, Gathered, pc = "jobs", unread = {}, NEW c \in Required, verdictOK(read, c)
    PROVE  Covered(c)
  <1>1. read \in SUBSET Job
    BY DEF TypeOK
  <1>2. PICK k \in latest(read, c) : isGreen(k)
    BY DEF verdictOK
  <1>3. k \in of(read, c) /\ \A i \in of(read, c) : later(k, i)
    BY <1>2 DEF latest, of, Gathered
  <1>4. \A i \in of(read, c) : i.run \in Nat /\ i.attempt \in Nat
    BY <1>1 DEF of, Job
  <1>5. \A i \in of(read, c) : i.run <= k.run /\ (i.run = k.run => i.attempt <= k.attempt)
    BY <1>3, <1>4 DEF later
  <1>6. passed(read, k.run, c)
    BY <1>2, <1>3, <1>5 DEF passed
  <1>7. <<k.run, c>> \in vouched
    BY <1>3, <1>4, <1>6 DEF Gathered
  <1>8. \A i \in of(landed, c) : i.run <= k.run
    BY <1>5 DEF Gathered
  <1> DEFINE w == <<k.run, c>>
  <1>9. w[1] = k.run /\ w[2] = c
    OBVIOUS
  <1> QED BY <1>7, <1>8, <1>9 DEF Covered

LEMMA JudgedStep ==
    ASSUME TypeOK, Gathered, Judged, [Next]_vars
    PROVE  Judged'
  <1> USE DEF Judged
  <1>1. CASE pc' \notin {"merge", "merged"}
    BY <1>1
  <1>2. CASE Stop \/ NextAttempt
    BY <1>1, <1>2, EndStep, AttemptStep
  <1>3. CASE ListRuns \/ ReadJobs
    BY <1>1, <1>2, <1>3 DEF ListRuns, ReadJobs
  <1>4. CASE Judge
    <2>1. CASE green(read) /\ UNCHANGED mergeVars
      <3>1. ASSUME NEW c \in Required PROVE Covered(c)'
        <4>1. Covered(c)
          BY <1>4, <2>1, GreenCovers DEF Judge, green
        <4> QED BY <2>1, <4>1 DEF Covered, mergeVars, seenVars
      <3> QED BY <3>1
    <2> QED BY <1>2, <1>4, <2>1 DEF Judge
  <1>5. ASSUME landed' = landed, vouched \subseteq vouched', pc \in {"merge", "merged"}
        PROVE  Judged'
    BY <1>5 DEF Covered
  <1>6. CASE Merge
    BY <1>2, <1>5, <1>6 DEF Merge, mergeVars, seenVars
  <1>7. CASE Pull /\ pc' = pc
    BY <1>1, <1>5, <1>7, PullStep
  <1>8. CASE UNCHANGED vars
    BY <1>1, <1>5, <1>8 DEF vars, mergeVars, seenVars
  <1> QED BY <1>1, <1>3, <1>4, <1>6, <1>7, <1>8, Elsewhere

-----------------------------------------------------------------------------
(* The invariant holds in every state of every behavior. *)
THEOREM Invariance == Spec => []IInv
  <1>1. Init => IInv
    BY InitType DEF Init, IInv, Verified, Pinned, Still, Listed, Closed, Grown, Gathered, Judged, Merging
  <1>2. IInv /\ [Next]_vars => IInv'
    BY TypeStep, VerifiedStep, PinnedStep, StillStep, ListedStep, ClosedStep,
       GrownStep, GatheredStep, JudgedStep DEF IInv
  <1> QED BY <1>1, <1>2, PTL DEF Spec

(* Type correctness, for any commits, jobs, settings and changes. *)
THEOREM TypeCorrect == Spec => []TypeOK
  BY Invariance, PTL DEF IInv

(* What the gate merges is the commit whose reviews it verified, whatever was *)
(* pushed meanwhile, however often the merge was tried.                       *)
THEOREM VerifiedMerge == Spec => []MergedAsVerified
  <1>1. IInv => MergedAsVerified
    BY DEF IInv, Verified, Pinned, Merging, MergedAsVerified, Merged, Approval
  <1> QED BY <1>1, Invariance, PTL

(* What is merged has been passed since its attempt listed the runs, by runs   *)
(* as new as any of that time, whatever was pushed or run while they were read *)
(* one after another.                                                         *)
THEOREM GreenMerge == Spec => []NothingMergedOver
  <1>1. IInv => NothingMergedOver
    BY DEF IInv, Pinned, Judged, Covered, NothingMergedOver, Merged
  <1> QED BY <1>1, Invariance, PTL

(* The workflow surface is never changed by a pull request that stood still.  *)
THEOREM SurfaceKept == Spec => []SurfaceUntouched
  <1>1. IInv => SurfaceUntouched
    BY DEF IInv, TypeOK, FileLists, Pinned, Still, Listed, SurfaceUntouched, Merged
  <1> QED BY <1>1, Invariance, PTL

(* No failed read waives a review that the base's filter, a security run where *)
(* the base has a filter, or a standing request for changes calls for.         *)
THEOREM FailsClosed == Spec => []SecurityNotWaived
  <1>1. IInv => SecurityNotWaived
    BY DEF IInv, Verified, Pinned, Listed, Closed, Calls, Noticed, Merging, SecurityNotWaived, Merged,
         Approval
  <1> QED BY <1>1, Invariance, PTL

-----------------------------------------------------------------------------
(* Readiness.  In an evaluation that nothing has disturbed, what was read is  *)
(* what is.                                                                   *)
Fresh ==
    quiet /\ pc \notin {"idle", "merged"} =>
        /\ ~moved
        /\ pc # "pr" => open
        /\ pc \in {"title", "filter", "runs"} => seen = review
        /\ pc = "runs" => required = pathsRequire
        /\ pc = "jobs" => read = {j \in headJobs(jobs[sha]) : j.run \notin unread}

LEMMA FreshStep ==
    ASSUME TypeOK, Fresh, [Next]_vars
    PROVE  Fresh'
  <1>1. CASE Stop \/ Disarm \/ ~quiet'
    BY <1>1, EndStep DEF Fresh
  <1>2. CASE Start
    BY <1>2 DEF Start, Fresh
  <1>3. CASE Setback \/ Pull
    BY <1>1, <1>3 DEF Setback, Pull, Push, Retarget, EditTitle, Close, SubmitReview, RunJobs, Change
  <1>4. ASSUME Proceeds, quiet, pc \notin {"idle", "merged"}
        PROVE  ~moved' /\ (pc # "pr" => open)
    BY <1>4 DEF Proceeds, Undisturbed, Fresh
  <1>5. CASE ReadPR \/ ReadDefaultBranch \/ ReadFiles \/ ReadTitle
    BY <1>1, <1>3, <1>4, <1>5 DEF ReadPR, ReadDefaultBranch, ReadFiles, ReadTitle, MergeNow, Fresh,
         Proceeds, pullVars
  <1>6. CASE ReadReviews
    BY <1>1, <1>3, <1>4, <1>6 DEF ReadReviews, Fresh, Proceeds, pullVars
  <1>7. CASE ReadFilter
    <2>1. /\ pc = "filter" /\ pc' = "runs" /\ moved' = moved
          /\ UNCHANGED <<set, open, review, seen, files>>
      BY <1>7 DEF ReadFilter, Proceeds, Undisturbed, pullVars
    <2>2. (quiet' => quiet) /\ (quiet' => required' = pathsRequire)
      <3>1. CASE Proceeds /\ required' = pathsRequire
        BY <3>1 DEF Proceeds
      <3>2. CASE \E r \in unfetchedRequires :
                   required' = r /\ quiet' = (quiet /\ set.filter = "absent" /\ ~r)
        <4>1. PICK r \in unfetchedRequires :
                   required' = r /\ quiet' = (quiet /\ set.filter = "absent" /\ ~r)
          BY <3>2
        <4>2. r \in BOOLEAN /\ quiet \in BOOLEAN
          BY DEF unfetchedRequires, TypeOK
        <4>3. ASSUME quiet' PROVE quiet /\ required' = pathsRequire
          <5>1. quiet /\ set.filter = "absent" /\ ~r
            BY <4>1, <4>3
          <5>2. required' = FALSE
            BY <4>1, <4>2, <5>1
          <5>3. pathsRequire = FALSE
            BY <5>1 DEF pathsRequire
          <5> QED BY <5>1, <5>2, <5>3
        <4> QED BY <4>3
      <3> QED BY <1>7, <3>1, <3>2 DEF ReadFilter
    <2>3. pathsRequire' = pathsRequire
      BY <2>1 DEF pathsRequire
    <2>4. CASE quiet'
      BY <1>1, <2>1, <2>2, <2>3, <2>4 DEF Fresh
    <2> QED BY <1>1, <2>4
  <1>8. CASE ReadRuns
    <2>1. PICK n : Decide(n) /\ (Proceeds \/ Setback)
      BY <1>8 DEF ReadRuns
    <2>2. CASE Disarm \/ Setback
      BY <1>1, <1>3, <2>2
    <2>3. CASE Proceeds /\ pc' = "state" /\ open' = open
      BY <1>1, <1>4, <1>8, <2>3 DEF ReadRuns, Fresh, Proceeds
    <2> QED BY <2>1, <2>2, <2>3 DEF Decide, pullVars
  <1>9. CASE MergeState \/ ReadChecks \/ Judge \/ Merge
    BY <1>1, <1>3, <1>4, <1>9 DEF MergeState, ReadChecks, Judge, Merge, Fresh, Proceeds, pullVars
  <1>10. CASE ListRuns
    <2>1. CASE /\ Proceeds /\ pc' = "jobs" /\ UNCHANGED <<pullVars, readVars>>
               /\ unread' = {j.run : j \in headJobs(jobs[sha])} /\ read' = {}
      <3>1. read' = {j \in headJobs(jobs'[sha']) : j.run \notin unread'}
        BY <2>1 DEF pullVars, readVars
      <3> QED BY <1>1, <1>4, <1>10, <2>1, <3>1 DEF ListRuns, Fresh, Proceeds, pullVars
    <2> QED BY <1>1, <1>3, <1>10, <2>1 DEF ListRuns
  <1>12. CASE ReadJobs
    <2>1. ASSUME NEW r \in unread, Proceeds, pc = "jobs", pc' = pc, unread' = unread \ {r}, quiet,
                 read' = read \cup {j \in headJobs(jobs[sha]) : j.run = r},
                 UNCHANGED <<pullVars, readVars>>
          PROVE  Fresh'
      <3>1. read = {j \in headJobs(jobs[sha]) : j.run \notin unread}
        BY <2>1 DEF Fresh
      <3>2. read' = {j \in headJobs(jobs[sha]) : j.run \notin unread'}
        BY <2>1, <3>1
      <3>3. UNCHANGED <<open, jobs, sha>>
        BY <2>1 DEF pullVars, readVars
      <3>4. ~moved' /\ open'
        BY <1>4, <2>1, <3>3
      <3> QED BY <2>1, <3>2, <3>3, <3>4 DEF Fresh
    <2> QED BY <1>1, <1>3, <1>12, <2>1 DEF ReadJobs, Proceeds
  <1>11. CASE UNCHANGED vars
    BY <1>11 DEF vars, pullVars, readVars, mergeVars, jobVars, Fresh, pathsRequire
  <1> QED BY <1>2, <1>3, <1>5, <1>6, <1>7, <1>8, <1>9, <1>10, <1>12, <1>11 DEF Next, GateStep, Finished

(* Jobs come in the sets they are said to come in. *)
JobsOK == \A h \in Commits : jobs[h] \in JobSets

LEMMA JobsStep ==
    ASSUME TypeOK, JobsOK, [Next]_vars
    PROVE  JobsOK'
  <1>1. CASE jobs' = jobs
    BY <1>1 DEF JobsOK
  <1>2. CASE RunJobs
    BY <1>2 DEF RunJobs, JobsOK, TypeOK
  <1>3. RunJobs \/ jobs' = jobs
    <2>1. CASE Pull
      BY <2>1 DEF Pull, Push, Retarget, EditTitle, Close, SubmitReview
    <2>2. CASE Stop \/ Disarm \/ NextAttempt
      BY <2>2 DEF Stop, Disarm, NextAttempt, pullVars
    <2>3. CASE ReadRuns
      <3>1. PICK n : Decide(n)
        BY <2>3 DEF ReadRuns
      <3> QED BY <2>2, <3>1 DEF Decide, pullVars
    <2>4. CASE Start \/ ReadPR \/ ReadDefaultBranch \/ ReadFiles \/ ReadReviews \/ ReadTitle \/ ReadFilter
      BY <2>2, <2>4 DEF Start, ReadPR, ReadDefaultBranch, ReadFiles, ReadReviews, ReadTitle, ReadFilter,
           MergeNow, pullVars
    <2>5. CASE MergeState \/ ReadChecks \/ ListRuns \/ ReadJobs \/ Judge \/ Merge
      BY <2>2, <2>5 DEF MergeState, ReadChecks, ListRuns, ReadJobs, Judge, Merge, pullVars
    <2>6. CASE UNCHANGED vars
      BY <2>6 DEF vars, pullVars
    <2> QED BY <2>1, <2>3, <2>4, <2>5, <2>6 DEF Next, GateStep, Finished
  <1> QED BY <1>1, <1>2, <1>3

(* One job of a name in an attempt of a run. *)
OnePerAttempt(J) ==
    \A i, j \in J : i.name = j.name /\ i.run = j.run /\ i.attempt = j.attempt => i = j

(* What GitHub calls clean the gate finds green, as no later job of a name    *)
(* is left that it could be looking at instead.                               *)
LEMMA PassingIsGreen ==
    ASSUME NEW J \in SUBSET Job, OnePerAttempt(J), passing(J)
    PROVE  green(headJobs(J))
  <1> DEFINE H == headJobs(J)
  <1>1. ASSUME NEW c \in Required PROVE verdictOK(H, c)
    <2>1. PICK j \in of(J, c) : passed(J, j.run, c) /\ \A i \in of(J, c) : i.run <= j.run
      BY <1>1 DEF passing
    <2>2. PICK k \in of(J, c) : /\ k.run = j.run /\ isGreen(k)
                                /\ \A i \in of(J, c) : i.run = j.run => i.attempt <= k.attempt
      BY <2>1 DEF passed
    <2>3. \A i : i \in of(J, c) <=> i \in H /\ i.name = c
      BY DEF of, headJobs
    <2>4. \A i \in of(J, c) : /\ i \in J /\ i.name = c
                               /\ i.run \in Nat /\ i.attempt \in Nat /\ i.id \in Nat
      BY DEF of, Job
    <2>5. ASSUME NEW i \in of(J, c), i # k
          PROVE  k.run > i.run \/ (k.run = i.run /\ k.attempt > i.attempt)
      <3>1. ~(i.run = k.run /\ i.attempt = k.attempt)
        BY <2>4, <2>5 DEF OnePerAttempt
      <3> QED BY <2>1, <2>2, <2>4, <3>1
    <2>6. \A i \in of(J, c) : later(k, i)
      BY <2>4, <2>5 DEF later
    <2>7. \A i \in of(J, c) : later(i, k) => i = k
      BY <2>4, <2>5 DEF later
    <2>8. k \in latest(H, c) /\ \A i \in latest(H, c) : i = k
      BY <2>2, <2>3, <2>6, <2>7 DEF latest
    <2> QED BY <2>2, <2>8 DEF verdictOK
  <1> QED BY <1>1 DEF green

(* An evaluation that ends undisturbed had a reason to, at the read it ended  *)
(* at, which is there in the pull request itself.                             *)
LEMMA UndisturbedEnd ==
    ASSUME IInv, Fresh, JobsOK, \A J \in JobSets : OnePerAttempt(J),
           GateStep, pc \notin {"idle", "merged"}, pc' = "idle", quiet'
    PROVE  ~Ready
  <1> SUFFICES ASSUME Ready PROVE FALSE
    OBVIOUS
  <1> USE DEF IInv
  <1>1. ~Setback
    BY DEF Setback
  <1>2. Proceeds => quiet /\ ~moved
    BY DEF Proceeds, Fresh
  <1>3. pc \notin {"pr"} /\ Proceeds => head = sha /\ base = baseRef
    BY <1>2 DEF Still
  <1>4. CASE ReadPR
    BY <1>1, <1>4 DEF ReadPR, Ready
  <1>5. CASE ReadDefaultBranch
    <2>1. baseRef # "default" \/ set.files[sha] = "huge"
      BY <1>1, <1>5 DEF ReadDefaultBranch, tooManyFiles
    <2> QED BY <1>1, <1>3, <1>5, <2>1 DEF ReadDefaultBranch, Ready
  <1>6. CASE ReadFiles
    <2>1. "surface" \in listing
      BY <1>1, <1>6 DEF ReadFiles
    <2> QED BY <2>1 DEF listing, Ready
  <1>7. CASE ReadReviews
    <2>1. Proceeds /\ \E k \in Agents : requested(review, k, head)
      BY <1>1, <1>3, <1>7 DEF ReadReviews
    <2> QED BY <2>1 DEF Ready, requested
  <1>8. CASE ReadTitle
    <2>1. /\ pc = "title" /\ Proceeds /\ set.dependabot /\ seen = review /\ head = sha
          /\ ~(title = "patch" /\ approved(seen, "dependency", sha))
      BY <1>1, <1>2, <1>3, <1>8 DEF ReadTitle, MergeNow, Fresh, Verified
    <2> QED BY <2>1 DEF Ready, Needed, approved
  <1>9. CASE ReadFilter
    BY <1>9 DEF ReadFilter
  <1>10. CASE ReadRuns
    <2> DEFINE standing == seen["security"].state = "CHANGES_REQUESTED"
               need == required \/ standing \/ sha \in set.runs
    <2>1. pc = "runs" /\ Proceeds /\ Decide(need)
      BY <1>1, <1>10 DEF ReadRuns
    <2>2. seen = review /\ required = pathsRequire /\ files = set.files[head] /\ head = sha
      BY <1>2, <1>3, <2>1 DEF Fresh, Listed
    <2>3. ~set.dependabot
      BY <2>1 DEF Verified
    <2>4. need => NeedsSecurity
      BY <2>2 DEF NeedsSecurity, pathsRequire
    <2>5. ~(approved(seen, "code", sha) /\ (need => approved(seen, "security", sha)))
      BY <2>1 DEF Decide
    <2>6. approved(review, "code", head) /\ (NeedsSecurity => approved(review, "security", head))
      <3>1. "code" \in Needed /\ (NeedsSecurity => "security" \in Needed)
        BY <2>3 DEF Needed
      <3> QED BY <3>1 DEF Ready, approved
    <2> HIDE DEF need
    <2> QED BY <2>2, <2>4, <2>5, <2>6
  <1>11. CASE MergeState
    BY <1>1, <1>3, <1>11 DEF MergeState
  <1>12. CASE ReadChecks
    BY <1>1, <1>12 DEF ReadChecks
  <1>15. CASE ListRuns \/ ReadJobs
    BY <1>1, <1>15 DEF ListRuns, ReadJobs
  <1>13. CASE Judge
    <2>1. pc = "jobs" /\ Proceeds /\ unread = {} /\ ~green(read)
      BY <1>1, <1>13 DEF Judge
    <2>2. read = headJobs(jobs[sha]) /\ sha = head
      BY <1>2, <1>3, <2>1 DEF Fresh
    <2>3. head \in Commits /\ jobs[head] \in SUBSET Job /\ OnePerAttempt(jobs[head])
      BY DEF TypeOK, JobsOK
    <2>4. passing(jobs[head])
      BY DEF Ready
    <2> QED BY <2>1, <2>2, <2>3, <2>4, PassingIsGreen
  <1>14. CASE Merge
    BY <1>1, <1>14 DEF Merge, Ready
  <1> QED BY <1>4, <1>5, <1>6, <1>7, <1>8, <1>9, <1>10, <1>11, <1>12, <1>13, <1>14, <1>15 DEF GateStep

(* A ready pull request is merged unless a read fails, something changes or   *)
(* GitHub refuses, provided a run has no two jobs of a name in an attempt.    *)
THEOREM ReadyMerged ==
    ASSUME \A J \in JobSets : OnePerAttempt(J)
    PROVE  Spec => ReadyIsMerged
  <1> DEFINE Told == Fresh /\ JobsOK
  <1>1. Init => Told
    BY DEF Init, Fresh, JobsOK
  <1>2. IInv /\ Told /\ [Next]_vars => Told'
    BY FreshStep, JobsStep DEF IInv
  <1>3. IInv /\ Told /\ [Next]_vars
          => [pc \notin {"idle", "merged"} /\ pc' = "idle" /\ quiet' => ~Ready]_vars
    <2> SUFFICES ASSUME IInv, Told, Next, pc \notin {"idle", "merged"}, pc' = "idle", quiet'
                 PROVE  ~Ready
      BY DEF vars
    <2>1. ~Start /\ ~Finished
      BY DEF Start, Finished
    <2>2. ~Pull
      BY DEF Pull, Push, Retarget, EditTitle, Close, SubmitReview, RunJobs, Change
    <2> QED BY <2>1, <2>2, UndisturbedEnd DEF Next
  <1> HIDE DEF Told
  <1>4. Spec => []Told
    BY <1>1, <1>2, Invariance, PTL DEF Spec
  <1> QED BY <1>3, <1>4, Invariance, PTL DEF Spec, ReadyIsMerged
=============================================================================
