-------------------------- MODULE MCAutomergeGate --------------------------
(* Two commits that may each be the head, and what tells their jobs apart.   *)
EXTENDS AutomergeGate

Ran(name, run, try, event, result) ==
    [run |-> run, attempt |-> try, id |-> 10 * run + try, name |-> name,
     event |-> event, result |-> result]

ci(run, try, result) == Ran("ci", run, try, "pull_request", result)
lint == Ran("lint", 2, 1, "pull_request", "success")

(* Failed, and run again with success beside a push run that failed; passed,  *)
(* with a second run that has no such job; both of them at it again, or only   *)
(* the second, which now fails the check too.                                 *)
failed == ci(1, 1, "failure")
rerun == {failed, ci(1, 2, "success"), Ran("ci", 3, 1, "push", "failure")}
two == {ci(1, 1, "success"), lint}
MCJobs ==
    { {failed}, rerun, two,
      two \cup {ci(1, 2, "success"), ci(2, 2, "in_progress")},
      two \cup {ci(2, 2, "failure")} }

(* One commit of each kind against a plain one, and each filter; Dependabot, *)
(* a dry run and a commit that a security run exists for, once each.         *)
MCSettings ==
    LET setting(dependabot, filter, class, runs, dry) ==
            [dependabot |-> dependabot, filter |-> filter, dry |-> dry, runs |-> runs,
             files |-> [h \in Commits |-> IF h = "h1" THEN class ELSE "plain"]]
    IN {setting(FALSE, f, "plain", {}, FALSE) : f \in {"absent", "all"}}
         \cup {setting(FALSE, "paths", c, {}, FALSE) : c \in {"matching", "surface", "huge"}}
         \cup {setting(FALSE, f, "plain", {"h1"}, FALSE) : f \in {"absent", "paths"}}
         \cup {setting(FALSE, "absent", "plain", {}, TRUE), setting(TRUE, "paths", "plain", {}, FALSE)}

(* What the agents of a pull request have said of its first head so far. *)
MCInit ==
    /\ Init
    /\ head = "h1" /\ jobs["h1"] \in {rerun, two} /\ jobs["h2"] = {failed}
    /\ armed /\ base = "default" /\ title = "patch"
    /\ \A k \in Agents : review[k].commit \in {"h1", "none"}
    /\ review["code"].state # "CHANGES_REQUESTED"
    /\ IF set.dependabot THEN review["security"] = NoReview ELSE review["dependency"] = NoReview

MCSpec == MCInit /\ [][Next]_vars /\ WF_vars(Start) /\ WF_vars(GateStep)
=============================================================================
