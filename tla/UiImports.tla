------------------------------ MODULE UiImports ------------------------------
(***************************************************************************)
(* The two imports of the UI: a profile (from a URL, a scanned code or a   *)
(* file) and a list of rules.  Both prepare on a Tokio task that can be    *)
(* abandoned, then cross a commit boundary that cannot, and come back to   *)
(* the UI thread for each half.                                            *)
(*                                                                         *)
(* A profile import belongs to the root: a generation counter tells its    *)
(* requests apart and a watch channel cancels the preparation.  A rule     *)
(* import is prepared by a query of the resources page, is told apart by   *)
(* nothing, and commits through the root.  A profile change bumps the      *)
(* revision of the configuration, which stands for both of what the page   *)
(* compares.  VpnReceipts has the VPN operation in full.                   *)
(***************************************************************************)
EXTENDS Naturals, Sequences

CONSTANTS
    None,        \* Option::None, and no VPN operation
    Other,       \* a VPN operation that no import began
    Unconfirmed, \* a VPN operation whose outcome is not known
    MaxImports,  \* bound on imports
    MaxEdits,    \* bound on other changes of the configuration
    MaxCancels,  \* bound on cancelled profile imports
    MaxLeaves,   \* bound on visits of the resources page that end
    MaxRoots,    \* bound on UI roots after the first
    MaxOthers,   \* bound on other VPN operations
    Kinds        \* the kinds of import that are started

ConstantsOK ==
    /\ {MaxImports, MaxEdits, MaxCancels, MaxLeaves, MaxRoots, MaxOthers} \subseteq Nat
    /\ Kinds \subseteq {"profile", "rules"}
    /\ {None, Other, Unconfirmed} \cap Nat = {}

VARIABLES
    generation,  \* profile_import_generation of the root
    sender,      \* profile_import_cancel: the job it cancels
    feedback,    \* the profile import of the operation stores
    ruleLoading, \* rule_import_loading
    page,        \* the resources page that is shown
    root,        \* the UI root that is mounted
    jobs,        \* every import that was started
    config,      \* the revision of the configuration in Core
    shown,       \* the revision the settings store shows
    vpn,         \* the VPN operation of the root
    early,       \* jobs abandoned before their commit (history)
    left         \* what is left of the bounds

vars == <<generation, sender, feedback, ruleLoading, page, root, jobs, config,
          shown, vpn, early, left>>

Jobs == DOMAIN jobs

\* A job is preparing, has a result for the UI thread, is committing, has
\* the result of the commit for the UI thread, or is over.
Prepared == {"ready", "nothing", "failed"}
Ended == {"landed", "rejected"}
Phases == {"spawned", "preparing", "committing", "over"} \cup Prepared \cup Ended

TypeOK ==
    /\ generation \in Nat
    /\ sender \in Jobs \cup {None}
    /\ feedback \in [loading : BOOLEAN, error : BOOLEAN, succeeded : BOOLEAN]
    /\ ruleLoading \in BOOLEAN
    /\ page \in 0..MaxLeaves + MaxRoots /\ root \in 0..MaxRoots
    /\ jobs \in Seq([kind : Kinds, root : 0..MaxRoots, id : Nat, phase : Phases,
                     cancelled : BOOLEAN, base : Nat, owner : BOOLEAN,
                     rev : Nat])
    /\ config \in Nat /\ shown \in 0..config
    /\ vpn \in Jobs \cup {None, Other, Unconfirmed}
    /\ early \subseteq Jobs
    /\ left \in [imports : 0..MaxImports, edits : 0..MaxEdits,
                 cancels : 0..MaxCancels, leaves : 0..MaxLeaves,
                 roots : 0..MaxRoots, others : 0..MaxOthers]

Spend(bound) == left[bound] > 0 /\ left' = [left EXCEPT ![bound] = @ - 1]

Blank == [loading |-> FALSE, error |-> FALSE, succeeded |-> FALSE]

Init ==
    /\ generation = 0 /\ sender = None /\ feedback = Blank
    /\ ruleLoading = FALSE /\ page = 0 /\ root = 0
    /\ jobs = <<>> /\ config = 0 /\ shown = 0 /\ vpn = None /\ early = {}
    /\ left = [imports |-> MaxImports, edits |-> MaxEdits,
               cancels |-> MaxCancels, leaves |-> MaxLeaves,
               roots |-> MaxRoots, others |-> MaxOthers]

-----------------------------------------------------------------------------
(* The profile import.                                                     *)

InPreparation(j) == jobs[j].phase \in {"spawned", "preparing"} \cup Prepared

\* Mutant: queue_ui delivers the callbacks of any root.
AliveAlways(j) == j \in Jobs

\* queue_ui discards the callbacks of a root that was replaced.
Alive(j) == jobs[j].root = root

\* profile_import_is_current
IsCurrent(j) == jobs[j].id = generation

\* The watch channel tells the preparation whose sender it is.
Cancelled == IF sender = None THEN jobs
             ELSE [jobs EXCEPT ![sender].cancelled = TRUE]

\* The current import, unless its commit has begun.
Abandoned == {j \in Jobs : jobs[j].kind = "profile" /\ Alive(j) /\ IsCurrent(j)
                             /\ InPreparation(j)}

\* start_profile_import: begin_profile_import cancels first, which takes the
\* generation one further.  The VPN session is connected and its owner is
\* noted.
StartProfileImport ==
    /\ "profile" \in Kinds
    /\ Spend("imports")
    /\ ~feedback.loading
    /\ generation' = generation + 2
    /\ jobs' = Append(Cancelled,
                      [kind |-> "profile", root |-> root, id |-> generation + 2,
                       phase |-> "spawned", cancelled |-> FALSE, base |-> 0,
                       owner |-> TRUE, rev |-> 0])
    /\ sender' = Len(jobs) + 1
    /\ feedback' = [Blank EXCEPT !.loading = TRUE]
    /\ early' = early \cup Abandoned
    /\ UNCHANGED <<ruleLoading, page, root, config, shown, vpn>>

\* import_profile_from_url without a URL.
EmptyUrl ==
    /\ "profile" \in Kinds
    /\ feedback' = [feedback EXCEPT !.succeeded = FALSE, !.error = TRUE]
    /\ UNCHANGED <<generation, sender, ruleLoading, page, root, jobs, config,
                   shown, vpn, early, left>>

ResetFeedback ==
    /\ feedback' = [feedback EXCEPT !.error = FALSE, !.succeeded = FALSE]
    /\ UNCHANGED <<generation, sender, ruleLoading, page, root, jobs, config,
                   shown, vpn, early, left>>

\* cancel_profile_import: the dialog is closed.
CancelProfileImport ==
    /\ Spend("cancels")
    /\ generation' = generation + 1
    /\ jobs' = Cancelled
    /\ sender' = None
    /\ feedback' = Blank
    /\ early' = early \cup Abandoned
    /\ UNCHANGED <<ruleLoading, page, root, config, shown, vpn>>

\* The preparation first reads the revision it will be checked against.
PrepareBegins(j) ==
    /\ jobs[j].kind = "profile" /\ jobs[j].phase = "spawned"
    /\ jobs' = [jobs EXCEPT ![j].phase = "preparing", ![j].base = config]
    /\ UNCHANGED <<generation, sender, feedback, ruleLoading, page, root,
                   config, shown, vpn, early, left>>

\* The end of run_profile_import_task nobody can prevent: the cancellation,
\* or else the timeout of two minutes.
PrepareGivesUp(j) ==
    /\ jobs[j].kind = "profile" /\ jobs[j].phase = "preparing"
    /\ jobs' = [jobs EXCEPT ![j].phase = IF jobs[j].cancelled THEN "nothing"
                                         ELSE "failed"]
    /\ UNCHANGED <<generation, sender, feedback, ruleLoading, page, root,
                   config, shown, vpn, early, left>>

\* The preparation answers: the scan or the file dialog was closed, or the
\* profile was downloaded and parsed, or that failed.
Prepares(j) ==
    /\ jobs[j].phase = "preparing"
    /\ ~jobs[j].cancelled
    /\ \E phase \in Prepared : jobs' = [jobs EXCEPT ![j].phase = phase]
    /\ UNCHANGED <<generation, sender, feedback, ruleLoading, page, root,
                   config, shown, vpn, early, left>>

\* begin_owned_vpn_operation: the commit goes on without the restart when
\* another operation is active.
BeginOwned(j) == IF jobs[j].owner /\ vpn = None THEN j ELSE vpn

\* finish_vpn_followup, and finish_vpn_failure of a commit that failed.
FinishFollowup(j) ==
    IF vpn # j THEN {vpn}
    ELSE IF jobs[j].phase = "landed" THEN {None, Unconfirmed} ELSE {None}

\* The result of the preparation on the UI thread: ignored unless current;
\* a prepared profile is committed; otherwise finish_profile_import.
PreparedOnUi(j) ==
    /\ jobs[j].kind = "profile" /\ jobs[j].phase \in Prepared
    /\ LET current == Alive(j) /\ IsCurrent(j)
           commits == current /\ jobs[j].phase = "ready"
       IN  /\ jobs' = [jobs EXCEPT ![j].phase = IF commits THEN "committing" ELSE "over"]
           /\ vpn' = IF commits THEN BeginOwned(j) ELSE vpn
           /\ IF current /\ ~commits
              THEN /\ sender' = None
                   /\ feedback' = IF jobs[j].phase = "failed"
                                  THEN [Blank EXCEPT !.error = TRUE]
                                  ELSE [feedback EXCEPT !.loading = FALSE]
              ELSE UNCHANGED <<sender, feedback>>
    /\ UNCHANGED <<generation, ruleLoading, page, root, config, shown, early,
                   left>>

\* The commit in Core, checked against the revision of the preparation, and
\* the restart of the VPN behind it.
Commits(j) ==
    /\ jobs[j].phase = "committing"
    /\ \/ /\ jobs[j].base = config
          /\ config' = config + 1
          /\ jobs' = [jobs EXCEPT ![j].phase = "landed", ![j].rev = config + 1]
       \/ /\ jobs' = [jobs EXCEPT ![j].phase = "rejected"]
          /\ UNCHANGED config
    /\ UNCHANGED <<generation, sender, feedback, ruleLoading, page, root,
                   shown, vpn, early, left>>

Larger(a, b) == IF a < b THEN b ELSE a

\* What the store shows after a callback: the end of the VPN operation
\* refreshes it, otherwise the projection of the commit is applied.
ShownAfter(j, applies) ==
    IF vpn = j /\ vpn' = None THEN config
    ELSE IF applies THEN Larger(shown, jobs[j].rev) ELSE shown

\* The result of the commit on the UI thread: the VPN operation ends in any
\* case, the rest is for the current import.
CommittedOnUi(j) ==
    /\ jobs[j].kind = "profile" /\ jobs[j].phase \in Ended
    /\ jobs' = [jobs EXCEPT ![j].phase = "over"]
    /\ vpn' \in IF Alive(j) THEN FinishFollowup(j) ELSE {vpn}
    /\ IF Alive(j) /\ IsCurrent(j)
       THEN /\ sender' = None
            /\ feedback' = [Blank EXCEPT !.succeeded = jobs[j].phase = "landed",
                                         !.error = jobs[j].phase = "rejected"]
       ELSE UNCHANGED <<sender, feedback>>
    /\ shown' = ShownAfter(j, Alive(j) /\ IsCurrent(j))
    /\ UNCHANGED <<generation, ruleLoading, page, root, config, early, left>>

-----------------------------------------------------------------------------
(* The rule import of the resources page.                                  *)

\* import_rules: the revision and the owner are those of the stores.  The
\* job's id is the page that queries.
ImportRules ==
    /\ "rules" \in Kinds
    /\ Spend("imports")
    /\ ~ruleLoading
    /\ ruleLoading' = TRUE
    /\ jobs' = Append(jobs,
                      [kind |-> "rules", root |-> root, id |-> page,
                       phase |-> "preparing", cancelled |-> FALSE,
                       base |-> shown, owner |-> TRUE, rev |-> 0])
    /\ UNCHANGED <<generation, sender, feedback, page, root, config, shown,
                   vpn, early>>

\* The file is picked and parsed, and the page is still there: it commits
\* unless the configuration that is shown has changed.
RulesPicked(j) ==
    /\ jobs[j].kind = "rules" /\ jobs[j].phase \in Prepared
    /\ LET commits == jobs[j].phase = "ready" /\ jobs[j].base = shown
       IN  /\ jobs' = [jobs EXCEPT ![j].phase = IF commits THEN "committing" ELSE "over"]
           /\ vpn' = IF commits THEN BeginOwned(j) ELSE vpn
           /\ ruleLoading' = (ruleLoading /\ commits)
    /\ UNCHANGED <<generation, sender, feedback, page, root, config, shown,
                   early, left>>

\* The result of the commit, which the root and not the page waits for.
RulesCommitted(j) ==
    /\ jobs[j].kind = "rules" /\ jobs[j].phase \in Ended
    /\ jobs' = [jobs EXCEPT ![j].phase = "over"]
    /\ IF Alive(j)
       THEN /\ ruleLoading' = FALSE
            /\ vpn' \in FinishFollowup(j)
            /\ shown' = ShownAfter(j, TRUE)
       ELSE UNCHANGED <<ruleLoading, shown, vpn>>
    /\ UNCHANGED <<generation, sender, feedback, page, root, config, early, left>>

\* The queries of a page that is disposed of are aborted, and their results
\* are not delivered.
WithoutQueries(all) ==
    [j \in DOMAIN all |->
       IF all[j].kind = "rules" /\ all[j].phase \in {"preparing"} \cup Prepared
       THEN [all[j] EXCEPT !.phase = "over"] ELSE all[j]]

\* The resources page is left (use_drop of use_page_tasks and of the page)
\* and another one is shown.
LeavePage ==
    /\ Spend("leaves")
    /\ page' = page + 1
    /\ jobs' = WithoutQueries(jobs)
    /\ ruleLoading' = FALSE
    /\ UNCHANGED <<generation, sender, feedback, root, config, shown, vpn, early>>

-----------------------------------------------------------------------------
(* The root, the configuration and other VPN operations.                   *)

\* The root is unmounted, which cancels the profile import, and a new one is
\* mounted with counters and stores of its own.
ReplaceRoot ==
    /\ Spend("roots")
    /\ root' = root + 1
    /\ page' = page + 1
    /\ jobs' = WithoutQueries(Cancelled)
    /\ generation' = 0 /\ sender' = None /\ feedback' = Blank
    /\ ruleLoading' = FALSE /\ vpn' = None
    /\ shown' = config
    /\ early' = early \cup Abandoned
    /\ UNCHANGED config

\* Another operation of the UI, a refresh of a subscription, ...
EditConfig ==
    /\ Spend("edits")
    /\ config' = config + 1
    /\ UNCHANGED <<generation, sender, feedback, ruleLoading, page, root, jobs,
                   shown, vpn, early>>

\* The projection provider (UiProjections).
ShowConfig ==
    /\ shown # config
    /\ shown' = config
    /\ UNCHANGED <<generation, sender, feedback, ruleLoading, page, root, jobs,
                   config, vpn, early, left>>

OtherBegins ==
    /\ Spend("others")
    /\ vpn = None
    /\ vpn' = Other
    /\ UNCHANGED <<generation, sender, feedback, ruleLoading, page, root, jobs,
                   config, shown, early>>

\* Another operation ends, or an unconfirmed one is resolved.
OtherEnds ==
    /\ vpn \in {Other, Unconfirmed}
    /\ vpn' = None
    /\ UNCHANGED <<generation, sender, feedback, ruleLoading, page, root, jobs,
                   config, shown, early, left>>

-----------------------------------------------------------------------------
Next ==
    \/ StartProfileImport \/ EmptyUrl \/ ResetFeedback \/ CancelProfileImport
    \/ ImportRules \/ LeavePage
    \/ ReplaceRoot \/ EditConfig \/ ShowConfig \/ OtherBegins \/ OtherEnds
    \/ \E j \in Jobs :
         \/ PrepareBegins(j) \/ Prepares(j) \/ PrepareGivesUp(j)
         \/ PreparedOnUi(j) \/ Commits(j) \/ CommittedOnUi(j)
         \/ RulesPicked(j) \/ RulesCommitted(j)

Spec == Init /\ [][Next]_vars

\* Spawned tasks run, timers fire, commits end (ConfigTransaction) and the
\* UI thread runs what was queued.  A preparation may never answer.
Fair(n) ==
    n = 1 /\ \E j \in Jobs : \/ PrepareBegins(j) \/ PrepareGivesUp(j) \/ PreparedOnUi(j)
                            \/ Commits(j) \/ CommittedOnUi(j)

FairSpec == Spec /\ WF_vars(Fair(1))

-----------------------------------------------------------------------------
(* Properties.                                                             *)

InFlight(j) == jobs[j].phase # "over"

\* The dialog shows an import as loading exactly while the request of the
\* current generation is under way: results of superseded requests and of
\* other roots, whose counters start again, never end a newer request, and a
\* request never ends without the dialog.
LoadingIsCurrent ==
    feedback.loading
      <=> \E j \in Jobs : /\ jobs[j].kind = "profile" /\ Alive(j)
                          /\ IsCurrent(j) /\ InFlight(j)

\* An import the user gave up before its commit began never changes the
\* configuration, however far its preparation had come.
GivenUpNeverLands ==
    \A j \in early : jobs[j].phase \notin {"committing"} \cup Ended

\* A VPN operation an import began has that import to end it, also when the
\* import was cancelled or superseded during the commit.
OperationHasImport ==
    vpn \in Jobs => jobs[vpn].phase \in {"committing"} \cup Ended

\* An import that hangs, is cancelled or fails ends: the dialog does not load
\* for ever.
LoadingEnds == []<>~feedback.loading

\* An import of the page that is shown.
OurRules(j) == /\ jobs[j].kind = "rules" /\ Alive(j)
               /\ jobs[j].id = page /\ InFlight(j)

\* The button of the resources page is never left disabled with no import of
\* that page under way, whatever ends the import: no file, a file that does
\* not parse, a configuration that changed, a commit, or leaving the page.
RuleLoadingHasImport == ruleLoading => \E j \in Jobs : OurRules(j)

\* While an import of the page that is shown is under way, the button is
\* disabled: the callback of a commit whose page was left does not touch the
\* page.  (The comment of PageTasks.)
\* It does not hold: see the observations in the README.
RuleImportShowsLoading == (\E j \in Jobs : OurRules(j)) => ruleLoading
=============================================================================
