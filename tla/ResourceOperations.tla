------------------------- MODULE ResourceOperations -------------------------
(***************************************************************************)
(* Operations of Core on proxies and providers: delay tests of a proxy and *)
(* of a group, health checks of a provider, refreshes of one or of all     *)
(* providers.  Each takes a number for its key and the config_revision     *)
(* under the lock of the state, waits for an answer without the lock, and  *)
(* may record the outcome only if its number is still the newest one of    *)
(* the key and the configuration is still the one it began with.  A rule   *)
(* provider that was refreshed, and any provider while no controller runs, *)
(* reloads the profile that was active when the refresh began.  What is    *)
(* published to the UI with each outcome is left out.                      *)
(***************************************************************************)
EXTENDS Naturals

CONSTANTS
    None,
    Tasks,            \* callers of the operations
    Nodes,            \* proxies, all of them members of the one group
    Providers,
    InlineProviders,  \* those of them that are written in the profile
    RuleProviders,    \* those of them that give rules and not proxies
    Profiles,
    MaxCalls,         \* bound on calls
    MaxCommits,       \* bound on other configuration transactions
    MaxTurns          \* bound on changes of what serves the requests

ConstantsOK ==
    /\ {MaxCalls, MaxCommits, MaxTurns} \subseteq Nat
    /\ InlineProviders \cup RuleProviders \subseteq Providers
    /\ None \notin Tasks \cup Profiles

VARIABLES
    config_revision,
    active,       \* the active profile
    sequences,    \* resource_operation_sequences
    provider_refresh,
    saved,        \* what is saved of each profile about the group
    controller,   \* whether an api_controller runs
    system,       \* whether an external engine runs the VPN
    locked,       \* config_reload_lock: its holder or None
    task,
    shown,        \* history: the operation whose outcome was recorded last
    left          \* what is left of the bounds

resources == <<sequences, provider_refresh, shown>>
config == <<config_revision, active, saved, locked>>
serving == <<controller, system>>
vars == <<config, resources, serving, task, left>>

Keys == ({"delay"} \X Nodes) \cup ({"group"} \X {"all"})
            \cup ({"health", "member", "provider"} \X Providers)
Operations == [key : Keys, seq : Nat \ {0}, rev : Nat]
Asking == {"system", "asking", "local", "probing", "askingGroup", "checking",
           "checkingMember", "inline", "unserved", "putting"}
Reloads == {"reload", "waiting", "reloading"}
\* What a task goes on with after an operation: a group test, a refresh of all.
Batches == {"members", "all"}
Places == {"idle"} \cup Batches \cup Asking \cup Reloads

Idle == [at |-> "idle", op |-> None, outer |-> None, batch |-> "idle", todo |-> {},
         profile |-> None, seen |-> 0, from |-> 0]

TypeOK ==
    /\ config_revision \in Nat
    /\ active \in Profiles /\ saved \in [Profiles -> {"pinned", "auto"}]
    /\ sequences \in [Keys -> Nat]
    /\ provider_refresh \in [Providers -> {"none", "done", "error"}]
    /\ controller \in BOOLEAN /\ system \in BOOLEAN
    /\ locked \in Tasks \cup {None}
    /\ task \in [Tasks -> [at : Places, op : Operations \cup {None},
                           outer : Operations \cup {None},
                           batch : Batches \cup {"idle"},
                           todo : SUBSET (Nodes \cup Providers),
                           profile : Profiles \cup {None}, seen : Nat, from : Nat]]
    /\ shown \in [Keys -> [seq : Nat, rev : Nat]]
    /\ left \in [{"calls", "commits", "turns"} -> Nat]

Init ==
    /\ config_revision = 0
    /\ active \in Profiles /\ saved = [p \in Profiles |-> "pinned"]
    /\ sequences = [k \in Keys |-> 0]
    /\ provider_refresh = [p \in Providers |-> "none"]
    /\ controller \in BOOLEAN /\ system \in BOOLEAN
    /\ locked = None
    /\ task = [t \in Tasks |-> Idle]
    /\ shown = [k \in Keys |-> [seq |-> 0, rev |-> 0]]
    /\ left = [calls |-> MaxCalls, commits |-> MaxCommits, turns |-> MaxTurns]

Spend(bound) == left[bound] > 0 /\ left' = [left EXCEPT ![bound] = @ - 1]

-----------------------------------------------------------------------------
(* What the operations share.                                              *)

\* begin_resource_operation_locked
Taken(k) == [key |-> k, seq |-> sequences[k] + 1, rev |-> config_revision]
Count(k) == sequences' = [sequences EXCEPT ![k] = @ + 1]

\* ensure_resource_operation_current_locked
Current(op) == op.rev = config_revision /\ op.seq = sequences[op.key]

At(t, place) == task[t].at = place
Move(t, place) == task' = [task EXCEPT ![t].at = place]

\* The operation of t ends; a group test or a refresh of all goes on.
Ended(k) == IF k.batch = "idle" THEN Idle
            ELSE [k EXCEPT !.at = k.batch, !.op = None, !.profile = None]
End(t) == task' = [task EXCEPT ![t] = Ended(@)]

Begin(t, k, place) ==
    /\ Count(k)
    /\ task' = [task EXCEPT ![t] = [@ EXCEPT !.at = place, !.op = Taken(k),
                                             !.profile = active]]

\* The outcome is in the groups or the providers that are shown.
Record(op) ==
    shown' = [shown EXCEPT ![op.key] = [seq |-> op.seq, rev |-> op.rev]]

\* An answer is recorded, or belongs to an operation that is out of date.
Answer(t) ==
    /\ IF Current(task[t].op) THEN Record(task[t].op) ELSE UNCHANGED shown
    /\ UNCHANGED <<sequences, provider_refresh>>

NoAnswer(t) == End(t) /\ UNCHANGED <<config, resources, serving, left>>

-----------------------------------------------------------------------------
(* test_proxy_delay_via_controller and test_proxy_delay.                   *)

StartDelayTest(t, n) ==
    /\ At(t, "idle") /\ Spend("calls")
    /\ Begin(t, <<"delay", n>>, IF system THEN "system"
                                ELSE IF controller THEN "asking" ELSE "local")
    /\ UNCHANGED <<config, serving, provider_refresh, shown>>

\* Through an external engine a request that fails says nothing of the proxy.
SystemProbeAnswers(t) ==
    /\ At(t, "system")
    /\ \/ NoAnswer(t)
       \/ Answer(t) /\ End(t) /\ UNCHANGED <<config, serving, left>>

\* An answer without a delay is an error.
ControllerAnswersDelay(t) ==
    /\ At(t, "asking")
    /\ \/ NoAnswer(t)
       \/ Answer(t) /\ End(t) /\ UNCHANGED <<config, serving, left>>

\* It refuses, is gone or takes too long: the proxy is probed from here.
ControllerRefusesDelay(t) ==
    /\ At(t, "asking")
    /\ Move(t, "local")
    /\ UNCHANGED <<config, resources, serving, left>>

\* A probe is an operation of its own: it takes the next number of the key.
StartProbe(t) ==
    /\ At(t, "local")
    /\ Begin(t, task[t].op.key, "probing")
    /\ UNCHANGED <<config, serving, provider_refresh, shown, left>>

\* A delay, a failure and a timeout are all outcomes.
ProbeAnswers(t) ==
    /\ At(t, "probing")
    /\ Answer(t) /\ End(t)
    /\ UNCHANGED <<config, serving, left>>

-----------------------------------------------------------------------------
(* test_proxy_group_via_controller                                         *)

StartGroupTest(t) ==
    /\ At(t, "idle") /\ Spend("calls")
    /\ Begin(t, <<"group", "all">>, "askingGroup")
    /\ UNCHANGED <<config, serving, provider_refresh, shown>>

\* The test gives an automatic group back its choice; if the group is then
\* found free, that is saved for the active profile, which is a change of the
\* configuration.
ControllerAnswersGroup(t) ==
    /\ At(t, "askingGroup")
    /\ Answer(t) /\ End(t)
    /\ \/ UNCHANGED <<saved, config_revision>>
       \/ /\ Current(task[t].op)
          /\ saved' = [saved EXCEPT ![active] = "auto"]
          /\ config_revision' = config_revision + 1
    /\ UNCHANGED <<active, locked, serving, left>>

\* A response that cannot be read, or a profile that cannot be saved.
GroupTestFails(t) == At(t, "askingGroup") /\ NoAnswer(t)

\* No controller, or one that refuses: the members are tested one by one.
TestMembers(t) ==
    /\ At(t, "askingGroup")
    /\ task' = [task EXCEPT ![t] = [@ EXCEPT !.at = "members", !.batch = "members",
                                             !.outer = task[t].op, !.op = None,
                                             !.todo = Nodes]]
    /\ UNCHANGED <<config, resources, serving, left>>

TestMember(t, n) ==
    /\ At(t, "members") /\ n \in task[t].todo
    /\ Count(<<"delay", n>>)
    /\ task' = [task EXCEPT ![t] = [@ EXCEPT !.at = "probing", !.op = Taken(<<"delay", n>>),
                                             !.todo = task[t].todo \ {n}]]
    /\ UNCHANGED <<config, serving, provider_refresh, shown, left>>

\* The delays are returned or refused as out of date; nothing is recorded.
EndGroupTest(t) ==
    /\ At(t, "members") /\ task[t].todo = {}
    /\ task' = [task EXCEPT ![t] = Idle]
    /\ UNCHANGED <<config, resources, serving, left>>

-----------------------------------------------------------------------------
(* healthcheck_proxy_provider_ and healthcheck_provider_proxy_via_controller *)

StartHealthCheck(t, p) ==
    /\ At(t, "idle") /\ Spend("calls")
    /\ IF controller THEN Begin(t, <<"health", p>>, "checking")
       ELSE Count(<<"health", p>>) /\ UNCHANGED task
    /\ UNCHANGED <<config, serving, provider_refresh, shown>>

ProviderIsHealthChecked(t) ==
    /\ At(t, "checking")
    /\ \/ NoAnswer(t)
       \/ Answer(t) /\ End(t) /\ UNCHANGED <<config, serving, left>>

StartMemberCheck(t, p) ==
    /\ At(t, "idle") /\ Spend("calls")
    /\ IF controller THEN Begin(t, <<"member", p>>, "checkingMember")
       ELSE Count(<<"member", p>>) /\ UNCHANGED task
    /\ UNCHANGED <<config, serving, provider_refresh, shown>>

\* That the controller says no is an outcome, too.
MemberIsHealthChecked(t) ==
    /\ At(t, "checkingMember")
    /\ \/ NoAnswer(t)
       \/ Answer(t) /\ End(t) /\ UNCHANGED <<config, serving, left>>

-----------------------------------------------------------------------------
(* refresh_provider_with_type and refresh_all_providers.  A caller that    *)
(* names a resource_revision which is not the current one is refused.      *)

Refresh(t, p, todo, batch) ==
    LET k == <<"provider", p>>
        place == IF p \in InlineProviders THEN "inline"
                 ELSE IF controller THEN "putting" ELSE "unserved" IN
    /\ Count(k)
    /\ task' = [task EXCEPT ![t] = [@ EXCEPT !.at = place, !.op = Taken(k), !.todo = todo,
                                             !.batch = batch, !.profile = active]]
    /\ UNCHANGED <<config, serving, provider_refresh, shown>>

StartRefresh(t, p) == At(t, "idle") /\ Spend("calls") /\ Refresh(t, p, {}, "idle")

StartRefreshAll(t) ==
    /\ At(t, "idle") /\ Spend("calls")
    /\ task' = [task EXCEPT ![t] = [@ EXCEPT !.at = "all", !.batch = "all",
                                             !.todo = Providers \ InlineProviders]]
    /\ UNCHANGED <<config, resources, serving>>

RefreshNext(t, p) ==
    /\ At(t, "all") /\ p \in task[t].todo
    /\ Refresh(t, p, task[t].todo \ {p}, "all")
    /\ UNCHANGED left

EndRefreshAll(t) ==
    /\ At(t, "all") /\ task[t].todo = {}
    /\ task' = [task EXCEPT ![t] = Idle]
    /\ UNCHANGED <<config, resources, serving, left>>

\* mark_provider_refresh for the operation of t, which is current.
Mark(t, result) ==
    /\ provider_refresh' = [provider_refresh EXCEPT ![task[t].op.key[2]] = result]
    /\ Record(task[t].op)
    /\ UNCHANGED sequences

OutOfDate(t) == ~Current(task[t].op) /\ NoAnswer(t)

InlineIsRefused(t) ==
    /\ At(t, "inline")
    /\ \/ OutOfDate(t)
       \/ /\ Current(task[t].op) /\ Mark(t, "error") /\ End(t)
          /\ UNCHANGED <<config, serving, left>>

\* Without a controller the profile is reloaded.
RefreshByReload(t) ==
    /\ At(t, "unserved")
    /\ \/ OutOfDate(t)
       \/ /\ Current(task[t].op) /\ Move(t, "reload")
          /\ UNCHANGED <<config, resources, serving, left>>

ControllerRefreshes(t) ==
    /\ At(t, "putting")
    /\ \/ OutOfDate(t)
       \/ /\ Current(task[t].op) /\ Mark(t, "done")
          /\ IF task[t].op.key[2] \in RuleProviders THEN Move(t, "reload") ELSE End(t)
          /\ UNCHANGED <<config, serving, left>>

ControllerRefusesRefresh(t) ==
    /\ At(t, "putting")
    /\ \/ OutOfDate(t)
       \/ /\ Current(task[t].op) /\ Mark(t, "error") /\ End(t)
          /\ UNCHANGED <<config, serving, left>>

-----------------------------------------------------------------------------
(* reload_config: it reads the revision that it then insists on.           *)

ReadRevision(t) ==
    /\ At(t, "reload")
    /\ task' = [task EXCEPT ![t] = [@ EXCEPT !.at = "waiting", !.seen = config_revision]]
    /\ UNCHANGED <<config, resources, serving, left>>

TakeLock(t) ==
    /\ At(t, "waiting") /\ locked = None
    /\ IF task[t].seen = config_revision
       THEN /\ locked' = t
            /\ task' = [task EXCEPT ![t] = [@ EXCEPT !.at = "reloading",
                                                     !.from = config_revision]]
       ELSE End(t) /\ UNCHANGED locked
    /\ UNCHANGED <<config_revision, active, saved, resources, serving, left>>

Reload(t) ==
    /\ At(t, "reloading") /\ task[t].from = config_revision
    /\ active' = task[t].profile
    /\ config_revision' = IF task[t].profile = active THEN config_revision
                          ELSE config_revision + 1
    /\ locked' = None /\ End(t)
    /\ UNCHANGED <<saved, sequences, provider_refresh, shown, serving, left>>

\* It fails, also because the revision has changed; the previous profile is
\* loaded again.
ReloadFails(t) ==
    /\ At(t, "reloading")
    /\ locked' = None /\ End(t)
    /\ UNCHANGED <<config_revision, active, saved, sequences, provider_refresh, shown,
                   serving, left>>

-----------------------------------------------------------------------------
(* What goes on beside the operations.                                     *)

\* A configuration transaction of another caller.
Commit(p) ==
    /\ Spend("commits") /\ locked = None
    /\ active' = p
    /\ config_revision' = config_revision + 1
    /\ UNCHANGED <<saved, locked, sequences, provider_refresh, shown, serving, task>>

\* A controller, or the VPN of an external engine, starts or stops.
ServingChanges ==
    /\ Spend("turns")
    /\ \/ controller' = ~controller /\ UNCHANGED system
       \/ system' = ~system /\ UNCHANGED controller
    /\ UNCHANGED <<config, resources, task>>

Step(t) ==
    \/ \E n \in Nodes : StartDelayTest(t, n) \/ TestMember(t, n)
    \/ SystemProbeAnswers(t) \/ ControllerAnswersDelay(t) \/ ControllerRefusesDelay(t)
    \/ StartProbe(t) \/ ProbeAnswers(t)
    \/ StartGroupTest(t) \/ ControllerAnswersGroup(t) \/ GroupTestFails(t)
    \/ TestMembers(t) \/ EndGroupTest(t)
    \/ \E p \in Providers : \/ StartHealthCheck(t, p) \/ StartMemberCheck(t, p)
                            \/ StartRefresh(t, p) \/ RefreshNext(t, p)
    \/ ProviderIsHealthChecked(t) \/ MemberIsHealthChecked(t)
    \/ StartRefreshAll(t) \/ EndRefreshAll(t)
    \/ InlineIsRefused(t) \/ RefreshByReload(t)
    \/ ControllerRefreshes(t) \/ ControllerRefusesRefresh(t)
    \/ ReadRevision(t) \/ TakeLock(t) \/ Reload(t) \/ ReloadFails(t)

Next ==
    \/ \E t \in Tasks : Step(t)
    \/ \E p \in Profiles : Commit(p)
    \/ ServingChanges

Spec == Init /\ [][Next]_vars

-----------------------------------------------------------------------------
\* What is recorded of a proxy, a group or a provider never goes back to an
\* operation that began earlier or under an older configuration, and no
\* operation is recorded twice (ensure_resource_operation_current_locked).
NewestIsShown ==
    \A k \in Keys : shown'[k] # shown[k] =>
        /\ shown'[k].seq > shown[k].seq /\ shown'[k].seq = sequences[k]
        /\ shown'[k].rev = config_revision

\* A refresh does not undo a change of the profile: its reload activates
\* another profile only if that one was left after the operation was checked
\* and before reload_config read the revision.
ProfileIsKept ==
    \A t \in Tasks :
        task[t].at = "reloading" /\ task'[t].at # "reloading" /\ active' # active
            => task[t].seen # task[t].op.rev

\* What a group test saves, it saves for the profile that was tested.
TestedProfileIsSaved ==
    \A p \in Profiles : saved'[p] # saved[p] =>
        \E t \in Tasks : task[t].at = "askingGroup" /\ task[t].profile = p

Steps == [][NewestIsShown /\ ProfileIsKept /\ TestedProfileIsSaved]_vars
=============================================================================
