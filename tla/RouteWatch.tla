----------------------------- MODULE RouteWatch -----------------------------
(***************************************************************************)
(* Service-aware recovery: once a minute the process of the VPN probes a   *)
(* service through a group, and after two failures tries at most three     *)
(* other members and selects the first one that answers.  The user selects *)
(* members in the process of the UI.  Each process tells the other what it *)
(* has selected through a control that bears a time, and follows a control *)
(* that is newer than what it knows.  How the UI's own choice is made is   *)
(* the subject of ProxySelection; here it happens at once.                 *)
(***************************************************************************)
EXTENDS Naturals, FiniteSets

CONSTANTS
    None,
    Nodes,        \* members of the group
    Leaves,       \* those of them that are proxies and not groups, DIRECT or REJECT
    Targets,      \* group and URL of a policy
    Cooldown,     \* minutes between two recoveries
    MaxTicks,     \* bound on minutes
    MaxChoices,   \* bound on choices of the user
    MaxPolicies,  \* bound on policies saved
    MaxCommits,   \* bound on configuration transactions in the process of the VPN
    MaxSessions   \* bound on starts and stops of the VPN

ConstantsOK ==
    /\ {Cooldown, MaxTicks, MaxChoices, MaxPolicies, MaxCommits, MaxSessions} \subseteq Nat
    /\ Leaves \subseteq Nodes /\ Nodes # {} /\ Targets # {} /\ IsFiniteSet(Nodes)
    /\ None \notin Nodes

VARIABLES
    policy,   \* service-watch.json
    session,  \* vpn_session_id, and whether the VPN runs
    config_revision,  \* of the process of the VPN
    set,      \* what the group of each process is set to
    control,  \* what each process has told last, and when
    known,    \* platform_vpn_control_updated_at of each process
    clock,
    minute,
    watch,    \* service_watch_loop
    committed,  \* history: a transaction was committed since the round began
    chosen,     \* history: the user's choice was followed since the round began
    crossed,    \* history: a recovery has replaced such a choice
    half,       \* history: the group was set and no control tells so
    left      \* what is left of the bounds

lanes == <<set, control, known, clock>>
history == <<committed, chosen, crossed, half>>
outside == <<policy, session, config_revision>>
vars == <<outside, lanes, minute, watch, history, left>>

Procs == {"ui", "vpn"}
Peer(p) == IF p = "ui" THEN "vpn" ELSE "ui"
Failures == 2      \* failed rounds before a recovery
Candidates == 3    \* members that a recovery tries

Policies == [enabled : BOOLEAN, target : Targets]
Signatures == Targets \X Nat
Places == {"idle", "probe", "next", "try", "policy", "session", "select", "set", "record"}

TypeOK ==
    /\ policy \in Policies
    /\ session \in [id : Nat, running : BOOLEAN]
    /\ config_revision \in Nat
    /\ set \in [Procs -> Nodes]
    /\ control \in [Procs -> [sel : Nodes, time : Nat]]
    /\ known \in [Procs -> Nat]
    /\ clock \in Nat /\ minute \in Nat
    /\ watch \in [at : Places, failures : 0 .. Failures, signature : Signatures \cup {None},
                  switched : Nat \cup {None}, target : Targets \cup {None}, session : Nat,
                  revision : Nat, todo : SUBSET Nodes, candidate : Nodes \cup {None}]
    /\ {committed, chosen, crossed, half} \subseteq BOOLEAN
    /\ left \in [{"choices", "policies", "commits", "sessions"} -> Nat]

Init ==
    /\ policy \in Policies
    /\ session = [id |-> 1, running |-> TRUE] /\ config_revision = 0
    /\ \E n \in Nodes : /\ set = [p \in Procs |-> n]
                        /\ control = [p \in Procs |-> [sel |-> n, time |-> 0]]
    /\ known = [p \in Procs |-> 0] /\ clock = 0 /\ minute = 0
    /\ watch = [at |-> "idle", failures |-> 0, signature |-> None, switched |-> None,
                target |-> None, session |-> 0, revision |-> 0, todo |-> {},
                candidate |-> None]
    /\ committed = FALSE /\ chosen = FALSE /\ crossed = FALSE /\ half = FALSE
    /\ left = [choices |-> MaxChoices, policies |-> MaxPolicies, commits |-> MaxCommits,
               sessions |-> MaxSessions]

Spend(bound) == left[bound] > 0 /\ left' = [left EXCEPT ![bound] = @ - 1]

At(place) == watch.at = place
Rest == [watch EXCEPT !.at = "idle", !.target = None, !.todo = {}, !.candidate = None]
Wait == watch' = Rest

-----------------------------------------------------------------------------
(* The minute: what was counted and the cooldown belong to one policy in   *)
(* one session.                                                            *)

Signature == <<policy.target, session.id>>

Counted == IF watch.signature = Signature THEN watch
           ELSE [watch EXCEPT !.failures = 0, !.switched = None, !.signature = Signature]

\* The timer fires on the minute, or late: five minutes after a switch are or
\* are not over at the fifth.
CoolingDown(k) == k.switched # None /\ minute + 1 <= k.switched + Cooldown
Cooled(k) == k.switched # None => minute + 1 >= k.switched + Cooldown

Minute == minute < MaxTicks /\ minute' = minute + 1

TickOff ==
    /\ At("idle") /\ Minute
    /\ ~policy.enabled \/ ~session.running
    /\ watch' = [Counted EXCEPT !.failures = 0]
    /\ UNCHANGED <<outside, lanes, history, left>>

TickInCooldown ==
    /\ At("idle") /\ Minute
    /\ policy.enabled /\ session.running /\ CoolingDown(Counted)
    /\ watch' = Counted
    /\ UNCHANGED <<outside, lanes, history, left>>

TickProbes ==
    /\ At("idle") /\ Minute
    /\ policy.enabled /\ session.running /\ Cooled(Counted)
    /\ watch' = [Counted EXCEPT !.at = "probe", !.target = policy.target,
                                !.session = session.id, !.revision = config_revision,
                                !.todo = {}, !.candidate = set["vpn"]]
    /\ committed' = FALSE /\ chosen' = FALSE
    /\ UNCHANGED <<outside, lanes, crossed, half, left>>

ServiceAnswers ==
    /\ At("probe")
    /\ watch' = [Rest EXCEPT !.failures = 0]
    /\ UNCHANGED <<outside, lanes, minute, history, left>>

\* The members to be tried are leaves other than the selected one.
ServiceFails ==
    /\ At("probe")
    /\ IF watch.failures + 1 < Failures
       THEN watch' = [Rest EXCEPT !.failures = @ + 1]
       ELSE \E todo \in SUBSET (Leaves \ {watch.candidate}) :
                /\ \/ Cardinality(todo) = Candidates
                   \/ /\ todo = Leaves \ {watch.candidate}
                      /\ Cardinality(todo) < Candidates
                /\ watch' = [watch EXCEPT !.failures = 0, !.at = "next", !.todo = todo,
                                          !.candidate = None]
    /\ UNCHANGED <<outside, lanes, minute, history, left>>

-----------------------------------------------------------------------------
(* The recovery                                                            *)

PolicyStands == policy.enabled /\ policy.target = watch.target
SessionStands == session.running /\ session.id = watch.session

TryNext(n) ==
    /\ At("next") /\ n \in watch.todo
    /\ IF SessionStands /\ config_revision = watch.revision /\ PolicyStands
       THEN watch' = [watch EXCEPT !.at = "try", !.todo = @ \ {n}, !.candidate = n]
       ELSE Wait
    /\ UNCHANGED <<outside, lanes, minute, history, left>>

NoneLeft ==
    /\ At("next") /\ watch.todo = {}
    /\ Wait
    /\ UNCHANGED <<outside, lanes, minute, history, left>>

CandidateAnswers ==
    /\ At("try")
    /\ watch' = [watch EXCEPT !.at = "policy"]
    /\ UNCHANGED <<outside, lanes, minute, history, left>>

CandidateFails ==
    /\ At("try")
    /\ watch' = [watch EXCEPT !.at = "next", !.candidate = None]
    /\ UNCHANGED <<outside, lanes, minute, history, left>>

CheckPolicy ==
    /\ At("policy")
    /\ IF PolicyStands THEN watch' = [watch EXCEPT !.at = "session"] ELSE Wait
    /\ UNCHANGED <<outside, lanes, minute, history, left>>

CheckSession ==
    /\ At("session")
    /\ IF SessionStands THEN watch' = [watch EXCEPT !.at = "select"] ELSE Wait
    /\ UNCHANGED <<outside, lanes, minute, history, left>>

\* select_proxy_at_revision with the revision of the round's snapshot.
Select ==
    /\ At("select")
    /\ IF config_revision = watch.revision THEN watch' = [watch EXCEPT !.at = "set"]
       ELSE Wait
    /\ UNCHANGED <<outside, lanes, minute, history, left>>

SetGroup ==
    /\ At("set")
    /\ set' = [set EXCEPT !["vpn"] = watch.candidate]
    /\ watch' = [watch EXCEPT !.at = "record"]
    /\ crossed' = (crossed \/ chosen)
    /\ half' = TRUE
    /\ UNCHANGED <<outside, control, known, clock, minute, committed, chosen, left>>

\* A control of p, newer than any it has written or followed.
Tell(p, n) ==
    /\ clock' = clock + 1
    /\ control' = [control EXCEPT ![p] = [sel |-> n, time |-> clock + 1]]
    /\ known' = [known EXCEPT ![p] = clock + 1]

\* record_proxy_selection: what is told is what is saved, the candidate.
Recorded ==
    /\ At("record") /\ config_revision = watch.revision
    /\ Tell("vpn", watch.candidate)
    /\ config_revision' = config_revision + 1
    /\ watch' = [Rest EXCEPT !.switched = minute]
    /\ half' = (set["vpn"] # watch.candidate)
    /\ UNCHANGED <<policy, session, set, minute, committed, chosen, crossed, left>>

\* Another transaction holds the lock or has changed the revision, or the
\* profile or the control cannot be written.
RecordFails ==
    /\ At("record")
    /\ Wait
    /\ UNCHANGED <<outside, lanes, minute, history, left>>

-----------------------------------------------------------------------------
(* The two processes                                                       *)

Choose(n) ==
    /\ Spend("choices")
    /\ set' = [set EXCEPT !["ui"] = n]
    /\ Tell("ui", n)
    /\ UNCHANGED <<outside, minute, watch, history>>

\* apply_platform_proxy_selections
Selects(p, told) == set' = [set EXCEPT ![p] = told.sel]

\* sync_platform_vpn_control_locked: the group follows, config_revision stays.
Follow(p) ==
    LET told == control[Peer(p)] IN
    /\ told.time > known[p]
    /\ Selects(p, told)
    /\ known' = [known EXCEPT ![p] = told.time]
    /\ chosen' = (chosen \/ (p = "vpn" /\ told.sel # set["vpn"]))
    /\ half' = (half /\ p = "ui")
    /\ UNCHANGED <<outside, control, clock, minute, watch, committed, crossed, left>>

\* save_service_watch_policy: written beside and renamed.
SavePolicy(new) ==
    /\ Spend("policies")
    /\ policy' = new
    /\ UNCHANGED <<session, config_revision, lanes, minute, watch, history>>

Commit ==
    /\ Spend("commits")
    /\ config_revision' = config_revision + 1
    /\ committed' = TRUE
    /\ UNCHANGED <<policy, session, lanes, minute, watch, chosen, crossed, half>>

SessionChanges ==
    /\ Spend("sessions")
    /\ session' = IF session.running THEN [session EXCEPT !.running = FALSE]
                  ELSE [id |-> session.id + 1, running |-> TRUE]
    /\ UNCHANGED <<policy, config_revision, lanes, minute, watch, history>>

Next ==
    \/ TickOff \/ TickInCooldown \/ TickProbes \/ ServiceAnswers \/ ServiceFails
    \/ \E n \in Nodes : TryNext(n) \/ Choose(n)
    \/ NoneLeft \/ CandidateAnswers \/ CandidateFails
    \/ CheckPolicy \/ CheckSession \/ Select \/ SetGroup \/ Recorded \/ RecordFails
    \/ \E p \in Procs : Follow(p)
    \/ \E new \in Policies : SavePolicy(new)
    \/ Commit \/ SessionChanges

Spec == Init /\ [][Next]_vars

-----------------------------------------------------------------------------
\* "Revision-checked selection prevents recovery crossing a user's newer route
\* change": a recovery does not replace a choice of the user that the process
\* of the VPN has followed since the round began (service_watch_loop).
NewerChoiceStands == ~crossed

\* A recovery is recorded only if no configuration transaction of its process
\* was committed since the round began, and more than the cooldown after the
\* one before it under the same policy in the same session.
RecoveryIsDue ==
    watch'.switched # watch.switched /\ watch'.switched # None =>
        /\ ~committed
        /\ watch.switched # None => watch'.switched > watch.switched + Cooldown

\* Once both controls are followed the two processes have the group set to the
\* same member, unless a recovery set it without recording so.
LanesAgree ==
    (\A p \in Procs : control[Peer(p)].time <= known[p]) /\ ~half
        => set["ui"] = set["vpn"]

RecoverySteps == [][RecoveryIsDue]_vars
=============================================================================
