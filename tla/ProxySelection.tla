--------------------------- MODULE ProxySelection ----------------------------
(***************************************************************************)
(* Choosing the proxy of a group.  The UI has one choice in flight.  Core  *)
(* asks the controller of its own process to set the group of the tunnel,  *)
(* or sets it itself, and then records the choice: in the profile, in the  *)
(* groups the UI is shown, and in the control that the process of the VPN  *)
(* follows.  Recording is refused while another configuration transaction  *)
(* holds the lock, or when the configuration is a newer one.  Once a       *)
(* second the group of the tunnel is shown and saved as it is found.       *)
(*                                                                         *)
(* There is one automatic group: a choice is a member, or Unfixed, which   *)
(* gives it back to the group.  The mode is Rule, the tunnel is loaded and *)
(* no other client of the controller sets the group.                       *)
(***************************************************************************)
EXTENDS Naturals

CONSTANTS
    None, Unfixed,
    Proxies,
    FrameFails,  \* whether the control of the VPN may fail to be written
    SyncFails,   \* whether what is found may fail to be saved
    MaxClicks,   \* bound on choices
    MaxOthers    \* bound on other configuration transactions

Choices == Proxies \cup {Unfixed}

\* A choice that Core works on.
Picks == [want : Choices, revision : Nat, tunnel : Nat, direct : BOOLEAN, ok : BOOLEAN,
          at : {"begin", "checked", "put", "local", "setting", "record", "closing", "ended"}]

ConstantsOK ==
    /\ {MaxClicks, MaxOthers} \subseteq Nat
    /\ {FrameFails, SyncFails} \subseteq BOOLEAN
    /\ Unfixed \notin Proxies /\ None \notin Choices \cup Picks

VARIABLES
    pending,   \* selection_pending of the UI
    op,        \* the choice that Core works on
    done,      \* the last choice, and whether it was reported a success
    clean,     \* history: no choice has failed since one was recorded
    tunnel,    \* the tunnel: its number, and what its group is set to
    groups,    \* proxy_groups, what the UI is shown
    saved,     \* selected_proxies of the profile
    frame,     \* the control written for the process of the VPN
    fresh,     \* whether that process has still to read it
    vpn,       \* what the group of that process is set to
    best,      \* the member that group takes when it is not set
    revision,  \* config_revision
    other,     \* the transaction that holds config_reload_lock
    serving,   \* whether there is an api_controller
    left       \* what is left of the bounds

rest == <<groups, saved, frame, fresh, vpn, best, revision, other, serving, left>>
vars == <<pending, op, done, clean, tunnel, rest>>

TypeOK ==
    /\ {groups, saved, frame, vpn, tunnel.set} \subseteq Choices
    /\ pending \in Choices \cup {None}
    /\ (pending = None) = (op = None)
    /\ op # None => op \in Picks /\ op.want = pending /\ op.revision <= revision
    /\ other \in {None} \cup
                [does : {"edit", "reload", "reloading", "sync"}, with : Choices]
    /\ {serving, fresh, clean} \subseteq BOOLEAN /\ best \in Proxies

Init ==
    /\ pending = None /\ op = None /\ done = None /\ other = None
    /\ serving = TRUE /\ clean = TRUE
    /\ tunnel = [n |-> 0, set |-> Unfixed] /\ revision = 0
    /\ groups = Unfixed /\ saved = Unfixed /\ frame = Unfixed /\ vpn = Unfixed
    /\ fresh = FALSE /\ best \in Proxies
    /\ left = [clicks |-> MaxClicks, others |-> MaxOthers]

Spend(bound) == left[bound] > 0 /\ left' = [left EXCEPT ![bound] = @ - 1]

-----------------------------------------------------------------------------
(* UiServices::select_proxy.                                               *)

Click(want) ==
    /\ pending = None
    /\ Spend("clicks")
    /\ pending' = want
    /\ op' = [want |-> want, at |-> "begin", revision |-> 0, tunnel |-> 0,
              direct |-> FALSE, ok |-> FALSE]
    /\ done' = None
    /\ UNCHANGED <<clean, tunnel, groups, saved, frame, fresh, vpn, best, revision, other, serving>>

Delivered ==
    /\ op # None /\ op.at = "ended"
    /\ pending' = None /\ op' = None
    /\ done' = [want |-> op.want, ok |-> op.ok]
    /\ clean' = (clean /\ op.ok)
    /\ UNCHANGED <<tunnel, rest>>

-----------------------------------------------------------------------------
(* select_proxy_via_controller and unfix_proxy_via_controller.             *)

At(step) == op # None /\ op.at = step
GoTo(step) == op' = [op EXCEPT !.at = step]
End(ok) == op' = [op EXCEPT !.at = "ended", !.ok = ok]

\* Mutant: what the tunnel is set to is taken for what is selected.
CheckTunnel ==
    /\ At("begin")
    /\ IF op.want # Unfixed /\ tunnel.set = op.want THEN End(TRUE) ELSE GoTo("checked")
    /\ UNCHANGED <<pending, done, clean, tunnel, rest>>

\* What the groups say is selected already is not selected again.
Check ==
    /\ At("begin")
    /\ IF op.want # Unfixed /\ groups = op.want THEN End(TRUE) ELSE GoTo("checked")
    /\ UNCHANGED <<pending, done, clean, tunnel, rest>>

ReadController ==
    /\ At("checked")
    /\ op' = [op EXCEPT !.at = IF serving THEN "put" ELSE "local", !.revision = revision]
    /\ UNCHANGED <<pending, done, clean, tunnel, rest>>

\* The controller sets the group of the tunnel it serves.
ControllerSets ==
    /\ At("put") /\ serving
    /\ tunnel' = [tunnel EXCEPT !.set = op.want]
    /\ GoTo("record")
    /\ UNCHANGED <<pending, done, clean, rest>>

\* Mutant: without the time limit, only a controller that is gone fails.
ControllerGone ==
    /\ At("put") /\ ~serving
    /\ GoTo("local")
    /\ UNCHANGED <<pending, done, clean, tunnel, rest>>

\* It is gone, refuses or takes more than two seconds; it may have set the
\* group even so.
ControllerFails ==
    /\ At("put")
    /\ GoTo("local")
    /\ tunnel' \in {tunnel} \cup (IF serving THEN {[tunnel EXCEPT !.set = op.want]} ELSE {})
    /\ UNCHANGED <<pending, done, clean, rest>>

\* select_proxy_at_revision and unfix_proxy_at_revision: the tunnel is
\* cloned under the lock of the state and its group is set without it.
LocalReads ==
    /\ At("local")
    /\ IF op.revision # revision THEN End(FALSE)
       ELSE op' = [op EXCEPT !.at = "setting", !.tunnel = tunnel.n, !.direct = TRUE]
    /\ UNCHANGED <<pending, done, clean, tunnel, rest>>

LocalSets ==
    /\ At("setting")
    /\ tunnel' = IF op.tunnel = tunnel.n THEN [tunnel EXCEPT !.set = op.want] ELSE tunnel
    /\ GoTo("record")
    /\ UNCHANGED <<pending, done, clean, rest>>

\* Mutant: a choice is recorded whatever the configuration has become.
RecordAny ==
    /\ At("record") /\ other = None
    /\ saved' = op.want /\ groups' = tunnel.set
    /\ frame' = saved' /\ fresh' = TRUE /\ revision' = revision + 1
    /\ clean' = TRUE
    /\ IF op.direct \/ op.want = Unfixed THEN End(TRUE) ELSE GoTo("closing")
    /\ UNCHANGED <<pending, done, tunnel, vpn, best, other, serving, left>>

\* record_proxy_selection is refused.
RecordRefused ==
    /\ At("record")
    /\ other # None \/ op.revision # revision
    /\ End(FALSE)
    /\ UNCHANGED <<pending, done, clean, tunnel, rest>>

\* The profile cannot be saved.
SaveFails ==
    /\ At("record") /\ other = None /\ op.revision = revision
    /\ End(FALSE)
    /\ UNCHANGED <<pending, done, clean, tunnel, rest>>

\* The profile is saved and the groups are refreshed; then the control fails
\* to be written, or the choice is published.
Record ==
    /\ At("record") /\ other = None /\ op.revision = revision
    /\ saved' = op.want /\ groups' = tunnel.set
    /\ \/ /\ FrameFails /\ End(FALSE)
          /\ UNCHANGED <<clean, frame, fresh, revision>>
       \/ /\ frame' = saved' /\ fresh' = TRUE /\ revision' = revision + 1
          /\ clean' = TRUE
          /\ IF op.direct \/ op.want = Unfixed THEN End(TRUE) ELSE GoTo("closing")
    /\ UNCHANGED <<pending, done, tunnel, vpn, best, other, serving, left>>

\* close_all_connections_via_controller
CloseAll ==
    /\ At("closing")
    /\ \E ok \in BOOLEAN : End(ok)
    /\ UNCHANGED <<pending, done, clean, tunnel, rest>>

-----------------------------------------------------------------------------
(* What else happens.                                                      *)

Does(what) == other # None /\ other.does = what

\* A transaction that leaves the tunnel in place, or a reload, which reads
\* the choices of the profile first.
OtherBegins ==
    /\ other = None /\ Spend("others")
    /\ \E does \in {"edit", "reload"} : other' = [does |-> does, with |-> saved]
    /\ UNCHANGED <<pending, op, done, clean, tunnel, groups, saved, frame, fresh, vpn, best, revision, serving>>

\* The reload takes the controller away while it makes the next one, if the
\* controller is enabled.
ReloadStops ==
    /\ Does("reload")
    /\ serving' = FALSE /\ other' = [other EXCEPT !.does = "reloading"]
    /\ UNCHANGED <<pending, op, done, clean, tunnel, groups, saved, frame, fresh, vpn, best, revision, left>>

ReloadInstalls ==
    /\ Does("reloading")
    /\ tunnel' = [n |-> tunnel.n + 1, set |-> other.with]
    /\ groups' = tunnel'.set
    /\ serving' \in BOOLEAN /\ other' = None /\ revision' = revision + 1
    /\ UNCHANGED <<pending, op, done, clean, saved, frame, fresh, vpn, best, left>>

EditEnds ==
    /\ Does("edit")
    /\ other' = None /\ revision' = revision + 1
    /\ UNCHANGED <<pending, op, done, clean, tunnel, groups, saved, frame, fresh, vpn, best, serving, left>>

\* A delay test refreshes the groups from the tunnel.
DelayTest ==
    /\ groups' = tunnel.set
    /\ UNCHANGED <<pending, op, done, clean, tunnel, saved, frame, fresh, vpn, best, revision, other, serving, left>>

\* sync_external_controller_config, once a second: the controller runs while
\* the VPN is connected, ...
SyncBegins ==
    /\ other = None
    /\ other' = [does |-> "sync", with |-> saved]
    /\ serving' \in BOOLEAN
    /\ UNCHANGED <<pending, op, done, clean, tunnel, groups, saved, frame, fresh, vpn, best, revision, left>>

\* ... and sync_live_controller_route: what the tunnel is set to is shown and
\* saved; the VPN is not told.
SyncEnds ==
    /\ Does("sync")
    /\ groups' = tunnel.set
    /\ saved' \in {tunnel.set} \cup (IF SyncFails THEN {saved} ELSE {})
    /\ other' = None
    /\ UNCHANGED <<pending, op, done, clean, tunnel, frame, fresh, vpn, best, revision, serving, left>>

\* apply_platform_proxy_selections in the process of the VPN, once for each
\* control: a group that is at the chosen member by itself is left as it is.
VpnSync ==
    /\ fresh
    /\ fresh' = FALSE
    /\ vpn' = IF vpn = Unfixed /\ frame = best THEN vpn ELSE frame
    /\ UNCHANGED <<pending, op, done, clean, tunnel, groups, saved, frame, best, revision, other, serving, left>>

\* A url-test of that process.
VpnTests ==
    /\ best' \in Proxies \ {best}
    /\ UNCHANGED <<pending, op, done, clean, tunnel, groups, saved, frame, fresh, vpn, revision, other, serving, left>>

Working ==
    \/ Check \/ ReadController \/ ControllerFails \/ LocalReads \/ LocalSets
    \/ RecordRefused \/ SaveFails \/ Record \/ CloseAll \/ Delivered

Next ==
    \/ \E want \in Choices : Click(want)
    \/ Working \/ ControllerSets
    \/ OtherBegins \/ ReloadStops \/ ReloadInstalls \/ EditEnds
    \/ DelayTest \/ SyncBegins \/ SyncEnds \/ VpnSync \/ VpnTests

Spec == Init /\ [][Next]_vars

\* Core's tasks and the timeouts of its requests run, as does the tick of the
\* controller's loop, and the VPN reads its control; the controller need not
\* answer.
Fair(n) ==
    \/ n = 1 /\ Working
    \/ n = 2 /\ VpnSync
    \/ n = 3 /\ (ReloadStops \/ ReloadInstalls \/ EditEnds \/ SyncEnds)
    \/ n = 4 /\ SyncBegins

FairSpec == Spec /\ \A n \in 1..4 : WF_vars(Fair(n))

-----------------------------------------------------------------------------

\* Between choices, and unless one has failed since, what the tunnel is set
\* to, what the UI is shown, what is saved and what the VPN is told agree,
\* whichever reload replaces the tunnel while a choice is being made.
AllAgree ==
    op = None /\ clean => {tunnel.set, groups, frame} = {saved}

\* A choice that is reported a success is the one that is saved and that the
\* VPN is told, also when an earlier try was refused between setting the
\* group and recording it: "another configuration transaction is in
\* progress; retry this action" (try_config_transaction).
\* It does not hold: see the observations in the README.
OkIsRecorded ==
    op = None /\ done # None /\ done.ok => saved = done.want /\ frame = done.want

\* The UI is not left "in a pending state indefinitely" when the controller
\* does not answer (select_proxy_via_controller).
PendingEnds == []<>(pending = None)

\* A choice that failed half way is not left half done in this process: what
\* is shown and saved comes to be what the tunnel is set to.
HalfDoneIsAdopted ==
    []<>(op = None => {groups, saved} = {tunnel.set})

\* The group of the VPN comes to be set to a control that is written, unless
\* it was at that member by itself when the control was read (and may leave it
\* again at the next url-test: apply_platform_proxy_selections).
ControlReachesVpn ==
    \A want \in Choices : []<>(frame = want => vpn \in {want, Unfixed})
=============================================================================
