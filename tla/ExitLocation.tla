---------------------------- MODULE ExitLocation ----------------------------
(***************************************************************************)
(* The public address of the VPN, as a process of Core shows it.  Every    *)
(* second it is asked for if it is due: of several services at once,       *)
(* through the active route, without the lock of the state.  Whatever      *)
(* changes the route invalidates what is shown, and what is being asked    *)
(* for.  The process is the one whose tunnel the requests take; in the     *)
(* process of the UI they take the route of the VPN, which follows later.  *)
(***************************************************************************)
EXTENDS Naturals

CONSTANTS
    None,
    Routes,
    Providers,   \* the services
    Retry,       \* seconds until the next question while no address is shown
    Refresh,     \* seconds until the next question while one is shown
    MaxRoutes,   \* bound on changes of the route
    MaxTurns     \* bound on starts and stops of the VPN

ConstantsOK ==
    /\ {Retry, Refresh, MaxRoutes, MaxTurns} \subseteq Nat
    /\ Retry <= Refresh
    /\ Providers # {} /\ None \notin Routes /\ {"open", "failed"} \cap Routes = {}

VARIABLES
    connected,
    route,      \* what the tunnel is set to
    recorded,   \* whether the choice of it is recorded
    exit_location,           \* the route that the address shown was seen through
    exit_error,              \* whether an error is shown
    last_exit_location_check,  \* seconds since then, or None
    exit_location_revision,
    probe,      \* refresh_exit_location_if_due, which excludes itself
    left        \* what is left of the bounds

shown == <<exit_location, exit_error, last_exit_location_check>>
vars == <<connected, route, recorded, shown, exit_location_revision, probe, left>>

Requests == {"open", "failed"} \cup Routes
NoProbe == [at |-> "idle", rev |-> 0, request |-> [p \in Providers |-> "open"]]

TypeOK ==
    /\ {connected, recorded, exit_error} \subseteq BOOLEAN
    /\ route \in Routes
    /\ exit_location \in Routes \cup {None}
    /\ last_exit_location_check \in (0 .. Refresh) \cup {None}
    /\ exit_location_revision \in Nat
    /\ probe \in [at : {"idle", "probing"}, rev : Nat,
                  request : [Providers -> Requests]]
    /\ left \in [{"routes", "turns"} -> Nat]

Init ==
    /\ connected \in BOOLEAN /\ route \in Routes /\ recorded = TRUE
    /\ exit_location = None /\ exit_error = FALSE /\ last_exit_location_check = None
    /\ exit_location_revision = 0
    /\ probe = NoProbe
    /\ left = [routes |-> MaxRoutes, turns |-> MaxTurns]

Spend(bound) == left[bound] > 0 /\ left' = [left EXCEPT ![bound] = @ - 1]

\* invalidate_exit_location
Invalidate ==
    /\ exit_location' = None /\ exit_error' = FALSE /\ last_exit_location_check' = None
    /\ exit_location_revision' = exit_location_revision + 1

-----------------------------------------------------------------------------
(* refresh_exit_location_if_due                                            *)

Probing == probe.at = "probing"

\* Without a VPN nothing is shown.
CheckDisconnected ==
    /\ ~Probing /\ ~connected
    /\ exit_location # None \/ exit_error \/ last_exit_location_check # None
    /\ Invalidate
    /\ UNCHANGED <<connected, route, recorded, probe, left>>

Interval == IF exit_location = None THEN Retry ELSE Refresh
Due == last_exit_location_check # None => last_exit_location_check >= Interval

CheckConnected ==
    /\ ~Probing /\ connected /\ Due
    /\ probe' = [NoProbe EXCEPT !.at = "probing", !.rev = exit_location_revision]
    /\ UNCHANGED <<connected, route, recorded, shown, exit_location_revision, left>>

\* A request takes the route that the tunnel is set to when it is sent.
Send(p) ==
    /\ Probing /\ probe.request[p] = "open" /\ connected
    /\ probe' = [probe EXCEPT !.request[p] = route]
    /\ UNCHANGED <<connected, route, recorded, shown, exit_location_revision, left>>

RequestFails(p) ==
    /\ Probing /\ probe.request[p] # "failed"
    /\ probe' = [probe EXCEPT !.request[p] = "failed"]
    /\ UNCHANGED <<connected, route, recorded, shown, exit_location_revision, left>>

\* The outcome is recorded if nothing has invalidated it.
Stands == probe.rev = exit_location_revision /\ connected

Outcome(location, error) ==
    /\ IF Stands
       THEN /\ exit_location' = location /\ exit_error' = error
            /\ last_exit_location_check' = 0
       ELSE UNCHANGED shown
    /\ probe' = NoProbe
    /\ UNCHANGED <<connected, route, recorded, exit_location_revision, left>>

\* The first service that answers is believed.
Answers(p) ==
    /\ Probing /\ probe.request[p] \in Routes
    /\ Outcome(probe.request[p], FALSE)

\* All have failed, or the time is over: what was shown stays.
ProbeFails == Probing /\ Outcome(exit_location, TRUE)

\* The VPN has gone before a route was looked for.
NoRoute ==
    /\ Probing /\ ~connected /\ probe.request = NoProbe.request
    /\ probe' = NoProbe
    /\ UNCHANGED <<connected, route, recorded, shown, exit_location_revision, left>>

-----------------------------------------------------------------------------
(* What changes the route.                                                 *)

\* select_proxy sets the group before it records the choice, or fails to.
SetRoute(r) ==
    /\ Spend("routes")
    /\ route' = r /\ recorded' = FALSE
    /\ UNCHANGED <<connected, shown, exit_location_revision, probe>>

\* record_proxy_selection
RecordRoute ==
    /\ ~recorded
    /\ recorded' = TRUE
    /\ Invalidate
    /\ UNCHANGED <<connected, route, probe, left>>

\* A control of the other process or a change of the mode: set and invalidated
\* under the lock of the state.
ChangeRoute(r) ==
    /\ Spend("routes")
    /\ route' = r /\ recorded' = TRUE
    /\ Invalidate
    /\ UNCHANGED <<connected, probe>>

\* The VPN starts, stops or fails.
Turn ==
    /\ Spend("turns")
    /\ connected' = ~connected
    /\ Invalidate
    /\ UNCHANGED <<route, recorded, probe>>

\* Its worker exits, which nobody has noticed yet.
WorkerExits ==
    /\ connected /\ Spend("turns")
    /\ connected' = FALSE
    /\ UNCHANGED <<route, recorded, shown, exit_location_revision, probe>>

Second ==
    /\ last_exit_location_check # None /\ last_exit_location_check < Refresh
    /\ last_exit_location_check' = last_exit_location_check + 1
    /\ UNCHANGED <<connected, route, recorded, exit_location, exit_error,
                   exit_location_revision, probe, left>>

Next ==
    \/ CheckDisconnected \/ CheckConnected
    \/ \E p \in Providers : Send(p) \/ RequestFails(p) \/ Answers(p)
    \/ ProbeFails \/ NoRoute
    \/ \E r \in Routes : SetRoute(r) \/ ChangeRoute(r)
    \/ RecordRoute \/ Turn \/ WorkerExits \/ Second

Spec == Init /\ [][Next]_vars

-----------------------------------------------------------------------------
\* The address shown is that of the route in use: no answer that an older route
\* gave is taken for it, however long it was under way.  Between the setting of
\* a group and the recording of the choice the old one is still shown.
AddressIsCurrent ==
    exit_location # None /\ recorded => exit_location = route

\* "Failures retry sooner without replacing a previously valid result": only a
\* new answer or an invalidation takes the place of an address that is shown.
FailuresKeepTheAddress ==
    exit_location # None /\ exit_location' # exit_location
        => ~exit_error' /\ (last_exit_location_check' = 0
                              \/ exit_location_revision' # exit_location_revision)
=============================================================================
