------------------------------ MODULE UdpFlows -------------------------------
(***************************************************************************)
(* The flows of the user-space network stack.  Every TCP stream and every  *)
(* UDP datagram is a Tokio task of its own.  The datagrams of a flow share *)
(* a connection through UdpSessionMap, which a sweeper thins out; a reader *)
(* task per connection sends the answers back.  run_netstack_vpn aborts    *)
(* the backend, then the tasks it can find in FlowTasks, and ends.         *)
(*                                                                         *)
(* A route is what resolve_proxy answers; a mode switch or another proxy   *)
(* is a new one.  TunSession has the worker around run_netstack_vpn, and   *)
(* DnsMapping the queries, which are no flows.                             *)
(***************************************************************************)
EXTENDS Naturals, Sequences, FiniteSets

CONSTANTS
    None,         \* no session, no connection
    Keys,         \* UdpSessionKey: the flows, local and remote address
    MaxDatagrams, \* bound on datagrams
    MaxStreams,   \* bound on TCP streams
    MaxRoutes,    \* bound on route changes
    MaxSweeps     \* bound on sweeps that find something idle

ConstantsOK ==
    {MaxDatagrams, MaxStreams, MaxRoutes, MaxSweeps} \subseteq Nat

VARIABLES
    phase,    \* where run_netstack_vpn stands
    sessions, \* UdpSessionMap: the connection of each flow
    conns,    \* every UDP connection that carried a datagram, and its reader
    tasks,    \* every task of a stream or a datagram
    tracked,  \* FlowTasks
    drained,  \* the tasks that abort_flow_tasks took
    route,    \* the route of the tunnel
    stale,    \* datagrams that took a route older than themselves (history)
    left      \* what is left of the bounds

vars == <<phase, sessions, conns, tasks, tracked, drained, route, stale, left>>

Tasks == DOMAIN tasks
Conns == DOMAIN conns

\* A tracked task: of a stream or datagram, or the reader of a connection.
Work == {<<"task", i>> : i \in Tasks} \cup {<<"reader", c>> : c \in Conns}

Over == {"done", "aborted"}

TypeOK ==
    /\ phase \in {"running", "aborting", "draining", "ended"}
    /\ sessions \in [Keys -> Conns \cup {None}]
    /\ conns \in Seq([key : Keys, route : 0..MaxRoutes,
                      idle : BOOLEAN, reader : {"running"} \cup Over])
    /\ tasks \in Seq([kind : {"tcp", "udp"}, key : Keys \cup {None},
                      since : 0..MaxRoutes, route : 0..MaxRoutes,
                      conn : Conns \cup {None},
                      at : {"spawned", "relaying", "writing", "resolving",
                            "dialing", "sending"} \cup Over])
    /\ tracked \subseteq Work /\ drained \subseteq Work
    /\ route \in 0..MaxRoutes
    /\ stale \subseteq Tasks
    /\ left \in [datagrams : 0..MaxDatagrams, streams : 0..MaxStreams,
                 routes : 0..MaxRoutes, sweeps : 0..MaxSweeps]

Init ==
    /\ phase = "running"
    /\ sessions = [k \in Keys |-> None]
    /\ conns = <<>> /\ tasks = <<>>
    /\ tracked = {} /\ drained = {}
    /\ route = 0 /\ stale = {}
    /\ left = [datagrams |-> MaxDatagrams, streams |-> MaxStreams,
               routes |-> MaxRoutes, sweeps |-> MaxSweeps]

Spend(bound) == left[bound] > 0 /\ left' = [left EXCEPT ![bound] = @ - 1]

Running(w) == IF w[1] = "task" THEN tasks[w[2]].at \notin Over
              ELSE conns[w[2]].reader = "running"

-----------------------------------------------------------------------------
(* The tasks.                                                              *)

\* track_flow_task: what has finished is dropped, the new task is kept.
Track(w) == tracked' = {v \in tracked : Running(v)} \cup {w}

\* The backend hands over a stream or a datagram while it lives.
Spawn(kind, k) ==
    /\ phase \in {"running", "aborting"}
    /\ tasks' = Append(tasks, [kind |-> kind, key |-> k, since |-> route,
                               route |-> route, conn |-> None, at |-> "spawned"])
    /\ Track(<<"task", Len(tasks) + 1>>)

Accept ==
    /\ Spend("streams") /\ Spawn("tcp", None)
    /\ UNCHANGED <<phase, sessions, conns, drained, route, stale>>

Datagram(k) ==
    /\ Spend("datagrams") /\ Spawn("udp", k)
    /\ UNCHANGED <<phase, sessions, conns, drained, route, stale>>

\* handle_tcp_stream: the stream is sniffed, then relayed until it ends.
Stream(i) ==
    /\ tasks[i].kind = "tcp" /\ tasks[i].at \in {"spawned", "relaying"}
    /\ tasks' = [tasks EXCEPT ![i].at = IF @ = "spawned" THEN "relaying" ELSE "done"]
    /\ UNCHANGED <<phase, sessions, conns, tracked, drained, route, stale, left>>

Udp(i, at) == tasks[i].kind = "udp" /\ tasks[i].at = at

\* handle_udp_datagram: the flow has a session, or is resolved.
Looks(i) ==
    /\ Udp(i, "spawned")
    /\ LET c == sessions[tasks[i].key] IN
       /\ tasks' = [tasks EXCEPT ![i].at = IF c = None THEN "resolving" ELSE "writing",
                                 ![i].conn = c]
       /\ conns' = IF c = None THEN conns ELSE [conns EXCEPT ![c].idle = FALSE]
    /\ UNCHANGED <<phase, sessions, tracked, drained, route, stale, left>>

\* The datagram goes out through the session; a failure removes the session
\* the flow has by now.
Writes(i) ==
    /\ Udp(i, "writing")
    /\ tasks' = [tasks EXCEPT ![i].at = "done"]
    /\ \/ /\ stale' = IF conns[tasks[i].conn].route < tasks[i].since
                      THEN stale \cup {i} ELSE stale
          /\ UNCHANGED sessions
       \/ /\ sessions' = [sessions EXCEPT ![tasks[i].key] = None]
          /\ UNCHANGED stale
    /\ UNCHANGED <<phase, conns, tracked, drained, route, left>>

\* pre_resolve and resolve_proxy, which may find nothing
Resolves(i) ==
    /\ Udp(i, "resolving")
    /\ \E at \in {"dialing", "done"} :
         tasks' = [tasks EXCEPT ![i].at = at, ![i].route = route]
    /\ UNCHANGED <<phase, sessions, conns, tracked, drained, route, stale, left>>

\* dial_udp
Dials(i) ==
    /\ Udp(i, "dialing")
    /\ \E at \in {"sending", "done"} : tasks' = [tasks EXCEPT ![i].at = at]
    /\ UNCHANGED <<phase, sessions, conns, tracked, drained, route, stale, left>>

\* The first datagram goes out.  The connection becomes the session of the
\* flow, over any that came meanwhile, and gets its reader.
Sends(i) ==
    /\ Udp(i, "sending")
    /\ \/ /\ tasks' = [tasks EXCEPT ![i].at = "done"]
          /\ UNCHANGED <<sessions, conns, tracked>>
       \/ /\ tasks' = [tasks EXCEPT ![i].at = "done", ![i].conn = Len(conns) + 1]
          /\ conns' = Append(conns, [key |-> tasks[i].key, route |-> tasks[i].route,
                                     idle |-> FALSE, reader |-> "running"])
          /\ sessions' = [sessions EXCEPT ![tasks[i].key] = Len(conns) + 1]
          /\ Track(<<"reader", Len(conns) + 1>>)
    /\ UNCHANGED <<phase, drained, route, stale, left>>

\* read_udp_responses: an answer touches the session the flow has.
Reads(c) ==
    /\ conns[c].reader = "running"
    /\ LET s == sessions[conns[c].key] IN
       /\ s # None /\ conns[s].idle
       /\ conns' = [conns EXCEPT ![s].idle = FALSE]
    /\ UNCHANGED <<phase, sessions, tasks, tracked, drained, route, stale, left>>

\* Mutant: the reader leaves the session behind.
ReadFailsKeeps(c) ==
    /\ conns[c].reader = "running"
    /\ conns' = [conns EXCEPT ![c].reader = "done"]
    /\ UNCHANGED <<phase, sessions, tasks, tracked, drained, route, stale, left>>

\* The connection fails: the flow has no session any more, whichever it had.
ReadFails(c) ==
    /\ conns[c].reader = "running"
    /\ conns' = [conns EXCEPT ![c].reader = "done"]
    /\ sessions' = [sessions EXCEPT ![conns[c].key] = None]
    /\ UNCHANGED <<phase, tasks, tracked, drained, route, stale, left>>

\* Time passes without a datagram or an answer of a session.
GoesIdle(c) ==
    /\ Spend("sweeps") /\ ~conns[c].idle
    /\ conns' = [conns EXCEPT ![c].idle = TRUE]
    /\ UNCHANGED <<phase, sessions, tasks, tracked, drained, route, stale>>

\* retain_active: idle sessions leave the map; their readers go on.
Sweep ==
    /\ phase # "ended"
    /\ \E k \in Keys : sessions[k] # None /\ conns[sessions[k]].idle
    /\ sessions' = [k \in Keys |-> IF sessions[k] # None /\ conns[sessions[k]].idle
                                   THEN None ELSE sessions[k]]
    /\ UNCHANGED <<phase, conns, tasks, tracked, drained, route, stale, left>>

-----------------------------------------------------------------------------

\* close_connections_after_route_change: the statistics know the TCP streams
\* that are relayed.
RouteChange ==
    /\ Spend("routes")
    /\ route' = route + 1
    /\ tasks' = [i \in Tasks |-> IF tasks[i].at = "relaying"
                                 THEN [tasks[i] EXCEPT !.at = "done"] ELSE tasks[i]]
    /\ UNCHANGED <<phase, sessions, conns, tracked, drained, stale>>

\* The TUN reader ends: stop was asked for, or the descriptor is closed.
ReaderEnds ==
    /\ phase = "running" /\ phase' = "aborting"
    /\ UNCHANGED <<sessions, conns, tasks, tracked, drained, route, stale, left>>

\* The handles of the backend are aborted and awaited, and abort_flow_tasks
\* takes the tasks there are.
BackendEnds ==
    /\ phase = "aborting" /\ phase' = "draining"
    /\ drained' = tracked /\ tracked' = {}
    /\ UNCHANGED <<sessions, conns, tasks, route, stale, left>>

\* Mutant: an aborted task is awaited though it never ends.
AbortsNothing(w) ==
    /\ phase = "draining" /\ ~Running(w)
    /\ drained' = drained \ {w}
    /\ UNCHANGED <<phase, sessions, conns, tasks, tracked, route, stale, left>>

\* One of them is aborted and awaited; the others still run.
Aborts(w) ==
    /\ phase = "draining"
    /\ drained' = drained \ {w}
    /\ IF ~Running(w) THEN UNCHANGED <<tasks, conns>>
       ELSE IF w[1] = "task"
       THEN tasks' = [tasks EXCEPT ![w[2]].at = "aborted"] /\ UNCHANGED conns
       ELSE conns' = [conns EXCEPT ![w[2]].reader = "aborted"] /\ UNCHANGED tasks
    /\ UNCHANGED <<phase, sessions, tracked, route, stale, left>>

\* The sweeper, the writer and the core are gone: run_netstack_vpn returns,
\* and so does the stop that awaits it.
Ends ==
    /\ phase = "draining" /\ drained = {} /\ phase' = "ended"
    /\ UNCHANGED <<sessions, conns, tasks, tracked, drained, route, stale, left>>

UdpTask(i) == Looks(i) \/ Writes(i) \/ Resolves(i) \/ Dials(i) \/ Sends(i)

Teardown == BackendEnds \/ (\E w \in drained : Aborts(w)) \/ Ends

Next ==
    \/ Accept
    \/ \E k \in Keys : Datagram(k)
    \/ \E i \in Tasks : Stream(i) \/ UdpTask(i)
    \/ \E c \in Conns : Reads(c) \/ ReadFails(c) \/ GoesIdle(c)
    \/ Sweep \/ RouteChange \/ ReaderEnds \/ Teardown

Spec == Init /\ [][Next]_vars

\* The worker is a Tokio task, and an aborted task ends at its next await.
Fair(n) == n = 1 /\ Teardown

FairSpec == Spec /\ WF_vars(Fair(1))

-----------------------------------------------------------------------------

\* A session of the map has a reader: the datagrams sent through it are
\* answered, whatever datagrams of the flow raced it, connections failed or
\* sessions were swept (handle_udp_datagram, read_udp_responses).
SessionHasReader ==
    phase = "running" =>
        \A k \in Keys : sessions[k] # None =>
            /\ conns[sessions[k]].reader = "running"
            /\ conns[sessions[k]].key = k

\* No stream or datagram is handled any more when the worker has ended: the
\* next network stack starts alone (run_netstack_vpn).
FlowsEnd == phase = "ended" => \A i \in Tasks : tasks[i].at \in Over

\* The worker that was asked to end does.
StopEnds == []<>(phase \notin {"aborting", "draining"})

\* Nothing of the session runs once its worker was awaited (stop_locked: "a
\* real barrier instead of a fire-and-forget hint").
\* It does not hold: see the observations in the README.
Barrier == phase = "ended" => \A w \in Work : ~Running(w)

\* A datagram that came after a change of the route does not take the old one
\* (close_connections_after_route_change).
\* It does not hold: see the observations in the README.
RouteIsTaken == stale = {}

=============================================================================
