--------------------------- MODULE ContinuousTask ----------------------------
(***************************************************************************)
(* The continuous task that keeps the UI process scheduled while the VPN   *)
(* is up: VpnContinuousTask and the calls that the VPN Plugin makes.       *)
(* Everything runs in one event loop; it is cut where the code awaits.     *)
(* The system may refuse a task, and cancels one whenever it likes; the    *)
(* event of that comes later.                                              *)
(***************************************************************************)
EXTENDS Naturals

CONSTANTS
    None,
    CancelEarly, \* whether a cancellation may arrive before start() has published
    Refusals,    \* whether the system may refuse to start, publish or stop
    MaxTasks,    \* bound on tasks that the system starts
    MaxUser      \* bound on connects, stops and returns to the foreground

\* A stop() that runs: where it is, what it found when it was called.
Stops == [at : {"wait", "system", "end"}, context : BOOLEAN, asked : BOOLEAN]

ConstantsOK ==
    /\ {MaxTasks, MaxUser} \subseteq Nat
    /\ {CancelEarly, Refusals} \subseteq BOOLEAN
    /\ None \notin Nat \cup Stops \cup {"agent", "starting", "publishing", "unwinding"}

VARIABLES
    session,  \* connectedVpnSessionId is not empty
    owned,    \* the journal has that session, so that a stop claims its id
    obj,      \* the fields of the VpnContinuousTask
    request,  \* where startInternal is, or None
    stop,     \* the stop() that runs, or None
    system,   \* the task that the system runs, or None
    issued,   \* tasks started so far
    events,   \* cancellations not delivered yet
    again,    \* the 250 ms timer of the Plugin
    stopped,  \* history: "yes" after a stop, "no" once a task was asked for again, and
              \* "lost" for good when the system refused to stop a task, or the Plugin
              \* asked for one while a stop ran
    user      \* events of the user so far

sysVars == <<system, issued, events>>
held == <<session, owned>>
vars == <<held, obj, request, stop, sysVars, again, stopped, user>>

Idle == [context |-> FALSE, task |-> None, timer |-> FALSE, stopping |-> FALSE,
         handler |-> FALSE, listening |-> FALSE]

Init ==
    /\ session = FALSE /\ owned = FALSE /\ obj = Idle /\ request = None /\ stop = None
    /\ system = None /\ issued = 0 /\ events = {}
    /\ again = FALSE /\ stopped = "no" /\ user = 0

Acts == user < MaxUser /\ user' = user + 1

-----------------------------------------------------------------------------
(* VpnContinuousTask.start.                                                *)

StartCall ==
    /\ obj' = [obj EXCEPT !.context = TRUE, !.handler = TRUE]
    /\ request' = IF obj.task # None \/ request # None THEN request ELSE "agent"

Noted(s) == IF stopped = "lost" THEN stopped ELSE s

\* The Plugin asks for a task (startContinuousTaskProtection).
Asks ==
    /\ StartCall
    /\ stopped' = IF stop # None THEN "lost" ELSE Noted("no")

Cleared(o) == [o EXCEPT !.timer = FALSE, !.task = None, !.context = FALSE]
Off == events' = {}

AgentReady ==
    /\ request = "agent"
    /\ \/ request' = "starting" /\ obj' = [obj EXCEPT !.listening = TRUE] /\ Off
       \/ Refusals /\ request' = None /\ UNCHANGED <<obj, events>>
    /\ UNCHANGED <<held, stop, system, issued, again, stopped, user>>

\* A second task of the Ability is not accepted.
SystemStarts ==
    /\ request = "starting" /\ system = None /\ issued < MaxTasks
    /\ issued' = issued + 1 /\ system' = issued'
    /\ obj' = [obj EXCEPT !.task = issued']
    /\ request' = "publishing"
    /\ UNCHANGED <<held, stop, events, again, stopped, user>>

SystemRefuses ==
    /\ request = "starting"
    /\ Refusals \/ system # None \/ issued = MaxTasks
    /\ obj' = Cleared([obj EXCEPT !.listening = FALSE])
    /\ Off
    /\ request' = None
    /\ UNCHANGED <<held, stop, system, issued, again, stopped, user>>

Published ==
    /\ request = "publishing"
    /\ obj' = [obj EXCEPT !.timer = TRUE]
    /\ request' = None
    /\ UNCHANGED <<held, stop, sysVars, again, stopped, user>>

\* A task that cannot be published is stopped again.
PublishFails ==
    /\ Refusals /\ request = "publishing"
    /\ Off
    /\ IF obj.task # None
       THEN request' = "unwinding" /\ obj' = [obj EXCEPT !.listening = FALSE]
       ELSE request' = None /\ obj' = Cleared([obj EXCEPT !.listening = FALSE])
    /\ UNCHANGED <<held, stop, system, issued, again, stopped, user>>

Unwound ==
    /\ request = "unwinding"
    /\ system' = None
    /\ obj' = Cleared(obj)
    /\ request' = None
    /\ UNCHANGED <<held, stop, issued, events, again, stopped, user>>

-----------------------------------------------------------------------------
(* VpnContinuousTask.stop.                                                 *)

\* Mutant: a start that is on the way is not waited for.
StopCallAtOnce ==
    /\ stop' = [at |-> "system", context |-> obj.context,
                asked |-> obj.task # None \/ request # None]
    /\ obj' = [obj EXCEPT !.stopping = TRUE, !.timer = FALSE]

StopCall ==
    /\ stop' = [at |-> IF request # None THEN "wait" ELSE "system",
                context |-> obj.context,
                asked |-> obj.task # None \/ request # None]
    /\ obj' = [obj EXCEPT !.stopping = TRUE, !.timer = FALSE]

StopWaited ==
    /\ stop # None /\ stop.at = "wait" /\ request = None
    /\ stop' = [stop EXCEPT !.at = "system"]
    /\ UNCHANGED <<held, obj, request, sysVars, again, stopped, user>>

\* The system is asked to stop the task that was there, or on its way.
SystemStops ==
    /\ stop # None /\ stop.at = "system" /\ stop.context /\ stop.asked
    /\ stop' = [stop EXCEPT !.at = "end"]
    /\ \/ system' = None /\ UNCHANGED stopped
       \/ Refusals /\ stopped' = "lost" /\ UNCHANGED system
    /\ UNCHANGED <<held, obj, request, issued, events, again, user>>

StopEnds ==
    /\ stop # None
    /\ \/ stop.at = "end"
       \/ stop.at = "system" /\ ~(stop.context /\ stop.asked)
    /\ stopped' = Noted("yes")
    /\ obj' = [Idle EXCEPT !.timer = obj.timer]
    /\ Off
    /\ stop' = None
    /\ UNCHANGED <<held, request, system, issued, again, user>>

-----------------------------------------------------------------------------
(* The cancellation listener, and the handler of the Plugin.               *)

SystemCancels ==
    /\ system # None
    /\ events' = events \cup {system} /\ system' = None
    /\ UNCHANGED <<held, obj, request, stop, issued, again, stopped, user>>

Cancelled(e) ==
    /\ CancelEarly \/ request # "publishing"
    /\ e \in events /\ events' = events \ {e}
    /\ IF obj.listening /\ obj.task \in {None, e}
       THEN /\ obj' = Cleared(obj)
            /\ again' = (again \/ (~obj.stopping /\ obj.handler /\ session))
       ELSE UNCHANGED <<obj, again>>
    /\ UNCHANGED <<held, request, stop, system, issued, stopped, user>>

\* A stop() goes on before the next event once its start has settled.
Settling == stop # None /\ stop.at = "wait" /\ request = None

StartAgain ==
    /\ again /\ ~Settling
    /\ again' = FALSE
    /\ IF session THEN Asks ELSE UNCHANGED <<obj, request, stopped>>
    /\ UNCHANGED <<held, stop, sysVars, user>>

-----------------------------------------------------------------------------
(* The operations of the Plugin, one at a time.                            *)

Connect ==
    /\ Acts /\ ~owned /\ stop = None
    /\ session' = TRUE /\ owned' = TRUE
    /\ Asks
    /\ UNCHANGED <<stop, sysVars, again>>

\* The foreground, a screen that turns on, a change of the connectivity.
Foreground ==
    /\ Acts /\ session /\ ~Settling
    /\ Asks
    /\ UNCHANGED <<held, stop, sysVars, again>>

\* The Extension is destroyed and cleans up: the journal has no owner, and the
\* Plugin is not told.
SessionEnds ==
    /\ Acts /\ owned
    /\ owned' = FALSE
    /\ UNCHANGED <<session, obj, request, stop, sysVars, again, stopped>>

\* Only the id that the stop has claimed is forgotten: without an owner the
\* claim returns none, the stop succeeds and the Plugin keeps its id.
Forgets == session' = (session /\ ~owned) /\ owned' = FALSE

Disconnect ==
    /\ Acts /\ stop = None
    /\ Forgets
    /\ StopCall
    /\ UNCHANGED <<request, sysVars, again, stopped>>

\* A start first stops the owner the journal still has, and keeps the task.
StopForRecovery ==
    /\ Acts /\ owned /\ stop = None
    /\ Forgets
    /\ UNCHANGED <<obj, request, stop, sysVars, again, stopped>>

Continues ==
    \/ AgentReady \/ SystemStarts \/ SystemRefuses \/ Published \/ PublishFails
    \/ Unwound \/ StopWaited \/ SystemStops \/ StopEnds

Next ==
    \/ Continues \/ StartAgain
    \/ SystemCancels \/ \E e \in events : Cancelled(e)
    \/ Connect \/ Foreground \/ SessionEnds \/ Disconnect \/ StopForRecovery

Spec == Init /\ [][Next]_vars

\* The event loop runs, and the system answers and delivers its events.
Fair(n) ==
    \/ n = 1 /\ (Continues \/ StartAgain)
    \/ n = 2 /\ \E e \in events : Cancelled(e)

FairSpec == Spec /\ \A n \in 1..2 : WF_vars(Fair(n))

-----------------------------------------------------------------------------

TypeOK ==
    /\ obj.task \in {None} \cup 1..issued
    /\ system \in {None} \cup 1..issued
    /\ events \subseteq 1..issued
    /\ request \in {None, "agent", "starting", "publishing", "unwinding"}
    /\ stop # None => obj.stopping
    /\ owned => session
    /\ obj.task # None /\ stopped # "lost" => obj.handler

\* VpnContinuousTask "owns the public HarmonyOS continuous data-transfer task
\* for an established VPN session": after a stop there is none until the Plugin
\* asks for one again, however the stop meets a start or a cancellation, unless
\* the system refused to stop it, or the Plugin asked for one while the stop
\* ran. A Plugin whose session ended without it keeps the id of that session
\* over a stop, and asks again at the next event.
NoTaskAfterStop == stopped = "yes" => system = None

\* "Its notification is updated with real tunnel counters before the
\* ten-minute DATA_TRANSFER expiry window": a task that is held, with nothing
\* under way, has its timer.
TaskIsUpdated ==
    obj.task # None /\ request = None /\ stop = None => obj.timer

\* A task that the Plugin asked for and the system cancelled is asked for again
\* while the Plugin holds a session (startContinuousTaskProtection), unless a
\* stop that ran meanwhile took its listener away.
TaskComesBack ==
    <>[](session /\ issued < MaxTasks /\ stopped = "no") => <>[](system # None)

=============================================================================
