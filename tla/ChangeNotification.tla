------------------------- MODULE ChangeNotification -------------------------
(***************************************************************************)
(* How the UI and the VPN Extension tell each other that a frame is in the *)
(* shared memory (SocketNotification in crates/paws_core/src/              *)
(* platform_ipc.rs; the pump and the subscription that wait).              *)
(*                                                                         *)
(* The UI listens; a binding of the Extension connects when it first       *)
(* publishes or waits.  One byte means "read the lane", and bytes          *)
(* coalesce.  Whoever of the UI accepts, the waiter or a publisher,        *)
(* replaces the current connection.  A socket stays open while a thread    *)
(* holds it in a poll or a send.                                           *)
(***************************************************************************)
EXTENDS Naturals, Sequences, SequencesExt

CONSTANTS
  None,
  MaxFrames,   \* bound: frames published by each side
  MaxAcks,     \* bound: acknowledgements by a short-lived binding
  MaxDeaths,   \* bound: deaths of the Extension process
  MaxCancels   \* bound: stopPlatformSubscription

ConstantsOK == {MaxFrames, MaxAcks, MaxDeaths, MaxCancels} \subseteq Nat /\ None \notin Nat

Peers == {"live", "ack"}
Conns == 1..(MaxAcks + MaxDeaths + MaxFrames + 2)

VARIABLES
  ui,       \* the UI process: is it alive, its connection, its pump, its publisher
  backlog,  \* connections the listener has not accepted
  made,     \* connections made so far
  peer,     \* the bindings of the Extension: their connection and publisher
  boot,     \* the live binding: "off", "read", "publish", "tick", "up"
  sub,      \* the subscription of the live binding
  toUi,     \* connections with an unread byte for the UI
  toPeer,   \* connections with an unread byte for the Extension
  frames,   \* frames written by "ui" and "vpn"
  read,     \* the frame each side read last
  told,     \* ghost: the newest frame of the Extension whose publish returned
  counts

vars == <<ui, backlog, made, peer, boot, sub, toUi, toPeer, frames, read, told, counts>>

Init ==
  /\ ui = [alive |-> TRUE, conn |-> None, wait |-> "start", held |-> None,
           wake |-> FALSE, pub |-> "idle", sending |-> None]
  /\ backlog = <<>> /\ made = 0
  /\ peer = [p \in Peers |-> [conn |-> None, pub |-> "idle", frame |-> 0]]
  /\ boot = "off"
  /\ sub = [at |-> "off", held |-> None, cancel |-> FALSE, wake |-> FALSE]
  /\ toUi = {} /\ toPeer = {}
  /\ frames = [ui |-> 0, vpn |-> 0] /\ read = [ui |-> 0, vpn |-> 0] /\ told = 0
  /\ counts = [ack |-> 0, death |-> 0, cancel |-> 0]

\* Ends of a connection that are open
UiOpen(c) == ui.alive /\ (c \in {ui.conn, ui.held, ui.sending} \/ c \in Range(backlog))
PeerOpen(c) == c = sub.held \/ \E p \in Peers : peer[p].conn = c

-----------------------------------------------------------------------------
(* The UI *)

\* Mutant of Accept: a parked waiter is left with its old poll set.
AcceptSilently(u) == IF backlog = <<>> THEN u ELSE [u EXCEPT !.conn = Last(backlog)]

\* SocketNotification::connection of the listener: the last connection wins,
\* and every acceptance wakes the waiter so that it polls that one
Accept(u) == IF backlog = <<>> THEN u
             ELSE [u EXCEPT !.conn = Last(backlog), !.wake = TRUE]

\* start_platform_vpn_event_pump; wait_internal: the poll set is made
UiPark ==
  /\ ui.alive /\ ui.wait = "start"
  /\ LET u == Accept(ui) IN ui' = [u EXCEPT !.wait = "parked", !.held = u.conn]
  /\ backlog' = <<>>
  /\ UNCHANGED <<made, peer, boot, sub, toUi, toPeer, frames, read, told, counts>>

UiReady(c) == c # None /\ (c \in toUi \/ ~PeerOpen(c))

\* wait_internal: the cancellation socket first, then the listener, then the
\* connection.  A closed connection wakes once and is dropped.
UiWake ==
  /\ ui.alive /\ ui.wait = "parked"
  /\ \/ /\ ui.wake
        /\ ui' = [ui EXCEPT !.wake = FALSE, !.wait = "start", !.held = None]
        /\ UNCHANGED <<backlog, toUi>>
     \/ /\ ~ui.wake /\ backlog # <<>>
        /\ ui' = [Accept(ui) EXCEPT !.wait = "woken", !.held = None]
        /\ backlog' = <<>> /\ UNCHANGED toUi
     \/ /\ ~ui.wake /\ backlog = <<>> /\ UiReady(ui.held)
        /\ ui' = [ui EXCEPT !.wait = "woken", !.held = None,
                            !.conn = IF ~PeerOpen(ui.held) /\ @ = ui.held THEN None ELSE @]
        /\ toUi' = toUi \ {ui.held}
        /\ UNCHANGED backlog
  /\ UNCHANGED <<made, peer, boot, sub, toPeer, frames, read, told, counts>>

\* sync_platform_changes, and the pump waits again
UiSync ==
  /\ ui.alive /\ ui.wait = "woken"
  /\ ui' = [ui EXCEPT !.wait = "start"]
  /\ read' = [read EXCEPT !.ui = frames.vpn]
  /\ UNCHANGED <<backlog, made, peer, boot, sub, toUi, toPeer, frames, told, counts>>

\* publish of the UI: the frame is in the memory
UiPublish ==
  /\ ui.alive /\ ui.pub = "idle" /\ frames.ui < MaxFrames
  /\ ui' = [ui EXCEPT !.pub = "notify"]
  /\ frames' = [frames EXCEPT !.ui = @ + 1]
  /\ UNCHANGED <<backlog, made, peer, boot, sub, toUi, toPeer, read, told, counts>>

\* notify: accepts what is waiting; nobody attached is no error
UiNotify ==
  /\ ui.alive /\ ui.pub = "notify"
  /\ LET u == Accept(ui)
     IN ui' = [u EXCEPT !.sending = u.conn, !.pub = IF u.conn = None THEN "idle" ELSE "send"]
  /\ backlog' = <<>>
  /\ UNCHANGED <<made, peer, boot, sub, toUi, toPeer, frames, read, told, counts>>

\* send; EPIPE clears the connection if it is still that one
UiSend ==
  /\ ui.alive /\ ui.pub = "send"
  /\ LET c == ui.sending
     IN IF PeerOpen(c)
        THEN toPeer' = toPeer \cup {c} /\ ui' = [ui EXCEPT !.pub = "idle", !.sending = None]
        ELSE /\ ui' = [ui EXCEPT !.pub = "idle", !.sending = None,
                                 !.conn = IF @ = c THEN None ELSE @]
             /\ UNCHANGED toPeer
  /\ UNCHANGED <<backlog, made, peer, boot, sub, toUi, frames, read, told, counts>>

UiDies ==
  /\ ui.alive
  /\ ui' = [ui EXCEPT !.alive = FALSE, !.conn = None, !.held = None, !.sending = None]
  /\ backlog' = <<>>
  /\ UNCHANGED <<made, peer, boot, sub, toUi, toPeer, frames, read, told, counts>>

-----------------------------------------------------------------------------
(* The Extension *)

\* Connect in SocketNotification::connection: refused if nobody listens
Connect(p) ==
  /\ ui.alive /\ peer[p].conn = None /\ made + 1 \in Conns
  /\ made' = made + 1
  /\ backlog' = Append(backlog, made + 1)

\* bind_platform_vpn_start reads the lane, and its publication connects; the
\* extensionTick behind it reads the lane again.
Bind ==
  /\ boot = "off" /\ ui.alive
  /\ boot' = "publish"
  /\ read' = [read EXCEPT !.vpn = frames.ui]
  /\ UNCHANGED <<ui, backlog, made, peer, sub, toUi, toPeer, frames, told, counts>>

\* publish of a binding: the frame is in the memory
Publish(p) ==
  /\ peer[p].pub = "idle" /\ frames.vpn < MaxFrames
  /\ IF p = "live" THEN boot \in {"publish", "up"}
     ELSE counts.ack < MaxAcks /\ boot # "off"
  /\ frames' = [frames EXCEPT !.vpn = @ + 1]
  /\ peer' = [peer EXCEPT ![p].pub = "notify", ![p].frame = frames.vpn + 1]
  /\ counts' = IF p = "ack" THEN [counts EXCEPT !.ack = @ + 1] ELSE counts
  /\ UNCHANGED <<ui, backlog, made, boot, sub, toUi, toPeer, read, told>>

\* notify: connects if there is no connection; an error is no error in the
\* Extension
Notify(p) ==
  /\ peer[p].pub = "notify"
  /\ \/ /\ peer[p].conn # None
        /\ peer' = [peer EXCEPT ![p].pub = "send"] /\ UNCHANGED <<backlog, made>>
     \/ /\ Connect(p)
        /\ peer' = [peer EXCEPT ![p].pub = "send", ![p].conn = made + 1]
     \/ /\ peer[p].conn = None /\ ~ui.alive
        /\ peer' = [peer EXCEPT ![p].pub = "sent"] /\ UNCHANGED <<backlog, made>>
  /\ UNCHANGED <<ui, boot, sub, toUi, toPeer, frames, read, told, counts>>

\* send; EPIPE clears the connection, and the next publication connects again
Send(p) ==
  /\ peer[p].pub = "send"
  /\ LET c == peer[p].conn
     IN IF c # None /\ UiOpen(c)
        THEN toUi' = toUi \cup {c} /\ peer' = [peer EXCEPT ![p].pub = "sent"]
        ELSE peer' = [peer EXCEPT ![p].pub = "sent", ![p].conn = None] /\ UNCHANGED toUi
  /\ UNCHANGED <<ui, backlog, made, boot, sub, toPeer, frames, read, told, counts>>

\* publish returns; the binding of an acknowledgement is dropped
Return(p) ==
  /\ peer[p].pub = "sent"
  /\ peer' = [peer EXCEPT ![p].pub = "idle", ![p].conn = IF p = "ack" THEN None ELSE @]
  /\ boot' = IF p = "live" /\ boot = "publish" THEN "tick" ELSE boot
  /\ told' = IF peer[p].frame > told THEN peer[p].frame ELSE told
  /\ UNCHANGED <<ui, backlog, made, sub, toUi, toPeer, frames, read, counts>>

\* Mutant of Tick: starts to listen without reading again.
TickBlind ==
  /\ boot = "tick" /\ boot' = "up"
  /\ sub' = [sub EXCEPT !.at = "start"]
  /\ UNCHANGED <<ui, backlog, made, peer, toUi, toPeer, frames, read, told, counts>>

\* extensionTick; then startPlatformSubscription
Tick ==
  /\ boot = "tick" /\ boot' = "up"
  /\ read' = [read EXCEPT !.vpn = frames.ui]
  /\ sub' = [sub EXCEPT !.at = "start"]
  /\ UNCHANGED <<ui, backlog, made, peer, toUi, toPeer, frames, told, counts>>

Ended == [at |-> "ended", held |-> None, cancel |-> FALSE, wake |-> FALSE]

\* wait_internal of a binding that connects; a pending cancellation returns at
\* once, and a connection that fails ends the subscription
SubPark ==
  /\ sub.at = "start"
  /\ \/ /\ sub.cancel
        /\ sub' = Ended /\ UNCHANGED <<backlog, made, peer>>
     \/ /\ ~sub.cancel /\ peer["live"].conn # None
        /\ sub' = [sub EXCEPT !.at = "parked", !.held = peer["live"].conn]
        /\ UNCHANGED <<backlog, made, peer>>
     \/ /\ ~sub.cancel /\ Connect("live")
        /\ peer' = [peer EXCEPT !["live"].conn = made + 1]
        /\ sub' = [sub EXCEPT !.at = "parked", !.held = made + 1]
     \/ /\ ~sub.cancel /\ peer["live"].conn = None /\ ~ui.alive
        /\ sub' = Ended /\ UNCHANGED <<backlog, made, peer>>
  /\ UNCHANGED <<ui, boot, toUi, toPeer, frames, read, told, counts>>

SubReady(c) == c # None /\ (c \in toPeer \/ ~UiOpen(c))

\* wait_internal returns: cancelled, closed (an error: the loop of the Ability
\* ends), or a byte (the loop reads the lane and waits again)
SubWake ==
  /\ sub.at = "parked"
  /\ \/ /\ sub.wake /\ sub.cancel
        /\ sub' = Ended /\ UNCHANGED <<peer, toPeer, read>>
     \/ /\ ~sub.wake /\ SubReady(sub.held) /\ ~UiOpen(sub.held)
        /\ sub' = Ended
        /\ peer' = [peer EXCEPT !["live"].conn = IF @ = sub.held THEN None ELSE @]
        /\ toPeer' = toPeer \ {sub.held} /\ UNCHANGED read
     \/ /\ ~sub.wake /\ sub.held \in toPeer /\ UiOpen(sub.held)
        /\ sub' = [sub EXCEPT !.at = "start", !.held = None]
        /\ toPeer' = toPeer \ {sub.held}
        /\ read' = [read EXCEPT !.vpn = frames.ui]
        /\ UNCHANGED peer
  /\ UNCHANGED <<ui, backlog, made, boot, toUi, frames, told, counts>>

\* stopPlatformSubscription, cancel_waits
CancelWait ==
  /\ sub.at \in {"start", "parked"} /\ counts.cancel < MaxCancels
  /\ counts' = [counts EXCEPT !.cancel = @ + 1]
  /\ sub' = [sub EXCEPT !.cancel = TRUE, !.wake = TRUE]
  /\ UNCHANGED <<ui, backlog, made, peer, boot, toUi, toPeer, frames, read, told>>

\* The Extension process dies; a later one binds again.
Dies ==
  /\ boot # "off" /\ counts.death < MaxDeaths
  /\ counts' = [counts EXCEPT !.death = @ + 1]
  /\ boot' = "off"
  /\ peer' = [p \in Peers |-> [conn |-> None, pub |-> "idle", frame |-> 0]]
  /\ sub' = [Ended EXCEPT !.at = "off"]
  /\ UNCHANGED <<ui, backlog, made, toUi, toPeer, frames, read, told>>

Next ==
  \/ UiPark \/ UiWake \/ UiSync \/ UiPublish \/ UiNotify \/ UiSend \/ UiDies
  \/ Bind \/ Tick \/ SubPark \/ SubWake \/ CancelWait \/ Dies
  \/ \E p \in Peers : Publish(p) \/ Notify(p) \/ Send(p) \/ Return(p)

Spec == Init /\ [][Next]_vars

\* Threads that can run do run; nobody has to publish, die or cancel.
Fair(n) ==
  \/ n = 1 /\ (UiPark \/ UiWake \/ UiSync)
  \/ n = 2 /\ (UiNotify \/ UiSend)
  \/ n = 3 /\ (Tick \/ SubPark \/ SubWake)
  \/ n = 4 /\ \E p \in Peers : Notify(p) \/ Send(p) \/ Return(p)

FairSpec == Spec /\ \A n \in 1..4 : WF_vars(Fair(n))

-----------------------------------------------------------------------------
(* Properties *)

\* The pump of the UI never sleeps on a frame: when it is parked it has read
\* every frame whose publication has returned, or a descriptor of it is ready.
PumpWillWake ==
  ui.alive /\ ui.wait = "parked"
    => read.ui >= told \/ ui.wake \/ backlog # <<>> \/ UiReady(ui.held)

\* Nor does the subscription of the Extension: a stop frame of the UI wakes it.
OwnerWillWake ==
  sub.at = "parked" /\ ui.pub = "idle"
    => read.vpn = frames.ui \/ sub.wake \/ SubReady(sub.held)

\* The subscription of a live owner ends only if it is cancelled or the UI dies.
SubscriptionLives == sub.at = "ended" => counts.cancel > 0 \/ ~ui.alive

\* A cancelled wait returns.
CancelReturns == []<>~sub.cancel
=============================================================================
