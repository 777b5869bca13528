-------------------------- MODULE PlatformSession --------------------------
(***************************************************************************)
(* The platform VPN session of Paws: the UI process and the VPN Extension  *)
(* processes of HarmonyOS, the durable owner journal and leases they       *)
(* share, and the two state lanes of the shared memory between them.       *)
(*                                                                         *)
(* An operation of Core runs under Core's state lock, so inside one        *)
(* process it is atomic.  It is cut into several actions exactly where the *)
(* other process can come between two of its effects on shared state: a    *)
(* lane, the journal, a lease.                                             *)
(*                                                                         *)
(* Lane frames carry strictly increasing stamps and a reader applies a     *)
(* frame only when its stamp is newer than the last one it applied, so the *)
(* stamps are abstracted to seen[p]: p has applied the frame that is in    *)
(* its remote lane now.                                                    *)
(***************************************************************************)
EXTENDS PlatformOwner, Sequences, FiniteSets

CONSTANTS
    MaxIntents,      \* bound on the typed VPN intents of one UI process
    MaxQueue,        \* bound on the Plugin operations queued or running
    Faults           \* the kinds of failure that may happen

ASSUME BoundsAssumption ==
    /\ MaxIntents \in Nat
    /\ MaxQueue \in Nat

(* uiCrash, extCrash: a process of that kind dies                          *)
(* start: the system start or the handoff, create(), protectProcessNet or  *)
(*   the engine fails or times out                                         *)
(* io: the journal or a lease file is busy or fails during bind            *)
(* cleanup: destroy() rejects, or the journal fails in the acknowledgement *)
(* osStop: the system stop rejects                                         *)
(* watchdog: a frame is late for longer than the heartbeat watchdog waits  *)
(* redelivery: the system delivers a Want that carries descriptors again,  *)
(*   to the same or to a recreated process (the one-shot handoff cannot)   *)
(* timeout: a cleanup outlives the time a later request waits for it       *)
(* lateDestroy: onDestroy arrives while performStart awaits the network    *)
FaultKinds == {"uiCrash", "extCrash", "start", "io", "cleanup", "osStop",
               "watchdog", "redelivery", "timeout", "lateDestroy"}

ASSUME FaultsAssumption == Faults \subseteq FaultKinds

VARIABLES
    journal,      \* the owner journal
    issuerLease,  \* the lease of the UI process that issued the attempt
    extLease,     \* the lease of the Extension that adopted it
    status,       \* [Procs -> {"unborn", "alive", "dead"}]
    core,         \* [Procs -> Cores]: the platform part of CoreState
    uiLane,       \* [Uis -> Frames]: the lane the UI process writes
    vpnLane,      \* [Uis -> Frames]: the lane an Extension writes to that UI
    seen,         \* [Procs -> BOOLEAN]: the remote frame has been applied
    epoch,        \* platform_vpn_intent_epoch of the UI process
    fence,        \* platform_os_stop_{epoch, attempt_id, in_flight}
    claim,        \* the claim_current_platform_vpn_stop call in progress
    ops,          \* the Plugin's operation chain, its head running
    nextAttempt,  \* the attempt the next begin issues
    wants,        \* Wants handed to the system: it may deliver each late,
                  \* again, or to a recreated process
    dispatch,     \* attempts whose system start Promise may still reject
    destroying,   \* Extensions with an onDestroy callback on its way
    ipc,          \* [Exts -> Uis \cup {None}]: the attached shared memory
    pc,           \* [Exts -> ExtPcs]: where the Ability's request chain is
    req,          \* [Exts -> attempt]: inFlightAttemptId
    act,          \* [Exts -> attempt]: activeAttemptId
    snap,         \* [Exts -> Journals]: the journal as bind read it
    conn,         \* [Exts -> BOOLEAN]: vpnConnection is set
    creating,     \* [Exts -> attempt whose create() has not settled, or 0]
    tun,          \* [Exts -> attempt whose TUN exists, or 0]
    native,       \* [Exts -> BOOLEAN]: the engine's data plane is up
    cleaning      \* [Exts -> Cleanups]: the Ability's pendingCleanup

shared == <<journal, issuerLease, extLease>>
lanes == <<core, uiLane, vpnLane, seen>>
plugin == <<epoch, fence, claim, ops, nextAttempt, wants, dispatch>>
ability == <<ipc, pc, req, act, snap, conn, creating, tun, native, cleaning>>
vars == <<shared, lanes, plugin, ability, status, destroying>>

-----------------------------------------------------------------------------
(* Core state and lane frames *)

Outcomes == {"Idle", "Pending", "Connected", "Failed", "Cancelled"}
Terminal == {"Failed", "Cancelled"}

Frames == [attempt : Attempts \cup {NoAttempt}, outcome : Outcomes,
           attached : BOOLEAN, stopReq : BOOLEAN, owner : Exts \cup {None},
           cleanup : BOOLEAN, starting : BOOLEAN, running : BOOLEAN]

(* CoreState keeps the frame's fields and, in the UI process, whether the  *)
(* heartbeat has been observed to be overdue.                              *)
Cores == [frame : Frames, stale : BOOLEAN]

InitFrame == [attempt |-> NoAttempt, outcome |-> "Idle", attached |-> FALSE,
              stopReq |-> FALSE, owner |-> None, cleanup |-> FALSE,
              starting |-> FALSE, running |-> FALSE]

InitCore == [frame |-> InitFrame, stale |-> FALSE]

ExtPcs == {"idle", "request", "acquire", "attach", "publish", "unbound",
           "settle", "bound", "starting", "network", "creating", "created",
           "protected", "committing", "committed", "failing", "connected"}

(* A cleanup of the Ability: the attempt it releases (none for a stray     *)
(* connection) and whether it has a connection to destroy.                 *)
Cleanups == [pc : {"none", "stop", "destroy", "ack", "acked", "failed"},
             attempt : Attempts \cup {NoAttempt}, conn : BOOLEAN]

NoCleanup == [pc |-> "none", attempt |-> NoAttempt, conn |-> FALSE]

Alive(p) == status[p] = "alive"

(* platform_vpn_state: what a process publishes of its state.              *)
Mine(p) == core[p].frame

(* The lane that the peer of p writes.                                     *)
Remote(p) == IF p \in Uis THEN vpnLane[p]
             ELSE IF ipc[p] = None THEN InitFrame ELSE uiLane[ipc[p]]

Matches(f, r) == r.attempt # NoAttempt /\ r.attempt = f.attempt

(* Mutant of Merge: any newer frame wins, whatever is known already.       *)
MergeNewest(f, r, isUi) ==
    [r EXCEPT !.stopReq = f.stopReq \/ r.stopReq,
              !.owner = IF isUi THEN r.owner ELSE f.owner]

(* apply_platform_envelope_locked on a newer frame r of the same attempt.  *)
Merge(f, r, isUi) ==
    LET localTerminal == f.outcome \in Terminal
        remoteTerminal == r.outcome \in Terminal
        Choose(onRemoteTerminal, onLive, otherwise) ==
            IF remoteTerminal THEN onRemoteTerminal
            ELSE IF ~localTerminal THEN onLive ELSE otherwise
    IN [attempt  |-> f.attempt,
        outcome  |-> Choose(r.outcome,
                            IF r.running /\ f.outcome = "Pending"
                            THEN "Connected" ELSE f.outcome,
                            f.outcome),
        attached |-> IF remoteTerminal THEN r.attached
                     ELSE f.attached \/ r.attached,
        stopReq  |-> f.stopReq \/ r.stopReq,
        owner    |-> IF isUi THEN r.owner ELSE f.owner,
        cleanup  |-> Choose(r.cleanup, FALSE, f.cleanup),
        starting |-> Choose(FALSE, ~r.running /\ r.starting, f.starting),
        running  |-> Choose(FALSE, r.running, f.running)]

(* sync_platform_vpn_state_locked: the state of p after it has read its    *)
(* remote lane.  Frames of other attempts and frames already applied       *)
(* change nothing.                                                         *)
Synced(p) ==
    IF Matches(Mine(p), Remote(p)) /\ ~seen[p]
    THEN Merge(Mine(p), Remote(p), p \in Uis)
    ELSE Mine(p)

(* apply_platform_failure *)
FailedFrame(f) == [f EXCEPT !.outcome = "Failed", !.starting = FALSE,
                            !.running = FALSE]

(* The stop flag or cleanup acknowledgement completes the attempt.         *)
CleanedFrame(f) == [f EXCEPT !.cleanup = TRUE, !.attached = FALSE,
                             !.stopReq = TRUE, !.owner = None]

(* q reads the lane that p writes.                                         *)
Reads(q, p) ==
    \/ p \in Uis /\ q \in Exts /\ ipc[q] = p
    \/ p \in Exts /\ q \in Uis /\ ipc[p] = q

(* p leaves f in its state, after it has synchronised or not; if published,*)
(* f is also the newest frame of its lane                                  *)
(* (persist_platform_vpn_state_locked).                                    *)
Store(p, f, synced, published) ==
    /\ core' = [core EXCEPT ![p] =
                   [frame |-> f,
                    stale |-> /\ core[p].stale
                              /\ seen[p] \/ ~synced
                              /\ f.running]]
    /\ uiLane' = IF published /\ p \in Uis
                 THEN [uiLane EXCEPT ![p] = f] ELSE uiLane
    /\ vpnLane' = IF published /\ p \in Exts /\ ipc[p] # None
                  THEN [vpnLane EXCEPT ![ipc[p]] = f] ELSE vpnLane
    /\ seen' = [q \in Procs |->
                   IF q = p THEN seen[p] \/ (synced /\ Matches(f, Remote(p)))
                   ELSE seen[q] /\ ~(published /\ Reads(q, p))]

(* A completed cleanup makes its process close both lease descriptors.     *)
LeasesFollow(p, f) ==
    /\ issuerLease' = IF f.cleanup THEN ReleasedBy(issuerLease, p)
                      ELSE issuerLease
    /\ extLease' = IF f.cleanup THEN ReleasedBy(extLease, p) ELSE extLease

(* An operation of Core that touches its state and its lane only.          *)
LocalOp(p, f, published) ==
    /\ Store(p, f, TRUE, published)
    /\ LeasesFollow(p, f)
    /\ UNCHANGED journal
-----------------------------------------------------------------------------
(* The UI process: typed intents and the OS-stop fence *)

OpPcs == {"head", "authorize", "cooperative", "osBegin", "osStop",
          "recover", "recoverRead", "recoverMissing", "recoverProve",
          "recoverDelete", "recoverFinish", "begin", "await"}

Ops == [kind : {"start", "stop"}, epoch : Nat, session : Attempts \cup {NoAttempt},
        pc : OpPcs, cleaned : BOOLEAN, unattached : BOOLEAN, seen : Journals]

NewOp(kind, ep, a, where) ==
    [kind |-> kind, epoch |-> ep, session |-> a, pc |-> where,
     cleaned |-> a = NoAttempt, unattached |-> FALSE, seen |-> NoJournal]

NoFence == [epoch |-> 0, attempt |-> NoAttempt, inFlight |-> FALSE]
Fences == [epoch : Nat, attempt : Attempts \cup {NoAttempt}, inFlight : BOOLEAN]

NoClaim == [pc |-> "none", kind |-> "stop", epoch |-> 0, seen |-> NoJournal]
Claims == [pc : {"none", "publish", "fence", "reread"},
           kind : {"start", "stop"}, epoch : Nat, seen : Journals]

IsStopCurrent(ep, a) ==
    /\ epoch = ep
    /\ fence = [epoch |-> ep, attempt |-> a, inFlight |-> FALSE]

CanDispatchStop(ep, a) ==
    \/ IsStopCurrent(ep, a)
    \/ a = NoAttempt /\ epoch = ep

(* The process runs and no other call of it holds Core's state lock.       *)
UiReady(u) == Alive(u) /\ claim.pc = "none"

AtHead(u, where) ==
    /\ Alive(u)
    /\ Len(ops) > 0
    /\ Head(ops).pc = where

Op == Head(ops)
Step(op) == ops' = <<op>> \o Tail(ops)
Goto(where) == Step([Op EXCEPT !.pc = where])
EndOp == ops' = Tail(ops)

(* performStopVpn has returned: a stop ends; a start that had to stop a    *)
(* previous owner first goes on, if it is still the newest intent.         *)
AfterStop == IF Op.kind = "start" /\ Op.epoch = epoch THEN Goto("begin")
             ELSE EndOp

(* claim_current_platform_vpn_stop has returned attempt a, or an error.    *)
ClaimReturns(kind, ep, a) ==
    /\ claim' = NoClaim
    /\ IF kind = "stop"
       THEN ops' = Append(ops, NewOp("stop", ep, a, "authorize"))
       ELSE Step(NewOp("start", ep, a,
                       IF a # NoAttempt \/ (fence'.epoch = ep /\ fence'.attempt = a)
                       THEN "authorize" ELSE "begin"))

ClaimFails(kind) ==
    /\ claim' = NoClaim
    /\ ops' = IF kind = "start" THEN Tail(ops) ELSE ops
    /\ UNCHANGED fence

(* What claim refuses: the journal, the retained fence and the state of    *)
(* this process must agree on the owner.                                   *)
ClaimConflict(f) ==
    LET owes == f.attempt # NoAttempt /\ ~f.cleanup
    IN \/ fence.inFlight
       \/ owes /\ f.attempt # journal.attempt
       \/ /\ journal # NoJournal
          /\ fence.epoch # 0
          /\ fence.attempt # journal.attempt

(* First part of claim_current_platform_vpn_stop: synchronise, read the    *)
(* journal, refuse or go on.                                               *)
ClaimRead(u, kind, ep) ==
    LET f == Synced(u)
    IN /\ IF fence.inFlight
          THEN UNCHANGED <<core, uiLane, vpnLane, seen, issuerLease, extLease, journal>>
          ELSE LocalOp(u, f, FALSE)
       /\ \/ ClaimConflict(f) /\ ClaimFails(kind)
          \/ /\ ~ClaimConflict(f)
             /\ journal = NoJournal
             /\ fence' = IF fence.epoch # 0
                         THEN [fence EXCEPT !.epoch = ep, !.inFlight = FALSE]
                         ELSE fence
             /\ ClaimReturns(kind, ep, fence.attempt)
          \/ /\ ~ClaimConflict(f)
             /\ journal # NoJournal
             /\ claim' = [pc |-> "publish", kind |-> kind, epoch |-> ep,
                          seen |-> journal]
             /\ UNCHANGED <<fence, ops>>

FenceClaimed ==
    /\ fence' = [epoch |-> claim.epoch, attempt |-> claim.seen.attempt,
                 inFlight |-> FALSE]
    /\ ClaimReturns(claim.kind, claim.epoch, claim.seen.attempt)

(* Second part: the terminal or stop state reaches the lane before the     *)
(* journal is fenced.  A cold owner leaves the state of this process alone.*)
ClaimPublish(u) ==
    LET f == Mine(u)
        cold == f.attempt = NoAttempt \/ f.cleanup
        stopped == IF f.outcome = "Pending"
                   THEN [f EXCEPT !.outcome = "Cancelled", !.starting = FALSE,
                                  !.running = FALSE, !.stopReq = TRUE]
                   ELSE [f EXCEPT !.stopReq = TRUE]
    IN /\ Alive(u)
       /\ claim.pc = "publish"
       /\ IF cold THEN UNCHANGED lanes ELSE Store(u, stopped, FALSE, TRUE)
       /\ \/ /\ claim.seen.phase = "Pending"
             /\ claim' = [claim EXCEPT !.pc = "fence"]
             /\ UNCHANGED <<fence, ops>>
          \/ claim.seen.phase \in {"Attached", "Stopping"} /\ FenceClaimed
       /\ UNCHANGED <<shared, ability, status, destroying, epoch, nextAttempt,
                      wants, dispatch>>

(* Third part: the Pending-to-Stopping compare-and-swap.                   *)
ClaimFence(u) ==
    /\ Alive(u)
    /\ claim.pc = "fence"
    /\ IF CanFencePendingStop(journal, claim.seen.attempt, claim.seen.issuer)
       THEN journal' = Fenced(journal) /\ FenceClaimed
       ELSE /\ claim' = [claim EXCEPT !.pc = "reread"]
            /\ UNCHANGED <<journal, fence, ops>>
    /\ UNCHANGED <<lanes, issuerLease, extLease, ability, status, destroying,
                   epoch, nextAttempt, wants, dispatch>>

(* Last part, when the swap lost: only attachment may have won.            *)
ClaimReread(u) ==
    /\ Alive(u)
    /\ claim.pc = "reread"
    /\ IF journal.attempt = claim.seen.attempt
          /\ journal.phase \in {"Attached", "Stopping"}
       THEN FenceClaimed ELSE ClaimFails(claim.kind)
    /\ UNCHANGED <<shared, lanes, ability, status, destroying,
                   epoch, nextAttempt, wants, dispatch>>

(* requestStartVpn: order the intent, queue the operation.                 *)
RequestStart(u) ==
    /\ UiReady(u)
    /\ epoch < MaxIntents
    /\ Len(ops) < MaxQueue
    /\ epoch' = epoch + 1
    /\ ops' = Append(ops, NewOp("start", epoch + 1, NoAttempt, "head"))
    /\ UNCHANGED <<shared, lanes, ability, status, destroying,
                   fence, claim, nextAttempt, wants, dispatch>>

(* requestStopVpn: order the intent and claim the owner at once, before    *)
(* the operation waits for its turn.                                       *)
RequestStop(u) ==
    /\ UiReady(u)
    /\ epoch < MaxIntents
    /\ Len(ops) < MaxQueue
    /\ epoch' = epoch + 1
    /\ ClaimRead(u, "stop", epoch + 1)
    /\ UNCHANGED <<ability, status, destroying, nextAttempt, wants, dispatch>>

(* performStartVpn reaches the head of the queue: a superseded request     *)
(* ends, the newest one first claims whatever owner is left.               *)
StartHead(u) ==
    /\ UiReady(u)
    /\ AtHead(u, "head")
    /\ IF Op.epoch # epoch
       THEN EndOp /\ UNCHANGED <<shared, lanes, fence, claim>>
       ELSE ClaimRead(u, "start", Op.epoch)
    /\ UNCHANGED <<ability, status, destroying, epoch, nextAttempt, wants, dispatch>>

-----------------------------------------------------------------------------
(* The UI process: performStopVpn *)

(* The queued stop touches the owner only while it still owns the fence;   *)
(* then request_platform_vpn_stop asks an attached, non-terminal Extension *)
(* to tear down.                                                           *)
Authorize(u) ==
    LET f == Synced(u)
        asks == /\ Op.session # NoAttempt
                /\ f.attempt = Op.session
                /\ f.cleanup \/ (f.attached /\ f.outcome \notin Terminal)
    IN /\ UiReady(u)
       /\ AtHead(u, "authorize")
       /\ IF ~CanDispatchStop(Op.epoch, Op.session)
          THEN AfterStop /\ UNCHANGED <<shared, lanes>>
          ELSE IF Op.session = NoAttempt
          THEN Goto("osBegin") /\ UNCHANGED <<shared, lanes>>
          ELSE IF asks /\ ~f.cleanup /\ ~f.stopReq
          THEN /\ LocalOp(u, [f EXCEPT !.stopReq = TRUE], TRUE)
               /\ Goto("cooperative")
          ELSE /\ LocalOp(u, f, FALSE)
               /\ Goto(IF asks THEN "cooperative" ELSE "osBegin")
       /\ UNCHANGED <<ability, status, destroying, epoch, fence, claim,
                      nextAttempt, wants, dispatch>>

(* await_platform_vpn_stop: cleanup observed, owner replaced, or the       *)
(* cooperative timeout elapsed with cleanup still pending.                 *)
Cooperative(u) ==
    LET f == Synced(u)
        complete == /\ ~f.running
                    /\ ~f.starting
                    /\ f.cleanup
                    /\ f.outcome \in Terminal
    IN /\ UiReady(u)
       /\ AtHead(u, "cooperative")
       /\ LocalOp(u, f, FALSE)
       /\ \/ f.attempt # Op.session /\ AfterStop
          \/ /\ f.attempt = Op.session
             /\ Step([Op EXCEPT !.pc = "osBegin", !.cleaned = complete])
       /\ UNCHANGED <<ability, status, destroying, epoch, fence, claim,
                      nextAttempt, wants, dispatch>>

(* begin_platform_vpn_os_stop and the system call it is followed by.       *)
OsStopBegin(u) ==
    LET begins == /\ CanDispatchStop(Op.epoch, Op.session)
                  /\ ~fence.inFlight
                  /\ IF fence.epoch = 0 THEN Op.session = NoAttempt
                     ELSE fence.epoch = Op.epoch /\ fence.attempt = Op.session
    IN /\ UiReady(u)
       /\ AtHead(u, "osBegin")
       /\ IF begins
          THEN /\ fence' = [epoch |-> Op.epoch, attempt |-> Op.session,
                            inFlight |-> TRUE]
               /\ destroying' = {e \in Exts : Alive(e)}
               /\ Goto("osStop")
          ELSE AfterStop /\ UNCHANGED <<fence, destroying>>
       /\ UNCHANGED <<shared, lanes, ability, status, epoch, claim,
                      nextAttempt, wants, dispatch>>

(* The system stop Promise resolves: complete_platform_vpn_os_stop.        *)
OsStopConfirmed(u) ==
    /\ UiReady(u)
    /\ AtHead(u, "osStop")
    /\ fence' = NoFence
    /\ IF Op.cleaned THEN AfterStop ELSE Goto("recover")
    /\ UNCHANGED <<shared, lanes, ability, status, destroying, epoch, claim,
                   nextAttempt, wants, dispatch>>

(* It rejects: fail_platform_vpn_os_stop keeps the fence for a retry.      *)
OsStopRejected(u) ==
    /\ "osStop" \in Faults
    /\ UiReady(u)
    /\ AtHead(u, "osStop")
    /\ fence' = [fence EXCEPT !.inFlight = FALSE]
    /\ EndOp
    /\ UNCHANGED <<shared, lanes, ability, status, destroying, epoch, claim,
                   nextAttempt, wants, dispatch>>

-----------------------------------------------------------------------------
(* The UI process: recover_platform_vpn_cleanup_after_confirmed_stop       *)

RecoverSync(u) ==
    LET f == Synced(u)
    IN /\ UiReady(u)
       /\ AtHead(u, "recover")
       /\ LocalOp(u, f, FALSE)
       /\ IF f.attempt = Op.session /\ f.cleanup
          THEN AfterStop
          ELSE Step([Op EXCEPT !.pc = "recoverRead",
                       !.unattached = /\ f.attempt = Op.session
                                      /\ ~f.attached
                                      /\ f.stopReq
                                      /\ f.outcome \in Terminal])
       /\ UNCHANGED <<ability, status, destroying, epoch, fence, claim,
                      nextAttempt, wants, dispatch>>

(* The journal is read outside the state lock.                             *)
RecoverRead(u) ==
    /\ AtHead(u, "recoverRead")
    /\ IF journal = NoJournal THEN Goto("recoverMissing")
       ELSE IF journal.attempt # Op.session THEN EndOp
       ELSE Step([Op EXCEPT !.pc = "recoverProve", !.seen = journal])
    /\ UNCHANGED <<shared, lanes, ability, status, destroying, epoch, fence,
                   claim, nextAttempt, wants, dispatch>>

RecoverMissing(u) ==
    LET f == Synced(u)
    IN /\ UiReady(u)
       /\ AtHead(u, "recoverMissing")
       /\ LocalOp(u, f, FALSE)
       /\ IF f.attempt = Op.session /\ f.cleanup THEN AfterStop ELSE EndOp
       /\ UNCHANGED <<ability, status, destroying, epoch, fence, claim,
                      nextAttempt, wants, dispatch>>

(* The proof that the owner of the record the operation has read is gone.  *)
Observed(j) == IF j.phase = "Pending"
               THEN Observe(issuerLease, j.attempt, j.issuer)
               ELSE Observe(extLease, j.attempt, j.extension)

(* Mutant of Proven: a confirmed OS stop is proof enough.                  *)
ProvenByStop(op) == Observed(op.seen) # "HeldOther"

Proven(op) == \/ op.seen.phase = "Stopping"
              \/ op.seen.phase = "Pending" /\ op.unattached
              \/ Observed(op.seen) = "Released"

(* A live owner is polled for, an owner nobody can identify is an error.   *)
RecoverProve(u) ==
    /\ AtHead(u, "recoverProve")
    /\ \/ Proven(Op) /\ Goto("recoverDelete")
       \/ ~Proven(Op) /\ Observed(Op.seen) = "HeldExact" /\ Goto("recover")
       \/ ~Proven(Op) /\ Observed(Op.seen) = "HeldOther" /\ EndOp
    /\ UNCHANGED <<shared, lanes, ability, status, destroying, epoch, fence,
                   claim, nextAttempt, wants, dispatch>>

(* The recovery deadline ends the polling.                                 *)
RecoverDeadline(u) ==
    /\ AtHead(u, "recoverProve")
    /\ ~Proven(Op)
    /\ Observed(Op.seen) = "HeldExact"
    /\ EndOp
    /\ UNCHANGED <<shared, lanes, ability, status, destroying, epoch, fence,
                   claim, nextAttempt, wants, dispatch>>

RecoverDelete(u) ==
    /\ AtHead(u, "recoverDelete")
    /\ IF CanDelete(journal, Op.session, Op.seen.extension)
       THEN journal' = NoJournal /\ Goto("recoverFinish")
       ELSE UNCHANGED journal /\ Goto("recover")
    /\ UNCHANGED <<lanes, issuerLease, extLease, ability, status, destroying,
                   epoch, fence, claim, nextAttempt, wants, dispatch>>

RecoverFinish(u) ==
    LET f == Synced(u)
        released == CleanedFrame(
            [f EXCEPT !.starting = FALSE, !.running = FALSE,
                      !.outcome = IF f.outcome = "Failed" THEN "Failed"
                                  ELSE "Cancelled"])
    IN /\ UiReady(u)
       /\ AtHead(u, "recoverFinish")
       /\ IF f.attempt = Op.session /\ ~f.cleanup
          THEN LocalOp(u, released, TRUE) ELSE LocalOp(u, f, FALSE)
       /\ AfterStop
       /\ UNCHANGED <<ability, status, destroying, epoch, fence, claim,
                      nextAttempt, wants, dispatch>>

-----------------------------------------------------------------------------
(* The UI process: start *)

(* begin_platform_vpn_start_for_intent, then the dispatch of the Want,     *)
(* which the Plugin performs before it yields.                             *)
Begin(u) ==
    LET f == Synced(u)
        refused == \/ Op.epoch # epoch
                   \/ fence.epoch # 0
                   \/ f.outcome = "Pending"
                   \/ f.attempt # NoAttempt /\ ~f.cleanup
                   \/ f.running
                   \/ journal # NoJournal
                   \/ ~CanAcquire(ReleasedBy(issuerLease,
                                             IF f.cleanup THEN u ELSE None))
                   \/ nextAttempt > MaxAttempts
        pending == [InitFrame EXCEPT !.attempt = nextAttempt,
                                     !.outcome = "Pending", !.starting = TRUE]
    IN /\ UiReady(u)
       /\ AtHead(u, "begin")
       /\ \/ /\ refused
             /\ LocalOp(u, f, FALSE)
             /\ EndOp
             /\ UNCHANGED <<nextAttempt, wants, dispatch>>
          \/ /\ ~refused
             /\ issuerLease' = Acquired(nextAttempt, u)
             /\ extLease' = ReleasedBy(extLease, u)
             /\ journal' = PendingJournal(nextAttempt, u)
             /\ core' = [core EXCEPT ![u] = [frame |-> pending, stale |-> FALSE]]
             /\ uiLane' = [uiLane EXCEPT ![u] = pending]
             /\ UNCHANGED vpnLane
             /\ seen' = [q \in Procs |-> seen[q] /\ q # u /\ ~Reads(q, u)]
             /\ nextAttempt' = nextAttempt + 1
             /\ wants' = wants \cup {[attempt |-> nextAttempt, ui |-> u]}
             /\ dispatch' = dispatch \cup {nextAttempt}
             /\ Step([Op EXCEPT !.pc = "await", !.session = nextAttempt])
       /\ UNCHANGED <<ability, status, destroying, epoch, fence, claim>>

(* await_platform_vpn_start returns on any settled outcome.                *)
AwaitDone(u) ==
    /\ UiReady(u)
    /\ AtHead(u, "await")
    /\ \/ Mine(u).attempt # Op.session
       \/ Mine(u).outcome # "Pending"
    /\ EndOp
    /\ UNCHANGED <<shared, lanes, ability, status, destroying, epoch, fence,
                   claim, nextAttempt, wants, dispatch>>

(* Mutant of AwaitDeadline: the deadline synchronises but does not fail.   *)
AwaitDeadlineWaits(u) ==
    /\ UiReady(u)
    /\ AtHead(u, "await")
    /\ Mine(u).attempt = Op.session
    /\ Mine(u).outcome = "Pending"
    /\ LocalOp(u, Synced(u), FALSE)
    /\ UNCHANGED <<plugin, ability, status, destroying>>

(* Its deadline: fail_platform_vpn_start.                                  *)
AwaitDeadline(u) ==
    LET f == Synced(u)
    IN /\ UiReady(u)
       /\ AtHead(u, "await")
       /\ Mine(u).attempt = Op.session
       /\ Mine(u).outcome = "Pending"
       /\ IF f.outcome = "Pending"
          THEN LocalOp(u, FailedFrame(f), TRUE) ELSE LocalOp(u, f, FALSE)
       /\ UNCHANGED <<plugin, ability, status, destroying>>

(* fail_unattached_platform_vpn_start: only an attempt that no Extension   *)
(* has attached to, in the lane or in the journal, needs no cleanup.       *)
FailsUnattached(f, a) ==
    /\ f.attempt = a
    /\ f.outcome = "Pending"
    /\ ~f.attached
    /\ CanDeletePending(journal, a)

FailedUnattached(f) == [FailedFrame(f) EXCEPT !.cleanup = TRUE]

(* The system start Promise rejects, or the handoff fails.                 *)
DispatchRejected(u, a) ==
    /\ "start" \in Faults
    /\ UiReady(u)
    /\ a \in dispatch
    /\ dispatch' = dispatch \ {a}
    /\ LET f == Synced(u)
       IN IF FailsUnattached(f, a)
          THEN /\ journal' = NoJournal
               /\ Store(u, FailedUnattached(f), TRUE, TRUE)
               /\ LeasesFollow(u, FailedUnattached(f))
          ELSE LocalOp(u, f, FALSE)
    /\ UNCHANGED <<ability, status, destroying, epoch, fence, claim, ops,
                   nextAttempt, wants>>

-----------------------------------------------------------------------------
(* The UI process: observation of the Extension *)

(* The event pump, and every other read of the lane by the UI process.     *)
UiSync(u) ==
    /\ UiReady(u)
    /\ ~seen[u]
    /\ Matches(Mine(u), Remote(u))
    /\ LocalOp(u, Synced(u), FALSE)
    /\ UNCHANGED <<plugin, ability, status, destroying>>

(* The heartbeat watchdog: no newer frame of a running session for the     *)
(* stale time, then for the wake grace.                                    *)
UiWatchdog(u) ==
    LET f == Mine(u)
    IN /\ "watchdog" \in Faults
       /\ UiReady(u)
       /\ seen[u]
       /\ f.running
       /\ Remote(u).running
       /\ Matches(f, Remote(u))
       /\ IF core[u].stale
          THEN LocalOp(u, FailedFrame(f), TRUE)
          ELSE /\ core' = [core EXCEPT ![u].stale = TRUE]
               /\ UNCHANGED <<shared, uiLane, vpnLane, seen>>
       /\ UNCHANGED <<plugin, ability, status, destroying>>

(* refresh_platform_vpn_owner_liveness_locked: it holds the released       *)
(* Extension lease while it checks the journal and publishes the failure.  *)
UiOwnerReleased(u) ==
    LET f == Synced(u)
    IN /\ UiReady(u)
       /\ f.attached
       /\ ~f.cleanup
       /\ f.outcome \in {"Pending", "Connected"}
       /\ CanAcquire(extLease)
       /\ journal.phase = "Attached"
       /\ journal.attempt = f.attempt
       /\ journal.extension = f.owner
       /\ LocalOp(u, FailedFrame(f), TRUE)
       /\ UNCHANGED <<plugin, ability, status, destroying>>

-----------------------------------------------------------------------------
(* The Extension: delivery of a Want and bind_platform_vpn_start           *)

Moves(e, where) == pc' = [pc EXCEPT ![e] = where]

(* The chain of e is at a step that its cleanup does not keep from Core's  *)
(* state lock.                                                             *)
At(e, where) == Alive(e) /\ pc[e] = where /\ cleaning[e].pc # "acked"

(* validate_platform_start_envelope *)
ActiveFor(r, a) == r.attempt = a /\ r.outcome \in {"Pending", "Connected"}

(* A Want reaches an Extension process, which it creates if need be: the   *)
(* request is validated against the journal and the UI lane it carries,    *)
(* that lane is attached, and the request waits for its turn.              *)
Deliver(e, w) ==
    /\ \/ status[e] = "unborn"
       \/ Alive(e) /\ pc[e] \in {"idle", "request"}
    /\ w \in wants
    /\ req[e] # w.attempt
    /\ journal.attempt = w.attempt
    /\ \/ /\ journal.phase = "Pending"
          /\ Observe(issuerLease, w.attempt, journal.issuer) = "HeldExact"
       \/ journal.phase = "Attached"
    /\ ActiveFor(uiLane[w.ui], w.attempt)
    /\ status' = [status EXCEPT ![e] = "alive"]
    /\ ipc' = [ipc EXCEPT ![e] = w.ui]
    /\ seen' = [seen EXCEPT ![e] = FALSE]
    /\ req' = [req EXCEPT ![e] = w.attempt]
    /\ Moves(e, "request")
    /\ wants' = IF "redelivery" \in Faults THEN wants ELSE wants \ {w}
    /\ UNCHANGED <<shared, core, uiLane, vpnLane, epoch, fence, claim, ops,
                   nextAttempt, dispatch, destroying, act, snap, conn, creating,
                   tun, native, cleaning>>

(* handleRequest waits for the cleanup before it.  One that failed refuses *)
(* the request; one that is still running is waited for no longer than the *)
(* platform timeout.                                                       *)
RequestRefused(e) ==
    /\ At(e, "request")
    /\ cleaning[e].pc = "failed"
    /\ cleaning' = [cleaning EXCEPT ![e] = NoCleanup]
    /\ Moves(e, "unbound")
    /\ UNCHANGED <<shared, lanes, plugin, status, destroying, ipc, req, act,
                   snap, conn, creating, tun, native>>

(* waitForPendingCleanup lets the request go on.                           *)
CleanupAwaited(e) ==
    /\ cleaning[e].pc # "failed"
    /\ cleaning[e].pc = "none" \/ "timeout" \in Faults

(* sync_platform_for_binding_locked adopts the attempt of the UI lane; an  *)
(* attempt that was connected in a process that died is reopened.          *)
BindSync(e) ==
    LET a == req[e]
        r == Remote(e)
        f == Mine(e)
        adopted == IF f.attempt = a THEN Synced(e)
                   ELSE Merge([f EXCEPT !.attempt = a, !.outcome = r.outcome,
                                        !.attached = r.attached,
                                        !.stopReq = r.stopReq,
                                        !.owner = r.owner,
                                        !.cleanup = r.cleanup], r, FALSE)
        bound == IF adopted.outcome = "Connected" /\ ~native[e]
                 THEN [adopted EXCEPT !.outcome = "Pending", !.starting = TRUE,
                                      !.running = FALSE, !.cleanup = FALSE]
                 ELSE adopted
        ok == /\ bound.outcome \notin Terminal
              /\ journal.attempt = a
              /\ journal.phase \in {"Pending", "Attached"}
    IN /\ At(e, "request")
       /\ CleanupAwaited(e)
       /\ IF ActiveFor(r, a) THEN LocalOp(e, bound, FALSE)
          ELSE UNCHANGED <<shared, lanes>>
       /\ \/ /\ ActiveFor(r, a) /\ ok
             /\ snap' = [snap EXCEPT ![e] = journal]
             /\ Moves(e, "acquire")
          \/ /\ ~(ActiveFor(r, a) /\ ok)
             /\ Moves(e, "unbound")
             /\ UNCHANGED snap
       /\ UNCHANGED <<plugin, status, destroying, ipc, req, act, conn, creating,
                      tun, native, cleaning>>

(* The Extension lease is taken before the journal names its holder.       *)
BindAcquire(e) ==
    LET j == snap[e]
        own == j.extension = e
        kept == own /\ extLease.holder = e
        free == /\ CanAcquire(extLease)
                /\ \/ j.phase = "Attached"
                   \/ Observe(issuerLease, j.attempt, j.issuer) = "HeldExact"
    IN /\ At(e, "acquire")
       /\ \/ /\ kept
             /\ Moves(e, "publish")
             /\ UNCHANGED extLease
          \/ /\ ~kept /\ free
             /\ extLease' = Acquired(j.attempt, e)
             /\ Moves(e, IF own THEN "publish" ELSE "attach")
          \/ /\ ~kept /\ ~free
             /\ Moves(e, "unbound")
             /\ UNCHANGED extLease
       /\ UNCHANGED <<journal, issuerLease, lanes, plugin, status, destroying,
                      ipc, req, act, snap, conn, creating, tun, native, cleaning>>

(* upgrade_attached_exact, or rebind_attached_exact for an attempt whose   *)
(* owner is gone.  A lost swap drops the lease.                            *)
BindAttach(e) ==
    LET j == snap[e]
        swaps == IF j.phase = "Pending"
                 THEN CanUpgradeAttached(journal, j.attempt, j.issuer, e)
                 ELSE CanRebindAttached(journal, j.attempt, j.issuer, j.extension, e)
    IN /\ At(e, "attach")
       /\ IF swaps
          THEN /\ journal' = AttachedTo(journal, e)
               /\ Moves(e, "publish")
               /\ UNCHANGED extLease
          ELSE /\ extLease' = ReleasedBy(extLease, e)
               /\ Moves(e, "unbound")
               /\ UNCHANGED journal
       /\ UNCHANGED <<issuerLease, lanes, plugin, status, destroying, ipc, req,
                      act, snap, conn, creating, tun, native, cleaning>>

(* A busy or failing journal or lease file aborts bind before its swap.    *)
BindError(e) ==
    /\ "io" \in Faults
    /\ Alive(e)
    /\ pc[e] \in {"acquire", "attach"}
    /\ extLease' = IF pc[e] = "attach" THEN ReleasedBy(extLease, e) ELSE extLease
    /\ Moves(e, "unbound")
    /\ UNCHANGED <<journal, issuerLease, lanes, plugin, status, destroying, ipc,
                   req, act, snap, conn, creating, tun, native, cleaning>>

(* publish_platform_vpn_binding_locked reads the lane again first: a stop  *)
(* that lost the race for the journal is already there.                    *)
BindPublish(e) ==
    LET f == Synced(e)
        g == [f EXCEPT !.owner = e, !.attached = TRUE,
                       !.cleanup = f.attached /\ f.cleanup]
    IN /\ At(e, "publish")
       /\ Store(e, g, TRUE, \/ ~f.attached
                            \/ f.outcome = "Pending" /\ f.starting /\ ~f.running
                            \/ f.owner # e)
       /\ LeasesFollow(e, f)
       /\ act' = [act EXCEPT ![e] = req[e]]
       /\ snap' = [snap EXCEPT ![e] = NoJournal]
       /\ Moves(e, "bound")
       /\ UNCHANGED <<journal, plugin, status, destroying, ipc, req, conn,
                      creating, tun, native, cleaning>>

(* A request that failed before it owned anything settles the attempt that *)
(* is still Pending: the journal goes first, the lane follows.             *)
Unbound(e) ==
    LET f == Synced(e)
    IN /\ At(e, "unbound")
       /\ \/ /\ FailsUnattached(f, req[e])
             /\ journal' = NoJournal
             /\ Store(e, FailedUnattached(f), TRUE, FALSE)
             /\ LeasesFollow(e, FailedUnattached(f))
             /\ Moves(e, "settle")
             /\ UNCHANGED req
          \/ /\ ~FailsUnattached(f, req[e])
             /\ LocalOp(e, f, FALSE)
             /\ Moves(e, "idle")
             /\ req' = [req EXCEPT ![e] = NoAttempt]
       /\ snap' = [snap EXCEPT ![e] = NoJournal]
       /\ UNCHANGED <<plugin, status, destroying, ipc, act, conn, creating, tun,
                      native, cleaning>>

Settle(e) ==
    /\ At(e, "settle")
    /\ Store(e, Mine(e), FALSE, TRUE)
    /\ req' = [req EXCEPT ![e] = NoAttempt]
    /\ Moves(e, "idle")
    /\ UNCHANGED <<shared, plugin, status, destroying, ipc, act, snap, conn,
                   creating, tun, native, cleaning>>

-----------------------------------------------------------------------------
(* The Extension: performStart *)

Current(e) == act[e] = req[e]

(* platform_attempt_accepts_updates and ensure_platform_attempt_active     *)
(* agree on the attempt of this process, which only bind changes.          *)
Accepts(f, a) == f.attached /\ ActiveFor(f, a)

(* Mutant of Lifecycle: a stop request alone does not stop the Extension.  *)
LifecycleKeepsRunning(e, f) ==
    IF ~Accepts(f, f.attempt) THEN "stopping"
    ELSE IF native[e] THEN "connected"
    ELSE IF f.outcome = "Pending" /\ f.starting THEN "starting"
    ELSE "failed"

(* What extension_tick answers.                                            *)
Lifecycle(e, f) ==
    IF f.stopReq \/ ~Accepts(f, f.attempt) THEN "stopping"
    ELSE IF native[e] THEN "connected"
    ELSE IF f.outcome = "Pending" /\ f.starting THEN "starting"
    ELSE "failed"

(* The state extension_tick leaves, and publishes unless it is stopping.   *)
Ticked(e, f) ==
    CASE Lifecycle(e, f) = "connected" ->
            [f EXCEPT !.starting = FALSE, !.running = TRUE, !.outcome = "Connected"]
      [] Lifecycle(e, f) = "failed" -> FailedFrame(f)
      [] OTHER -> f

Tick(e) == LET f == Synced(e)
           IN LocalOp(e, Ticked(e, f), Lifecycle(e, f) # "stopping")

(* destroyVpn: forget the session and begin its cleanup.  A cleanup that   *)
(* is still installed is joined, unless it is for another connection: then *)
(* the connection is dropped without one.                                  *)
DestroyVpn(e) ==
    /\ act' = [act EXCEPT ![e] = NoAttempt]
    /\ conn' = [conn EXCEPT ![e] = FALSE]
    /\ cleaning' = [cleaning EXCEPT ![e] =
           IF cleaning[e].pc # "none" THEN cleaning[e]
           ELSE IF act[e] # NoAttempt
           THEN [pc |-> "stop", attempt |-> act[e], conn |-> conn[e]]
           ELSE IF conn[e]
           THEN [pc |-> "destroy", attempt |-> NoAttempt, conn |-> TRUE]
           ELSE NoCleanup]

EndRequest(e) ==
    /\ Moves(e, "idle")
    /\ req' = [req EXCEPT ![e] = NoAttempt]

(* Mutant of BoundTick: a request that has bound starts, whatever the tick *)
(* answers.                                                                *)
BoundTickIgnored(e) ==
    /\ At(e, "bound")
    /\ Tick(e)
    /\ Moves(e, "starting")
    /\ UNCHANGED <<plugin, status, destroying, ipc, req, act, snap, conn,
                   creating, tun, native, cleaning>>

(* The tick after bind: a terminal or stop state that raced the binding is *)
(* consumed before any platform resource exists.                           *)
BoundTick(e) ==
    /\ At(e, "bound")
    /\ Tick(e)
    /\ \/ /\ Lifecycle(e, Synced(e)) = "starting"
          /\ Moves(e, "starting")
          /\ UNCHANGED <<req, act, conn, cleaning>>
       \/ /\ Lifecycle(e, Synced(e)) # "starting"
          /\ DestroyVpn(e)
          /\ EndRequest(e)
    /\ UNCHANGED <<plugin, status, destroying, ipc, snap, creating, tun, native>>

(* set_platform_vpn_starting_for_attempt *)
SetStarting(e) ==
    LET f == Synced(e)
        ok == Accepts(f, req[e]) /\ f.outcome = "Pending"
    IN /\ At(e, "starting")
       /\ LocalOp(e, IF ok THEN [f EXCEPT !.starting = TRUE, !.running = FALSE]
                     ELSE f, ok)
       /\ Moves(e, IF ok THEN "network" ELSE "failing")
       /\ UNCHANGED <<plugin, status, destroying, ipc, req, act, snap, conn,
                      creating, tun, native, cleaning>>

(* getPhysicalNetwork has returned: the connection is created, whatever    *)
(* became of the request meanwhile.                                        *)
CreateCall(e) ==
    /\ At(e, "network")
    /\ conn' = [conn EXCEPT ![e] = TRUE]
    /\ creating' = [creating EXCEPT ![e] = req[e]]
    /\ Moves(e, "creating")
    /\ UNCHANGED <<shared, lanes, plugin, status, destroying, ipc, req, act,
                   snap, tun, native, cleaning>>

(* The platform settles create(), in time or after the Ability's timeout.  *)
CreateSettles(e) ==
    /\ Alive(e)
    /\ creating[e] # NoAttempt
    /\ creating' = [creating EXCEPT ![e] = NoAttempt]
    /\ \/ tun' = [tun EXCEPT ![e] = creating[e]]
       \/ "start" \in Faults /\ UNCHANGED tun
    /\ UNCHANGED <<shared, lanes, plugin, status, destroying, ipc, pc, req, act,
                   snap, conn, native, cleaning>>

(* The fd is there, or a cleanup has destroyed the connection already.  A  *)
(* request that lost its generation destroys what it has created.          *)
CreateReturns(e) ==
    /\ At(e, "creating")
    /\ creating[e] = NoAttempt
    /\ tun[e] = req[e] \/ ~conn[e]
    /\ \/ /\ Current(e) /\ conn[e]
          /\ Moves(e, "created")
          /\ UNCHANGED <<req, act, conn, cleaning>>
       \/ /\ ~(Current(e) /\ conn[e])
          /\ DestroyVpn(e)
          /\ EndRequest(e)
    /\ UNCHANGED <<shared, lanes, plugin, status, destroying, ipc, snap,
                   creating, tun, native>>

(* protectProcessNet, then set_platform_network_protected_for_attempt.     *)
Protect(e) ==
    LET f == Synced(e)
        ok == Current(e) /\ Accepts(f, req[e])
    IN /\ At(e, "created")
       /\ LocalOp(e, f, Accepts(f, req[e]))
       /\ Moves(e, IF ok THEN "protected" ELSE "failing")
       /\ UNCHANGED <<plugin, status, destroying, ipc, req, act, snap, conn,
                      creating, tun, native, cleaning>>

(* The native start brings the data plane up under the operation lock...   *)
StartEngine(e) ==
    LET f == Synced(e)
        ok == Current(e) /\ Accepts(f, req[e])
    IN /\ At(e, "protected")
       /\ IF Current(e) THEN LocalOp(e, f, FALSE) ELSE UNCHANGED <<shared, lanes>>
       /\ native' = [native EXCEPT ![e] = ok]
       /\ Moves(e, IF ok THEN "committing" ELSE "failing")
       /\ UNCHANGED <<plugin, status, destroying, ipc, req, act, snap, conn,
                      creating, tun, cleaning>>

(* ...and commits it only if the attempt is still active.                  *)
Commit(e) ==
    LET f == Synced(e)
        ok == Accepts(f, req[e])
    IN /\ At(e, "committing")
       /\ LocalOp(e, IF ok THEN [f EXCEPT !.starting = FALSE, !.running = TRUE,
                                          !.outcome = "Connected"] ELSE f, ok)
       /\ native' = [native EXCEPT ![e] = ok]
       /\ Moves(e, IF ok THEN "committed" ELSE "failing")
       /\ UNCHANGED <<plugin, status, destroying, ipc, req, act, snap, conn,
                      creating, tun, cleaning>>

(* The last tick of performStart.                                          *)
StartReturns(e) ==
    /\ At(e, "committed")
    /\ \/ /\ ~Current(e)
          /\ Moves(e, "failing")
          /\ UNCHANGED <<shared, lanes>>
       \/ /\ Current(e)
          /\ Tick(e)
          /\ Moves(e, IF Lifecycle(e, Synced(e)) = "connected" THEN "connected"
                      ELSE "failing")
    /\ UNCHANGED <<plugin, status, destroying, ipc, req, act, snap, conn,
                   creating, tun, native, cleaning>>

(* An awaited platform operation of performStart rejects or times out.     *)
StartFails(e) ==
    /\ "start" \in Faults
    /\ Alive(e)
    /\ pc[e] \in {"network", "creating", "created", "protected"}
    /\ Moves(e, "failing")
    /\ UNCHANGED <<shared, lanes, plugin, status, destroying, ipc, req, act,
                   snap, conn, creating, tun, native, cleaning>>

(* The chain's error handler: set_platform_vpn_failed_for_attempt, then    *)
(* destroyVpn, unless the request lost its generation.                     *)
ChainFails(e) ==
    LET f == Synced(e)
    IN /\ At(e, "failing")
       /\ \/ /\ Current(e)
             /\ LocalOp(e, IF Accepts(f, req[e]) THEN FailedFrame(f) ELSE f,
                        Accepts(f, req[e]))
             /\ DestroyVpn(e)
          \/ /\ ~Current(e)
             /\ UNCHANGED <<shared, lanes, act, conn, cleaning>>
       /\ EndRequest(e)
       /\ UNCHANGED <<plugin, status, destroying, ipc, snap, creating, tun, native>>

(* Heartbeat or subscription: reconcileExtensionTerminal.                  *)
Heartbeat(e) ==
    /\ At(e, "connected")
    /\ Tick(e)
    /\ \/ /\ Lifecycle(e, Synced(e)) = "connected"
          /\ UNCHANGED <<pc, req, act, conn, cleaning>>
       \/ /\ Lifecycle(e, Synced(e)) # "connected"
          /\ DestroyVpn(e)
          /\ EndRequest(e)
    /\ UNCHANGED <<plugin, status, destroying, ipc, snap, creating, tun, native>>

(* publish_native_vpn_exit: the worker died; no synchronisation first.     *)
NativeExit(e) ==
    LET f == Mine(e)
    IN /\ "start" \in Faults
       /\ Alive(e)
       /\ native[e]
       /\ pc[e] \in {"committed", "connected"}
       /\ native' = [native EXCEPT ![e] = FALSE]
       /\ IF f.outcome \in Terminal THEN UNCHANGED lanes
          ELSE Store(e, FailedFrame(f), FALSE, TRUE)
       /\ UNCHANGED <<shared, plugin, status, destroying, ipc, pc, req, act,
                      snap, conn, creating, tun, cleaning>>

(* onDestroy, after the OS stop: a new generation, and destroyVpn outside  *)
(* the request chain.                                                      *)
OnDestroy(e) ==
    /\ Alive(e)
    /\ e \in destroying
    /\ pc[e] = "network" => "lateDestroy" \in Faults
    /\ pc[e] \notin {"acquire", "attach", "publish", "unbound", "settle", "bound",
                     "starting"}
    /\ destroying' = destroying \ {e}
    /\ DestroyVpn(e)
    /\ IF pc[e] \in {"request", "connected"} THEN EndRequest(e)
       ELSE UNCHANGED <<pc, req>>
    /\ UNCHANGED <<shared, lanes, plugin, status, ipc, snap, creating, tun, native>>

-----------------------------------------------------------------------------
(* The Extension: cleanup *)

Cleans(e, where) == cleaning' = [cleaning EXCEPT ![e].pc = where]

CleaningAt(e, where) ==
    /\ Alive(e)
    /\ cleaning[e].pc = where
    /\ pc[e] \notin {"acquire", "attach", "publish", "settle"}

(* Mutant of StoppedFrame: the stop acknowledges the cleanup as well.      *)
StoppedAndCleaned(f) == [CleanedFrame(f) EXCEPT !.starting = FALSE,
                             !.running = FALSE, !.outcome = "Cancelled"]

(* stop_vpn_inner on the synchronised state.                               *)
StoppedFrame(f) == [f EXCEPT !.starting = FALSE, !.running = FALSE,
                             !.stopReq = TRUE,
                             !.outcome = IF f.outcome = "Failed" THEN "Failed"
                                         ELSE "Cancelled"]

(* Mutant of StopsEngine: an attempt that is already over has no engine.   *)
StopsRunning(e, f) == f.attempt = cleaning[e].attempt /\ f.running

StopsEngine(e, f) == f.attempt = cleaning[e].attempt

(* stop_platform_vpn waits for the operation lock of a native start.       *)
StopNative(e) ==
    LET f == Synced(e)
        ours == f.attempt = cleaning[e].attempt
    IN /\ CleaningAt(e, "stop")
       /\ pc[e] # "committing"
       /\ LocalOp(e, IF ours THEN StoppedFrame(f) ELSE f, ours)
       /\ native' = [native EXCEPT ![e] = ~StopsEngine(e, f) /\ native[e]]
       /\ Cleans(e, "destroy")
       /\ UNCHANGED <<plugin, status, destroying, ipc, pc, req, act, snap, conn,
                      creating, tun>>

(* Mutant of ConnectionIdle: destroy() does not wait for create().         *)
ConnectionAlwaysIdle(e) == TRUE

ConnectionIdle(e) == ~(cleaning[e].conn /\ creating[e] # NoAttempt)

(* connection.destroy(), once the operation pending on it has settled.     *)
Destroy(e) ==
    /\ CleaningAt(e, "destroy")
    /\ ConnectionIdle(e)
    /\ tun' = [tun EXCEPT ![e] = IF cleaning[e].conn THEN NoAttempt ELSE tun[e]]
    /\ IF cleaning[e].attempt = NoAttempt
       THEN cleaning' = [cleaning EXCEPT ![e] = NoCleanup]
       ELSE Cleans(e, "ack")
    /\ UNCHANGED <<shared, lanes, plugin, status, destroying, ipc, pc, req, act,
                   snap, conn, creating, native>>

(* destroy() rejects, or the acknowledgement meets an I/O error.           *)
CleanupError(e) ==
    /\ "cleanup" \in Faults
    /\ Alive(e)
    /\ cleaning[e].pc \in {"destroy", "ack"}
    /\ ConnectionIdle(e)
    /\ Cleans(e, "failed")
    /\ UNCHANGED <<shared, lanes, plugin, status, destroying, ipc, pc, req, act,
                   snap, conn, creating, tun, native>>

(* complete_platform_vpn_cleanup: the journal record goes first...         *)
Ack(e) ==
    LET f == Synced(e)
        a == cleaning[e].attempt
        settled == /\ f.attempt = a
                   /\ ~f.running
                   /\ ~f.starting
                   /\ f.outcome \in Terminal
        deletes == /\ settled
                   /\ ~f.cleanup
                   /\ extLease.holder = e
                   /\ journal.phase = "Attached"
                   /\ f.owner = e
                   /\ CanDelete(journal, a, e)
    IN /\ CleaningAt(e, "ack")
       /\ \/ /\ deletes
             /\ journal' = NoJournal
             /\ Store(e, CleanedFrame(f), TRUE, FALSE)
             /\ LeasesFollow(e, CleanedFrame(f))
             /\ Cleans(e, "acked")
          \/ /\ ~deletes
             /\ LocalOp(e, f, FALSE)
             /\ IF settled /\ f.cleanup
                THEN cleaning' = [cleaning EXCEPT ![e] = NoCleanup]
                ELSE Cleans(e, "failed")
       /\ UNCHANGED <<plugin, status, destroying, ipc, pc, req, act, snap, conn,
                      creating, tun, native>>

(* Mutant of AckPublish: the acknowledgement stays in the process.         *)
AckPublishDropped(e) ==
    /\ CleaningAt(e, "acked")
    /\ Store(e, Mine(e), FALSE, FALSE)
    /\ cleaning' = [cleaning EXCEPT ![e] = NoCleanup]
    /\ UNCHANGED <<shared, plugin, status, destroying, ipc, pc, req, act, snap,
                   conn, creating, tun, native>>

(* ...and the UI learns of it from the lane.                               *)
AckPublish(e) ==
    /\ CleaningAt(e, "acked")
    /\ Store(e, Mine(e), FALSE, TRUE)
    /\ cleaning' = [cleaning EXCEPT ![e] = NoCleanup]
    /\ UNCHANGED <<shared, plugin, status, destroying, ipc, pc, req, act, snap,
                   conn, creating, tun, native>>

-----------------------------------------------------------------------------
(* Process death and birth *)

UiCrash(u) ==
    /\ "uiCrash" \in Faults
    /\ Alive(u)
    /\ status' = [status EXCEPT ![u] = "dead"]
    /\ core' = [core EXCEPT ![u] = InitCore]
    /\ issuerLease' = ReleasedBy(issuerLease, u)
    /\ extLease' = ReleasedBy(extLease, u)
    /\ epoch' = 0
    /\ fence' = NoFence
    /\ claim' = NoClaim
    /\ ops' = << >>
    /\ dispatch' = {}
    /\ UNCHANGED <<journal, uiLane, vpnLane, seen, ability, destroying,
                   nextAttempt, wants>>

(* One UI process at a time; it creates the shared memory of its lanes.    *)
UiStart(u) ==
    /\ status[u] = "unborn"
    /\ \A v \in Uis : ~Alive(v)
    /\ status' = [status EXCEPT ![u] = "alive"]
    /\ UNCHANGED <<shared, lanes, plugin, ability, destroying>>

ExtCrash(e) ==
    /\ "extCrash" \in Faults
    /\ Alive(e)
    /\ status' = [status EXCEPT ![e] = "dead"]
    /\ core' = [core EXCEPT ![e] = InitCore]
    /\ issuerLease' = ReleasedBy(issuerLease, e)
    /\ extLease' = ReleasedBy(extLease, e)
    /\ destroying' = destroying \ {e}
    /\ ipc' = [ipc EXCEPT ![e] = None]
    /\ pc' = [pc EXCEPT ![e] = "idle"]
    /\ req' = [req EXCEPT ![e] = NoAttempt]
    /\ act' = [act EXCEPT ![e] = NoAttempt]
    /\ snap' = [snap EXCEPT ![e] = NoJournal]
    /\ conn' = [conn EXCEPT ![e] = FALSE]
    /\ creating' = [creating EXCEPT ![e] = NoAttempt]
    /\ tun' = [tun EXCEPT ![e] = NoAttempt]
    /\ native' = [native EXCEPT ![e] = FALSE]
    /\ cleaning' = [cleaning EXCEPT ![e] = NoCleanup]
    /\ seen' = [seen EXCEPT ![e] = FALSE]
    /\ UNCHANGED <<journal, uiLane, vpnLane, plugin>>

-----------------------------------------------------------------------------
(* The specification *)

Init ==
    /\ journal = NoJournal
    /\ issuerLease = FreeLease
    /\ extLease = FreeLease
    /\ status = [p \in Procs |-> "unborn"]
    /\ core = [p \in Procs |-> InitCore]
    /\ uiLane = [u \in Uis |-> InitFrame]
    /\ vpnLane = [u \in Uis |-> InitFrame]
    /\ seen = [p \in Procs |-> FALSE]
    /\ epoch = 0
    /\ fence = NoFence
    /\ claim = NoClaim
    /\ ops = << >>
    /\ nextAttempt = 1
    /\ wants = {}
    /\ dispatch = {}
    /\ destroying = {}
    /\ ipc = [e \in Exts |-> None]
    /\ pc = [e \in Exts |-> "idle"]
    /\ req = [e \in Exts |-> NoAttempt]
    /\ act = [e \in Exts |-> NoAttempt]
    /\ snap = [e \in Exts |-> NoJournal]
    /\ conn = [e \in Exts |-> FALSE]
    /\ creating = [e \in Exts |-> NoAttempt]
    /\ tun = [e \in Exts |-> NoAttempt]
    /\ native = [e \in Exts |-> FALSE]
    /\ cleaning = [e \in Exts |-> NoCleanup]

UiClaims(u) == ClaimPublish(u) \/ ClaimFence(u) \/ ClaimReread(u)

UiRuns(u) ==
    \/ StartHead(u) \/ Authorize(u) \/ Cooperative(u)
    \/ OsStopBegin(u) \/ OsStopConfirmed(u)
    \/ RecoverSync(u) \/ RecoverRead(u) \/ RecoverMissing(u)
    \/ RecoverProve(u) \/ RecoverDelete(u) \/ RecoverFinish(u)
    \/ Begin(u) \/ AwaitDone(u) \/ AwaitDeadline(u)

UiNext(u) ==
    \/ UiClaims(u) \/ UiRuns(u) \/ RecoverDeadline(u)
    \/ RequestStart(u) \/ RequestStop(u) \/ OsStopRejected(u)
    \/ \E a \in dispatch : DispatchRejected(u, a)
    \/ UiSync(u) \/ UiWatchdog(u) \/ UiOwnerReleased(u)
    \/ UiStart(u) \/ UiCrash(u)

ExtRuns(e) ==
    \/ RequestRefused(e) \/ BindSync(e) \/ BindAcquire(e) \/ BindAttach(e)
    \/ BindPublish(e) \/ Unbound(e) \/ Settle(e)
    \/ BoundTick(e) \/ SetStarting(e) \/ CreateCall(e) \/ CreateReturns(e)
    \/ Protect(e) \/ StartEngine(e) \/ Commit(e) \/ StartReturns(e)
    \/ ChainFails(e) \/ Heartbeat(e)

ExtCleans(e) == StopNative(e) \/ Destroy(e) \/ Ack(e) \/ AckPublish(e)

ExtNext(e) ==
    \/ ExtRuns(e) \/ ExtCleans(e)
    \/ \E w \in wants : Deliver(e, w)
    \/ CreateSettles(e) \/ BindError(e) \/ StartFails(e) \/ NativeExit(e)
    \/ OnDestroy(e) \/ CleanupError(e) \/ ExtCrash(e)

Next == (\E u \in Uis : UiNext(u)) \/ (\E e \in Exts : ExtNext(e))

Spec == Init /\ [][Next]_vars

(* What runs goes on: the event loops of both processes, the native calls  *)
(* and the platform's promise to settle create().  The recovery deadline   *)
(* is a clock that a polling loop meets again and again.  Nothing forces   *)
(* an intent, a delivery, an onDestroy, a crash or a failure.              *)
Fairness ==
    /\ \A u \in Uis : /\ WF_vars(UiClaims(u))
                      /\ WF_vars(UiRuns(u))
                      /\ WF_vars(UiSync(u))
                      /\ SF_vars(RecoverDeadline(u))
    /\ \A e \in Exts : /\ WF_vars(ExtRuns(e))
                       /\ WF_vars(ExtCleans(e))
                       /\ WF_vars(CreateSettles(e))

FairSpec == Spec /\ Fairness

-----------------------------------------------------------------------------
(* Properties *)

SharedType ==
    /\ journal \in Journals
    /\ ValidRecord(journal)
    /\ issuerLease \in Leases(Uis)
    /\ extLease \in Leases(Exts)

LanesType ==
    /\ core \in [Procs -> Cores]
    /\ uiLane \in [Uis -> Frames]
    /\ vpnLane \in [Uis -> Frames]
    /\ seen \in [Procs -> BOOLEAN]

PluginType ==
    /\ epoch \in 0 .. MaxIntents
    /\ fence \in Fences
    /\ claim \in Claims
    /\ ops \in Seq(Ops)
    /\ nextAttempt \in 1 .. MaxAttempts + 1
    /\ wants \subseteq [attempt : Attempts, ui : Uis]
    /\ dispatch \subseteq Attempts

AbilityType ==
    /\ ipc \in [Exts -> Uis \cup {None}]
    /\ pc \in [Exts -> ExtPcs]
    /\ req \in [Exts -> Attempts \cup {NoAttempt}]
    /\ act \in [Exts -> Attempts \cup {NoAttempt}]
    /\ snap \in [Exts -> Journals]
    /\ conn \in [Exts -> BOOLEAN]
    /\ creating \in [Exts -> Attempts \cup {NoAttempt}]
    /\ tun \in [Exts -> Attempts \cup {NoAttempt}]
    /\ native \in [Exts -> BOOLEAN]
    /\ cleaning \in [Exts -> Cleanups]

(* The state is well typed, and the journal is a record that               *)
(* validate_record accepts: an Extension is named in it exactly while it   *)
(* is Attached, whoever raced whom for the record.                         *)
TypeOK ==
    /\ SharedType
    /\ LanesType
    /\ PluginType
    /\ AbilityType
    /\ status \in [Procs -> {"unborn", "alive", "dead"}]
    /\ destroying \subseteq Exts

(* A TUN exists, or is being created, only in the process that the journal *)
(* and the Extension lease both name as the owner of its attempt: whatever *)
(* is delivered late, killed, recovered or rebound, at most one Extension  *)
(* holds the device's VPN, and its owner can be found after a crash.       *)
TunOwned ==
    \A e \in Exts : \A a \in {tun[e], creating[e]} \ {NoAttempt} :
        /\ journal = [journal EXCEPT !.phase = "Attached", !.attempt = a,
                                     !.extension = e]
        /\ extLease = [holder |-> e, attempt |-> a]

(* The engine never outlives the TUN it reads: stop_platform_vpn waits for *)
(* the operation lock of a start in progress, and destroy() follows it.    *)
EngineInsideTun == \A e \in Exts : native[e] => tun[e] # NoAttempt

AllFrames == {Mine(p) : p \in Procs} \cup {uiLane[u] : u \in Uis}
             \cup {vpnLane[u] : u \in Uis}

CleanedAttempts == {f.attempt : f \in {g \in AllFrames : g.cleanup}} \ {NoAttempt}

(* No process and no lane declares an attempt cleaned up while its record  *)
(* is still in the journal: deleting the record is the linearization point *)
(* of complete_platform_vpn_cleanup and of both recoveries.                *)
CleanupMeansDeleted == journal.attempt \notin CleanedAttempts

(* A cleanup acknowledgement is the promise that the VpnConnection of the  *)
(* attempt is destroyed and no operation on it is left.                    *)
CleanupMeansDestroyed ==
    \A e \in Exts : {tun[e], creating[e]} \cap CleanedAttempts = {}

(* While a process of the UI owes a cleanup it can still learn of it or    *)
(* perform it: the record is there to be recovered, or whoever deleted it  *)
(* is about to say so.  Otherwise begin, claim and recover all refuse.     *)
OwedCleanupHasRecord ==
    \A u \in Uis : LET f == Mine(u) IN
        Alive(u) /\ f.attempt # NoAttempt /\ ~f.cleanup =>
            \/ journal.attempt = f.attempt
            \/ vpnLane[u].attempt = f.attempt /\ vpnLane[u].cleanup
            \/ \E e \in Exts : /\ Alive(e) /\ ipc[e] = u
                               /\ pc[e] = "settle" \/ cleaning[e].pc = "acked"
            \/ AtHead(u, "recoverFinish") /\ Op.session = f.attempt

(* No late frame, redelivered Want or rebinding revives an attempt that a  *)
(* process knows to have failed or to be cancelled, as long as it lives.   *)
TerminalIsFinal ==
    [][\A p \in Procs :
          (/\ Alive(p)'
           /\ Mine(p).outcome \in Terminal
           /\ Mine(p)'.attempt = Mine(p).attempt)
              => Mine(p)'.outcome \in Terminal]_vars

(* Once the UI process knows an attempt to be cleaned up, no late frame    *)
(* closes the barrier of the next start again.                             *)
CleanupIsFinal ==
    [][\A u \in Uis :
          Mine(u).cleanup /\ Mine(u)'.attempt = Mine(u).attempt
              => Mine(u)'.cleanup]_vars

(* While the cleanup of a session is unfinished, no request of the process *)
(* has a connection of its own: also not one that waitForPendingCleanup    *)
(* has let go on at its timeout (PawsVpnExtensionAbility.ets:793), and     *)
(* whatever Wants are delivered again.                                     *)
CleanupComesFirst ==
    \A e \in Exts : cleaning[e].pc \in {"stop", "destroy", "ack"}
                        => act[e] = NoAttempt \/ ~conn[e]

(* A stop that the UI process has published takes the TUN down.            *)
StopTakesDown ==
    \A e \in Exts, u \in Uis, a \in Attempts :
        (tun[e] = a /\ uiLane[u].attempt = a /\ uiLane[u].stopReq)
            ~> tun[e] # a

(* The Plugin's queue never hangs: every operation ends.                   *)
OperationsEnd == (ops # << >>) ~> (ops = << >>)

(* The session implements the ownership discipline of VpnOwnership.        *)
Ownership == INSTANCE VpnOwnership WITH
    issued <- nextAttempt - 1,
    phase  <- CASE journal.phase = "Pending" -> "Offered"
                [] journal.phase = "Stopping" -> "Fenced"
                [] journal.phase = "Attached" -> "Owned"
                [] OTHER -> "Free",
    owner  <- journal.extension,
    up     <- {e \in Exts : tun[e] # NoAttempt}

ImplementsOwnership == Ownership!ASpec

=============================================================================
