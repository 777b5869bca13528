------------------------ MODULE PlatformOwnershipInv ------------------------
(***************************************************************************)
(* The inductive invariant behind the ownership of the TUN: what every     *)
(* process may rely on at each step of its chain, whatever the others do.  *)
(***************************************************************************)
EXTENDS PlatformSession

-----------------------------------------------------------------------------
(* Cleanup and the journal *)

(* Attempts are issued once: no frame names one that is still to come.     *)
FramesIssued == \A f \in AllFrames : f.attempt < nextAttempt

(* Only the head of the Plugin's queue has begun to act.                   *)
QueueWaits == \A i \in 2 .. Len(ops) : ops[i].pc \in {"head", "authorize"}

(* Recovery finishes only after it has deleted the record, and nobody else *)
(* begins an attempt while it is the head of the queue.                    *)
FinishDeleted == Len(ops) > 0 /\ Op.pc = "recoverFinish" => journal = NoJournal

CleanupInv == FramesIssued /\ QueueWaits /\ FinishDeleted /\ CleanupMeansDeleted

-----------------------------------------------------------------------------
(* Ownership *)

(* The journal and the lease agree that e owns attempt a.                  *)
Owner(e, a) ==
    /\ journal.phase = "Attached"
    /\ journal.attempt = a
    /\ journal.extension = e
    /\ extLease = [holder |-> e, attempt |-> a]

Binding == {"acquire", "attach", "publish"}
Unowned == {"idle", "request", "unbound", "settle"} \cup Binding

(* Nothing is left of a process that is not alive.                         *)
DeadIsEmpty(e) ==
    ~Alive(e) => /\ extLease.holder # e
                 /\ pc[e] = "idle"
                 /\ act[e] = NoAttempt
                 /\ ~conn[e]
                 /\ creating[e] = NoAttempt
                 /\ tun[e] = NoAttempt
                 /\ cleaning[e].pc = "none"

(* The lease is held by the owner, or by a process about to swap.          *)
LeaseInv(e) ==
    extLease.holder = e =>
        /\ extLease.attempt # NoAttempt
        /\ Mine(e).attempt = extLease.attempt
        /\ pc[e] # "idle" => req[e] = extLease.attempt
        /\ Owner(e, extLease.attempt) \/ pc[e] = "attach"

(* What bind_platform_vpn_start has established at each of its steps.      *)
BindInv(e) ==
    /\ pc[e] # "idle" => req[e] # NoAttempt
    /\ pc[e] \in {"acquire", "attach"} =>
           /\ snap[e].attempt = req[e]
           /\ Mine(e).attempt = req[e]
    /\ pc[e] = "acquire" =>
           IF snap[e].extension = e THEN Owner(e, req[e])
           ELSE journal.extension # e
    /\ pc[e] = "attach" =>
           /\ snap[e].extension # e
           /\ journal.extension # e
           /\ extLease = [holder |-> e, attempt |-> req[e]]
    /\ pc[e] = "publish" => Owner(e, req[e])
    /\ pc[e] \in Binding =>
           /\ cleaning[e].pc = "none"
           /\ creating[e] = NoAttempt
           /\ tun[e] = NoAttempt

(* The active session of the Ability.                                      *)
ActiveInv(e) ==
    /\ act[e] # NoAttempt =>
           /\ pc[e] \notin Unowned
           /\ act[e] = req[e]
           /\ Owner(e, act[e])
           /\ cleaning[e].pc = "none"
    /\ conn[e] => act[e] # NoAttempt
    /\ pc[e] \in {"bound", "starting", "network"} => act[e] = req[e]

(* A cleanup keeps the ownership until it acknowledges it.                 *)
CleaningInv(e) ==
    /\ cleaning[e].pc \in {"stop", "destroy", "ack", "failed"} =>
           /\ cleaning[e].attempt # NoAttempt
           /\ Owner(e, cleaning[e].attempt)
    /\ cleaning[e].pc \in {"destroy", "ack", "failed"} =>
           Mine(e).outcome \in Terminal

(* A TUN is owned, and someone will destroy it unless destroy() failed.    *)
TunInv(e) ==
    tun[e] # NoAttempt \/ creating[e] # NoAttempt =>
        /\ tun[e] # NoAttempt => Owner(e, tun[e])
        /\ creating[e] # NoAttempt => Owner(e, creating[e])
        /\ \/ conn[e]
           \/ cleaning[e].pc \in {"stop", "destroy"} /\ cleaning[e].conn
           \/ /\ Mine(e).outcome \in Terminal
              /\ act[e] = NoAttempt
              /\ cleaning[e].pc \in {"none", "failed"}

ExtInv(e) ==
    /\ DeadIsEmpty(e)
    /\ LeaseInv(e)
    /\ BindInv(e)
    /\ ActiveInv(e)
    /\ CleaningInv(e)
    /\ TunInv(e)

(* An owner that lives holds its lease: a released lease proves its death. *)
JournalInv ==
    journal.phase = "Attached" =>
        /\ status[journal.extension] # "unborn"
        /\ Alive(journal.extension) => extLease.holder = journal.extension

(* The proof of a recovery stays good until it deletes: the Extension it   *)
(* names is dead, or has deleted the record itself.                        *)
RecoverInv ==
    Len(ops) > 0 /\ Op.pc \in {"recoverProve", "recoverDelete"} =>
        LET x == Op.seen.extension
        IN /\ Op.session # NoAttempt
           /\ Op.seen.phase # "Attached" => x = None
           /\ Op.seen.phase = "Attached" =>
                 /\ x \in Exts
                 /\ \/ status[x] = "dead"
                    \/ journal.attempt # Op.session
                    \/ Op.pc = "recoverProve" /\ Owner(x, Op.session)

(* No onDestroy interrupts performStart at its wait for the network, and   *)
(* no cleanup outlives the time a later request waits for it.  The first   *)
(* has to be left out; with the second the properties are model-checked.   *)
Punctual == {"lateDestroy", "timeout"} \cap Faults = {}

OwnershipInv ==
    /\ \A e \in Exts : ExtInv(e)
    /\ JournalInv
    /\ RecoverInv
-----------------------------------------------------------------------------
(* The engine and its TUN *)

(* A running engine has its TUN, and someone who will stop it: the session *)
(* or the cleanup that has still to reach stop_platform_vpn.  A start that *)
(* is about to bring it up has the TUN already.                            *)
EngineInv(e) ==
    /\ native[e] \/ pc[e] = "committing" =>
           /\ tun[e] # NoAttempt
           /\ act[e] # NoAttempt \/ cleaning[e].pc = "stop"
    /\ pc[e] \in {"created", "protected"} /\ act[e] # NoAttempt
           => tun[e] # NoAttempt
    /\ pc[e] = "connected" => act[e] # NoAttempt

-----------------------------------------------------------------------------
(* The UI process and the cleanup it has been told of *)

(* An Extension is about to say what it has done.                          *)
Telling(e) == pc[e] = "settle" \/ cleaning[e].pc = "acked"

(* It then has the acknowledged frame, and no step of it comes between.    *)
TellingInv(e) == Telling(e) => Mine(e).cleanup /\ Mine(e).outcome \in Terminal

(* An attempt that the UI process knows to be cleaned up is over, and no   *)
(* frame of it that waits in the lane says that it is not.                 *)
UiCleanInv(u) ==
    Mine(u).cleanup =>
        /\ Mine(u).attempt # NoAttempt
        /\ Mine(u).outcome \in Terminal
        /\ ~seen[u] /\ Matches(Mine(u), vpnLane[u])
                /\ vpnLane[u].outcome \in Terminal
               => vpnLane[u].cleanup

(* Recovery finishes the attempt that it has deleted the record of.        *)
FinishSession ==
    Len(ops) > 0 /\ Op.pc = "recoverFinish" => Op.session # NoAttempt

FinalInv ==
    /\ \A e \in Exts : EngineInv(e) /\ TellingInv(e)
    /\ \A u \in Uis : UiCleanInv(u)
    /\ FinishSession

-----------------------------------------------------------------------------
(* The cleanup that the UI process owes *)

(* While it lives there is one UI process: the Wants, the shared memory of *)
(* every Extension and the journal are those of its attempt.               *)
OneUi ==
    /\ \A u, v \in Uis : Alive(u) /\ Alive(v) => u = v
    /\ \A u \in Uis : Mine(u).attempt # NoAttempt => Alive(u)
    /\ journal.attempt # NoAttempt =>
           \E u \in Uis : Alive(u) /\ Mine(u).attempt = journal.attempt
    /\ \A w \in wants : Alive(w.ui)
    /\ \A e \in Exts : /\ Alive(e) => ipc[e] # None
                       /\ ipc[e] # None => Alive(ipc[e])

(* The frame of an acknowledgement that u has not read yet.                *)
Says(f, u) == f.attempt = Mine(u).attempt /\ f.cleanup /\ f.outcome \in Terminal

LaneTells(u) == Says(vpnLane[u], u) /\ ~seen[u]

Finishing(a) == Len(ops) > 0 /\ Op.pc = "recoverFinish" /\ Op.session = a

(* Exactly one process deletes a record, and it tells the UI process that  *)
(* owes the cleanup.                                                       *)
TellerInv(e, u) ==
    Telling(e) /\ ipc[e] = u =>
        /\ Mine(u).attempt # NoAttempt
        /\ Mine(e).attempt = Mine(u).attempt
        /\ ~Mine(u).cleanup
        /\ ~(vpnLane[u].attempt = Mine(u).attempt /\ vpnLane[u].cleanup)
        /\ ~Finishing(Mine(u).attempt)
        /\ \A x \in Exts : Telling(x) /\ ipc[x] = u => x = e

(* An Extension that has lost its session publishes nothing alive.         *)
ChainInv(e) ==
    pc[e] \notin Unowned => \/ act[e] # NoAttempt
                           \/ cleaning[e].pc = "stop"
                           \/ Mine(e).outcome \in Terminal

OwedInv(u) ==
    Mine(u).attempt # NoAttempt /\ ~Mine(u).cleanup =>
        \/ journal.attempt = Mine(u).attempt
        \/ LaneTells(u)
        \/ \E e \in Exts : Telling(e) /\ ipc[e] = u
        \/ Finishing(Mine(u).attempt)

(* No process dies.                                                        *)
Lasting == {"uiCrash", "extCrash"} \cap Faults = {}

RecordInv ==
    /\ OneUi
    /\ \A e \in Exts : ChainInv(e)
    /\ \A e \in Exts, u \in Uis : TellerInv(e, u)
    /\ \A u \in Uis : OwedInv(u)

=============================================================================
