---------------------- MODULE PlatformOwnershipProofs ----------------------
(***************************************************************************)
(* Machine-checked proofs about the platform VPN session, for any          *)
(* processes and any bounds.                                               *)
(*                                                                         *)
(* First, with any set of faults: its types, with a journal that           *)
(* validate_record accepts; no process and no lane ever declares an        *)
(* attempt cleaned up while its record is in the journal; and no step      *)
(* revives an attempt that a process knows to be over.                     *)
(*                                                                         *)
(* Then, with any faults but the two that PlatformOwnershipInv excludes    *)
(* (Punctual), the ownership of the TUN and what an acknowledgement        *)
(* promises.  The run late_destroy shows that lateDestroy has to go; the   *)
(* timeout goes because the invariant rests on the wait that it cuts       *)
(* short, and the run redelivery has it.  An Extension is shown to keep    *)
(* what it knows in its own steps; then the steps of the others are shown  *)
(* to respect it, the recovery of the UI process included, and the         *)
(* theorems follow: the safety properties, and that the session            *)
(* implements VpnOwnership.                                                *)
(*                                                                         *)
(* Last, three more results from the same invariant: the engine never      *)
(* outlives its TUN; what the UI process has learnt of a completed cleanup *)
(* stays so; and, while no process dies, the cleanup it owes has its       *)
(* record in the journal, or exactly one process has deleted it and is     *)
(* about to say so.                                                        *)
(***************************************************************************)
EXTENDS PlatformOwnershipInv, SequenceTheorems, TLAPS

-----------------------------------------------------------------------------
(* What the state operators return *)

(* The initial frame, core state, journal and lease are well typed.        *)
LEMMA InitTypes ==
    /\ InitFrame \in Frames
    /\ InitCore \in Cores
    /\ NoJournal \in Journals
    /\ ValidRecord(NoJournal)
    /\ FreeLease \in Leases(Uis)
    /\ FreeLease \in Leases(Exts)
    /\ NoCleanup \in Cleanups
    /\ NoFence \in Fences
    /\ NoClaim \in Claims
  BY DEF InitFrame, Frames, InitCore, Cores, NoJournal, Journals, ValidRecord,
         FreeLease, Leases, NoCleanup, Cleanups, NoFence, Fences, NoClaim,
         Claims, Outcomes, NoAttempt

(* Applying a remote frame leaves a frame.                                 *)
LEMMA MergeType ==
    ASSUME NEW f \in Frames, NEW r \in Frames, NEW isUi \in BOOLEAN
    PROVE  Merge(f, r, isUi) \in Frames
  BY DEF Merge, Frames, Outcomes

(* The frames a failure, a stop and a completed cleanup leave.             *)
LEMMA FrameOpsType ==
    ASSUME NEW f \in Frames
    PROVE  /\ FailedFrame(f) \in Frames
           /\ FailedUnattached(f) \in Frames
           /\ CleanedFrame(f) \in Frames
           /\ StoppedFrame(f) \in Frames
  BY DEF FailedFrame, FailedUnattached, CleanedFrame, StoppedFrame, Frames, Outcomes

(* The remote lane of a process holds a frame.                             *)
LEMMA RemoteType ==
    ASSUME LanesType, AbilityType, NEW p \in Procs
    PROVE  Remote(p) \in Frames
  <1>1. CASE p \in Uis
    BY <1>1 DEF Remote, LanesType
  <1>2. CASE p \notin Uis
    <2>1. p \in Exts
      BY <1>2 DEF Procs
    <2>2. ipc[p] = None \/ ipc[p] \in Uis
      BY <2>1 DEF AbilityType
    <2> QED
      BY <1>2, <2>2, InitTypes DEF Remote, LanesType
  <1> QED
    BY <1>1, <1>2

(* Synchronising with the remote lane leaves a frame.                      *)
LEMMA SyncedType ==
    ASSUME LanesType, AbilityType, NEW p \in Procs
    PROVE  Mine(p) \in Frames /\ Synced(p) \in Frames
  <1>1. Mine(p) \in Frames
    BY DEF Mine, LanesType, Cores
  <1>2. (p \in Uis) \in BOOLEAN
    OBVIOUS
  <1>3. Merge(Mine(p), Remote(p), p \in Uis) \in Frames
    BY <1>1, <1>2, RemoteType, MergeType
  <1> QED
    BY <1>1, <1>3 DEF Synced

(* Whatever a process stores and publishes, the lanes stay well typed.     *)
LEMMA StoreType ==
    ASSUME LanesType, AbilityType, NEW p \in Procs, NEW f \in Frames,
           NEW s \in BOOLEAN, NEW b \in BOOLEAN, Store(p, f, s, b)
    PROVE  LanesType'
  <1>1. core' \in [Procs -> Cores]
    BY DEF Store, LanesType, Cores, Frames
  <1>2. uiLane' \in [Uis -> Frames]
    BY DEF Store, LanesType
  <1>3. vpnLane' \in [Uis -> Frames]
    <2>1. CASE p \in Exts
      BY <2>1 DEF Store, LanesType, AbilityType
    <2>2. CASE p \notin Exts
      BY <2>2 DEF Store, LanesType
    <2> QED
      BY <2>1, <2>2
  <1>4. seen' \in [Procs -> BOOLEAN]
    BY Zenon DEF Store, LanesType
  <1> QED
    BY <1>1, <1>2, <1>3, <1>4 DEF LanesType

(* Releasing a lease leaves a lease.                                       *)
LEMMA ReleasedType ==
    ASSUME NEW P, NEW lease \in Leases(P), NEW p
    PROVE  ReleasedBy(lease, p) \in Leases(P)
  BY DEF ReleasedBy, FreeLease, Leases, NoAttempt

(* The leases follow a completed cleanup.                                  *)
LEMMA LeasesFollowType ==
    ASSUME SharedType, NEW p, NEW f, LeasesFollow(p, f)
    PROVE  issuerLease' \in Leases(Uis) /\ extLease' \in Leases(Exts)
  BY ReleasedType DEF LeasesFollow, SharedType

(* A local operation of Core keeps the shared state and the lanes typed.   *)
LEMMA LocalOpType ==
    ASSUME SharedType, LanesType, AbilityType, NEW p \in Procs, NEW f \in Frames,
           NEW b \in BOOLEAN, LocalOp(p, f, b)
    PROVE  SharedType' /\ LanesType'
  <1>1. LanesType'
    BY StoreType DEF LocalOp
  <1>2. issuerLease' \in Leases(Uis) /\ extLease' \in Leases(Exts)
    BY LeasesFollowType DEF LocalOp
  <1>3. journal' = journal
    BY DEF LocalOp
  <1> QED
    BY <1>1, <1>2, <1>3 DEF SharedType

(* The pieces of the state that a step leaves alone stay well typed.       *)
LEMMA UnchangedTypes ==
    /\ SharedType /\ UNCHANGED shared => SharedType'
    /\ LanesType /\ UNCHANGED lanes => LanesType'
    /\ PluginType /\ UNCHANGED plugin => PluginType'
    /\ AbilityType /\ UNCHANGED ability => AbilityType'
  BY DEF SharedType, shared, LanesType, lanes, PluginType, plugin, AbilityType,
         ability

(* The queue with another head, without its head, or with a new tail.      *)
LEMMA QueueType ==
    ASSUME NEW q \in Seq(Ops)
    PROVE  /\ \A op \in Ops : Append(q, op) \in Seq(Ops)
           /\ Len(q) > 0 => /\ Head(q) \in Ops
                            /\ Tail(q) \in Seq(Ops)
                            /\ \A op \in Ops : <<op>> \o Tail(q) \in Seq(Ops)
  OBVIOUS

(* A new operation is an operation.                                        *)
LEMMA NewOpType ==
    ASSUME NEW kind \in {"start", "stop"}, NEW ep \in Nat,
           NEW a \in Attempts \cup {NoAttempt}, NEW where \in OpPcs
    PROVE  NewOp(kind, ep, a, where) \in Ops
  BY InitTypes DEF NewOp, Ops

(* Where a step may leave the running operation.                           *)
LEMMA HeadMoves ==
    ASSUME ops \in Seq(Ops), Len(ops) > 0
    PROVE  /\ Op \in Ops
           /\ EndOp => ops' \in Seq(Ops)
           /\ \A op \in Ops : Step(op) => ops' \in Seq(Ops)
           /\ \A where \in OpPcs : Goto(where) => ops' \in Seq(Ops)
           /\ AfterStop => ops' \in Seq(Ops)
  <1>1. Op \in Ops /\ (EndOp => ops' \in Seq(Ops))
    BY QueueType DEF Op, EndOp
  <1>2. \A op \in Ops : Step(op) => ops' \in Seq(Ops)
    BY QueueType DEF Step
  <1>3. ASSUME NEW where \in OpPcs, Goto(where) PROVE ops' \in Seq(Ops)
    <2>1. [Op EXCEPT !.pc = where] \in Ops
      BY <1>1 DEF Ops
    <2> QED
      BY <1>2, <1>3, <2>1 DEF Goto
  <1>4. AfterStop => ops' \in Seq(Ops)
    BY <1>1, <1>3 DEF AfterStop, OpPcs
  <1> QED
    BY <1>1, <1>2, <1>3, <1>4

-----------------------------------------------------------------------------
(* Type correctness *)

(* A claim made for a start runs while that start is the head of the       *)
(* queue, so a claim that fails has an operation to end.                   *)
ClaimAtHead ==
    claim.pc # "none" /\ claim.kind = "start" => Len(ops) > 0 /\ Op.pc = "head"

TypeInv == TypeOK /\ ClaimAtHead

(* The first part of a claim, made for a stop or for a start.              *)
LEMMA ClaimReadType ==
    ASSUME SharedType, LanesType, PluginType, AbilityType, NEW u \in Uis,
           NEW kind \in {"start", "stop"}, NEW ep \in Nat,
           kind = "start" => Len(ops) > 0 /\ Op.pc = "head",
           ClaimRead(u, kind, ep)
    PROVE  /\ SharedType' /\ LanesType'
           /\ fence' \in Fences /\ claim' \in Claims /\ ops' \in Seq(Ops)
           /\ ClaimAtHead'
  <1>0. u \in Procs
    BY DEF Procs
  <1>1. SharedType' /\ LanesType'
    <2>1. Synced(u) \in Frames
      BY <1>0, SyncedType
    <2>2. CASE fence.inFlight
      BY <2>2, UnchangedTypes DEF ClaimRead, shared, lanes
    <2>3. CASE ~fence.inFlight
      BY <1>0, <2>1, <2>3, LocalOpType DEF ClaimRead
    <2> QED
      BY <2>2, <2>3
  <1>2. CASE ClaimFails(kind)
    <2>1. fence' \in Fences /\ claim' \in Claims /\ ClaimAtHead'
      BY <1>2, InitTypes DEF ClaimFails, PluginType, ClaimAtHead, NoClaim
    <2>2. ops' \in Seq(Ops)
      BY <1>2, QueueType DEF ClaimFails, PluginType
    <2> QED
      BY <1>1, <2>1, <2>2
  <1>3. CASE ClaimReturns(kind, ep, fence.attempt) /\ fence' \in {fence, [fence EXCEPT !.epoch = ep, !.inFlight = FALSE]}
    <2>1. fence' \in Fences /\ claim' \in Claims /\ ClaimAtHead'
      BY <1>3, InitTypes DEF ClaimReturns, PluginType, ClaimAtHead, NoClaim, Fences
    <2>2. fence.attempt \in Attempts \cup {NoAttempt}
      BY DEF PluginType, Fences
    <2>3. /\ NewOp("stop", ep, fence.attempt, "authorize") \in Ops
          /\ NewOp("start", ep, fence.attempt, "authorize") \in Ops
          /\ NewOp("start", ep, fence.attempt, "begin") \in Ops
      BY <2>2, NewOpType DEF OpPcs
    <2>4. ops' \in Seq(Ops)
      BY <1>3, <2>3, QueueType DEF ClaimReturns, PluginType, Step
    <2> QED
      BY <1>1, <2>1, <2>4
  <1>4. CASE /\ claim' = [pc |-> "publish", kind |-> kind, epoch |-> ep, seen |-> journal]
             /\ UNCHANGED <<fence, ops>>
    <2>1. claim' \in Claims
      BY <1>4 DEF Claims, SharedType
    <2> QED
      BY <1>1, <1>4, <2>1 DEF PluginType, ClaimAtHead, Op
  <1> QED
    BY <1>2, <1>3, <1>4 DEF ClaimRead

(* A claim that found an owner fences it and returns.                      *)
LEMMA FenceClaimedType ==
    ASSUME PluginType, ClaimAtHead, claim.pc # "none", FenceClaimed
    PROVE  /\ fence' \in Fences /\ claim' \in Claims /\ ops' \in Seq(Ops)
           /\ ClaimAtHead'
  <1>1. /\ claim.kind \in {"start", "stop"}
        /\ claim.epoch \in Nat
        /\ claim.seen.attempt \in Attempts \cup {NoAttempt}
    BY DEF PluginType, Claims, Journals
  <1>2. fence' \in Fences /\ claim' \in Claims /\ ClaimAtHead'
    BY <1>1, InitTypes DEF FenceClaimed, ClaimReturns, ClaimAtHead, NoClaim, Fences
  <1>3. /\ NewOp("stop", claim.epoch, claim.seen.attempt, "authorize") \in Ops
        /\ NewOp("start", claim.epoch, claim.seen.attempt, "authorize") \in Ops
        /\ NewOp("start", claim.epoch, claim.seen.attempt, "begin") \in Ops
    BY <1>1, NewOpType DEF OpPcs
  <1>4. ops' \in Seq(Ops)
    BY <1>1, <1>3, QueueType DEF FenceClaimed, ClaimReturns, PluginType, Step,
       ClaimAtHead
  <1> QED
    BY <1>2, <1>4

(* A claim that lost its owner fails and returns.                          *)
LEMMA ClaimFailsType ==
    ASSUME PluginType, ClaimAtHead, claim.pc # "none", ClaimFails(claim.kind)
    PROVE  /\ fence' \in Fences /\ claim' \in Claims /\ ops' \in Seq(Ops)
           /\ ClaimAtHead'
  <1>1. fence' \in Fences /\ claim' \in Claims /\ ClaimAtHead'
    BY InitTypes DEF ClaimFails, PluginType, ClaimAtHead, NoClaim
  <1>2. ops' \in Seq(Ops)
    BY QueueType DEF ClaimFails, PluginType, ClaimAtHead
  <1> QED
    BY <1>1, <1>2

(* The steps of an operation of the UI process that only synchronises or   *)
(* publishes and moves the head of the queue on.                           *)
LEMMA HeadStepType ==
    ASSUME TypeInv, NEW u \in Uis, UiReady(u) \/ Op.pc # "head",
           SharedType', LanesType',
           ops' \in Seq(Ops),
           UNCHANGED <<ability, status, destroying, epoch, claim,
                       nextAttempt, wants, dispatch>>,
           fence' \in Fences
    PROVE  TypeInv'
  <1>1. AbilityType'
    BY UnchangedTypes DEF TypeInv, TypeOK
  <1>2. PluginType'
    BY DEF TypeInv, TypeOK, PluginType
  <1>3. ClaimAtHead'
    BY DEF UiReady, ClaimAtHead, TypeInv
  <1> QED
    BY <1>1, <1>2, <1>3 DEF TypeInv, TypeOK

(* Every step of the UI process keeps the type invariant.                  *)
LEMMA UiNextType ==
    ASSUME TypeInv, NEW u \in Uis, UiNext(u)
    PROVE  TypeInv'
  <1> USE DEF TypeInv, TypeOK
  <1>0. u \in Procs
    BY DEF Procs
  <1>f. Mine(u) \in Frames /\ Synced(u) \in Frames
    BY <1>0, SyncedType
  <1>o. ops \in Seq(Ops)
    BY DEF PluginType
  <1>1. CASE ClaimPublish(u)
    <2> DEFINE stopped == IF Mine(u).outcome = "Pending"
                          THEN [Mine(u) EXCEPT !.outcome = "Cancelled",
                                    !.starting = FALSE, !.running = FALSE,
                                    !.stopReq = TRUE]
                          ELSE [Mine(u) EXCEPT !.stopReq = TRUE]
    <2>1. stopped \in Frames
      BY <1>f DEF Frames, Outcomes
    <2>2. UNCHANGED lanes \/ Store(u, stopped, FALSE, TRUE)
      BY <1>1 DEF ClaimPublish
    <2>3. LanesType'
      BY <1>0, <2>1, <2>2, StoreType, UnchangedTypes
    <2>4. SharedType' /\ AbilityType'
      BY <1>1, UnchangedTypes DEF ClaimPublish
    <2>5. /\ fence' \in Fences /\ claim' \in Claims /\ ops' \in Seq(Ops)
          /\ ClaimAtHead'
      <3>1. CASE FenceClaimed
        BY <1>1, <3>1, FenceClaimedType DEF ClaimPublish
      <3>2. CASE claim' = [claim EXCEPT !.pc = "fence"] /\ UNCHANGED <<fence, ops>>
        BY <1>1, <3>2 DEF PluginType, Claims, ClaimAtHead, Op, ClaimPublish
      <3> QED
        BY <1>1, <3>1, <3>2 DEF ClaimPublish
    <2> QED
      BY <1>1, <2>3, <2>4, <2>5 DEF ClaimPublish, PluginType
  <1>2. CASE ClaimFence(u)
    <2>1. LanesType' /\ AbilityType'
      BY <1>2, UnchangedTypes DEF ClaimFence
    <2>2. SharedType'
      <3>1. CASE journal' = journal
        BY <1>2, <3>1 DEF ClaimFence, SharedType
      <3>2. CASE /\ CanFencePendingStop(journal, claim.seen.attempt, claim.seen.issuer)
                 /\ journal' = Fenced(journal)
        <4>1. journal' \in Journals /\ ValidRecord(journal')
          BY <3>2 DEF CanFencePendingStop, Fenced, SharedType, Journals,
             ValidRecord, NoJournal
        <4> QED
          BY <1>2, <4>1 DEF ClaimFence, SharedType
      <3> QED
        BY <1>2, <3>1, <3>2 DEF ClaimFence
    <2>3. /\ fence' \in Fences /\ claim' \in Claims /\ ops' \in Seq(Ops)
          /\ ClaimAtHead'
      <3>1. CASE FenceClaimed
        BY <1>2, <3>1, FenceClaimedType DEF ClaimFence
      <3>2. CASE claim' = [claim EXCEPT !.pc = "reread"] /\ UNCHANGED <<fence, ops>>
        BY <1>2, <3>2 DEF PluginType, Claims, ClaimAtHead, Op, ClaimFence
      <3> QED
        BY <1>2, <3>1, <3>2 DEF ClaimFence
    <2> QED
      BY <1>2, <2>1, <2>2, <2>3 DEF ClaimFence, PluginType
  <1>3. CASE ClaimReread(u)
    <2>1. LanesType' /\ AbilityType' /\ SharedType'
      BY <1>3, UnchangedTypes DEF ClaimReread
    <2>2. /\ fence' \in Fences /\ claim' \in Claims /\ ops' \in Seq(Ops)
          /\ ClaimAtHead'
      BY <1>3, FenceClaimedType, ClaimFailsType DEF ClaimReread
    <2> QED
      BY <1>3, <2>1, <2>2 DEF ClaimReread, PluginType
  <1>4. CASE RequestStart(u)
    <2>1. SharedType' /\ LanesType' /\ AbilityType'
      BY <1>4, UnchangedTypes DEF RequestStart
    <2>2. epoch + 1 \in 0 .. MaxIntents
      BY <1>4, BoundsAssumption DEF RequestStart, PluginType
    <2>3. NewOp("start", epoch + 1, NoAttempt, "head") \in Ops
      BY <2>2, NewOpType DEF OpPcs
    <2>4. ops' \in Seq(Ops)
      BY <1>4, <1>o, <2>3, QueueType DEF RequestStart
    <2>5. ClaimAtHead'
      BY <1>4 DEF RequestStart, UiReady, ClaimAtHead
    <2> QED
      BY <1>4, <2>1, <2>2, <2>4, <2>5 DEF RequestStart, PluginType
  <1>5. CASE RequestStop(u)
    <2>1. epoch + 1 \in 0 .. MaxIntents /\ epoch + 1 \in Nat
      BY <1>5, BoundsAssumption DEF RequestStop, PluginType
    <2>2. /\ SharedType' /\ LanesType'
          /\ fence' \in Fences /\ claim' \in Claims /\ ops' \in Seq(Ops)
          /\ ClaimAtHead'
      BY <1>5, <2>1, ClaimReadType DEF RequestStop
    <2>3. AbilityType'
      BY <1>5, UnchangedTypes DEF RequestStop
    <2> QED
      BY <1>5, <2>1, <2>2, <2>3 DEF RequestStop, PluginType
  <1>6. CASE StartHead(u)
    <2>1. Len(ops) > 0 /\ Op.pc = "head"
      BY <1>6 DEF StartHead, AtHead, Op
    <2>2. CASE Op.epoch # epoch
      BY <1>6, <1>o, <2>1, <2>2, HeadStepType, HeadMoves, UnchangedTypes
         DEF StartHead, PluginType
    <2>3. CASE ~(Op.epoch # epoch)
      <3>1. Op.epoch \in Nat
        BY <1>o, <2>1, HeadMoves DEF Ops
      <3>2. /\ SharedType' /\ LanesType'
            /\ fence' \in Fences /\ claim' \in Claims /\ ops' \in Seq(Ops)
            /\ ClaimAtHead'
        BY <1>6, <2>1, <2>3, <3>1, ClaimReadType DEF StartHead
      <3>3. AbilityType'
        BY <1>6, UnchangedTypes DEF StartHead
      <3> QED
        BY <1>6, <3>2, <3>3 DEF StartHead, PluginType
    <2> QED
      BY <2>2, <2>3
  <1>7. CASE Authorize(u)
    <2>1. Len(ops) > 0
      BY <1>7 DEF Authorize, AtHead
    <2>2. SharedType' /\ LanesType'
      <3>1. [Synced(u) EXCEPT !.stopReq = TRUE] \in Frames
        BY <1>f DEF Frames
      <3>2. \/ UNCHANGED <<shared, lanes>>
            \/ LocalOp(u, [Synced(u) EXCEPT !.stopReq = TRUE], TRUE)
            \/ LocalOp(u, Synced(u), FALSE)
        BY <1>7 DEF Authorize
      <3> QED
        BY <1>0, <1>f, <3>1, <3>2, LocalOpType, UnchangedTypes
    <2>3. ops' \in Seq(Ops)
      <3>1. AfterStop \/ Goto("osBegin") \/ Goto("cooperative")
        BY <1>7 DEF Authorize
      <3> QED
        BY <1>o, <2>1, <3>1, HeadMoves DEF OpPcs
    <2> QED
      BY <1>7, <2>2, <2>3, HeadStepType DEF Authorize, PluginType
  <1>8. CASE Cooperative(u)
    <2> DEFINE complete == /\ ~Synced(u).running
                           /\ ~Synced(u).starting
                           /\ Synced(u).cleanup
                           /\ Synced(u).outcome \in Terminal
    <2>1. Len(ops) > 0
      BY <1>8 DEF Cooperative, AtHead
    <2>2. SharedType' /\ LanesType'
      BY <1>0, <1>f, <1>8, LocalOpType DEF Cooperative
    <2>3. [Op EXCEPT !.pc = "osBegin", !.cleaned = complete] \in Ops
      BY <1>o, <2>1, HeadMoves DEF Ops, OpPcs
    <2>4. ops' \in Seq(Ops)
      BY <1>8, <1>o, <2>1, <2>3, HeadMoves DEF Cooperative
    <2> QED
      BY <1>8, <2>2, <2>4, HeadStepType DEF Cooperative, PluginType
  <1>9. CASE OsStopBegin(u)
    <2>1. Len(ops) > 0
      BY <1>9 DEF OsStopBegin, AtHead
    <2>2. SharedType' /\ LanesType' /\ AbilityType'
      BY <1>9, UnchangedTypes DEF OsStopBegin
    <2>3. ops' \in Seq(Ops)
      BY <1>9, <1>o, <2>1, HeadMoves DEF OsStopBegin, OpPcs
    <2>4. fence' \in Fences
      <3>1. Op.epoch \in Nat /\ Op.session \in Attempts \cup {NoAttempt}
        BY <1>o, <2>1, HeadMoves DEF Ops
      <3>2. [epoch |-> Op.epoch, attempt |-> Op.session, inFlight |-> TRUE] \in Fences
        BY <3>1 DEF Fences
      <3> QED
        BY <1>9, <3>2 DEF OsStopBegin, PluginType
    <2>5. destroying' \subseteq Exts
      BY <1>9 DEF OsStopBegin
    <2>6. PluginType'
      BY <1>9, <2>3, <2>4 DEF OsStopBegin, PluginType
    <2>7. ClaimAtHead'
      BY <1>9 DEF OsStopBegin, UiReady, ClaimAtHead
    <2> QED
      BY <1>9, <2>2, <2>5, <2>6, <2>7 DEF OsStopBegin
  <1>10. CASE OsStopConfirmed(u)
    BY <1>10, <1>o, HeadStepType, HeadMoves, UnchangedTypes, InitTypes
       DEF OsStopConfirmed, AtHead, OpPcs
  <1>11. CASE OsStopRejected(u)
    <2>1. fence' \in Fences
      BY <1>11 DEF OsStopRejected, PluginType, Fences
    <2> QED
      BY <1>11, <1>o, <2>1, HeadStepType, HeadMoves, UnchangedTypes
         DEF OsStopRejected, AtHead
  <1>12. CASE RecoverSync(u)
    <2> DEFINE unattached == /\ Synced(u).attempt = Op.session
                             /\ ~Synced(u).attached
                             /\ Synced(u).stopReq
                             /\ Synced(u).outcome \in Terminal
    <2>1. Len(ops) > 0
      BY <1>12 DEF RecoverSync, AtHead
    <2>2. SharedType' /\ LanesType'
      BY <1>0, <1>f, <1>12, LocalOpType DEF RecoverSync
    <2>3. [Op EXCEPT !.pc = "recoverRead", !.unattached = unattached] \in Ops
      BY <1>o, <2>1, HeadMoves DEF Ops, OpPcs
    <2>4. ops' \in Seq(Ops)
      BY <1>12, <1>o, <2>1, <2>3, HeadMoves DEF RecoverSync
    <2> QED
      BY <1>12, <2>2, <2>4, HeadStepType DEF RecoverSync, PluginType
  <1>13. CASE RecoverRead(u)
    <2>1. Len(ops) > 0 /\ Op.pc # "head"
      BY <1>13 DEF RecoverRead, AtHead, Op
    <2>2. [Op EXCEPT !.pc = "recoverProve", !.seen = journal] \in Ops
      BY <1>o, <2>1, HeadMoves DEF Ops, OpPcs, SharedType
    <2>3. ops' \in Seq(Ops)
      BY <1>13, <1>o, <2>1, <2>2, HeadMoves DEF RecoverRead, OpPcs
    <2> QED
      BY <1>13, <2>1, <2>3, HeadStepType, UnchangedTypes DEF RecoverRead, PluginType
  <1>14. CASE RecoverMissing(u)
    <2>1. Len(ops) > 0
      BY <1>14 DEF RecoverMissing, AtHead
    <2>2. SharedType' /\ LanesType'
      BY <1>0, <1>f, <1>14, LocalOpType DEF RecoverMissing
    <2>3. ops' \in Seq(Ops)
      BY <1>14, <1>o, <2>1, HeadMoves DEF RecoverMissing
    <2> QED
      BY <1>14, <2>2, <2>3, HeadStepType DEF RecoverMissing, PluginType
  <1>15. CASE RecoverProve(u)
    <2>1. Len(ops) > 0 /\ Op.pc # "head"
      BY <1>15 DEF RecoverProve, AtHead, Op
    <2>2. ops' \in Seq(Ops)
      BY <1>15, <1>o, <2>1, HeadMoves DEF RecoverProve, OpPcs
    <2> QED
      BY <1>15, <2>1, <2>2, HeadStepType, UnchangedTypes DEF RecoverProve, PluginType
  <1>16. CASE RecoverDeadline(u)
    <2>1. Len(ops) > 0 /\ Op.pc # "head"
      BY <1>16 DEF RecoverDeadline, AtHead, Op
    <2>2. ops' \in Seq(Ops)
      BY <1>16, <1>o, <2>1, HeadMoves DEF RecoverDeadline
    <2> QED
      BY <1>16, <2>1, <2>2, HeadStepType, UnchangedTypes
         DEF RecoverDeadline, PluginType
  <1>17. CASE RecoverDelete(u)
    <2>1. Len(ops) > 0 /\ Op.pc # "head"
      BY <1>17 DEF RecoverDelete, AtHead, Op
    <2>2. ops' \in Seq(Ops)
      BY <1>17, <1>o, <2>1, HeadMoves DEF RecoverDelete, OpPcs
    <2>3. SharedType' /\ LanesType'
      BY <1>17, UnchangedTypes, InitTypes DEF RecoverDelete, SharedType
    <2> QED
      BY <1>17, <2>1, <2>2, <2>3, HeadStepType DEF RecoverDelete, PluginType
  <1>18. CASE RecoverFinish(u)
    <2> DEFINE over == [Synced(u) EXCEPT !.starting = FALSE, !.running = FALSE,
                            !.outcome = IF Synced(u).outcome = "Failed"
                                        THEN "Failed" ELSE "Cancelled"]
               released == CleanedFrame(over)
    <2>1. Len(ops) > 0
      BY <1>18 DEF RecoverFinish, AtHead
    <2>2. released \in Frames
      <3>1. over \in Frames
        BY <1>f DEF Frames, Outcomes
      <3> QED
        BY <3>1, FrameOpsType
    <2>3. LocalOp(u, released, TRUE) \/ LocalOp(u, Synced(u), FALSE)
      BY <1>18 DEF RecoverFinish
    <2>4. SharedType' /\ LanesType'
      BY <1>0, <1>f, <2>2, <2>3, LocalOpType
    <2>5. ops' \in Seq(Ops)
      BY <1>18, <1>o, <2>1, HeadMoves DEF RecoverFinish
    <2> QED
      BY <1>18, <2>4, <2>5, HeadStepType DEF RecoverFinish, PluginType
  <1>19. CASE Begin(u)
    <2> DEFINE pending == [InitFrame EXCEPT !.attempt = nextAttempt,
                              !.outcome = "Pending", !.starting = TRUE]
    <2>1. Len(ops) > 0
      BY <1>19 DEF Begin, AtHead
    <2>2. CASE EndOp /\ LocalOp(u, Synced(u), FALSE)
               /\ UNCHANGED <<nextAttempt, wants, dispatch>>
      BY <1>0, <1>f, <1>o, <1>19, <2>1, <2>2, LocalOpType, HeadMoves, HeadStepType
         DEF Begin, PluginType
    <2>3. CASE ~(EndOp /\ LocalOp(u, Synced(u), FALSE)
               /\ UNCHANGED <<nextAttempt, wants, dispatch>>)
      <3>1. /\ ~(nextAttempt > MaxAttempts)
            /\ issuerLease' = Acquired(nextAttempt, u)
            /\ extLease' = ReleasedBy(extLease, u)
            /\ journal' = PendingJournal(nextAttempt, u)
            /\ core' = [core EXCEPT ![u] = [frame |-> pending, stale |-> FALSE]]
            /\ uiLane' = [uiLane EXCEPT ![u] = pending]
            /\ UNCHANGED vpnLane
            /\ seen' = [q \in Procs |-> seen[q] /\ q # u /\ ~Reads(q, u)]
            /\ nextAttempt' = nextAttempt + 1
            /\ wants' = wants \cup {[attempt |-> nextAttempt, ui |-> u]}
            /\ dispatch' = dispatch \cup {nextAttempt}
            /\ Step([Op EXCEPT !.pc = "await", !.session = nextAttempt])
            /\ UNCHANGED <<ability, status, destroying, epoch, fence, claim>>
            /\ UiReady(u)
        BY <1>19, <2>3 DEF Begin
      <3>2. nextAttempt \in Attempts /\ nextAttempt + 1 \in 1 .. MaxAttempts + 1
        BY <3>1, MaxAttemptsAssumption DEF Attempts, PluginType
      <3>3. SharedType'
        <4>1. extLease' \in Leases(Exts)
          BY <3>1, ReleasedType DEF SharedType
        <4>2. issuerLease' \in Leases(Uis)
          BY <3>1, <3>2 DEF Acquired, Leases
        <4>3. journal' \in Journals /\ ValidRecord(journal')
          BY <3>1, <3>2 DEF PendingJournal, Journals, ValidRecord
        <4> QED
          BY <4>1, <4>2, <4>3 DEF SharedType
      <3>4. LanesType'
        <4>1. pending \in Frames
          BY <3>2, InitTypes DEF Frames, Outcomes
        <4>2. core' \in [Procs -> Cores] /\ uiLane' \in [Uis -> Frames]
          BY <1>0, <3>1, <4>1 DEF LanesType, Cores
        <4>3. seen' \in [Procs -> BOOLEAN]
          BY <3>1, Zenon
        <4> QED
          BY <3>1, <4>2, <4>3 DEF LanesType
      <3>5. PluginType'
        <4>1. [Op EXCEPT !.pc = "await", !.session = nextAttempt] \in Ops
          BY <1>o, <2>1, <3>2, HeadMoves DEF Ops, OpPcs
        <4>2. ops' \in Seq(Ops)
          BY <1>o, <2>1, <3>1, <4>1, HeadMoves
        <4> QED
          BY <3>1, <3>2, <4>2 DEF PluginType
      <3>6. AbilityType' /\ ClaimAtHead'
        BY <3>1, UnchangedTypes DEF UiReady, ClaimAtHead
      <3> QED
        BY <3>1, <3>3, <3>4, <3>5, <3>6
    <2> QED
      BY <2>2, <2>3
  <1>20. CASE AwaitDone(u)
    BY <1>20, <1>o, HeadStepType, HeadMoves, UnchangedTypes
       DEF AwaitDone, AtHead, PluginType
  <1>21. CASE AwaitDeadline(u)
    <2>1. FailedFrame(Synced(u)) \in Frames
      BY <1>f, FrameOpsType
    <2>2. LocalOp(u, FailedFrame(Synced(u)), TRUE) \/ LocalOp(u, Synced(u), FALSE)
      BY <1>21 DEF AwaitDeadline
    <2>3. SharedType' /\ LanesType'
      BY <1>0, <1>f, <2>1, <2>2, LocalOpType
    <2> QED
      BY <1>o, <1>21, <2>3, HeadStepType DEF AwaitDeadline, plugin, PluginType
  <1>22. ASSUME NEW a \in dispatch, DispatchRejected(u, a)
         PROVE  TypeInv'
    <2>1. FailedUnattached(Synced(u)) \in Frames
      BY <1>f, FrameOpsType
    <2>2. SharedType' /\ LanesType'
      <3>1. CASE LocalOp(u, Synced(u), FALSE)
        BY <1>0, <1>f, <3>1, LocalOpType
      <3>2. CASE /\ journal' = NoJournal
                 /\ Store(u, FailedUnattached(Synced(u)), TRUE, TRUE)
                 /\ LeasesFollow(u, FailedUnattached(Synced(u)))
        BY <1>0, <2>1, <3>2, StoreType, LeasesFollowType, InitTypes DEF SharedType
      <3> QED
        BY <1>22, <3>1, <3>2 DEF DispatchRejected
    <2>3. AbilityType' /\ ClaimAtHead'
      BY <1>22, UnchangedTypes DEF DispatchRejected, UiReady, ClaimAtHead
    <2> QED
      BY <1>22, <2>2, <2>3 DEF DispatchRejected, PluginType
  <1>23. CASE UiSync(u)
    <2>1. SharedType' /\ LanesType'
      BY <1>0, <1>f, <1>23, LocalOpType DEF UiSync
    <2> QED
      BY <1>o, <1>23, <2>1, HeadStepType DEF UiSync, plugin, PluginType
  <1>24. CASE UiWatchdog(u)
    <2>1. FailedFrame(Mine(u)) \in Frames
      BY <1>f, FrameOpsType
    <2>2. CASE LocalOp(u, FailedFrame(Mine(u)), TRUE)
      <3>1. SharedType' /\ LanesType'
        BY <1>0, <2>1, <2>2, LocalOpType
      <3> QED
        BY <1>o, <1>24, <3>1, HeadStepType DEF UiWatchdog, plugin, PluginType
    <2>3. CASE /\ core' = [core EXCEPT ![u].stale = TRUE]
               /\ UNCHANGED <<shared, uiLane, vpnLane, seen>>
      <3>1. LanesType'
        BY <2>3 DEF LanesType, Cores
      <3>2. SharedType'
        BY <2>3, UnchangedTypes
      <3> QED
        BY <1>o, <1>24, <3>1, <3>2, HeadStepType DEF UiWatchdog, plugin, PluginType
    <2> QED
      BY <1>24, <2>2, <2>3 DEF UiWatchdog
  <1>25. CASE UiOwnerReleased(u)
    <2>1. FailedFrame(Synced(u)) \in Frames
      BY <1>f, FrameOpsType
    <2>2. SharedType' /\ LanesType'
      BY <1>0, <1>25, <2>1, LocalOpType DEF UiOwnerReleased
    <2> QED
      BY <1>o, <1>25, <2>2, HeadStepType DEF UiOwnerReleased, plugin, PluginType
  <1>26. CASE UiStart(u)
    <2>1. SharedType' /\ LanesType' /\ PluginType' /\ AbilityType'
      BY <1>26, UnchangedTypes DEF UiStart
    <2>2. ClaimAtHead'
      BY <1>26 DEF UiStart, plugin, ClaimAtHead, Op
    <2> QED
      BY <1>26, <2>1, <2>2 DEF UiStart
  <1>27. CASE UiCrash(u)
    <2>1. SharedType'
      BY <1>27, ReleasedType DEF UiCrash, SharedType
    <2>2. LanesType'
      BY <1>27, InitTypes DEF UiCrash, LanesType
    <2>3. PluginType' /\ ClaimAtHead'
      BY <1>27, InitTypes, BoundsAssumption
         DEF UiCrash, PluginType, ClaimAtHead, NoClaim
    <2>4. AbilityType'
      BY <1>27, UnchangedTypes DEF UiCrash
    <2> QED
      BY <1>27, <2>1, <2>2, <2>3, <2>4 DEF UiCrash
  <1> QED
    BY <1>1, <1>2, <1>3, <1>4, <1>5, <1>6, <1>7, <1>8, <1>9, <1>10, <1>11,
       <1>12, <1>13, <1>14, <1>15, <1>16, <1>17, <1>18, <1>19, <1>20, <1>21,
       <1>22, <1>23, <1>24, <1>25, <1>26, <1>27
       DEF UiNext, UiClaims, UiRuns

(* A step of an Extension that leaves the Plugin alone.                    *)
LEMMA ExtStepType ==
    ASSUME TypeInv, SharedType', LanesType', AbilityType',
           UNCHANGED <<plugin, status>>, destroying' \subseteq Exts
    PROVE  TypeInv'
  <1>1. PluginType'
    BY UnchangedTypes DEF TypeInv, TypeOK
  <1>2. ClaimAtHead'
    BY DEF TypeInv, ClaimAtHead, Op, plugin
  <1> QED
    BY <1>1, <1>2 DEF TypeInv, TypeOK

(* destroyVpn leaves the Ability well typed.                               *)
LEMMA DestroyVpnType ==
    ASSUME AbilityType, NEW e \in Exts, DestroyVpn(e)
    PROVE  /\ act' \in [Exts -> Attempts \cup {NoAttempt}]
           /\ conn' \in [Exts -> BOOLEAN]
           /\ cleaning' \in [Exts -> Cleanups]
  BY InitTypes DEF AbilityType, DestroyVpn, Cleanups

(* A cleanup moves on, or ends.                                            *)
LEMMA CleansType ==
    ASSUME AbilityType, NEW e \in Exts
    PROVE  /\ \A where \in {"destroy", "ack", "acked", "failed"} :
                  Cleans(e, where) => cleaning' \in [Exts -> Cleanups]
           /\ cleaning' = [cleaning EXCEPT ![e] = NoCleanup]
                  => cleaning' \in [Exts -> Cleanups]
  <1>1. cleaning \in [Exts -> Cleanups] /\ cleaning[e] \in Cleanups
    BY DEF AbilityType
  <1>2. ASSUME NEW where \in {"destroy", "ack", "acked", "failed"}
        PROVE  [cleaning[e] EXCEPT !.pc = where] \in Cleanups
    BY <1>1 DEF Cleanups
  <1> QED
    BY <1>1, <1>2, InitTypes DEF Cleans

(* extension_tick leaves a frame.                                          *)
LEMMA TickType ==
    ASSUME SharedType, LanesType, AbilityType, NEW e \in Exts, Tick(e)
    PROVE  SharedType' /\ LanesType'
  <1>1. e \in Procs
    BY DEF Procs
  <1>2. Synced(e) \in Frames
    BY <1>1, SyncedType
  <1>3. Ticked(e, Synced(e)) \in Frames
    <2>1. [Synced(e) EXCEPT !.starting = FALSE, !.running = TRUE,
                            !.outcome = "Connected"] \in Frames
      BY <1>2 DEF Frames, Outcomes
    <2>2. FailedFrame(Synced(e)) \in Frames
      BY <1>2, FrameOpsType
    <2>3. Ticked(e, Synced(e)) \in {Synced(e), FailedFrame(Synced(e)),
              [Synced(e) EXCEPT !.starting = FALSE, !.running = TRUE,
                                !.outcome = "Connected"]}
      BY DEF Ticked
    <2> QED
      BY <1>2, <2>1, <2>2, <2>3
  <1>4. (Lifecycle(e, Synced(e)) # "stopping") \in BOOLEAN
    OBVIOUS
  <1> QED
    BY <1>1, <1>3, <1>4, LocalOpType DEF Tick

(* Every step of an Extension keeps the type invariant.                    *)
LEMMA ExtNextType ==
    ASSUME TypeInv, NEW e \in Exts, ExtNext(e)
    PROVE  TypeInv'
  <1> USE DEF TypeInv, TypeOK
  <1>0. e \in Procs
    BY DEF Procs
  <1>f. Mine(e) \in Frames /\ Synced(e) \in Frames
    BY <1>0, SyncedType
  <1>1. CASE RequestRefused(e)
    <2>1. SharedType' /\ LanesType'
      BY <1>1, UnchangedTypes DEF RequestRefused
    <2>2. AbilityType'
      BY <1>1, InitTypes DEF RequestRefused, AbilityType, Moves, ExtPcs
    <2> QED
      BY <1>1, <2>1, <2>2, ExtStepType DEF RequestRefused
  <1>2. CASE BindSync(e)
    <2> DEFINE r == Remote(e)
               renamed == [Mine(e) EXCEPT !.attempt = req[e],
                               !.outcome = r.outcome, !.attached = r.attached,
                               !.stopReq = r.stopReq, !.owner = r.owner,
                               !.cleanup = r.cleanup]
               adopted == IF Mine(e).attempt = req[e] THEN Synced(e)
                          ELSE Merge(renamed, r, FALSE)
               bound == IF adopted.outcome = "Connected" /\ ~native[e]
                        THEN [adopted EXCEPT !.outcome = "Pending",
                                  !.starting = TRUE, !.running = FALSE,
                                  !.cleanup = FALSE]
                        ELSE adopted
    <2>1. r \in Frames /\ req[e] \in Attempts \cup {NoAttempt}
      BY <1>0, RemoteType DEF AbilityType
    <2>2. renamed \in Frames
      BY <1>f, <2>1 DEF Frames
    <2>3. adopted \in Frames
      BY <1>f, <2>1, <2>2, MergeType
    <2>4. bound \in Frames
      BY <2>3 DEF Frames, Outcomes
    <2>5. LocalOp(e, bound, FALSE) \/ UNCHANGED <<shared, lanes>>
      BY <1>2 DEF BindSync
    <2>6. SharedType' /\ LanesType'
      BY <1>0, <2>4, <2>5, LocalOpType, UnchangedTypes
    <2>7. AbilityType'
      <3>1. /\ Moves(e, "acquire") \/ Moves(e, "unbound")
            /\ snap' = [snap EXCEPT ![e] = journal] \/ UNCHANGED snap
            /\ UNCHANGED <<ipc, req, act, conn, creating, tun, native, cleaning>>
        BY <1>2 DEF BindSync
      <3>2. journal \in Journals
        BY DEF SharedType
      <3> QED
        BY <3>1, <3>2 DEF AbilityType, Moves, ExtPcs
    <2> QED
      BY <1>2, <2>6, <2>7, ExtStepType DEF BindSync
  <1>3. CASE BindAcquire(e)
    <2>1. Acquired(snap[e].attempt, e) \in Leases(Exts)
      <3>1. snap[e] \in Journals
        BY DEF AbilityType
      <3>2. snap[e].attempt \in Attempts \cup {NoAttempt}
        BY <3>1 DEF Journals
      <3> QED
        BY <3>2 DEF Acquired, Leases
    <2>2. SharedType'
      BY <1>3, <2>1 DEF BindAcquire, SharedType
    <2>3. LanesType'
      BY <1>3, UnchangedTypes DEF BindAcquire
    <2>4. AbilityType'
      BY <1>3 DEF BindAcquire, AbilityType, Moves, ExtPcs
    <2> QED
      BY <1>3, <2>2, <2>3, <2>4, ExtStepType DEF BindAcquire
  <1>4. CASE BindAttach(e)
    <2>1. SharedType'
      <3>1. CASE extLease' = ReleasedBy(extLease, e) /\ UNCHANGED journal
        BY <1>4, <3>1, ReleasedType DEF BindAttach, SharedType
      <3>2. CASE /\ journal' = AttachedTo(journal, e) /\ UNCHANGED extLease
                 /\ journal.phase \in {"Pending", "Attached"}
        <4>0. /\ journal.attempt \in Attempts /\ journal.issuer \in Uis
              /\ journal \in Journals
          BY <3>2 DEF SharedType, ValidRecord, NoJournal
        <4>1. journal' \in Journals /\ ValidRecord(journal')
          BY <3>2, <4>0 DEF AttachedTo, Journals, ValidRecord
        <4> QED
          BY <1>4, <3>2, <4>1 DEF BindAttach, SharedType
      <3> QED
        BY <1>4, <3>1, <3>2 DEF BindAttach, CanUpgradeAttached, CanRebindAttached
    <2>2. LanesType'
      BY <1>4, UnchangedTypes DEF BindAttach
    <2>3. AbilityType'
      BY <1>4 DEF BindAttach, AbilityType, Moves, ExtPcs
    <2> QED
      BY <1>4, <2>1, <2>2, <2>3, ExtStepType DEF BindAttach
  <1>5. CASE BindError(e)
    <2>1. SharedType'
      BY <1>5, ReleasedType DEF BindError, SharedType
    <2>2. LanesType'
      BY <1>5, UnchangedTypes DEF BindError
    <2>3. AbilityType'
      BY <1>5 DEF BindError, AbilityType, Moves, ExtPcs
    <2> QED
      BY <1>5, <2>1, <2>2, <2>3, ExtStepType DEF BindError
  <1>6. CASE BindPublish(e)
    <2> DEFINE f == Synced(e)
               g == [f EXCEPT !.owner = e, !.attached = TRUE,
                              !.cleanup = f.attached /\ f.cleanup]
               b == \/ ~f.attached
                    \/ f.outcome = "Pending" /\ f.starting /\ ~f.running
                    \/ f.owner # e
    <2>1. g \in Frames /\ b \in BOOLEAN
      BY <1>f DEF Frames
    <2>2. Store(e, g, TRUE, b) /\ LeasesFollow(e, f) /\ UNCHANGED journal
      BY <1>6 DEF BindPublish
    <2>3. LanesType'
      BY <1>0, <2>1, <2>2, StoreType
    <2>4. SharedType'
      BY <2>2, LeasesFollowType DEF SharedType
    <2>5. AbilityType'
      BY <1>6, InitTypes DEF BindPublish, AbilityType, Moves, ExtPcs
    <2> QED
      BY <1>6, <2>3, <2>4, <2>5, ExtStepType DEF BindPublish
  <1>7. CASE Unbound(e)
    <2>1. SharedType' /\ LanesType'
      <3>1. CASE LocalOp(e, Synced(e), FALSE)
        BY <1>0, <1>f, <3>1, LocalOpType
      <3>2. CASE /\ journal' = NoJournal
                 /\ Store(e, FailedUnattached(Synced(e)), TRUE, FALSE)
                 /\ LeasesFollow(e, FailedUnattached(Synced(e)))
        <4>1. FailedUnattached(Synced(e)) \in Frames
          BY <1>f, FrameOpsType
        <4> QED
          BY <1>0, <3>2, <4>1, StoreType, LeasesFollowType, InitTypes DEF SharedType
      <3> QED
        BY <1>7, <3>1, <3>2 DEF Unbound
    <2>2. AbilityType'
      BY <1>7, InitTypes DEF Unbound, AbilityType, Moves, ExtPcs
    <2> QED
      BY <1>7, <2>1, <2>2, ExtStepType DEF Unbound
  <1>8. CASE Settle(e)
    <2>1. LanesType'
      BY <1>0, <1>f, <1>8, StoreType DEF Settle
    <2>2. SharedType'
      BY <1>8, UnchangedTypes DEF Settle
    <2>3. AbilityType'
      BY <1>8 DEF Settle, AbilityType, Moves, ExtPcs
    <2> QED
      BY <1>8, <2>1, <2>2, <2>3, ExtStepType DEF Settle
  <1>9. CASE BoundTick(e)
    <2>1. SharedType' /\ LanesType'
      BY <1>9, TickType DEF BoundTick
    <2>2. AbilityType'
      <3>1. CASE DestroyVpn(e) /\ EndRequest(e)
        BY <1>9, <3>1, DestroyVpnType
           DEF BoundTick, AbilityType, EndRequest, Moves, ExtPcs
      <3>2. CASE Moves(e, "starting") /\ UNCHANGED <<req, act, conn, cleaning>>
        BY <1>9, <3>2 DEF BoundTick, AbilityType, Moves, ExtPcs
      <3> QED
        BY <1>9, <3>1, <3>2 DEF BoundTick
    <2> QED
      BY <1>9, <2>1, <2>2, ExtStepType DEF BoundTick
  <1>10. CASE SetStarting(e)
    <2> DEFINE f == Synced(e)
               ok == Accepts(f, req[e]) /\ f.outcome = "Pending"
               g == IF ok THEN [f EXCEPT !.starting = TRUE, !.running = FALSE] ELSE f
    <2>1. g \in Frames /\ ok \in BOOLEAN
      BY <1>f DEF Frames, Accepts
    <2>2. LocalOp(e, g, ok)
      BY <1>10 DEF SetStarting
    <2>3. SharedType' /\ LanesType'
      BY <1>0, <2>1, <2>2, LocalOpType
    <2>4. AbilityType'
      BY <1>10 DEF SetStarting, AbilityType, Moves, ExtPcs
    <2> QED
      BY <1>10, <2>3, <2>4, ExtStepType DEF SetStarting
  <1>11. CASE CreateCall(e)
    <2>1. SharedType' /\ LanesType'
      BY <1>11, UnchangedTypes DEF CreateCall
    <2>2. AbilityType'
      BY <1>11 DEF CreateCall, AbilityType, Moves, ExtPcs
    <2> QED
      BY <1>11, <2>1, <2>2, ExtStepType DEF CreateCall
  <1>12. CASE CreateSettles(e)
    <2>1. SharedType' /\ LanesType'
      BY <1>12, UnchangedTypes DEF CreateSettles
    <2>2. AbilityType'
      BY <1>12 DEF CreateSettles, AbilityType
    <2> QED
      BY <1>12, <2>1, <2>2, ExtStepType DEF CreateSettles
  <1>13. CASE CreateReturns(e)
    <2>1. SharedType' /\ LanesType'
      BY <1>13, UnchangedTypes DEF CreateReturns
    <2>2. AbilityType'
      <3>1. CASE DestroyVpn(e) /\ EndRequest(e)
        BY <1>13, <3>1, DestroyVpnType
           DEF CreateReturns, AbilityType, EndRequest, Moves, ExtPcs
      <3>2. CASE Moves(e, "created") /\ UNCHANGED <<req, act, conn, cleaning>>
        BY <1>13, <3>2 DEF CreateReturns, AbilityType, Moves, ExtPcs
      <3> QED
        BY <1>13, <3>1, <3>2 DEF CreateReturns
    <2> QED
      BY <1>13, <2>1, <2>2, ExtStepType DEF CreateReturns
  <1>14. CASE Protect(e)
    <2>1. Accepts(Synced(e), req[e]) \in BOOLEAN
      BY <1>f DEF Accepts, Frames
    <2>2. SharedType' /\ LanesType'
      BY <1>0, <1>f, <1>14, <2>1, LocalOpType DEF Protect
    <2>3. AbilityType'
      BY <1>14 DEF Protect, AbilityType, Moves, ExtPcs
    <2> QED
      BY <1>14, <2>2, <2>3, ExtStepType DEF Protect
  <1>15. CASE StartEngine(e)
    <2>1. LocalOp(e, Synced(e), FALSE) \/ UNCHANGED <<shared, lanes>>
      BY <1>15 DEF StartEngine
    <2>2. SharedType' /\ LanesType'
      BY <1>0, <1>f, <2>1, LocalOpType, UnchangedTypes
    <2>3. (Current(e) /\ Accepts(Synced(e), req[e])) \in BOOLEAN
      OBVIOUS
    <2>4. AbilityType'
      BY <1>15, <2>3 DEF StartEngine, AbilityType, Moves, ExtPcs
    <2> QED
      BY <1>15, <2>2, <2>4, ExtStepType DEF StartEngine
  <1>16. CASE Commit(e)
    <2> DEFINE f == Synced(e)
               ok == Accepts(f, req[e])
               g == IF ok THEN [f EXCEPT !.starting = FALSE, !.running = TRUE,
                                         !.outcome = "Connected"] ELSE f
    <2>1. g \in Frames /\ ok \in BOOLEAN
      BY <1>f DEF Frames, Outcomes, Accepts
    <2>2. LocalOp(e, g, ok)
      BY <1>16 DEF Commit
    <2>3. SharedType' /\ LanesType'
      BY <1>0, <2>1, <2>2, LocalOpType
    <2>4. AbilityType'
      BY <1>16, <2>1 DEF Commit, AbilityType, Moves, ExtPcs
    <2> QED
      BY <1>16, <2>3, <2>4, ExtStepType DEF Commit
  <1>17. CASE StartReturns(e)
    <2>1. SharedType' /\ LanesType'
      BY <1>17, TickType, UnchangedTypes DEF StartReturns
    <2>2. AbilityType'
      BY <1>17 DEF StartReturns, AbilityType, Moves, ExtPcs
    <2> QED
      BY <1>17, <2>1, <2>2, ExtStepType DEF StartReturns
  <1>18. CASE StartFails(e)
    <2>1. SharedType' /\ LanesType'
      BY <1>18, UnchangedTypes DEF StartFails
    <2>2. AbilityType'
      BY <1>18 DEF StartFails, AbilityType, Moves, ExtPcs
    <2> QED
      BY <1>18, <2>1, <2>2, ExtStepType DEF StartFails
  <1>19. CASE ChainFails(e)
    <2> DEFINE f == Synced(e)
               g == IF Accepts(f, req[e]) THEN FailedFrame(f) ELSE f
    <2>1. g \in Frames /\ Accepts(f, req[e]) \in BOOLEAN
      BY <1>f, FrameOpsType DEF Frames, Accepts
    <2>2. LocalOp(e, g, Accepts(f, req[e])) \/ UNCHANGED <<shared, lanes>>
      BY <1>19 DEF ChainFails
    <2>3. SharedType' /\ LanesType'
      BY <1>0, <2>1, <2>2, LocalOpType, UnchangedTypes
    <2>4. DestroyVpn(e) \/ UNCHANGED <<act, conn, cleaning>>
      BY <1>19 DEF ChainFails
    <2>5. AbilityType'
      BY <1>19, <2>4, DestroyVpnType
         DEF ChainFails, AbilityType, EndRequest, Moves, ExtPcs
    <2> QED
      BY <1>19, <2>3, <2>5, ExtStepType DEF ChainFails
  <1>20. CASE Heartbeat(e)
    <2>1. SharedType' /\ LanesType'
      BY <1>20, TickType DEF Heartbeat
    <2>2. AbilityType'
      <3>1. CASE DestroyVpn(e) /\ EndRequest(e)
        BY <1>20, <3>1, DestroyVpnType
           DEF Heartbeat, AbilityType, EndRequest, Moves, ExtPcs
      <3>2. CASE UNCHANGED <<pc, req, act, conn, cleaning>>
        BY <1>20, <3>2 DEF Heartbeat, AbilityType
      <3> QED
        BY <1>20, <3>1, <3>2 DEF Heartbeat
    <2> QED
      BY <1>20, <2>1, <2>2, ExtStepType DEF Heartbeat
  <1>21. CASE NativeExit(e)
    <2>1. FailedFrame(Mine(e)) \in Frames
      BY <1>f, FrameOpsType
    <2>2. LanesType'
      BY <1>0, <1>21, <2>1, StoreType, UnchangedTypes DEF NativeExit
    <2>3. SharedType'
      BY <1>21, UnchangedTypes DEF NativeExit
    <2>4. AbilityType'
      BY <1>21 DEF NativeExit, AbilityType
    <2> QED
      BY <1>21, <2>2, <2>3, <2>4, ExtStepType DEF NativeExit
  <1>22. CASE OnDestroy(e)
    <2>1. SharedType' /\ LanesType'
      BY <1>22, UnchangedTypes DEF OnDestroy
    <2>2. AbilityType'
      BY <1>22, DestroyVpnType
         DEF OnDestroy, AbilityType, EndRequest, Moves, ExtPcs
    <2> QED
      BY <1>22, <2>1, <2>2, ExtStepType DEF OnDestroy
  <1>23. CASE StopNative(e)
    <2> DEFINE f == Synced(e)
               ours == f.attempt = cleaning[e].attempt
    <2>1. (IF ours THEN StoppedFrame(f) ELSE f) \in Frames /\ ours \in BOOLEAN
      BY <1>f, FrameOpsType
    <2>2. SharedType' /\ LanesType'
      BY <1>0, <1>23, <2>1, LocalOpType DEF StopNative
    <2>3. AbilityType'
      BY <1>23 DEF StopNative, AbilityType, Cleans, Cleanups
    <2> QED
      BY <1>23, <2>2, <2>3, ExtStepType DEF StopNative
  <1>24. CASE Destroy(e)
    <2>1. SharedType' /\ LanesType'
      BY <1>24, UnchangedTypes DEF Destroy
    <2>2. AbilityType'
      <3>1. cleaning' \in [Exts -> Cleanups]
        BY <1>24, CleansType DEF Destroy
      <3> QED
        BY <1>24, <3>1 DEF Destroy, AbilityType
    <2> QED
      BY <1>24, <2>1, <2>2, ExtStepType DEF Destroy
  <1>25. CASE CleanupError(e)
    <2>1. SharedType' /\ LanesType'
      BY <1>25, UnchangedTypes DEF CleanupError
    <2>2. AbilityType'
      BY <1>25 DEF CleanupError, AbilityType, Cleans, Cleanups
    <2> QED
      BY <1>25, <2>1, <2>2, ExtStepType DEF CleanupError
  <1>26. CASE Ack(e)
    <2>1. CleanedFrame(Synced(e)) \in Frames
      BY <1>f, FrameOpsType
    <2>2. SharedType' /\ LanesType'
      <3>1. CASE LocalOp(e, Synced(e), FALSE)
        BY <1>0, <1>f, <3>1, LocalOpType
      <3>2. CASE /\ journal' = NoJournal
                 /\ Store(e, CleanedFrame(Synced(e)), TRUE, FALSE)
                 /\ LeasesFollow(e, CleanedFrame(Synced(e)))
        BY <1>0, <2>1, <3>2, StoreType, LeasesFollowType, InitTypes DEF SharedType
      <3> QED
        BY <1>26, <3>1, <3>2 DEF Ack
    <2>3. \/ Cleans(e, "acked") \/ Cleans(e, "failed")
          \/ cleaning' = [cleaning EXCEPT ![e] = NoCleanup]
      BY <1>26 DEF Ack
    <2>4. cleaning' \in [Exts -> Cleanups]
      BY <2>3, CleansType
    <2>5. AbilityType'
      BY <1>26, <2>4 DEF Ack, AbilityType
    <2> QED
      BY <1>26, <2>2, <2>5, ExtStepType DEF Ack
  <1>27. CASE AckPublish(e)
    <2>1. LanesType'
      BY <1>0, <1>f, <1>27, StoreType DEF AckPublish
    <2>2. SharedType'
      BY <1>27, UnchangedTypes DEF AckPublish
    <2>3. AbilityType'
      BY <1>27, InitTypes DEF AckPublish, AbilityType
    <2> QED
      BY <1>27, <2>1, <2>2, <2>3, ExtStepType DEF AckPublish
  <1>28. ASSUME NEW w \in wants, Deliver(e, w)
         PROVE  TypeInv'
    <2>1. w.attempt \in Attempts /\ w.ui \in Uis
      BY DEF PluginType
    <2>2. SharedType'
      BY <1>28, UnchangedTypes DEF Deliver
    <2>3. LanesType'
      BY <1>28 DEF Deliver, LanesType
    <2>4. AbilityType'
      BY <1>28, <2>1 DEF Deliver, AbilityType, Moves, ExtPcs
    <2>5. PluginType' /\ ClaimAtHead'
      BY <1>28 DEF Deliver, PluginType, ClaimAtHead, Op
    <2>6. status' \in [Procs -> {"unborn", "alive", "dead"}]
      BY <1>28 DEF Deliver
    <2> QED
      BY <1>28, <2>2, <2>3, <2>4, <2>5, <2>6 DEF Deliver
  <1>29. CASE ExtCrash(e)
    <2>1. SharedType'
      BY <1>29, ReleasedType DEF ExtCrash, SharedType
    <2>2. LanesType'
      BY <1>29, InitTypes DEF ExtCrash, LanesType
    <2>3. AbilityType'
      BY <1>29, InitTypes DEF ExtCrash, AbilityType, ExtPcs
    <2>4. PluginType' /\ ClaimAtHead'
      BY <1>29, UnchangedTypes DEF ExtCrash, plugin, ClaimAtHead, Op
    <2>5. status' \in [Procs -> {"unborn", "alive", "dead"}]
      BY <1>29 DEF ExtCrash
    <2>6. destroying' \subseteq Exts
      BY <1>29 DEF ExtCrash
    <2> QED
      BY <2>1, <2>2, <2>3, <2>4, <2>5, <2>6
  <1> QED
    BY <1>1, <1>2, <1>3, <1>4, <1>5, <1>6, <1>7, <1>8, <1>9, <1>10, <1>11,
       <1>12, <1>13, <1>14, <1>15, <1>16, <1>17, <1>18, <1>19, <1>20, <1>21,
       <1>22, <1>23, <1>24, <1>25, <1>26, <1>27, <1>28, <1>29
       DEF ExtNext, ExtRuns, ExtCleans

(* The invariant behind type correctness holds in every reachable state.   *)
THEOREM TypeInvariant == Spec => []TypeInv
  <1>1. Init => TypeInv
    BY InitTypes, BoundsAssumption, MaxAttemptsAssumption
       DEF Init, TypeInv, TypeOK, SharedType, LanesType, PluginType, AbilityType,
           ClaimAtHead, NoClaim, ExtPcs
  <1>2. TypeInv /\ [Next]_vars => TypeInv'
    <2>1. ASSUME TypeInv, Next PROVE TypeInv'
      BY <2>1, UiNextType, ExtNextType DEF Next
    <2>2. ASSUME TypeInv, UNCHANGED vars PROVE TypeInv'
      BY <2>2, UnchangedTypes
         DEF TypeInv, TypeOK, vars, plugin, ClaimAtHead, Op
    <2> QED
      BY <2>1, <2>2
  <1> QED
    BY <1>1, <1>2, PTL DEF Spec

(* The state is always well typed and the journal always a record that     *)
(* validate_record accepts: no race of begin, claim, bind, acknowledgement *)
(* and recovery for it leaves a malformed record.                          *)
THEOREM TypeCorrect == Spec => []TypeOK
  <1>1. TypeInv => TypeOK
    BY DEF TypeInv
  <1> QED
    BY <1>1, TypeInvariant, PTL

-----------------------------------------------------------------------------
(* Frames *)

(* Frames of an attempt that is issued and not wrongly declared clean.     *)
Sound(f) ==
    /\ f.attempt < nextAttempt
    /\ f.cleanup /\ f.attempt # NoAttempt => f.attempt # journal.attempt

FramesInv == \A f \in AllFrames : Sound(f)

(* The two invariants of the frames, said of one frame at a time.          *)
LEMMA FramesInvEquiv == FramesInv <=> FramesIssued /\ CleanupMeansDeleted
  BY DEF FramesInv, Sound, FramesIssued, CleanupMeansDeleted, CleanedAttempts

(* A step that stores one frame adds at most that frame.                   *)
LEMMA StoreFrames ==
    ASSUME LanesType, AbilityType, NEW p \in Procs, NEW f, NEW s, NEW b,
           Store(p, f, s, b)
    PROVE  \A g \in AllFrames' : g \in AllFrames \/ g = f
  <1>1. ASSUME NEW q \in Procs PROVE Mine(q)' \in AllFrames \cup {f}
    BY DEF Store, LanesType, Cores, Mine, AllFrames
  <1>2. ASSUME NEW u \in Uis PROVE uiLane'[u] \in AllFrames \cup {f}
    BY DEF Store, LanesType, AllFrames
  <1>3. ASSUME NEW u \in Uis PROVE vpnLane'[u] \in AllFrames \cup {f}
    BY DEF Store, LanesType, AllFrames
  <1> QED
    BY <1>1, <1>2, <1>3 DEF AllFrames

(* A step that leaves the lanes alone leaves the frames alone.             *)
LEMMA SameFrames ==
    ASSUME UNCHANGED <<core, uiLane, vpnLane>>
    PROVE  AllFrames' = AllFrames
  BY DEF AllFrames, Mine

(* The frame that a process reads is a frame, or that of an empty lane.    *)
LEMMA RemoteSound ==
    ASSUME LanesType, AbilityType, FramesInv, nextAttempt \in Nat \ {0},
           NEW p \in Procs
    PROVE  Sound(Mine(p)) /\ Sound(Remote(p))
  <1>1. Mine(p) \in AllFrames
    BY DEF AllFrames
  <1>2. Sound(InitFrame)
    BY DEF Sound, InitFrame, NoAttempt
  <1>3. CASE p \in Uis
    <2>1. Remote(p) \in AllFrames
      BY <1>3 DEF AllFrames, Remote
    <2> QED
      BY <1>1, <2>1 DEF FramesInv
  <1>4. CASE p \notin Uis
    <2>1. p \in Exts
      BY <1>4 DEF Procs
    <2>2. ipc[p] = None \/ ipc[p] \in Uis
      BY <2>1 DEF AbilityType
    <2>3. Remote(p) = InitFrame \/ Remote(p) \in AllFrames
      BY <1>4, <2>2 DEF AllFrames, Remote
    <2> QED
      BY <1>1, <1>2, <2>3 DEF FramesInv
  <1> QED
    BY <1>3, <1>4

(* Synchronising keeps the attempt, and a cleanup it makes known was       *)
(* declared by someone for the same attempt.                               *)
LEMMA SyncedSound ==
    ASSUME LanesType, AbilityType, FramesInv, nextAttempt \in Nat \ {0},
           NEW p \in Procs
    PROVE  Synced(p).attempt = Mine(p).attempt /\ Sound(Synced(p))
  <1>1. Sound(Mine(p)) /\ Sound(Remote(p))
    BY RemoteSound
  <1>2. CASE Matches(Mine(p), Remote(p)) /\ ~seen[p]
    <2>1. Synced(p) = Merge(Mine(p), Remote(p), p \in Uis)
      BY <1>2 DEF Synced
    <2>2. Remote(p).attempt = Mine(p).attempt
      BY <1>2 DEF Matches
    <2>3. Synced(p).attempt = Mine(p).attempt
      BY <2>1 DEF Merge
    <2>4. Synced(p).cleanup => Mine(p).cleanup \/ Remote(p).cleanup
      BY <2>1 DEF Merge
    <2> QED
      BY <1>1, <2>2, <2>3, <2>4 DEF Sound
  <1>3. CASE ~(Matches(Mine(p), Remote(p)) /\ ~seen[p])
    BY <1>1, <1>3 DEF Synced
  <1> QED
    BY <1>2, <1>3

(* Storing a frame that is sound afterwards keeps the frames sound, if the *)
(* step leaves the record alone or deletes it.                             *)
LEMMA StoreSound ==
    ASSUME LanesType, AbilityType, PluginType, FramesInv, NEW p \in Procs,
           NEW f, NEW s, NEW b, Store(p, f, s, b),
           nextAttempt' = nextAttempt, journal' \in {journal, NoJournal},
           f.attempt < nextAttempt,
           f.cleanup /\ f.attempt # NoAttempt => f.attempt # journal'.attempt
    PROVE  FramesInv'
  <1>1. ASSUME NEW g, Sound(g) PROVE Sound(g)'
    BY <1>1 DEF Sound, NoJournal
  <1>2. Sound(f)'
    BY DEF Sound
  <1> QED
    BY <1>1, <1>2, StoreFrames DEF FramesInv

(* A local operation that declares no cleanup keeps the frames sound.      *)
LEMMA LocalSound ==
    ASSUME LanesType, AbilityType, PluginType, FramesInv, NEW p \in Procs,
           NEW f, NEW b, LocalOp(p, f, b), nextAttempt' = nextAttempt,
           f.attempt = Mine(p).attempt, f.cleanup => Synced(p).cleanup
    PROVE  FramesInv'
  <1>1. nextAttempt \in Nat \ {0}
    BY MaxAttemptsAssumption DEF PluginType
  <1>2. Synced(p).attempt = Mine(p).attempt /\ Sound(Synced(p))
    BY <1>1, SyncedSound
  <1>3. journal' = journal /\ Store(p, f, TRUE, b)
    BY DEF LocalOp
  <1> QED
    BY <1>2, <1>3, StoreSound DEF Sound

(* A step that touches neither the lanes nor the record.                   *)
LEMMA QuietSound ==
    ASSUME FramesInv, UNCHANGED <<core, uiLane, vpnLane, nextAttempt>>,
           journal' \in {journal, NoJournal} \/ journal'.attempt = journal.attempt
    PROVE  FramesInv'
  <1>1. AllFrames' = AllFrames
    BY SameFrames
  <1> QED
    BY <1>1 DEF FramesInv, Sound, NoJournal

-----------------------------------------------------------------------------
(* The Plugin's queue *)

QueueInv == QueueWaits /\ FinishDeleted

(* The queue after a step that leaves no operation about to finish a       *)
(* recovery at its head.                                                   *)
LEMMA QueueMoves ==
    ASSUME ops \in Seq(Ops), Len(ops) > 0, QueueWaits
    PROVE  /\ EndOp => QueueInv'
           /\ \A op \in Ops : Step(op) => QueueWaits' /\ Len(ops') > 0 /\ Op' = op
           /\ \A where \in OpPcs :
                 Goto(where) => QueueWaits' /\ Len(ops') > 0 /\ Op'.pc = where
           /\ AfterStop => QueueInv'
  <1>1. EndOp => QueueInv'
    <2> HAVE EndOp
    <2>1. ops' = Tail(ops) /\ Len(ops') = Len(ops) - 1
      BY DEF EndOp
    <2>2. \A i \in 1 .. Len(ops') : ops'[i] = ops[i + 1]
      BY <2>1
    <2>3. \A i \in 1 .. Len(ops') : ops'[i].pc \in {"head", "authorize"}
      BY <2>1, <2>2 DEF QueueWaits
    <2>4. Len(ops') > 0 => Op'.pc \in {"head", "authorize"}
      BY <2>1, <2>3 DEF Op
    <2> QED
      BY <2>1, <2>3, <2>4 DEF QueueInv, QueueWaits, FinishDeleted
  <1>2. ASSUME NEW op \in Ops, Step(op)
        PROVE  QueueWaits' /\ Len(ops') > 0 /\ Op' = op
    <2>1. ops' = <<op>> \o Tail(ops)
      BY <1>2 DEF Step
    <2>2. Len(ops') = Len(ops) /\ Head(ops') = op
      BY <2>1
    <2>3. \A i \in 2 .. Len(ops') : ops'[i] = ops[i]
      BY <2>1
    <2> QED
      BY <2>2, <2>3 DEF QueueWaits, Op
  <1>3. ASSUME NEW where \in OpPcs, Goto(where)
        PROVE  QueueWaits' /\ Len(ops') > 0 /\ Op'.pc = where
    <2>1. [Op EXCEPT !.pc = where] \in Ops
      BY HeadMoves DEF Ops
    <2>2. Op' = [Op EXCEPT !.pc = where]
      BY <1>2, <1>3, <2>1 DEF Goto
    <2> QED
      BY <1>2, <1>3, <2>1, <2>2, HeadMoves DEF Goto, Ops
  <1>4. AfterStop => QueueInv'
    BY <1>1, <1>3 DEF AfterStop, QueueInv, FinishDeleted, OpPcs
  <1> QED
    BY <1>1, <1>2, <1>3, <1>4

(* A new operation at the tail of the queue has not begun.                 *)
LEMMA QueueGrows ==
    ASSUME ops \in Seq(Ops), QueueInv, NEW op \in Ops,
           op.pc \in {"head", "authorize"}, ops' = Append(ops, op),
           journal = NoJournal => journal' = NoJournal
    PROVE  QueueInv'
  <1>1. Len(ops') = Len(ops) + 1
    OBVIOUS
  <1>2. \A i \in 1 .. Len(ops) : ops'[i] = ops[i]
    OBVIOUS
  <1>3. ops'[Len(ops')] = op
    BY <1>1
  <1>4. QueueWaits'
    BY <1>1, <1>2, <1>3 DEF QueueInv, QueueWaits
  <1>5. CASE Len(ops) = 0
    <2>1. Op' = op
      BY <1>5 DEF Op
    <2> QED
      BY <1>4, <2>1 DEF QueueInv, FinishDeleted
  <1>6. CASE Len(ops) > 0
    <2>1. Op' = Op
      BY <1>6 DEF Op
    <2> QED
      BY <1>4, <1>6, <2>1 DEF QueueInv, FinishDeleted
  <1>7. Len(ops) \in Nat
    OBVIOUS
  <1> QED
    BY <1>5, <1>6, <1>7

(* A step that leaves the queue alone and creates no record.               *)
LEMMA QueueRests ==
    ASSUME QueueInv, UNCHANGED ops, journal = NoJournal => journal' = NoJournal
    PROVE  QueueInv'
  BY DEF QueueInv, QueueWaits, FinishDeleted, Op

-----------------------------------------------------------------------------
(* The steps of the UI process *)

(* What a claim returns to the queue.                                      *)
LEMMA ClaimReturnsQueue ==
    ASSUME PluginType, QueueInv, NEW kind \in {"start", "stop"}, NEW ep \in Nat,
           NEW a \in Attempts \cup {NoAttempt},
           kind = "start" => Len(ops) > 0 /\ Op.pc = "head",
           ClaimReturns(kind, ep, a), journal = NoJournal => journal' = NoJournal
    PROVE  QueueInv'
  <1>1. CASE kind = "stop"
    <2>1. NewOp("stop", ep, a, "authorize") \in Ops
      BY NewOpType DEF OpPcs
    <2>2. NewOp("stop", ep, a, "authorize").pc = "authorize"
      BY DEF NewOp
    <2> QED
      BY <1>1, <2>1, <2>2, QueueGrows DEF ClaimReturns, PluginType
  <1>2. CASE kind = "start"
    <2>1. PICK where \in {"authorize", "begin"} : Step(NewOp("start", ep, a, where))
      BY <1>2 DEF ClaimReturns
    <2>2. NewOp("start", ep, a, where) \in Ops
      BY NewOpType DEF OpPcs
    <2>3. NewOp("start", ep, a, where).pc = where
      BY DEF NewOp
    <2> QED
      BY <1>2, <2>1, <2>2, <2>3, QueueMoves DEF PluginType, QueueInv, FinishDeleted
  <1> QED
    BY <1>1, <1>2

(* A claim that fails ends the start it was made for.                      *)
LEMMA ClaimFailsQueue ==
    ASSUME PluginType, QueueInv, NEW kind \in {"start", "stop"},
           kind = "start" => Len(ops) > 0 /\ Op.pc = "head",
           ClaimFails(kind), journal' = journal
    PROVE  QueueInv'
  <1>1. CASE kind = "start"
    BY <1>1, QueueMoves DEF ClaimFails, EndOp, PluginType, QueueInv
  <1>2. CASE kind = "stop"
    BY <1>2, QueueRests DEF ClaimFails
  <1> QED
    BY <1>1, <1>2

(* The first part of a claim declares nothing and starts no operation.     *)
LEMMA ClaimReadClean ==
    ASSUME TypeInv, FramesInv, QueueInv, NEW u \in Uis,
           NEW kind \in {"start", "stop"}, NEW ep \in Nat,
           kind = "start" => Len(ops) > 0 /\ Op.pc = "head",
           ClaimRead(u, kind, ep), nextAttempt' = nextAttempt
    PROVE  FramesInv' /\ QueueInv'
  <1> USE DEF TypeInv, TypeOK
  <1>0. u \in Procs
    BY DEF Procs
  <1>1. nextAttempt \in Nat \ {0}
    BY MaxAttemptsAssumption DEF PluginType
  <1>2. FramesInv' /\ journal' = journal
    <2>1. CASE fence.inFlight
      BY <2>1, QuietSound DEF ClaimRead
    <2>2. CASE ~fence.inFlight
      <3>1. LocalOp(u, Synced(u), FALSE)
        BY <2>2 DEF ClaimRead
      <3>2. Synced(u).attempt = Mine(u).attempt
        BY <1>0, <1>1, SyncedSound
      <3> QED
        BY <1>0, <3>1, <3>2, LocalSound DEF LocalOp
    <2> QED
      BY <2>1, <2>2
  <1>3. fence.attempt \in Attempts \cup {NoAttempt}
    BY DEF PluginType, Fences
  <1>4. \/ ClaimFails(kind)
        \/ ClaimReturns(kind, ep, fence.attempt)
        \/ UNCHANGED ops
    BY DEF ClaimRead
  <1> QED
    BY <1>2, <1>3, <1>4, ClaimFailsQueue, ClaimReturnsQueue, QueueRests

(* A claim that found an owner starts no recovery.                         *)
LEMMA FenceClaimedQueue ==
    ASSUME TypeInv, QueueInv, claim.pc # "none", FenceClaimed,
           journal = NoJournal => journal' = NoJournal
    PROVE  QueueInv'
  <1> USE DEF TypeInv, TypeOK
  <1>1. /\ claim.kind \in {"start", "stop"}
        /\ claim.epoch \in Nat
        /\ claim.seen.attempt \in Attempts \cup {NoAttempt}
    BY DEF PluginType, Claims, Journals
  <1>2. ClaimReturns(claim.kind, claim.epoch, claim.seen.attempt)
    BY DEF FenceClaimed
  <1> QED
    BY <1>1, <1>2, ClaimReturnsQueue DEF ClaimAtHead

(* Every step of a UI process keeps the frames sound and the queue in      *)
(* order.  New acknowledgements appear only where the record has been      *)
(* deleted: DispatchRejected and RecoverFinish.                            *)
LEMMA UiNextClean ==
    ASSUME TypeInv, FramesInv, QueueInv, NEW u \in Uis, UiNext(u)
    PROVE  FramesInv' /\ QueueInv'
  <1> USE DEF TypeInv, TypeOK
  <1> DEFINE f == Synced(u)
  <1>0. u \in Procs
    BY DEF Procs
  <1>1. nextAttempt \in Nat \ {0}
    BY MaxAttemptsAssumption DEF PluginType
  <1>2. f \in Frames /\ Mine(u) \in Frames
    BY <1>0, SyncedType
  <1>3. f.attempt = Mine(u).attempt /\ Sound(f) /\ Sound(Mine(u))
    BY <1>0, <1>1, SyncedSound, RemoteSound
  <1>l. ASSUME NEW b, LocalOp(u, f, b), nextAttempt' = nextAttempt
        PROVE  FramesInv' /\ journal' = journal
    BY <1>0, <1>3, <1>l, LocalSound DEF LocalOp
  <1>q. ops \in Seq(Ops)
    BY DEF PluginType
  <1>h. ASSUME Len(ops) > 0
        PROVE  /\ EndOp => QueueInv'
               /\ AfterStop => QueueInv'
               /\ \A where \in OpPcs \ {"recoverFinish"} : Goto(where) => QueueInv'
               /\ \A op \in Ops : Step(op) /\ op.pc # "recoverFinish" => QueueInv'
    BY <1>q, <1>h, QueueMoves DEF QueueInv, FinishDeleted
  <1>4. CASE ClaimPublish(u)
    <2>1. UNCHANGED journal /\ nextAttempt' = nextAttempt
      BY <1>4 DEF ClaimPublish, shared
    <2>2. FramesInv'
      <3>1. CASE UNCHANGED lanes
        BY <2>1, <3>1, QuietSound DEF lanes
      <3>2. CASE ~UNCHANGED lanes
        <4> DEFINE g == IF Mine(u).outcome = "Pending"
                        THEN [Mine(u) EXCEPT !.outcome = "Cancelled",
                                             !.starting = FALSE, !.running = FALSE,
                                             !.stopReq = TRUE]
                        ELSE [Mine(u) EXCEPT !.stopReq = TRUE]
        <4>1. Store(u, g, FALSE, TRUE)
          BY <1>4, <3>2 DEF ClaimPublish
        <4>2. g.attempt = Mine(u).attempt /\ g.cleanup = Mine(u).cleanup
          BY <1>2 DEF Frames
        <4> HIDE DEF g
        <4> QED
          BY <1>0, <1>3, <2>1, <4>1, <4>2, StoreSound DEF Sound
      <3> QED
        BY <3>1, <3>2
    <2>3. QueueInv'
      BY <1>4, <2>1, FenceClaimedQueue, QueueRests DEF ClaimPublish
    <2> QED
      BY <2>2, <2>3
  <1>5. CASE ClaimFence(u)
    <2>1. journal'.attempt = journal.attempt
      BY <1>5 DEF ClaimFence, Fenced, SharedType, Journals
    <2>2. journal = NoJournal => journal' = NoJournal
      BY <1>5 DEF ClaimFence, CanFencePendingStop, NoJournal
    <2>3. FramesInv'
      BY <1>5, <2>1, QuietSound DEF ClaimFence, lanes
    <2>4. QueueInv'
      BY <1>5, <2>2, FenceClaimedQueue, QueueRests DEF ClaimFence
    <2> QED
      BY <2>3, <2>4
  <1>6. CASE ClaimReread(u)
    <2>1. FramesInv' /\ journal' = journal
      BY <1>6, QuietSound DEF ClaimReread, shared, lanes
    <2>2. claim.kind \in {"start", "stop"}
      BY DEF PluginType, Claims
    <2>3. QueueInv'
      BY <1>6, <2>1, <2>2, FenceClaimedQueue, ClaimFailsQueue
         DEF ClaimReread, ClaimAtHead
    <2> QED
      BY <2>1, <2>3
  <1>7. CASE StartHead(u)
    <2>1. Len(ops) > 0 /\ Op.pc = "head" /\ Op.epoch \in Nat
      BY <1>7, <1>q, HeadMoves DEF StartHead, AtHead, Op, Ops
    <2>2. CASE Op.epoch # epoch
      BY <1>7, <1>h, <2>1, <2>2, QuietSound DEF StartHead, shared, lanes
    <2>3. CASE Op.epoch = epoch
      <3>1. ClaimRead(u, "start", Op.epoch) /\ nextAttempt' = nextAttempt
        BY <1>7, <2>3 DEF StartHead
      <3> QED
        BY <2>1, <3>1, ClaimReadClean
    <2> QED
      BY <2>2, <2>3
  <1>8. CASE RequestStop(u)
    <2>1. epoch + 1 \in Nat
      BY BoundsAssumption DEF PluginType
    <2>2. ClaimRead(u, "stop", epoch + 1) /\ nextAttempt' = nextAttempt
      BY <1>8 DEF RequestStop
    <2> QED
      BY <2>1, <2>2, ClaimReadClean
  <1>9. CASE RequestStart(u)
    <2>1. FramesInv' /\ journal' = journal
      BY <1>9, QuietSound DEF RequestStart, shared, lanes
    <2>2. NewOp("start", epoch + 1, NoAttempt, "head") \in Ops
      BY NewOpType, BoundsAssumption DEF PluginType, OpPcs
    <2>3. NewOp("start", epoch + 1, NoAttempt, "head").pc = "head"
      BY DEF NewOp
    <2>4. QueueInv'
      BY <1>9, <1>q, <2>1, <2>2, <2>3, QueueGrows DEF RequestStart
    <2> QED
      BY <2>1, <2>4
  <1>10. CASE Authorize(u)
    <2>1. Len(ops) > 0 /\ nextAttempt' = nextAttempt
      BY <1>10 DEF Authorize, AtHead
    <2>2. QueueInv'
      BY <1>10, <1>h, <2>1 DEF Authorize, OpPcs
    <2>3. FramesInv'
      <3>1. CASE UNCHANGED <<shared, lanes>>
        BY <2>1, <3>1, QuietSound DEF shared, lanes
      <3>2. CASE LocalOp(u, [f EXCEPT !.stopReq = TRUE], TRUE)
        <4>1. /\ [f EXCEPT !.stopReq = TRUE].attempt = f.attempt
              /\ [f EXCEPT !.stopReq = TRUE].cleanup = f.cleanup
          BY <1>2 DEF Frames
        <4> QED
          BY <1>0, <1>3, <2>1, <3>2, <4>1, LocalSound
      <3>3. CASE LocalOp(u, f, FALSE)
        BY <1>l, <2>1, <3>3
      <3> QED
        BY <1>10, <3>1, <3>2, <3>3 DEF Authorize
    <2> QED
      BY <2>2, <2>3
  <1>11. CASE Cooperative(u)
    <2>1. Len(ops) > 0 /\ nextAttempt' = nextAttempt /\ LocalOp(u, f, FALSE)
      BY <1>11 DEF Cooperative, AtHead
    <2>2. CASE AfterStop
      BY <1>h, <1>l, <2>1, <2>2
    <2>3. CASE \E c \in BOOLEAN : Step([Op EXCEPT !.pc = "osBegin", !.cleaned = c])
      <3>1. PICK c \in BOOLEAN : Step([Op EXCEPT !.pc = "osBegin", !.cleaned = c])
        BY <2>3
      <3>2. /\ [Op EXCEPT !.pc = "osBegin", !.cleaned = c] \in Ops
            /\ [Op EXCEPT !.pc = "osBegin", !.cleaned = c].pc = "osBegin"
        BY <1>q, <2>1, HeadMoves DEF Ops, OpPcs
      <3> QED
        BY <1>h, <1>l, <2>1, <3>1, <3>2
    <2>4. (/\ ~f.running /\ ~f.starting /\ f.cleanup /\ f.outcome \in Terminal) \in BOOLEAN
      OBVIOUS
    <2> QED
      BY <1>11, <2>2, <2>3, <2>4 DEF Cooperative
  <1>12. CASE \/ OsStopBegin(u) \/ OsStopConfirmed(u) \/ OsStopRejected(u)
              \/ RecoverProve(u) \/ RecoverDeadline(u) \/ AwaitDone(u)
    <2>1. /\ Len(ops) > 0
          /\ UNCHANGED <<core, uiLane, vpnLane, nextAttempt, journal>>
      BY <1>12 DEF OsStopBegin, OsStopConfirmed, OsStopRejected, RecoverProve,
                   RecoverDeadline, AwaitDone, AtHead, shared, lanes
    <2>2. FramesInv'
      BY <2>1, QuietSound
    <2>3. \/ EndOp \/ AfterStop
          \/ Goto("osStop") \/ Goto("recover") \/ Goto("recoverDelete")
      BY <1>12 DEF OsStopBegin, OsStopConfirmed, OsStopRejected, RecoverProve,
                   RecoverDeadline, AwaitDone
    <2> QED
      BY <1>h, <2>1, <2>2, <2>3 DEF OpPcs
  <1>13. CASE RecoverSync(u)
    <2>1. Len(ops) > 0 /\ nextAttempt' = nextAttempt /\ LocalOp(u, f, FALSE)
      BY <1>13 DEF RecoverSync, AtHead
    <2>2. CASE AfterStop
      BY <1>h, <1>l, <2>1, <2>2
    <2>3. ASSUME NEW c \in BOOLEAN,
                 Step([Op EXCEPT !.pc = "recoverRead", !.unattached = c])
          PROVE  FramesInv' /\ QueueInv'
      <3>1. /\ [Op EXCEPT !.pc = "recoverRead", !.unattached = c] \in Ops
            /\ [Op EXCEPT !.pc = "recoverRead", !.unattached = c].pc = "recoverRead"
        BY <1>q, <2>1, HeadMoves DEF Ops, OpPcs
      <3> QED
        BY <1>h, <1>l, <2>1, <2>3, <3>1
    <2> DEFINE c == f.attempt = Op.session /\ ~f.attached /\ f.stopReq
                    /\ f.outcome \in Terminal
    <2>4. AfterStop \/ Step([Op EXCEPT !.pc = "recoverRead", !.unattached = c])
      BY <1>13 DEF RecoverSync
    <2>5. c \in BOOLEAN
      OBVIOUS
    <2> QED
      BY <2>2, <2>3, <2>4, <2>5
  <1>14. CASE RecoverRead(u)
    <2>1. /\ Len(ops) > 0
          /\ UNCHANGED <<core, uiLane, vpnLane, nextAttempt, journal>>
      BY <1>14 DEF RecoverRead, AtHead, shared, lanes
    <2>2. FramesInv'
      BY <2>1, QuietSound
    <2>3. /\ [Op EXCEPT !.pc = "recoverProve", !.seen = journal] \in Ops
          /\ [Op EXCEPT !.pc = "recoverProve", !.seen = journal].pc = "recoverProve"
      BY <1>q, <2>1, HeadMoves DEF Ops, OpPcs, SharedType
    <2>4. \/ EndOp \/ Goto("recoverMissing")
          \/ Step([Op EXCEPT !.pc = "recoverProve", !.seen = journal])
      BY <1>14 DEF RecoverRead
    <2> QED
      BY <1>h, <2>1, <2>2, <2>3, <2>4 DEF OpPcs
  <1>15. CASE RecoverMissing(u)
    BY <1>15, <1>h, <1>l DEF RecoverMissing, AtHead
  <1>16. CASE RecoverDelete(u)
    <2>1. Len(ops) > 0
      BY <1>16 DEF RecoverDelete, AtHead
    <2>2. FramesInv'
      BY <1>16, QuietSound DEF RecoverDelete, lanes
    <2>3. CASE Goto("recover")
      BY <1>h, <2>1, <2>2, <2>3 DEF OpPcs
    <2>4. CASE journal' = NoJournal /\ Goto("recoverFinish")
      BY <1>q, <2>1, <2>2, <2>4, QueueMoves DEF OpPcs, QueueInv, FinishDeleted
    <2> QED
      BY <1>16, <2>3, <2>4 DEF RecoverDelete
  <1>17. CASE RecoverFinish(u)
    <2>1. Len(ops) > 0 /\ AfterStop /\ nextAttempt' = nextAttempt /\ Op.pc = "recoverFinish"
      BY <1>17 DEF RecoverFinish, AtHead, Op
    <2>2. journal = NoJournal
      BY <2>1 DEF QueueInv, FinishDeleted
    <2>3. FramesInv'
      <3>1. CASE LocalOp(u, f, FALSE)
        BY <1>l, <2>1, <3>1
      <3>2. CASE ~LocalOp(u, f, FALSE)
        <4> DEFINE g == CleanedFrame(
                [f EXCEPT !.starting = FALSE, !.running = FALSE,
                          !.outcome = IF f.outcome = "Failed" THEN "Failed"
                                      ELSE "Cancelled"])
        <4>1. LocalOp(u, g, TRUE)
          BY <1>17, <3>2 DEF RecoverFinish
        <4>2. g.attempt = f.attempt
          BY <1>2 DEF CleanedFrame, Frames
        <4> HIDE DEF g
        <4>3. Store(u, g, TRUE, TRUE) /\ journal' = journal
          BY <4>1 DEF LocalOp
        <4> QED
          BY <1>0, <1>3, <2>1, <2>2, <4>2, <4>3, StoreSound DEF Sound, NoJournal
      <3> QED
        BY <3>1, <3>2
    <2> QED
      BY <1>h, <2>1, <2>3
  <1>18. CASE Begin(u)
    <2>1. Len(ops) > 0
      BY <1>18 DEF Begin, AtHead
    <2>2. CASE LocalOp(u, f, FALSE) /\ EndOp /\ nextAttempt' = nextAttempt
      BY <1>h, <1>l, <2>1, <2>2
    <2> DEFINE pending == [InitFrame EXCEPT !.attempt = nextAttempt,
                               !.outcome = "Pending", !.starting = TRUE]
               op == [Op EXCEPT !.pc = "await", !.session = nextAttempt]
    <2>3. CASE /\ journal' = PendingJournal(nextAttempt, u)
               /\ core' = [core EXCEPT ![u] = [frame |-> pending, stale |-> FALSE]]
               /\ uiLane' = [uiLane EXCEPT ![u] = pending]
               /\ vpnLane' = vpnLane
               /\ nextAttempt' = nextAttempt + 1
               /\ ~(nextAttempt > MaxAttempts)
               /\ Step(op)
      <3>1. PICK g : g = pending
        OBVIOUS
      <3>2. g.attempt = nextAttempt /\ ~g.cleanup
        BY <3>1 DEF InitFrame
      <3>3. \A h \in AllFrames' : h \in AllFrames \/ h = g
        <4>1. ASSUME NEW q \in Procs PROVE Mine(q)' \in AllFrames \cup {g}
          BY <2>3, <3>1 DEF LanesType, Cores, Mine, AllFrames
        <4>2. ASSUME NEW v \in Uis
              PROVE uiLane'[v] \in AllFrames \cup {g} /\ vpnLane'[v] \in AllFrames
          BY <2>3, <3>1 DEF LanesType, AllFrames
        <4> QED
          BY <4>1, <4>2 DEF AllFrames
      <3>4. ASSUME NEW h \in AllFrames PROVE Sound(h)'
        <4>1. h \in Frames
          BY DEF AllFrames, LanesType, Mine, Cores
        <4>2. h.attempt \in Nat /\ h.attempt < nextAttempt
          BY <4>1 DEF Frames, Attempts, NoAttempt, FramesInv, Sound
        <4>3. journal'.attempt = nextAttempt
          BY <2>3 DEF PendingJournal
        <4>4. h.attempt # nextAttempt /\ h.attempt < nextAttempt'
          BY <1>1, <2>3, <4>2
        <4> QED
          BY <4>3, <4>4 DEF Sound
      <3>5. Sound(g)'
        BY <1>1, <2>3, <3>2 DEF Sound
      <3>6. FramesInv'
        BY <3>3, <3>4, <3>5 DEF FramesInv
      <3>7. Op \in Ops /\ nextAttempt \in Attempts
        BY <1>1, <1>q, <2>1, <2>3, MaxAttemptsAssumption, HeadMoves DEF Attempts
      <3>8. op \in Ops /\ op.pc = "await"
        BY <3>7 DEF Ops, OpPcs
      <3> QED
        BY <1>h, <2>1, <2>3, <3>6, <3>8
    <2> QED
      BY <1>18, <2>2, <2>3 DEF Begin
  <1>19. CASE AwaitDeadline(u)
    <2>1. UNCHANGED <<ops, nextAttempt>>
      BY <1>19 DEF AwaitDeadline, plugin
    <2>2. CASE LocalOp(u, f, FALSE)
      BY <1>l, <2>1, <2>2, QueueRests
    <2>3. CASE LocalOp(u, FailedFrame(f), TRUE)
      <3>1. FailedFrame(f).attempt = f.attempt /\ FailedFrame(f).cleanup = f.cleanup
        BY <1>2 DEF FailedFrame, Frames
      <3> QED
        BY <1>0, <1>3, <2>1, <2>3, <3>1, LocalSound, QueueRests DEF LocalOp
    <2> QED
      BY <1>19, <2>2, <2>3 DEF AwaitDeadline
  <1>20. ASSUME NEW a \in dispatch, DispatchRejected(u, a)
         PROVE  FramesInv' /\ QueueInv'
    <2>1. UNCHANGED <<ops, nextAttempt>>
      BY <1>20 DEF DispatchRejected
    <2>2. CASE LocalOp(u, f, FALSE)
      BY <1>l, <2>1, <2>2, QueueRests
    <2>3. CASE /\ journal' = NoJournal
               /\ Store(u, FailedUnattached(f), TRUE, TRUE)
      <3>1. FailedUnattached(f).attempt = f.attempt
        BY <1>2 DEF FailedUnattached, FailedFrame, Frames
      <3> QED
        BY <1>0, <1>3, <2>1, <2>3, <3>1, StoreSound, QueueRests DEF Sound, NoJournal
    <2> QED
      BY <1>20, <2>2, <2>3 DEF DispatchRejected
  <1>21. CASE UiSync(u)
    BY <1>l, <1>21, QueueRests DEF UiSync, plugin
  <1>22. CASE UiWatchdog(u)
    <2>1. UNCHANGED <<ops, nextAttempt>>
      BY <1>22 DEF UiWatchdog, plugin
    <2>2. CASE LocalOp(u, FailedFrame(Mine(u)), TRUE)
      <3>1. /\ FailedFrame(Mine(u)).attempt = Mine(u).attempt
            /\ FailedFrame(Mine(u)).cleanup = Mine(u).cleanup
        BY <1>2 DEF FailedFrame, Frames
      <3>2. Store(u, FailedFrame(Mine(u)), TRUE, TRUE) /\ journal' = journal
        BY <2>2 DEF LocalOp
      <3> QED
        BY <1>0, <1>3, <2>1, <3>1, <3>2, StoreSound, QueueRests DEF Sound
    <2>3. CASE /\ core' = [core EXCEPT ![u].stale = TRUE]
               /\ UNCHANGED <<shared, uiLane, vpnLane, seen>>
      <3>1. \A p \in Procs : Mine(p)' = Mine(p)
        BY <2>3 DEF Mine, LanesType, Cores
      <3>2. AllFrames' = AllFrames
        BY <2>3, <3>1 DEF AllFrames
      <3> QED
        BY <2>1, <2>3, <3>2, QueueRests DEF FramesInv, Sound, shared
    <2> QED
      BY <1>22, <2>2, <2>3 DEF UiWatchdog
  <1>23. CASE UiOwnerReleased(u)
    <2>1. FailedFrame(f).attempt = f.attempt /\ FailedFrame(f).cleanup = f.cleanup
      BY <1>2 DEF FailedFrame, Frames
    <2>2. /\ LocalOp(u, FailedFrame(f), TRUE)
          /\ UNCHANGED <<ops, nextAttempt>>
      BY <1>23 DEF UiOwnerReleased, plugin
    <2> QED
      BY <1>0, <1>3, <2>1, <2>2, LocalSound, QueueRests DEF LocalOp
  <1>24. CASE UiStart(u)
    BY <1>24, QuietSound, QueueRests DEF UiStart, shared, lanes, plugin
  <1>25. CASE UiCrash(u)
    <2>1. \A p \in Procs : Mine(p)' = Mine(p) \/ Mine(p)' = InitFrame
      BY <1>25 DEF UiCrash, Mine, LanesType, InitCore
    <2>2. \A h \in AllFrames' : h \in AllFrames \/ h = InitFrame
      BY <1>25, <2>1 DEF UiCrash, AllFrames
    <2>3. UNCHANGED <<journal, nextAttempt>> /\ ops' = << >>
      BY <1>25 DEF UiCrash
    <2>4. FramesInv'
      BY <1>1, <2>2, <2>3 DEF FramesInv, Sound, InitFrame, NoAttempt
    <2> QED
      BY <2>3, <2>4 DEF QueueInv, QueueWaits, FinishDeleted
  <1> QED
    BY <1>4, <1>5, <1>6, <1>7, <1>8, <1>9, <1>10, <1>11, <1>12, <1>13, <1>14,
       <1>15, <1>16, <1>17, <1>18, <1>19, <1>20, <1>21, <1>22, <1>23, <1>24,
       <1>25 DEF UiNext, UiClaims, UiRuns

-----------------------------------------------------------------------------
(* The steps of an Extension process *)

(* bind adopts the attempt of the UI lane, which is live: it declares no   *)
(* cleanup that was not declared before.                                   *)
LEMMA BindSyncClean ==
    ASSUME TypeInv, FramesInv, NEW e \in Exts, BindSync(e)
    PROVE  FramesInv'
  <1> USE DEF TypeInv, TypeOK
  <1> DEFINE f == Mine(e)
             r == Remote(e)
             a == req[e]
             opened == [f EXCEPT !.attempt = a, !.outcome = r.outcome,
                                 !.attached = r.attached, !.stopReq = r.stopReq,
                                 !.owner = r.owner, !.cleanup = r.cleanup]
             adopted == IF f.attempt = a THEN Synced(e) ELSE Merge(opened, r, FALSE)
             bound == IF adopted.outcome = "Connected" /\ ~native[e]
                      THEN [adopted EXCEPT !.outcome = "Pending", !.starting = TRUE,
                                           !.running = FALSE, !.cleanup = FALSE]
                      ELSE adopted
  <1>0. e \in Procs /\ nextAttempt' = nextAttempt
    BY DEF Procs, BindSync, plugin
  <1>1. nextAttempt \in Nat \ {0}
    BY MaxAttemptsAssumption DEF PluginType
  <1>2. f \in Frames /\ r \in Frames /\ Synced(e) \in Frames
    BY <1>0, SyncedType, RemoteType
  <1>3. Sound(r) /\ Sound(Synced(e)) /\ Synced(e).attempt = f.attempt
    BY <1>0, <1>1, SyncedSound, RemoteSound
  <1>4. CASE ~ActiveFor(r, a)
    BY <1>0, <1>4, QuietSound DEF BindSync, shared, lanes
  <1>5. CASE ActiveFor(r, a)
    <2>1. LocalOp(e, bound, FALSE)
      BY <1>5 DEF BindSync
    <2>2. r.attempt = a /\ r.outcome \notin Terminal
      BY <1>5 DEF ActiveFor, Terminal
    <2>3. adopted \in Frames /\ Sound(adopted)
      <3>1. CASE f.attempt = a
        BY <1>2, <1>3, <3>1
      <3>2. CASE f.attempt # a
        <4>1. adopted = Merge(opened, r, FALSE)
          BY <3>2
        <4>2. /\ opened \in Frames
              /\ opened.attempt = a
              /\ opened.outcome = r.outcome
          BY <1>2, <2>2 DEF Frames
        <4> HIDE DEF opened
        <4>3. Merge(opened, r, FALSE) \in Frames
          BY <1>2, <4>2, MergeType
        <4>4. /\ Merge(opened, r, FALSE).attempt = a
              /\ ~Merge(opened, r, FALSE).cleanup
          BY <2>2, <4>2 DEF Merge
        <4> QED
          BY <1>3, <2>2, <4>1, <4>3, <4>4 DEF Sound
      <3> QED
        BY <3>1, <3>2
    <2> HIDE DEF adopted
    <2>4. bound.attempt = adopted.attempt /\ (bound.cleanup => adopted.cleanup)
      BY <2>3 DEF Frames
    <2>5. Store(e, bound, TRUE, FALSE) /\ journal' = journal
      BY <2>1 DEF LocalOp
    <2> QED
      BY <1>0, <2>3, <2>4, <2>5, StoreSound DEF Sound
  <1> QED
    BY <1>4, <1>5

(* Every step of an Extension keeps the frames sound and creates no        *)
(* record.  New acknowledgements appear only with the deletion of the      *)
(* record: Unbound and Ack.                                                *)
LEMMA ExtNextClean ==
    ASSUME TypeInv, FramesInv, QueueInv, NEW e \in Exts, ExtNext(e)
    PROVE  FramesInv' /\ QueueInv'
  <1> USE DEF TypeInv, TypeOK
  <1> DEFINE f == Synced(e)
  <1>0. e \in Procs
    BY DEF Procs
  <1>1. nextAttempt \in Nat \ {0}
    BY MaxAttemptsAssumption DEF PluginType
  <1>2. f \in Frames /\ Mine(e) \in Frames
    BY <1>0, SyncedType
  <1>3. f.attempt = Mine(e).attempt /\ Sound(f) /\ Sound(Mine(e))
    BY <1>0, <1>1, SyncedSound, RemoteSound
  <1>4. UNCHANGED <<ops, nextAttempt>>
    BY DEF ExtNext, ExtRuns, ExtCleans, RequestRefused, BindSync, BindAcquire,
           BindAttach, BindPublish, Unbound, Settle, BoundTick, SetStarting,
           CreateCall, CreateReturns, Protect, StartEngine, Commit, StartReturns,
           ChainFails, Heartbeat, StopNative, Destroy, Ack, AckPublish, Deliver,
           CreateSettles, BindError, StartFails, NativeExit, OnDestroy,
           CleanupError, ExtCrash, plugin
  <1>l. ASSUME NEW g, NEW b, LocalOp(e, g, b), g.attempt = f.attempt,
               g.cleanup => f.cleanup
        PROVE  FramesInv' /\ QueueInv'
    BY <1>0, <1>3, <1>4, <1>l, LocalSound, QueueRests DEF LocalOp
  <1>s. ASSUME NEW g, NEW s, NEW b, Store(e, g, s, b), UNCHANGED journal,
               g.attempt = Mine(e).attempt, g.cleanup = Mine(e).cleanup
        PROVE  FramesInv' /\ QueueInv'
    BY <1>0, <1>3, <1>4, <1>s, StoreSound, QueueRests DEF Sound
  <1>n. ASSUME UNCHANGED <<journal, core, uiLane, vpnLane>>
        PROVE  FramesInv' /\ QueueInv'
    BY <1>4, <1>n, QuietSound, QueueRests
  <1>t. Tick(e) => FramesInv' /\ QueueInv'
    <2>1. Ticked(e, f).attempt = f.attempt /\ Ticked(e, f).cleanup = f.cleanup
      BY <1>2 DEF Ticked, FailedFrame, Frames
    <2> QED
      BY <1>l, <2>1 DEF Tick
  <1>5. CASE \/ RequestRefused(e) \/ BindAcquire(e) \/ CreateCall(e)
             \/ CreateReturns(e) \/ Destroy(e) \/ CreateSettles(e)
             \/ BindError(e) \/ StartFails(e) \/ OnDestroy(e) \/ CleanupError(e)
             \/ \E w \in wants : Deliver(e, w)
    BY <1>n, <1>5 DEF RequestRefused, BindAcquire, CreateCall, CreateReturns,
       Destroy, CreateSettles, BindError, StartFails, OnDestroy, CleanupError,
       Deliver, shared, lanes
  <1>6. CASE BindSync(e)
    <2>1. journal' = journal
      BY <1>6 DEF BindSync, LocalOp, shared
    <2> QED
      BY <1>4, <1>6, <2>1, BindSyncClean, QueueRests
  <1>7. CASE BindAttach(e)
    <2>1. UNCHANGED <<core, uiLane, vpnLane>>
      BY <1>7 DEF BindAttach, lanes
    <2>2. journal'.attempt = journal.attempt
      BY <1>7 DEF BindAttach, AttachedTo, SharedType, Journals
    <2>3. journal = NoJournal => journal' = NoJournal
      BY <1>7 DEF BindAttach, CanUpgradeAttached, CanRebindAttached, NoJournal
    <2> QED
      BY <1>4, <2>1, <2>2, <2>3, QuietSound, QueueRests
  <1>8. CASE BindPublish(e)
    <2> DEFINE g == [f EXCEPT !.owner = e, !.attached = TRUE,
                              !.cleanup = f.attached /\ f.cleanup]
    <2>1. g.attempt = f.attempt /\ (g.cleanup => f.cleanup)
      BY <1>2 DEF Frames
    <2>2. (\E b : Store(e, g, TRUE, b)) /\ UNCHANGED journal
      BY <1>8 DEF BindPublish
    <2> HIDE DEF g
    <2> QED
      BY <1>0, <1>3, <1>4, <2>1, <2>2, StoreSound, QueueRests DEF Sound
  <1>9. CASE Unbound(e)
    <2>1. CASE LocalOp(e, f, FALSE)
      BY <1>l, <2>1
    <2>2. CASE /\ journal' = NoJournal
               /\ Store(e, FailedUnattached(f), TRUE, FALSE)
      <3>1. FailedUnattached(f).attempt = f.attempt
        BY <1>2 DEF FailedUnattached, FailedFrame, Frames
      <3> QED
        BY <1>0, <1>3, <1>4, <2>2, <3>1, StoreSound, QueueRests DEF Sound, NoJournal
    <2> QED
      BY <1>9, <2>1, <2>2 DEF Unbound
  <1>10. CASE Settle(e) \/ AckPublish(e)
    BY <1>s, <1>10 DEF Settle, AckPublish, shared
  <1>11. CASE BoundTick(e) \/ Heartbeat(e)
    BY <1>t, <1>11 DEF BoundTick, Heartbeat
  <1>12. CASE SetStarting(e)
    <2> DEFINE ok == Accepts(f, req[e]) /\ f.outcome = "Pending"
               g == IF ok THEN [f EXCEPT !.starting = TRUE, !.running = FALSE] ELSE f
    <2>1. g.attempt = f.attempt /\ g.cleanup = f.cleanup
      BY <1>2 DEF Frames
    <2>2. LocalOp(e, g, ok)
      BY <1>12 DEF SetStarting
    <2> QED
      BY <1>l, <2>1, <2>2
  <1>13. CASE Protect(e)
    BY <1>l, <1>13 DEF Protect
  <1>14. CASE StartEngine(e)
    BY <1>l, <1>n, <1>14 DEF StartEngine, shared, lanes
  <1>15. CASE Commit(e)
    <2> DEFINE ok == Accepts(f, req[e])
               g == IF ok THEN [f EXCEPT !.starting = FALSE, !.running = TRUE,
                                         !.outcome = "Connected"] ELSE f
    <2>1. g.attempt = f.attempt /\ g.cleanup = f.cleanup
      BY <1>2 DEF Frames
    <2>2. LocalOp(e, g, ok)
      BY <1>15 DEF Commit
    <2> QED
      BY <1>l, <2>1, <2>2
  <1>16. CASE StartReturns(e)
    BY <1>n, <1>t, <1>16 DEF StartReturns, shared, lanes
  <1>17. CASE ChainFails(e)
    <2> DEFINE ok == Accepts(f, req[e])
               g == IF ok THEN FailedFrame(f) ELSE f
    <2>1. g.attempt = f.attempt /\ g.cleanup = f.cleanup
      BY <1>2 DEF Frames, FailedFrame
    <2>2. LocalOp(e, g, ok) \/ UNCHANGED <<shared, lanes>>
      BY <1>17 DEF ChainFails
    <2> HIDE DEF g
    <2> QED
      BY <1>l, <1>n, <2>1, <2>2 DEF shared, lanes
  <1>18. CASE NativeExit(e)
    <2>1. /\ FailedFrame(Mine(e)).attempt = Mine(e).attempt
          /\ FailedFrame(Mine(e)).cleanup = Mine(e).cleanup
      BY <1>2 DEF Frames, FailedFrame
    <2> QED
      BY <1>n, <1>s, <1>18, <2>1 DEF NativeExit, shared, lanes
  <1>19. CASE StopNative(e)
    <2> DEFINE ours == f.attempt = cleaning[e].attempt
               g == IF ours THEN StoppedFrame(f) ELSE f
    <2>1. g.attempt = f.attempt /\ g.cleanup = f.cleanup
      BY <1>2 DEF Frames, StoppedFrame
    <2>2. LocalOp(e, g, ours)
      BY <1>19 DEF StopNative
    <2> HIDE DEF g
    <2> QED
      BY <1>l, <2>1, <2>2
  <1>20. CASE Ack(e)
    <2>1. CASE LocalOp(e, f, FALSE)
      BY <1>l, <2>1
    <2>2. CASE /\ journal' = NoJournal
               /\ Store(e, CleanedFrame(f), TRUE, FALSE)
      <3>1. CleanedFrame(f).attempt = f.attempt
        BY <1>2 DEF CleanedFrame, Frames
      <3> QED
        BY <1>0, <1>3, <1>4, <2>2, <3>1, StoreSound, QueueRests DEF Sound, NoJournal
    <2> QED
      BY <1>20, <2>1, <2>2 DEF Ack
  <1>21. CASE ExtCrash(e)
    <2>1. \A p \in Procs : Mine(p)' = Mine(p) \/ Mine(p)' = InitFrame
      BY <1>21 DEF ExtCrash, Mine, LanesType, InitCore
    <2>2. UNCHANGED <<journal, uiLane, vpnLane>>
      BY <1>21 DEF ExtCrash
    <2>3. \A h \in AllFrames' : h \in AllFrames \/ h = InitFrame
      BY <2>1, <2>2 DEF AllFrames
    <2>4. FramesInv'
      BY <1>1, <1>4, <2>2, <2>3 DEF FramesInv, Sound, InitFrame, NoAttempt
    <2> QED
      BY <1>4, <2>2, <2>4, QueueRests
  <1> QED
    BY <1>5, <1>6, <1>7, <1>8, <1>9, <1>10, <1>11, <1>12, <1>13, <1>14, <1>15,
       <1>16, <1>17, <1>18, <1>19, <1>20, <1>21 DEF ExtNext, ExtRuns, ExtCleans

-----------------------------------------------------------------------------
(* The theorem *)

(* The frames are sound and the queue in order in every reachable state.   *)
THEOREM CleanupInvariant == Spec => [](FramesInv /\ QueueInv)
  <1>1. Init => FramesInv /\ QueueInv
    <2> HAVE Init
    <2>1. \A f \in AllFrames : f = InitFrame
      BY DEF Init, AllFrames, Mine, InitCore
    <2>2. FramesInv
      BY <2>1 DEF Init, FramesInv, Sound, InitFrame, NoAttempt
    <2> QED
      BY <2>2 DEF Init, QueueInv, QueueWaits, FinishDeleted
  <1>2. TypeInv /\ FramesInv /\ QueueInv /\ [Next]_vars => (FramesInv /\ QueueInv)'
    <2>1. ASSUME TypeInv, FramesInv, QueueInv, Next PROVE (FramesInv /\ QueueInv)'
      BY <2>1, UiNextClean, ExtNextClean DEF Next
    <2>2. ASSUME FramesInv, QueueInv, UNCHANGED vars PROVE (FramesInv /\ QueueInv)'
      BY <2>2, QuietSound, QueueRests DEF vars, shared, lanes, plugin
    <2> QED
      BY <2>1, <2>2
  <1> QED
    BY <1>1, <1>2, TypeInvariant, PTL DEF Spec

(* No process and no lane declares an attempt cleaned up while its record  *)
(* is in the journal: every path of complete_platform_vpn_cleanup, of      *)
(* fail_unattached_platform_vpn_start and of recovery deletes the record   *)
(* before it says so, and no frame read late says so of a newer record.    *)
THEOREM CleanupDeleted == Spec => []CleanupMeansDeleted
  <1>1. FramesInv /\ QueueInv => CleanupMeansDeleted
    BY FramesInvEquiv
  <1> QED
    BY <1>1, CleanupInvariant, PTL

-----------------------------------------------------------------------------
(* Terminal outcomes *)

(* What TerminalIsFinal says of one process in one step.                   *)
Final(p) ==
    (/\ Alive(p)'
     /\ Mine(p).outcome \in Terminal
     /\ Mine(p)'.attempt = Mine(p).attempt)
        => Mine(p)'.outcome \in Terminal

AllFinal == \A p \in Procs : Final(p)

(* Synchronising keeps a terminal outcome terminal, whatever is in the     *)
(* lane.                                                                   *)
LEMMA SyncedTerminal ==
    ASSUME NEW p, Mine(p).outcome \in Terminal
    PROVE  Synced(p).outcome \in Terminal
  BY DEF Synced, Merge

(* A step that stores one frame changes the state of that process alone.   *)
LEMMA StoreFinal ==
    ASSUME LanesType, NEW p \in Procs, NEW f, NEW s, NEW b, Store(p, f, s, b),
           Mine(p).outcome \in Terminal /\ f.attempt = Mine(p).attempt
               => f.outcome \in Terminal
    PROVE  AllFinal
  <1>1. Mine(p)' = f
    BY DEF Store, Mine, LanesType
  <1>2. \A q \in Procs : q # p => Mine(q)' = Mine(q)
    BY DEF Store, Mine, LanesType
  <1> QED
    BY <1>1, <1>2 DEF AllFinal, Final

(* A local operation that derives a terminal state from a terminal state.  *)
LEMMA LocalFinal ==
    ASSUME LanesType, NEW p \in Procs, NEW f, NEW b, LocalOp(p, f, b),
           Synced(p).outcome \in Terminal => f.outcome \in Terminal
    PROVE  AllFinal
  BY SyncedTerminal, StoreFinal DEF LocalOp

(* A step that leaves the state of the processes alone.                    *)
LEMMA QuietFinal ==
    ASSUME UNCHANGED core
    PROVE  AllFinal
  BY DEF AllFinal, Final, Mine

(* A failure is terminal.                                                  *)
LEMMA FailedTerminal ==
    ASSUME NEW f \in Frames
    PROVE  /\ FailedFrame(f).outcome \in Terminal
           /\ FailedUnattached(f).outcome \in Terminal
  BY DEF FailedFrame, FailedUnattached, Frames, Terminal

(* The steps of a UI process.                                              *)
LEMMA UiNextFinal ==
    ASSUME TypeInv, FramesInv, NEW u \in Uis, UiNext(u)
    PROVE  AllFinal
  <1> USE DEF TypeInv, TypeOK
  <1> DEFINE f == Synced(u)
  <1>0. u \in Procs
    BY DEF Procs
  <1>1. f \in Frames /\ Mine(u) \in Frames
    BY <1>0, SyncedType
  <1>l. ASSUME NEW b, LocalOp(u, f, b) PROVE AllFinal
    BY <1>0, <1>l, LocalFinal
  <1>f. ASSUME NEW b, LocalOp(u, FailedFrame(f), b) PROVE AllFinal
    BY <1>0, <1>1, <1>f, LocalFinal, FailedTerminal
  <1>2. CASE ClaimPublish(u)
    <2> DEFINE g == IF Mine(u).outcome = "Pending"
                    THEN [Mine(u) EXCEPT !.outcome = "Cancelled",
                                         !.starting = FALSE, !.running = FALSE,
                                         !.stopReq = TRUE]
                    ELSE [Mine(u) EXCEPT !.stopReq = TRUE]
    <2>1. UNCHANGED core \/ Store(u, g, FALSE, TRUE)
      BY <1>2 DEF ClaimPublish, lanes
    <2>2. Mine(u).outcome \in Terminal => g.outcome \in Terminal
      BY <1>1 DEF Frames, Terminal
    <2> HIDE DEF g
    <2> QED
      BY <1>0, <2>1, <2>2, StoreFinal, QuietFinal
  <1>3. CASE \/ ClaimFence(u) \/ ClaimReread(u) \/ RequestStart(u)
             \/ OsStopBegin(u) \/ OsStopConfirmed(u) \/ OsStopRejected(u)
             \/ RecoverRead(u) \/ RecoverProve(u) \/ RecoverDeadline(u)
             \/ RecoverDelete(u) \/ AwaitDone(u) \/ UiStart(u)
    BY <1>3, QuietFinal DEF ClaimFence, ClaimReread, RequestStart, OsStopBegin,
       OsStopConfirmed, OsStopRejected, RecoverRead, RecoverProve,
       RecoverDeadline, RecoverDelete, AwaitDone, UiStart, lanes
  <1>4. CASE StartHead(u) \/ RequestStop(u)
    BY <1>l, <1>4, QuietFinal DEF StartHead, RequestStop, ClaimRead, lanes
  <1>5. CASE Authorize(u)
    <2>1. CASE LocalOp(u, [f EXCEPT !.stopReq = TRUE], TRUE)
      <3>1. [f EXCEPT !.stopReq = TRUE].outcome = f.outcome
        BY <1>1 DEF Frames
      <3> QED
        BY <1>0, <2>1, <3>1, LocalFinal
    <2> QED
      BY <1>l, <1>5, <2>1, QuietFinal DEF Authorize, lanes
  <1>6. CASE \/ Cooperative(u) \/ RecoverSync(u) \/ RecoverMissing(u) \/ UiSync(u)
    BY <1>l, <1>6 DEF Cooperative, RecoverSync, RecoverMissing, UiSync
  <1>7. CASE RecoverFinish(u)
    <2> DEFINE g == CleanedFrame(
                [f EXCEPT !.starting = FALSE, !.running = FALSE,
                          !.outcome = IF f.outcome = "Failed" THEN "Failed"
                                      ELSE "Cancelled"])
    <2>1. g.outcome \in Terminal
      BY <1>1 DEF CleanedFrame, Frames, Terminal
    <2>2. LocalOp(u, f, FALSE) \/ LocalOp(u, g, TRUE)
      BY <1>7 DEF RecoverFinish
    <2> HIDE DEF g
    <2> QED
      BY <1>0, <1>l, <2>1, <2>2, LocalFinal
  <1>8. CASE Begin(u)
    <2> DEFINE pending == [InitFrame EXCEPT !.attempt = nextAttempt,
                               !.outcome = "Pending", !.starting = TRUE]
    <2>1. CASE core' = [core EXCEPT ![u] = [frame |-> pending, stale |-> FALSE]]
      <3>1. Mine(u)'.attempt = nextAttempt
        BY <1>0, <2>1 DEF Mine, LanesType, InitFrame
      <3>2. \A q \in Procs : q # u => Mine(q)' = Mine(q)
        BY <2>1 DEF Mine, LanesType
      <3>3. Mine(u).attempt < nextAttempt
        BY <1>0 DEF FramesInv, Sound, AllFrames
      <3>4. Mine(u).attempt \in Nat /\ nextAttempt \in Nat
        BY <1>1, MaxAttemptsAssumption DEF Frames, Attempts, NoAttempt, PluginType
      <3> QED
        BY <3>1, <3>2, <3>3, <3>4 DEF AllFinal, Final
    <2> QED
      BY <1>l, <1>8, <2>1 DEF Begin
  <1>9. CASE AwaitDeadline(u) \/ UiOwnerReleased(u)
    BY <1>f, <1>l, <1>9 DEF AwaitDeadline, UiOwnerReleased
  <1>10. ASSUME NEW a, DispatchRejected(u, a) PROVE AllFinal
    <2>1. FailedUnattached(f).outcome \in Terminal
      BY <1>1, FailedTerminal
    <2> QED
      BY <1>0, <1>l, <1>10, <2>1, StoreFinal DEF DispatchRejected
  <1>11. CASE UiWatchdog(u)
    <2>1. CASE LocalOp(u, FailedFrame(Mine(u)), TRUE)
      BY <1>0, <1>1, <2>1, LocalFinal, FailedTerminal
    <2>2. CASE core' = [core EXCEPT ![u].stale = TRUE]
      <3>1. \A p \in Procs : Mine(p)' = Mine(p)
        BY <2>2 DEF Mine, LanesType, Cores
      <3> QED
        BY <3>1 DEF AllFinal, Final
    <2> QED
      BY <1>11, <2>1, <2>2 DEF UiWatchdog
  <1>12. CASE UiCrash(u)
    <2>1. \A q \in Procs : q # u => Mine(q)' = Mine(q)
      BY <1>12 DEF UiCrash, Mine, LanesType
    <2>2. ~Alive(u)'
      BY <1>0, <1>12 DEF UiCrash, Alive
    <2> QED
      BY <2>1, <2>2 DEF AllFinal, Final
  <1> QED
    BY <1>2, <1>3, <1>4, <1>5, <1>6, <1>7, <1>8, <1>9, <1>10, <1>11, <1>12
       DEF UiNext, UiClaims, UiRuns

(* The steps of an Extension process.                                      *)
LEMMA ExtNextFinal ==
    ASSUME TypeInv, FramesInv, NEW e \in Exts, ExtNext(e)
    PROVE  AllFinal
  <1> USE DEF TypeInv, TypeOK
  <1> DEFINE f == Synced(e)
  <1>0. e \in Procs
    BY DEF Procs
  <1>1. f \in Frames /\ Mine(e) \in Frames /\ Remote(e) \in Frames
    BY <1>0, SyncedType, RemoteType
  <1>l. ASSUME NEW b, LocalOp(e, f, b) PROVE AllFinal
    BY <1>0, <1>l, LocalFinal
  <1>a. ASSUME NEW a, Accepts(f, a) PROVE f.outcome \notin Terminal
    BY <1>a DEF Accepts, ActiveFor, Terminal
  <1>t. Tick(e) => AllFinal
    <2>1. f.outcome \in Terminal => Ticked(e, f) = f
      BY <1>a DEF Ticked, Lifecycle
    <2> QED
      BY <1>0, <2>1, LocalFinal DEF Tick
  <1>2. CASE \/ RequestRefused(e) \/ BindAcquire(e) \/ BindAttach(e)
             \/ CreateCall(e) \/ CreateReturns(e) \/ Destroy(e)
             \/ CreateSettles(e) \/ BindError(e) \/ StartFails(e)
             \/ OnDestroy(e) \/ CleanupError(e) \/ \E w \in wants : Deliver(e, w)
    BY <1>2, QuietFinal DEF RequestRefused, BindAcquire, BindAttach, CreateCall,
       CreateReturns, Destroy, CreateSettles, BindError, StartFails, OnDestroy,
       CleanupError, Deliver, lanes
  <1>3. CASE BindSync(e)
    <2> DEFINE r == Remote(e)
               a == req[e]
               opened == [Mine(e) EXCEPT !.attempt = a, !.outcome = r.outcome,
                              !.attached = r.attached, !.stopReq = r.stopReq,
                              !.owner = r.owner, !.cleanup = r.cleanup]
               adopted == IF Mine(e).attempt = a THEN Synced(e)
                          ELSE Merge(opened, r, FALSE)
               bound == IF adopted.outcome = "Connected" /\ ~native[e]
                        THEN [adopted EXCEPT !.outcome = "Pending",
                                  !.starting = TRUE, !.running = FALSE,
                                  !.cleanup = FALSE]
                        ELSE adopted
    <2>1. UNCHANGED core \/ LocalOp(e, bound, FALSE)
      BY <1>3 DEF BindSync, lanes
    <2>2. CASE Mine(e).attempt = a
      <3>1. f.outcome \in Terminal => bound.outcome \in Terminal
        BY <2>2 DEF Terminal
      <3> HIDE DEF bound
      <3> QED
        BY <1>0, <2>1, <3>1, LocalFinal, QuietFinal
    <2>3. CASE Mine(e).attempt # a
      <3>1. Merge(opened, r, FALSE).attempt = a
        BY <1>1 DEF Merge, Frames
      <3>2. opened \in Frames
        BY <1>1 DEF Frames, AbilityType
      <3>3. adopted \in Frames /\ adopted.attempt = a
        BY <1>1, <2>3, <3>1, <3>2, MergeType
      <3> HIDE DEF adopted
      <3>4. bound.attempt # Mine(e).attempt
        BY <2>3, <3>3 DEF Frames
      <3> HIDE DEF bound
      <3> QED
        BY <1>0, <2>1, <3>4, StoreFinal, QuietFinal DEF LocalOp
    <2> QED
      BY <2>2, <2>3
  <1>4. CASE BindPublish(e)
    <2> DEFINE g == [f EXCEPT !.owner = e, !.attached = TRUE,
                              !.cleanup = f.attached /\ f.cleanup]
    <2>1. g.outcome = f.outcome
      BY <1>1 DEF Frames
    <2>2. \E b : Store(e, g, TRUE, b)
      BY <1>4 DEF BindPublish
    <2> HIDE DEF g
    <2> QED
      BY <1>0, <2>1, <2>2, SyncedTerminal, StoreFinal
  <1>5. CASE Unbound(e)
    <2>1. FailedUnattached(f).outcome \in Terminal
      BY <1>1, FailedTerminal
    <2> QED
      BY <1>0, <1>l, <1>5, <2>1, StoreFinal DEF Unbound
  <1>6. CASE Settle(e) \/ AckPublish(e)
    BY <1>0, <1>6, StoreFinal DEF Settle, AckPublish
  <1>7. CASE BoundTick(e) \/ Heartbeat(e) \/ StartReturns(e)
    BY <1>t, <1>7, QuietFinal DEF BoundTick, Heartbeat, StartReturns, lanes
  <1>8. CASE SetStarting(e)
    <2> DEFINE ok == Accepts(f, req[e]) /\ f.outcome = "Pending"
               g == IF ok THEN [f EXCEPT !.starting = TRUE, !.running = FALSE] ELSE f
    <2>1. g.outcome = f.outcome /\ LocalOp(e, g, ok)
      BY <1>1, <1>8 DEF SetStarting, Frames
    <2> QED
      BY <1>0, <2>1, LocalFinal
  <1>9. CASE Protect(e)
    BY <1>l, <1>9 DEF Protect
  <1>10. CASE StartEngine(e)
    BY <1>l, <1>10, QuietFinal DEF StartEngine, lanes
  <1>11. CASE Commit(e)
    <2> DEFINE ok == Accepts(f, req[e])
               g == IF ok THEN [f EXCEPT !.starting = FALSE, !.running = TRUE,
                                         !.outcome = "Connected"] ELSE f
    <2>1. f.outcome \in Terminal => g = f
      BY <1>a
    <2>2. LocalOp(e, g, ok)
      BY <1>11 DEF Commit
    <2> HIDE DEF g
    <2> QED
      BY <1>0, <2>1, <2>2, LocalFinal
  <1>12. CASE ChainFails(e)
    <2> DEFINE ok == Accepts(f, req[e])
               g == IF ok THEN FailedFrame(f) ELSE f
    <2>1. f.outcome \in Terminal => g = f
      BY <1>a
    <2>2. LocalOp(e, g, ok) \/ UNCHANGED core
      BY <1>12 DEF ChainFails, lanes
    <2> HIDE DEF g
    <2> QED
      BY <1>0, <2>1, <2>2, LocalFinal, QuietFinal
  <1>13. CASE NativeExit(e)
    BY <1>0, <1>13, StoreFinal, QuietFinal DEF NativeExit, lanes
  <1>14. CASE StopNative(e)
    <2> DEFINE ours == f.attempt = cleaning[e].attempt
               g == IF ours THEN StoppedFrame(f) ELSE f
    <2>1. f.outcome \in Terminal => g.outcome \in Terminal
      BY <1>1 DEF StoppedFrame, Frames, Terminal
    <2>2. LocalOp(e, g, ours)
      BY <1>14 DEF StopNative
    <2> HIDE DEF g
    <2> QED
      BY <1>0, <2>1, <2>2, LocalFinal
  <1>15. CASE Ack(e)
    <2>1. CleanedFrame(f).outcome = f.outcome
      BY <1>1 DEF CleanedFrame, Frames
    <2> QED
      BY <1>0, <1>l, <1>15, <2>1, SyncedTerminal, StoreFinal DEF Ack
  <1>16. CASE ExtCrash(e)
    <2>1. \A q \in Procs : q # e => Mine(q)' = Mine(q)
      BY <1>16 DEF ExtCrash, Mine, LanesType
    <2>2. ~Alive(e)'
      BY <1>0, <1>16 DEF ExtCrash, Alive
    <2> QED
      BY <2>1, <2>2 DEF AllFinal, Final
  <1> QED
    BY <1>2, <1>3, <1>4, <1>5, <1>6, <1>7, <1>8, <1>9, <1>10, <1>11, <1>12,
       <1>13, <1>14, <1>15, <1>16 DEF ExtNext, ExtRuns, ExtCleans

(* No step of any process revives an attempt that a process knows to have  *)
(* failed or to be cancelled: apply_platform_envelope_locked keeps local   *)
(* terminal outcomes, and bind and the commit of a start check for them    *)
(* on the state they synchronise.                                          *)
THEOREM TerminalFinal == Spec => TerminalIsFinal
  <1>1. TypeInv /\ FramesInv /\ [Next]_vars => [AllFinal]_vars
    BY UiNextFinal, ExtNextFinal DEF Next
  <1>2. [][AllFinal]_vars => TerminalIsFinal
    <2>1. [AllFinal]_vars =>
            [\A p \in Procs :
               (/\ Alive(p)'
                /\ Mine(p).outcome \in Terminal
                /\ Mine(p)'.attempt = Mine(p).attempt)
                   => Mine(p)'.outcome \in Terminal]_vars
      BY DEF AllFinal, Final
    <2> QED
      BY <2>1, PTL DEF TerminalIsFinal
  <1> QED
    BY <1>1, <1>2, TypeInvariant, CleanupInvariant, PTL DEF Spec

-----------------------------------------------------------------------------
-----------------------------------------------------------------------------
(* What the others may do to an Extension *)

(* The state of e itself is left alone.                                    *)
Untouched(e) ==
    /\ status'[e] = status[e]
    /\ Mine(e)' = Mine(e)
    /\ pc'[e] = pc[e]
    /\ req'[e] = req[e]
    /\ act'[e] = act[e]
    /\ snap'[e] = snap[e]
    /\ conn'[e] = conn[e]
    /\ creating'[e] = creating[e]
    /\ tun'[e] = tun[e]
    /\ cleaning'[e] = cleaning[e]

(* The journal and the lease change in no way that e relies on.            *)
Respects(e) ==
    /\ journal' # journal =>
           /\ journal'.extension # e
           /\ \A a : ~Owner(e, a)
    /\ extLease.holder = e \/ extLease'.holder = e => extLease' = extLease

(* Then e keeps its invariant.                                             *)
LEMMA ExtKeeps ==
    ASSUME NEW e \in Exts, ExtInv(e), Untouched(e), Respects(e)
    PROVE  ExtInv(e)'
  <1>1. \A a : Owner(e, a) => Owner(e, a)'
    BY DEF Respects, Owner
  <1>2. DeadIsEmpty(e)'
    BY DEF ExtInv, DeadIsEmpty, Untouched, Respects, Alive
  <1>3. LeaseInv(e)'
    BY <1>1 DEF ExtInv, LeaseInv, Untouched, Respects
  <1>4. BindInv(e)'
    <2>1. (pc[e] = "acquire" =>
              IF snap[e].extension = e THEN Owner(e, req[e])
              ELSE journal.extension # e)'
      BY <1>1 DEF ExtInv, BindInv, Untouched, Respects
    <2>2. (pc[e] = "attach" =>
              /\ snap[e].extension # e
              /\ journal.extension # e
              /\ extLease = [holder |-> e, attempt |-> req[e]])'
      BY DEF ExtInv, BindInv, Untouched, Respects
    <2>3. (pc[e] = "publish" => Owner(e, req[e]))'
      BY <1>1 DEF ExtInv, BindInv, Untouched
    <2> QED
      BY <2>1, <2>2, <2>3 DEF ExtInv, BindInv, Untouched
  <1>5. ActiveInv(e)'
    BY <1>1 DEF ExtInv, ActiveInv, Untouched
  <1>6. CleaningInv(e)'
    BY <1>1 DEF ExtInv, CleaningInv, Untouched
  <1>7. TunInv(e)'
    BY <1>1 DEF ExtInv, TunInv, Untouched
  <1> QED
    BY <1>2, <1>3, <1>4, <1>5, <1>6, <1>7 DEF ExtInv

(* What an Extension that holds its lease knows of the journal.            *)
LEMMA HolderOwns ==
    ASSUME NEW e \in Exts, ExtInv(e), extLease.holder = e, pc[e] # "attach"
    PROVE  /\ Owner(e, extLease.attempt)
           /\ journal.attempt = extLease.attempt
           /\ Mine(e).attempt = journal.attempt
           /\ journal.attempt # NoAttempt
  BY DEF ExtInv, LeaseInv, Owner

(* A local operation of an Extension that declares no cleanup of its own   *)
(* attempt keeps its lease.                                                *)
LEMMA LocalShared ==
    ASSUME TypeInv, FramesInv, NEW e \in Exts, ExtInv(e), pc[e] # "attach",
           NEW f, NEW b, LocalOp(e, f, b),
           extLease.holder = e => f.attempt = Mine(e).attempt
                                  /\ (f.cleanup => Synced(e).cleanup)
    PROVE  journal' = journal /\ extLease' = extLease /\ Mine(e)' = f
  <1> USE DEF TypeInv, TypeOK
  <1>0. e \in Procs
    BY DEF Procs
  <1>1. nextAttempt \in Nat \ {0}
    BY MaxAttemptsAssumption DEF PluginType
  <1>2. Mine(e)' = f
    BY <1>0 DEF LocalOp, Store, Mine, LanesType
  <1>3. extLease' = extLease
    <2>1. CASE extLease.holder # e
      BY <2>1 DEF LocalOp, LeasesFollow, ReleasedBy
    <2>2. CASE extLease.holder = e
      <3>1. Synced(e).attempt = Mine(e).attempt /\ Sound(Synced(e))
        BY <1>0, <1>1, SyncedSound
      <3>2. Mine(e).attempt = journal.attempt /\ journal.attempt # NoAttempt
        BY <2>2, HolderOwns
      <3>3. ~Synced(e).cleanup
        BY <3>1, <3>2 DEF Sound
      <3> QED
        BY <2>2, <3>3 DEF LocalOp, LeasesFollow
    <2> QED
      BY <2>1, <2>2
  <1> QED
    BY <1>2, <1>3 DEF LocalOp

(* Forgetting the session of e and beginning its cleanup.                  *)
LEMMA DestroyVpnOwn ==
    ASSUME TypeInv, NEW e \in Exts, ExtInv(e), Alive(e), DestroyVpn(e),
           UNCHANGED <<journal, extLease, status, snap, creating, tun>>,
           Mine(e)'.attempt = Mine(e).attempt,
           Mine(e).outcome \in Terminal => Mine(e)'.outcome \in Terminal,
           pc[e] \notin Binding,
           \/ pc'[e] = "idle"
           \/ /\ pc'[e] = pc[e] /\ req'[e] = req[e]
              /\ pc[e] \notin {"bound", "starting", "network"}
    PROVE  ExtInv(e)'
  <1> USE DEF TypeInv, TypeOK
  <1>1. \A a : Owner(e, a)' <=> Owner(e, a)
    BY DEF Owner
  <1>2. act'[e] = NoAttempt /\ conn'[e] = FALSE
    BY DEF DestroyVpn, AbilityType
  <1>3. DeadIsEmpty(e)'
    BY DEF DeadIsEmpty, Alive
  <1>4. LeaseInv(e)'
    BY <1>1 DEF ExtInv, LeaseInv, Binding
  <1>5. BindInv(e)'
    BY DEF ExtInv, BindInv, Binding
  <1>6. ActiveInv(e)'
    BY <1>2 DEF ActiveInv
  <1>7. CASE act[e] # NoAttempt
    <2>1. cleaning'[e] = [pc |-> "stop", attempt |-> act[e], conn |-> conn[e]]
      BY <1>7 DEF DestroyVpn, AbilityType, ExtInv, ActiveInv
    <2>2. CleaningInv(e)'
      BY <1>1, <1>7, <2>1 DEF CleaningInv, ExtInv, ActiveInv
    <2>3. TunInv(e)'
      BY <1>1, <1>2, <1>7, <2>1 DEF TunInv, ExtInv, ActiveInv
    <2> QED
      BY <1>3, <1>4, <1>5, <1>6, <2>2, <2>3 DEF ExtInv
  <1>8. CASE act[e] = NoAttempt
    <2>1. ~conn[e]
      BY <1>8 DEF ExtInv, ActiveInv
    <2>2. \/ cleaning'[e] = cleaning[e]
          \/ cleaning[e].pc = "none" /\ cleaning'[e] = NoCleanup
      BY <1>8, <2>1 DEF DestroyVpn, AbilityType
    <2>3. CleaningInv(e)'
      BY <1>1, <2>2 DEF CleaningInv, ExtInv, NoCleanup
    <2>4. TunInv(e)'
      BY <1>1, <1>2, <1>8, <2>1, <2>2 DEF TunInv, ExtInv, NoCleanup
    <2> QED
      BY <1>3, <1>4, <1>5, <1>6, <2>3, <2>4 DEF ExtInv
  <1> QED
    BY <1>7, <1>8

-----------------------------------------------------------------------------
(* The steps of an Extension, seen by itself: binding *)

(* A Want is delivered.                                                    *)
LEMMA DeliverOwn ==
    ASSUME TypeInv, NEW e \in Exts, ExtInv(e), NEW w \in wants, Deliver(e, w)
    PROVE  ExtInv(e)'
  <1> USE DEF TypeInv, TypeOK
  <1>0. e \in Procs /\ w.attempt \in Attempts
    BY DEF Procs, PluginType
  <1>1. UNCHANGED <<journal, extLease, act, snap, conn, creating, tun, cleaning>>
    BY DEF Deliver, shared
  <1>2. Mine(e)' = Mine(e)
    BY DEF Deliver, Mine
  <1>3. status'[e] = "alive" /\ pc'[e] = "request" /\ req'[e] = w.attempt
    BY <1>0 DEF Deliver, Moves, AbilityType
  <1>4. pc[e] \in {"idle", "request"}
    BY DEF Deliver, ExtInv, DeadIsEmpty, Alive
  <1>5. \A a : Owner(e, a)' <=> Owner(e, a)
    BY <1>1 DEF Owner
  <1>6. w.attempt # NoAttempt /\ journal.attempt = w.attempt
    BY <1>0 DEF Attempts, NoAttempt, Deliver
  <1>7. act[e] = NoAttempt /\ ~conn[e]
    BY <1>4 DEF ExtInv, ActiveInv, Unowned
  <1>8. LeaseInv(e)'
    BY <1>1, <1>2, <1>3, <1>4, <1>5, <1>6 DEF ExtInv, LeaseInv, Owner
  <1>9. DeadIsEmpty(e)' /\ BindInv(e)' /\ ActiveInv(e)'
    BY <1>1, <1>3, <1>6, <1>7 DEF DeadIsEmpty, BindInv, ActiveInv, Alive, Binding
  <1>10. CleaningInv(e)' /\ TunInv(e)'
    BY <1>1, <1>2, <1>5 DEF ExtInv, CleaningInv, TunInv
  <1> QED
    BY <1>8, <1>9, <1>10 DEF ExtInv

(* The state that bind adopts: of the attempt it was asked for, and        *)
(* terminal if the same attempt was terminal before.                       *)
LEMMA BindSyncOwn ==
    ASSUME TypeInv, FramesInv, JournalInv, Punctual, NEW e \in Exts, ExtInv(e),
           BindSync(e)
    PROVE  ExtInv(e)' /\ journal' = journal /\ extLease' = extLease
  <1> USE DEF TypeInv, TypeOK
  <1> DEFINE r == Remote(e)
             a == req[e]
             opened == [Mine(e) EXCEPT !.attempt = a, !.outcome = r.outcome,
                            !.attached = r.attached, !.stopReq = r.stopReq,
                            !.owner = r.owner, !.cleanup = r.cleanup]
             adopted == IF Mine(e).attempt = a THEN Synced(e)
                        ELSE Merge(opened, r, FALSE)
             bound == IF adopted.outcome = "Connected" /\ ~native[e]
                      THEN [adopted EXCEPT !.outcome = "Pending",
                                !.starting = TRUE, !.running = FALSE,
                                !.cleanup = FALSE]
                      ELSE adopted
             ok == /\ bound.outcome \notin Terminal
                   /\ journal.attempt = a
                   /\ journal.phase \in {"Pending", "Attached"}
  <1>0. e \in Procs
    BY DEF Procs
  <1>1. Mine(e) \in Frames /\ r \in Frames /\ Synced(e) \in Frames
    BY <1>0, SyncedType, RemoteType
  <1>2. Synced(e).attempt = Mine(e).attempt
    <2>1. nextAttempt \in Nat \ {0}
      BY MaxAttemptsAssumption DEF PluginType
    <2> QED
      BY <1>0, <2>1, SyncedSound
  <1>3. adopted \in Frames /\ adopted.attempt = a
    <2>1. CASE Mine(e).attempt = a
      BY <1>1, <1>2, <2>1
    <2>2. CASE Mine(e).attempt # a
      <3>1. opened \in Frames /\ opened.attempt = a
        BY <1>1 DEF Frames, AbilityType
      <3> HIDE DEF opened
      <3>2. Merge(opened, r, FALSE) \in Frames /\ Merge(opened, r, FALSE).attempt = a
        BY <1>1, <3>1, MergeType DEF Merge
      <3> QED
        BY <2>2, <3>2
    <2> QED
      BY <2>1, <2>2
  <1>4. bound \in Frames /\ bound.attempt = a /\ (bound.cleanup => adopted.cleanup)
        /\ (adopted.outcome \in Terminal => bound = adopted)
    <2> HIDE DEF adopted
    <2> QED
      BY <1>3 DEF Frames, Outcomes, Terminal
  <1>5. At(e, "request") /\ CleanupAwaited(e)
    BY DEF BindSync
  <1>6. cleaning[e].pc = "none" /\ Alive(e) /\ pc[e] = "request"
    BY <1>5 DEF At, CleanupAwaited, Punctual
  <1>7. Mine(e).attempt = a => adopted = Synced(e)
    OBVIOUS
  <1>8. extLease.holder = e => /\ Mine(e).attempt = a
                               /\ bound.attempt = Mine(e).attempt
                               /\ (bound.cleanup => Synced(e).cleanup)
    BY <1>4, <1>6, <1>7 DEF ExtInv, LeaseInv
  <1> HIDE DEF adopted, bound
  <1>9. /\ journal' = journal /\ extLease' = extLease
        /\ Mine(e)' = Mine(e) \/ Mine(e)' = bound
        /\ ActiveFor(r, a) => Mine(e)' = bound
    <2>1. CASE ActiveFor(r, a)
      <3>1. LocalOp(e, bound, FALSE)
        BY <2>1 DEF BindSync, bound, adopted
      <3> QED
        BY <1>6, <1>8, <3>1, LocalShared
    <2>2. CASE ~ActiveFor(r, a)
      BY <2>2 DEF BindSync, shared, lanes, Mine
    <2> QED
      BY <2>1, <2>2
  <1>10. /\ UNCHANGED <<status, req, act, conn, creating, tun, cleaning>>
         /\ \/ /\ ActiveFor(r, a) /\ ok
               /\ snap'[e] = journal
               /\ pc'[e] = "acquire"
            \/ pc'[e] = "unbound"
    BY DEF BindSync, Moves, AbilityType, bound, adopted
  <1>11. \A b : Owner(e, b)' <=> Owner(e, b)
    BY <1>9 DEF Owner
  <1>12. act[e] = NoAttempt /\ ~conn[e] /\ req[e] # NoAttempt
    BY <1>6 DEF ExtInv, ActiveInv, BindInv, Unowned
  <1>13. tun[e] # NoAttempt \/ creating[e] # NoAttempt
            => Mine(e).outcome \in Terminal /\ extLease.holder = e
    BY <1>6, <1>12 DEF ExtInv, TunInv, Owner
  <1>14. tun[e] # NoAttempt \/ creating[e] # NoAttempt
            => Mine(e)'.outcome \in Terminal /\ bound.outcome \in Terminal
    BY <1>4, <1>7, <1>8, <1>9, <1>13, SyncedTerminal
  <1>15. LeaseInv(e)'
    BY <1>6, <1>8, <1>9, <1>10, <1>11 DEF ExtInv, LeaseInv
  <1>16. DeadIsEmpty(e)' /\ ActiveInv(e)'
    BY <1>6, <1>10, <1>12 DEF DeadIsEmpty, ActiveInv, Alive
  <1>17. CleaningInv(e)' /\ TunInv(e)'
    BY <1>6, <1>10, <1>11, <1>12, <1>14 DEF ExtInv, CleaningInv, TunInv
  <1>18. BindInv(e)'
    <2>1. CASE pc'[e] = "unbound"
      BY <1>10, <1>12, <2>1 DEF BindInv, Binding
    <2>2. CASE pc'[e] = "acquire" /\ snap'[e] = journal /\ ActiveFor(r, a) /\ ok
      <3>1. tun[e] = NoAttempt /\ creating[e] = NoAttempt
        BY <1>14, <2>2
      <3>2. snap'[e].attempt = req'[e] /\ Mine(e)'.attempt = req'[e]
        BY <1>4, <1>9, <1>10, <2>2
      <3>3. journal.extension = e => Owner(e, req[e])
        <4> HAVE journal.extension = e
        <4>1. journal.phase = "Attached"
          BY ProcessAssumption DEF SharedType, ValidRecord, NoJournal
        <4>2. extLease.holder = e
          BY <1>6, <4>1 DEF JournalInv
        <4> QED
          BY <1>6, <2>2, <4>2, HolderOwns
      <3> QED
        BY <1>6, <1>9, <1>10, <1>11, <1>12, <2>2, <3>1, <3>2, <3>3
           DEF BindInv, Binding
    <2> QED
      BY <1>10, <2>1, <2>2
  <1> QED
    BY <1>9, <1>15, <1>16, <1>17, <1>18 DEF ExtInv

(* What a step of e does to the journal and to the Extension lease.        *)
Moved(e) ==
    /\ \/ extLease' = extLease
       \/ extLease.holder = None /\ extLease'.holder = e
       \/ /\ extLease.holder = e /\ extLease'.holder = None
          /\ journal'.extension # e \/ status'[e] = "dead"
    /\ \/ journal' = journal
       \/ /\ journal' = AttachedTo(journal, e)
          /\ extLease.holder = e /\ extLease' = extLease
       \/ journal' = NoJournal /\ journal.extension \in {None, e}

(* The Extension lease is taken.                                           *)
LEMMA BindAcquireOwn ==
    ASSUME TypeInv, NEW e \in Exts, ExtInv(e), BindAcquire(e)
    PROVE  ExtInv(e)' /\ Moved(e)
  <1> USE DEF TypeInv, TypeOK
  <1>1. Alive(e) /\ pc[e] = "acquire"
    BY DEF BindAcquire, At
  <1>2. /\ UNCHANGED <<journal, status, req, act, snap, conn, creating, tun, cleaning>>
        /\ Mine(e)' = Mine(e)
    BY DEF BindAcquire, lanes, Mine
  <1>3. /\ snap[e].attempt = req[e] /\ Mine(e).attempt = req[e]
        /\ req[e] # NoAttempt
        /\ IF snap[e].extension = e THEN Owner(e, req[e]) ELSE journal.extension # e
        /\ cleaning[e].pc = "none" /\ creating[e] = NoAttempt /\ tun[e] = NoAttempt
        /\ act[e] = NoAttempt /\ ~conn[e]
    BY <1>1 DEF ExtInv, BindInv, ActiveInv, Binding, Unowned
  <1>4. CASE extLease' = extLease /\ pc'[e] = "publish" /\ snap[e].extension = e
    <2>1. LeaseInv(e)' /\ BindInv(e)'
      BY <1>1, <1>2, <1>3, <1>4 DEF ExtInv, LeaseInv, BindInv, Owner, Binding
    <2>2. DeadIsEmpty(e)' /\ ActiveInv(e)' /\ CleaningInv(e)' /\ TunInv(e)'
      BY <1>1, <1>2, <1>3, <1>4 DEF DeadIsEmpty, ActiveInv, CleaningInv, TunInv, Alive
    <2> QED
      BY <1>2, <1>4, <2>1, <2>2 DEF ExtInv, Moved
  <1>5. CASE extLease' = extLease /\ pc'[e] = "unbound"
    <2>1. LeaseInv(e)' /\ BindInv(e)'
      BY <1>1, <1>2, <1>3, <1>5 DEF ExtInv, LeaseInv, BindInv, Owner, Binding
    <2>2. DeadIsEmpty(e)' /\ ActiveInv(e)' /\ CleaningInv(e)' /\ TunInv(e)'
      BY <1>1, <1>2, <1>3, <1>5 DEF DeadIsEmpty, ActiveInv, CleaningInv, TunInv, Alive
    <2> QED
      BY <1>2, <1>5, <2>1, <2>2 DEF ExtInv, Moved
  <1>6. CASE /\ extLease.holder = None
             /\ extLease' = Acquired(snap[e].attempt, e)
             /\ pc'[e] = IF snap[e].extension = e THEN "publish" ELSE "attach"
    <2>1. snap[e].extension # e
      BY <1>3, <1>6, ProcessAssumption DEF Owner
    <2>2. /\ pc'[e] = "attach"
          /\ extLease' = [holder |-> e, attempt |-> req[e]]
          /\ journal.extension # e
      BY <1>3, <1>6, <2>1 DEF Acquired
    <2>3. LeaseInv(e)' /\ BindInv(e)'
      BY <1>2, <1>3, <2>1, <2>2 DEF LeaseInv, BindInv, Binding
    <2>4. DeadIsEmpty(e)' /\ ActiveInv(e)' /\ CleaningInv(e)' /\ TunInv(e)'
      BY <1>1, <1>2, <1>3, <2>2 DEF DeadIsEmpty, ActiveInv, CleaningInv, TunInv, Alive
    <2> QED
      BY <1>2, <1>6, <2>2, <2>3, <2>4 DEF ExtInv, Moved
  <1> QED
    BY <1>4, <1>5, <1>6 DEF BindAcquire, CanAcquire, Moves, AbilityType

(* The swap of the record, won, lost or abandoned.                         *)
LEMMA BindAttachOwn ==
    ASSUME TypeInv, NEW e \in Exts, ExtInv(e), BindAttach(e) \/ BindError(e)
    PROVE  ExtInv(e)' /\ Moved(e)
  <1> USE DEF TypeInv, TypeOK
  <1>1. Alive(e) /\ pc[e] \in {"acquire", "attach"}
    BY DEF BindAttach, BindError, At
  <1>2. /\ UNCHANGED <<status, req, act, snap, conn, creating, tun, cleaning>>
        /\ Mine(e)' = Mine(e)
    BY DEF BindAttach, BindError, lanes, Mine
  <1>3. /\ snap[e].attempt = req[e] /\ Mine(e).attempt = req[e]
        /\ req[e] # NoAttempt
        /\ cleaning[e].pc = "none" /\ creating[e] = NoAttempt /\ tun[e] = NoAttempt
        /\ act[e] = NoAttempt /\ ~conn[e]
    BY <1>1 DEF ExtInv, BindInv, ActiveInv, Binding, Unowned
  <1>4. CASE /\ pc[e] = "attach" /\ pc'[e] = "publish"
             /\ journal' = AttachedTo(journal, e) /\ extLease' = extLease
             /\ journal.attempt = snap[e].attempt
    <2>1. extLease = [holder |-> e, attempt |-> req[e]]
      BY <1>4 DEF ExtInv, BindInv
    <2>2. Owner(e, req[e])'
      BY <1>2, <1>3, <1>4, <2>1 DEF Owner, AttachedTo, SharedType, Journals
    <2>3. LeaseInv(e)' /\ BindInv(e)'
      BY <1>2, <1>3, <1>4, <2>1, <2>2 DEF LeaseInv, BindInv, Binding
    <2>4. DeadIsEmpty(e)' /\ ActiveInv(e)' /\ CleaningInv(e)' /\ TunInv(e)'
      BY <1>1, <1>2, <1>3, <1>4 DEF DeadIsEmpty, ActiveInv, CleaningInv, TunInv, Alive
    <2> QED
      BY <1>4, <2>1, <2>3, <2>4 DEF ExtInv, Moved
  <1>5. CASE /\ pc[e] = "attach" /\ pc'[e] = "unbound"
             /\ journal' = journal /\ extLease' = ReleasedBy(extLease, e)
    <2>1. extLease.holder = e /\ extLease'.holder = None /\ journal.extension # e
      BY <1>5 DEF ExtInv, BindInv, ReleasedBy, FreeLease
    <2>2. LeaseInv(e)' /\ BindInv(e)'
      BY <1>2, <1>3, <1>5, <2>1, ProcessAssumption DEF LeaseInv, BindInv, Binding
    <2>3. DeadIsEmpty(e)' /\ ActiveInv(e)' /\ CleaningInv(e)' /\ TunInv(e)'
      BY <1>1, <1>2, <1>3, <1>5 DEF DeadIsEmpty, ActiveInv, CleaningInv, TunInv, Alive
    <2> QED
      BY <1>5, <2>1, <2>2, <2>3 DEF ExtInv, Moved
  <1>6. CASE /\ pc[e] = "acquire" /\ pc'[e] = "unbound"
             /\ journal' = journal /\ extLease' = extLease
    <2>1. LeaseInv(e)' /\ BindInv(e)'
      BY <1>2, <1>3, <1>6 DEF ExtInv, LeaseInv, BindInv, Owner, Binding
    <2>2. DeadIsEmpty(e)' /\ ActiveInv(e)' /\ CleaningInv(e)' /\ TunInv(e)'
      BY <1>1, <1>2, <1>3, <1>6 DEF DeadIsEmpty, ActiveInv, CleaningInv, TunInv, Alive
    <2> QED
      BY <1>6, <2>1, <2>2 DEF ExtInv, Moved
  <1>7. CASE BindAttach(e)
    BY <1>4, <1>5, <1>7 DEF BindAttach, At, Moves, AbilityType, CanUpgradeAttached,
       CanRebindAttached
  <1>8. CASE BindError(e)
    BY <1>5, <1>6, <1>8 DEF BindError, Moves, AbilityType
  <1> QED
    BY <1>7, <1>8

(* The binding is published and the session becomes the active one.        *)
LEMMA BindPublishOwn ==
    ASSUME TypeInv, FramesInv, NEW e \in Exts, ExtInv(e), BindPublish(e)
    PROVE  ExtInv(e)' /\ Moved(e)
  <1> USE DEF TypeInv, TypeOK
  <1> DEFINE f == Synced(e)
             g == [f EXCEPT !.owner = e, !.attached = TRUE,
                            !.cleanup = f.attached /\ f.cleanup]
  <1>0. e \in Procs /\ nextAttempt \in Nat \ {0}
    BY MaxAttemptsAssumption DEF Procs, PluginType
  <1>1. Alive(e) /\ pc[e] = "publish"
    BY DEF BindPublish, At
  <1>2. /\ UNCHANGED <<journal, status, req, conn, creating, tun, cleaning>>
        /\ act'[e] = req[e] /\ pc'[e] = "bound"
    BY DEF BindPublish, Moves, AbilityType
  <1>3. f \in Frames /\ f.attempt = Mine(e).attempt /\ Sound(f)
    BY <1>0, SyncedType, SyncedSound
  <1>4. g.attempt = f.attempt
    BY <1>3 DEF Frames
  <1>5. Mine(e)' = g
    BY <1>0 DEF BindPublish, Store, Mine, LanesType
  <1>6. /\ Owner(e, req[e]) /\ req[e] # NoAttempt
        /\ cleaning[e].pc = "none" /\ creating[e] = NoAttempt /\ tun[e] = NoAttempt
    BY <1>1 DEF ExtInv, BindInv, Binding
  <1>7. Mine(e).attempt = req[e] /\ journal.attempt = req[e] /\ extLease.attempt = req[e]
    BY <1>1, <1>6 DEF ExtInv, LeaseInv, Owner
  <1>8. extLease' = extLease
    BY <1>3, <1>6, <1>7 DEF BindPublish, LeasesFollow, Sound
  <1> HIDE DEF g
  <1>9. Owner(e, req[e])'
    BY <1>2, <1>6, <1>8 DEF Owner
  <1>10. LeaseInv(e)' /\ BindInv(e)' /\ ActiveInv(e)'
    BY <1>2, <1>3, <1>4, <1>5, <1>6, <1>7, <1>8, <1>9
       DEF LeaseInv, BindInv, ActiveInv, Binding, Unowned
  <1>11. DeadIsEmpty(e)' /\ CleaningInv(e)' /\ TunInv(e)'
    BY <1>1, <1>2, <1>6 DEF DeadIsEmpty, CleaningInv, TunInv, Alive
  <1> QED
    BY <1>2, <1>8, <1>10, <1>11 DEF ExtInv, Moved

(* The state of e may become terminal, and stays of the same attempt.      *)
Progresses(e) ==
    /\ Mine(e)'.attempt = Mine(e).attempt
    /\ Mine(e).outcome \in Terminal => Mine(e)'.outcome \in Terminal

(* A request that owns nothing ends or moves on.                           *)
LEMMA LeaveOwn ==
    ASSUME TypeInv, NEW e \in Exts, ExtInv(e), Alive(e), Progresses(e),
           UNCHANGED <<journal, extLease, status, act, conn, creating, tun>>,
           act[e] = NoAttempt, pc[e] \notin Binding,
           pc'[e] \in {"idle", "unbound", "settle"},
           pc'[e] # "idle" => pc[e] # "idle" /\ req'[e] = req[e],
           \/ cleaning'[e] = cleaning[e]
           \/ cleaning[e].pc = "failed" /\ cleaning'[e] = NoCleanup
    PROVE  ExtInv(e)' /\ Moved(e)
  <1>1. \A a : Owner(e, a)' <=> Owner(e, a)
    BY DEF Owner
  <1>2. ~conn[e]
    BY DEF ExtInv, ActiveInv
  <1>3. LeaseInv(e)' /\ BindInv(e)'
    BY <1>1 DEF ExtInv, LeaseInv, BindInv, Progresses, Binding
  <1>4. DeadIsEmpty(e)' /\ ActiveInv(e)'
    BY <1>2 DEF DeadIsEmpty, ActiveInv, Alive
  <1>5. CleaningInv(e)' /\ TunInv(e)'
    BY <1>1, <1>2 DEF ExtInv, CleaningInv, TunInv, Progresses, NoCleanup
  <1> QED
    BY <1>3, <1>4, <1>5 DEF ExtInv, Moved

(* The chain of e goes on with the session it owns, or stays where it is.  *)
LEMMA ChainOwn ==
    ASSUME TypeInv, NEW e \in Exts, ExtInv(e), Alive(e), Progresses(e),
           UNCHANGED <<journal, extLease, status, req, act, conn, creating, tun,
                       cleaning>>,
           pc[e] \notin Unowned, pc'[e] \notin Unowned,
           pc'[e] \in {"bound", "starting", "network"}
               => pc[e] \in {"bound", "starting", "network"}
    PROVE  ExtInv(e)' /\ Moved(e)
  <1>1. \A a : Owner(e, a)' <=> Owner(e, a)
    BY DEF Owner
  <1>2. LeaseInv(e)' /\ BindInv(e)'
    BY <1>1 DEF ExtInv, LeaseInv, BindInv, Progresses, Binding, Unowned
  <1>3. DeadIsEmpty(e)' /\ ActiveInv(e)'
    BY <1>1 DEF ExtInv, DeadIsEmpty, ActiveInv, Alive
  <1>4. CleaningInv(e)' /\ TunInv(e)'
    BY <1>1 DEF ExtInv, CleaningInv, TunInv, Progresses
  <1> QED
    BY <1>2, <1>3, <1>4 DEF ExtInv, Moved

(* A local operation of e on the state it has synchronised.                *)
LEMMA LocalProgress ==
    ASSUME TypeInv, FramesInv, NEW e \in Exts, ExtInv(e), pc[e] # "attach",
           NEW f, NEW b, LocalOp(e, f, b), f.attempt = Synced(e).attempt,
           f.cleanup => Synced(e).cleanup,
           Synced(e).outcome \in Terminal => f.outcome \in Terminal
    PROVE  journal' = journal /\ extLease' = extLease /\ Progresses(e)
  <1> USE DEF TypeInv, TypeOK
  <1>0. e \in Procs /\ nextAttempt \in Nat \ {0}
    BY MaxAttemptsAssumption DEF Procs, PluginType
  <1>1. Synced(e).attempt = Mine(e).attempt
    BY <1>0, SyncedSound
  <1>2. journal' = journal /\ extLease' = extLease /\ Mine(e)' = f
    BY <1>1, LocalShared
  <1> QED
    BY <1>1, <1>2, SyncedTerminal DEF Progresses

(* Storing a frame of the same attempt without a local operation.          *)
LEMMA StoreProgress ==
    ASSUME TypeInv, NEW e \in Exts, NEW f, NEW s, NEW b, Store(e, f, s, b),
           f.attempt = Mine(e).attempt,
           Mine(e).outcome \in Terminal => f.outcome \in Terminal
    PROVE  Progresses(e)
  <1> USE DEF TypeInv, TypeOK
  <1>0. e \in Procs
    BY DEF Procs
  <1>1. Mine(e)' = f
    BY <1>0 DEF Store, Mine, LanesType
  <1> QED
    BY <1>1 DEF Progresses

(* A tick of the Extension.                                                *)
LEMMA TickProgress ==
    ASSUME TypeInv, FramesInv, NEW e \in Exts, ExtInv(e), pc[e] # "attach", Tick(e)
    PROVE  journal' = journal /\ extLease' = extLease /\ Progresses(e)
  <1> USE DEF TypeInv, TypeOK
  <1> DEFINE f == Synced(e)
  <1>0. e \in Procs
    BY DEF Procs
  <1>1. f \in Frames
    BY <1>0, SyncedType
  <1>2. Ticked(e, f).attempt = f.attempt /\ Ticked(e, f).cleanup = f.cleanup
    BY <1>1 DEF Ticked, FailedFrame, Frames
  <1>3. f.outcome \in Terminal => Ticked(e, f) = f
    BY DEF Ticked, Lifecycle, Accepts, ActiveFor, Terminal
  <1> QED
    BY <1>2, <1>3, LocalProgress DEF Tick

(* A request that failed before it owned anything.                         *)
LEMMA UnboundOwn ==
    ASSUME TypeInv, FramesInv, NEW e \in Exts, ExtInv(e), Unbound(e)
    PROVE  ExtInv(e)' /\ Moved(e)
  <1> USE DEF TypeInv, TypeOK
  <1> DEFINE f == Synced(e)
  <1>0. e \in Procs /\ nextAttempt \in Nat \ {0}
    BY MaxAttemptsAssumption DEF Procs, PluginType
  <1>1. /\ Alive(e) /\ pc[e] = "unbound" /\ act[e] = NoAttempt
        /\ UNCHANGED <<status, act, conn, creating, tun, cleaning>>
    BY DEF Unbound, At, ExtInv, ActiveInv, Unowned
  <1>2. CASE LocalOp(e, f, FALSE) /\ Moves(e, "idle")
    <2>1. journal' = journal /\ extLease' = extLease /\ Progresses(e)
      BY <1>1, <1>2, LocalProgress
    <2>2. pc'[e] = "idle"
      BY <1>2 DEF Moves, AbilityType
    <2> QED
      BY <1>1, <2>1, <2>2, LeaveOwn DEF Binding
  <1>3. CASE /\ FailsUnattached(f, req[e]) /\ journal' = NoJournal
             /\ Store(e, FailedUnattached(f), TRUE, FALSE)
             /\ LeasesFollow(e, FailedUnattached(f))
             /\ Moves(e, "settle") /\ UNCHANGED req
    <2>1. journal.phase = "Pending" /\ journal.extension = None
      BY <1>3 DEF FailsUnattached, CanDeletePending
    <2>2. \A a : ~Owner(e, a)
      BY <2>1 DEF Owner
    <2>3. extLease.holder # e
      BY <1>1, <2>2, HolderOwns
    <2>4. extLease' = extLease
      BY <1>3, <2>3 DEF LeasesFollow, ReleasedBy
    <2>5. pc'[e] = "settle" /\ req'[e] = req[e]
      BY <1>3 DEF Moves, AbilityType
    <2>6. tun[e] = NoAttempt /\ creating[e] = NoAttempt /\ ~conn[e]
      BY <1>1, <2>2 DEF ExtInv, TunInv, ActiveInv
    <2>7. LeaseInv(e)' /\ BindInv(e)'
      BY <1>1, <2>3, <2>4, <2>5 DEF ExtInv, LeaseInv, BindInv, Binding
    <2>8. DeadIsEmpty(e)' /\ ActiveInv(e)'
      BY <1>1, <2>5, <2>6 DEF DeadIsEmpty, ActiveInv, Alive
    <2>9. CleaningInv(e)' /\ TunInv(e)'
      BY <1>1, <2>2, <2>6 DEF ExtInv, CleaningInv, TunInv
    <2> QED
      BY <1>3, <2>1, <2>4, <2>7, <2>8, <2>9 DEF ExtInv, Moved
  <1> QED
    BY <1>2, <1>3 DEF Unbound

-----------------------------------------------------------------------------
(* The steps of an Extension, seen by itself: cleanup *)

(* While a cleanup is at work there is no session, and the chain does not  *)
(* bind.                                                                   *)
LEMMA CleaningFacts ==
    ASSUME TypeInv, NEW e \in Exts, ExtInv(e), Alive(e), cleaning[e].pc # "none"
    PROVE  /\ act[e] = NoAttempt /\ ~conn[e]
           /\ pc[e] \notin Binding
           /\ pc[e] \notin {"bound", "starting", "network"}
  BY DEF ExtInv, ActiveInv, BindInv, Binding

(* A step of the cleanup that keeps the ownership.                         *)
LEMMA CleanupOwn ==
    ASSUME TypeInv, NEW e \in Exts, ExtInv(e), Alive(e), Progresses(e),
           UNCHANGED <<journal, extLease, status, pc, req, act, conn, creating>>,
           cleaning[e].pc \in {"stop", "destroy", "ack"},
           cleaning'[e].pc \in {"destroy", "ack", "failed"},
           cleaning'[e].attempt = cleaning[e].attempt,
           cleaning'[e].conn = cleaning[e].conn,
           Mine(e)'.outcome \in Terminal,
           \/ tun'[e] = tun[e] /\ cleaning'[e].pc \in {"destroy", "failed"}
              /\ (cleaning'[e].pc = "destroy" => cleaning[e].pc = "stop")
           \/ tun'[e] = NoAttempt /\ creating[e] = NoAttempt
           \/ tun'[e] = tun[e] /\ cleaning[e].pc = "ack"
           \/ tun'[e] = tun[e] /\ ~cleaning[e].conn
    PROVE  ExtInv(e)' /\ Moved(e)
  <1>1. \A a : Owner(e, a)' <=> Owner(e, a)
    BY DEF Owner
  <1>2. act[e] = NoAttempt /\ ~conn[e] /\ pc[e] \notin Binding
        /\ pc[e] \notin {"bound", "starting", "network"}
    BY CleaningFacts
  <1>3. LeaseInv(e)' /\ BindInv(e)'
    BY <1>1, <1>2 DEF ExtInv, LeaseInv, BindInv, Progresses, Binding
  <1>4. DeadIsEmpty(e)' /\ ActiveInv(e)'
    BY <1>2 DEF DeadIsEmpty, ActiveInv, Alive
  <1>5. CleaningInv(e)'
    BY <1>1 DEF ExtInv, CleaningInv
  <1>6. TunInv(e)'
    <2>1. CASE tun[e] = NoAttempt /\ creating[e] = NoAttempt
      BY <2>1 DEF TunInv
    <2>2. CASE tun'[e] = NoAttempt /\ creating[e] = NoAttempt
      BY <2>2 DEF TunInv
    <2>3. CASE /\ tun[e] # NoAttempt \/ creating[e] # NoAttempt
               /\ tun'[e] = tun[e]
      <3>1. cleaning[e].pc \in {"stop", "destroy"} /\ cleaning[e].conn
        BY <1>2, <2>3 DEF ExtInv, TunInv
      <3> QED
        BY <1>1, <1>2, <2>2, <2>3, <3>1 DEF ExtInv, TunInv
    <2> QED
      BY <2>1, <2>2, <2>3
  <1> QED
    BY <1>3, <1>4, <1>5, <1>6 DEF ExtInv, Moved

(* stop_platform_vpn stops the attempt of its own lease.                   *)
LEMMA StopNativeOwn ==
    ASSUME TypeInv, FramesInv, NEW e \in Exts, ExtInv(e), StopNative(e)
    PROVE  ExtInv(e)' /\ Moved(e)
  <1> USE DEF TypeInv, TypeOK
  <1> DEFINE f == Synced(e)
             ours == f.attempt = cleaning[e].attempt
             g == IF ours THEN StoppedFrame(f) ELSE f
  <1>0. e \in Procs /\ nextAttempt \in Nat \ {0}
    BY MaxAttemptsAssumption DEF Procs, PluginType
  <1>1. /\ Alive(e) /\ cleaning[e].pc = "stop"
        /\ LocalOp(e, g, ours) /\ Cleans(e, "destroy")
        /\ UNCHANGED <<status, pc, req, act, conn, creating, tun>>
    BY DEF StopNative, CleaningAt
  <1>2. f \in Frames /\ f.attempt = Mine(e).attempt
    BY <1>0, SyncedType, SyncedSound
  <1>3. pc[e] # "attach"
    BY <1>1, CleaningFacts DEF Binding
  <1>4. Owner(e, cleaning[e].attempt)
    BY <1>1 DEF ExtInv, CleaningInv
  <1>5. ours
    BY <1>2, <1>3, <1>4, HolderOwns DEF Owner
  <1>6. /\ StoppedFrame(f).attempt = f.attempt
        /\ StoppedFrame(f).cleanup = f.cleanup
        /\ StoppedFrame(f).outcome \in Terminal
    BY <1>2 DEF StoppedFrame, Frames, Terminal
  <1>7. LocalOp(e, StoppedFrame(f), ours)
    BY <1>1, <1>5
  <1>8. journal' = journal /\ extLease' = extLease /\ Mine(e)' = StoppedFrame(f)
    BY <1>2, <1>3, <1>6, <1>7, LocalShared
  <1>9. Progresses(e) /\ Mine(e)'.outcome \in Terminal
    BY <1>2, <1>6, <1>8 DEF Progresses
  <1>10. cleaning'[e].pc = "destroy" /\ cleaning'[e].attempt = cleaning[e].attempt
         /\ cleaning'[e].conn = cleaning[e].conn
    BY <1>1 DEF Cleans, AbilityType, Cleanups
  <1> QED
    BY <1>1, <1>8, <1>9, <1>10, CleanupOwn

(* destroy() resolves, or the cleanup fails.                               *)
LEMMA DestroyOwn ==
    ASSUME TypeInv, NEW e \in Exts, ExtInv(e), Destroy(e) \/ CleanupError(e)
    PROVE  ExtInv(e)' /\ Moved(e)
  <1> USE DEF TypeInv, TypeOK
  <1>1. /\ Alive(e) /\ cleaning[e].pc \in {"destroy", "ack"} /\ ConnectionIdle(e)
        /\ UNCHANGED <<journal, extLease, status, pc, req, act, conn, creating>>
        /\ Mine(e)' = Mine(e)
    BY DEF Destroy, CleanupError, CleaningAt, shared, lanes, Mine
  <1>2. cleaning[e].attempt # NoAttempt /\ Mine(e).outcome \in Terminal
    BY <1>1 DEF ExtInv, CleaningInv
  <1>3. /\ \/ cleaning'[e].pc = "ack" /\ Destroy(e)
           \/ cleaning'[e].pc = "failed" /\ CleanupError(e)
        /\ cleaning'[e].attempt = cleaning[e].attempt
        /\ cleaning'[e].conn = cleaning[e].conn
    BY <1>2 DEF Destroy, CleanupError, Cleans, AbilityType, Cleanups
  <1>4. Progresses(e)
    BY <1>1 DEF Progresses
  <1>5. CASE Destroy(e) /\ cleaning[e].conn
    <2>1. tun'[e] = NoAttempt /\ creating[e] = NoAttempt
      BY <1>1, <1>5 DEF Destroy, ConnectionIdle, AbilityType
    <2> QED
      BY <1>1, <1>2, <1>3, <1>4, <2>1, CleanupOwn
  <1>6. CASE Destroy(e) /\ ~cleaning[e].conn
    <2>1. tun'[e] = tun[e]
      BY <1>6 DEF Destroy, AbilityType
    <2> QED
      BY <1>1, <1>2, <1>3, <1>4, <1>6, <2>1, CleanupOwn
  <1>7. CASE ~Destroy(e)
    <2>1. tun' = tun /\ cleaning'[e].pc = "failed"
      BY <1>3, <1>7 DEF CleanupError
    <2> QED
      BY <1>1, <1>2, <1>3, <1>4, <2>1, CleanupOwn
  <1> QED
    BY <1>5, <1>6, <1>7

(* The acknowledgement deletes the record once nothing is left to own.     *)
LEMMA AckOwn ==
    ASSUME TypeInv, FramesInv, NEW e \in Exts, ExtInv(e), Ack(e)
    PROVE  ExtInv(e)' /\ Moved(e)
  <1> USE DEF TypeInv, TypeOK
  <1> DEFINE f == Synced(e)
  <1>0. e \in Procs /\ nextAttempt \in Nat \ {0}
    BY MaxAttemptsAssumption DEF Procs, PluginType
  <1>1. /\ Alive(e) /\ cleaning[e].pc = "ack"
        /\ UNCHANGED <<status, pc, req, act, conn, creating, tun>>
    BY DEF Ack, CleaningAt
  <1>2. /\ act[e] = NoAttempt /\ ~conn[e] /\ pc[e] \notin Binding
        /\ pc[e] \notin {"bound", "starting", "network"}
    BY <1>1, CleaningFacts
  <1>3. f \in Frames /\ f.attempt = Mine(e).attempt /\ Sound(f)
    BY <1>0, SyncedType, SyncedSound
  <1>4. /\ Owner(e, cleaning[e].attempt) /\ cleaning[e].attempt # NoAttempt
        /\ Mine(e).outcome \in Terminal
    BY <1>1 DEF ExtInv, CleaningInv
  <1>5. tun[e] = NoAttempt /\ creating[e] = NoAttempt
    BY <1>1, <1>2 DEF ExtInv, TunInv
  <1>6. CASE /\ journal' = NoJournal
             /\ LeasesFollow(e, CleanedFrame(f))
             /\ Cleans(e, "acked")
    <2>1. cleaning'[e].pc = "acked"
      BY <1>6 DEF Cleans, AbilityType, Cleanups
    <2>2. extLease.holder = e /\ journal.extension = e
      BY <1>4 DEF Owner
    <2>3. extLease' = FreeLease
      BY <1>3, <1>6, <2>2 DEF LeasesFollow, ReleasedBy, CleanedFrame, Frames
    <2>4. extLease'.holder = None /\ extLease'.holder # e /\ journal'.extension # e
      BY <1>6, <2>3, ProcessAssumption DEF FreeLease, NoJournal
    <2>5. DeadIsEmpty(e)' /\ LeaseInv(e)' /\ BindInv(e)'
      BY <1>1, <1>2, <2>4 DEF DeadIsEmpty, ExtInv, LeaseInv, BindInv, Binding, Alive
    <2>6. ActiveInv(e)' /\ CleaningInv(e)' /\ TunInv(e)'
      BY <1>1, <1>2, <1>5, <2>1 DEF ActiveInv, CleaningInv, TunInv
    <2> QED
      BY <1>6, <2>2, <2>4, <2>5, <2>6 DEF ExtInv, Moved
  <1>7. CASE /\ LocalOp(e, f, FALSE)
             /\ \/ f.attempt = cleaning[e].attempt /\ f.cleanup
                \/ Cleans(e, "failed")
    <2>1. journal' = journal /\ extLease' = extLease /\ Progresses(e)
      BY <1>2, <1>7, LocalProgress DEF Binding
    <2>2. ~(f.attempt = cleaning[e].attempt /\ f.cleanup)
      BY <1>3, <1>4 DEF Sound, Owner
    <2>3. cleaning'[e].pc = "failed" /\ cleaning'[e].attempt = cleaning[e].attempt
          /\ cleaning'[e].conn = cleaning[e].conn
      BY <1>7, <2>2 DEF Cleans, AbilityType, Cleanups
    <2>4. Mine(e)'.outcome \in Terminal
      BY <1>4, <2>1 DEF Progresses
    <2> QED
      BY <1>1, <2>1, <2>3, <2>4, CleanupOwn
  <1> QED
    BY <1>6, <1>7 DEF Ack

(* Once acknowledged, the cleanup is over.                                 *)
LEMMA AckPublishOwn ==
    ASSUME TypeInv, NEW e \in Exts, ExtInv(e), AckPublish(e)
    PROVE  ExtInv(e)' /\ Moved(e)
  <1> USE DEF TypeInv, TypeOK
  <1>1. /\ Alive(e) /\ cleaning[e].pc = "acked"
        /\ UNCHANGED <<journal, extLease, status, pc, req, act, conn, creating, tun>>
        /\ cleaning'[e] = NoCleanup
    BY DEF AckPublish, CleaningAt, shared, AbilityType
  <1>2. Progresses(e)
    BY StoreProgress DEF AckPublish
  <1>3. /\ act[e] = NoAttempt /\ ~conn[e] /\ pc[e] \notin Binding
        /\ pc[e] \notin {"bound", "starting", "network"}
    BY <1>1, CleaningFacts
  <1>4. tun[e] = NoAttempt /\ creating[e] = NoAttempt
    BY <1>1, <1>3 DEF ExtInv, TunInv
  <1>5. LeaseInv(e)' /\ BindInv(e)'
    BY <1>1, <1>2, <1>3 DEF ExtInv, LeaseInv, BindInv, Progresses, Binding, Owner
  <1>6. DeadIsEmpty(e)' /\ ActiveInv(e)' /\ CleaningInv(e)' /\ TunInv(e)'
    BY <1>1, <1>3, <1>4
       DEF DeadIsEmpty, ActiveInv, CleaningInv, TunInv, NoCleanup, Alive
  <1> QED
    BY <1>1, <1>5, <1>6 DEF ExtInv, Moved

(* A process that dies owns nothing.                                       *)
LEMMA ExtCrashOwn ==
    ASSUME TypeInv, NEW e \in Exts, ExtInv(e), ExtCrash(e)
    PROVE  ExtInv(e)' /\ Moved(e)
  <1> USE DEF TypeInv, TypeOK
  <1>0. e \in Procs
    BY DEF Procs
  <1>1. /\ status'[e] = "dead" /\ pc'[e] = "idle" /\ act'[e] = NoAttempt
        /\ ~conn'[e] /\ creating'[e] = NoAttempt /\ tun'[e] = NoAttempt
        /\ cleaning'[e].pc = "none" /\ journal' = journal
    BY <1>0 DEF ExtCrash, AbilityType, NoCleanup
  <1>2. /\ extLease' = ReleasedBy(extLease, e)
        /\ extLease'.holder # e
    BY ProcessAssumption DEF ExtCrash, ReleasedBy, FreeLease
  <1>3. ExtInv(e)'
    BY <1>1, <1>2 DEF ExtInv, DeadIsEmpty, LeaseInv, BindInv, ActiveInv,
       CleaningInv, TunInv, Binding
  <1> QED
    BY <1>1, <1>2, <1>3 DEF Moved, ReleasedBy, FreeLease

-----------------------------------------------------------------------------
(* The steps of an Extension, seen by itself: all of them                  *)

(* A step of the chain that ends with destroyVpn.                          *)
LEMMA EndsOwn ==
    ASSUME TypeInv, NEW e \in Exts, ExtInv(e), Alive(e), Progresses(e),
           UNCHANGED <<journal, extLease, status, snap, creating, tun>>,
           DestroyVpn(e), EndRequest(e), pc[e] \notin Binding
    PROVE  ExtInv(e)' /\ Moved(e)
  <1>1. pc'[e] = "idle"
    BY DEF EndRequest, Moves, TypeInv, TypeOK, AbilityType
  <1>2. ExtInv(e)'
    BY <1>1, DestroyVpnOwn DEF Progresses
  <1> QED
    BY <1>2 DEF Moved

(* create() is called, and settles.                                        *)
LEMMA CreateOwn ==
    ASSUME TypeInv, NEW e \in Exts, ExtInv(e), CreateCall(e) \/ CreateSettles(e)
    PROVE  ExtInv(e)' /\ Moved(e)
  <1> USE DEF TypeInv, TypeOK
  <1>1. CASE CreateCall(e)
    <2>1. /\ Alive(e) /\ pc[e] = "network"
          /\ UNCHANGED <<journal, extLease, status, req, act, tun, cleaning>>
          /\ Mine(e)' = Mine(e)
          /\ pc'[e] = "creating" /\ conn'[e] /\ creating'[e] = req[e]
      BY <1>1 DEF CreateCall, At, Moves, AbilityType, shared, lanes, Mine
    <2>2. \A a : Owner(e, a)' <=> Owner(e, a)
      BY <2>1 DEF Owner
    <2>3. act[e] = req[e] /\ req[e] # NoAttempt
      BY <2>1 DEF ExtInv, ActiveInv, BindInv
    <2>4. LeaseInv(e)' /\ BindInv(e)'
      BY <2>1, <2>2 DEF ExtInv, LeaseInv, BindInv, Binding
    <2>5. DeadIsEmpty(e)' /\ ActiveInv(e)'
      BY <2>1, <2>2, <2>3 DEF ExtInv, DeadIsEmpty, ActiveInv, Alive, Unowned, Binding
    <2>6. CleaningInv(e)'
      BY <2>1, <2>2 DEF ExtInv, CleaningInv
    <2>7. TunInv(e)'
      BY <2>1, <2>2, <2>3 DEF ExtInv, TunInv, ActiveInv
    <2> QED
      BY <2>1, <2>4, <2>5, <2>6, <2>7 DEF ExtInv, Moved
  <1>2. CASE CreateSettles(e)
    <2>1. /\ Alive(e) /\ creating[e] # NoAttempt
          /\ UNCHANGED <<journal, extLease, status, pc, req, act, snap, conn, cleaning>>
          /\ Mine(e)' = Mine(e)
          /\ creating'[e] = NoAttempt
          /\ tun'[e] \in {tun[e], creating[e]}
      BY <1>2 DEF CreateSettles, AbilityType, shared, lanes, Mine
    <2>2. \A a : Owner(e, a)' <=> Owner(e, a)
      BY <2>1 DEF Owner
    <2>3. LeaseInv(e)' /\ BindInv(e)'
      BY <2>1, <2>2 DEF ExtInv, LeaseInv, BindInv
    <2>4. DeadIsEmpty(e)' /\ ActiveInv(e)' /\ CleaningInv(e)'
      BY <2>1, <2>2 DEF ExtInv, DeadIsEmpty, ActiveInv, CleaningInv, Alive
    <2>5. TunInv(e)'
      BY <2>1, <2>2 DEF ExtInv, TunInv
    <2> QED
      BY <2>1, <2>3, <2>4, <2>5 DEF ExtInv, Moved
  <1> QED
    BY <1>1, <1>2

(* A step of an Extension keeps what it knows, and touches the journal and *)
(* the lease only as their holder.                                         *)
LEMMA ExtNextOwn ==
    ASSUME TypeInv, FramesInv, JournalInv, Punctual, NEW e \in Exts, ExtInv(e),
           ExtNext(e)
    PROVE  ExtInv(e)' /\ Moved(e)
  <1> USE DEF TypeInv, TypeOK
  <1> DEFINE f == Synced(e)
  <1>0. e \in Procs
    BY DEF Procs
  <1>1. f \in Frames /\ Mine(e) \in Frames
    BY <1>0, SyncedType
  <1>2. CASE \E w \in wants : Deliver(e, w)
    BY <1>2, DeliverOwn DEF Deliver, Moved, shared
  <1>3. CASE BindSync(e)
    BY <1>3, BindSyncOwn DEF Moved
  <1>4. CASE BindAcquire(e) \/ BindAttach(e) \/ BindError(e) \/ BindPublish(e)
             \/ Unbound(e)
    BY <1>4, BindAcquireOwn, BindAttachOwn, BindPublishOwn, UnboundOwn
  <1>5. CASE \/ StopNative(e) \/ Destroy(e) \/ CleanupError(e) \/ Ack(e)
             \/ AckPublish(e) \/ ExtCrash(e) \/ CreateCall(e) \/ CreateSettles(e)
    BY <1>5, StopNativeOwn, DestroyOwn, AckOwn, AckPublishOwn, ExtCrashOwn, CreateOwn
  <1>6. CASE RequestRefused(e)
    <2>1. /\ Alive(e) /\ pc[e] = "request" /\ cleaning[e].pc = "failed"
          /\ cleaning'[e] = NoCleanup /\ pc'[e] = "unbound" /\ req'[e] = req[e]
          /\ UNCHANGED <<journal, extLease, status, act, conn, creating, tun>>
          /\ Mine(e)' = Mine(e)
      BY <1>6 DEF RequestRefused, At, Moves, AbilityType, shared, lanes, Mine
    <2>2. act[e] = NoAttempt /\ Progresses(e)
      BY <2>1, CleaningFacts DEF Progresses
    <2> QED
      BY <2>1, <2>2, LeaveOwn DEF Binding
  <1>7. CASE Settle(e)
    <2>1. /\ Alive(e) /\ pc[e] = "settle" /\ pc'[e] = "idle"
          /\ UNCHANGED <<journal, extLease, status, act, conn, creating, tun, cleaning>>
      BY <1>7 DEF Settle, At, Moves, AbilityType, shared
    <2>2. Progresses(e)
      BY <1>7, StoreProgress DEF Settle
    <2>3. act[e] = NoAttempt
      BY <2>1 DEF ExtInv, ActiveInv, Unowned
    <2> QED
      BY <2>1, <2>2, <2>3, LeaveOwn DEF Binding
  <1>8. CASE BoundTick(e) \/ Heartbeat(e)
    <2>1. /\ Alive(e) /\ pc[e] \in {"bound", "connected"} /\ Tick(e)
          /\ UNCHANGED <<status, snap, creating, tun>>
      BY <1>8 DEF BoundTick, Heartbeat, At
    <2>2. journal' = journal /\ extLease' = extLease /\ Progresses(e)
      BY <2>1, TickProgress
    <2>3. CASE DestroyVpn(e) /\ EndRequest(e)
      BY <2>1, <2>2, <2>3, EndsOwn DEF Binding
    <2>4. CASE /\ UNCHANGED <<req, act, conn, cleaning>>
               /\ \/ pc[e] = "bound" /\ pc'[e] = "starting"
                  \/ pc[e] = "connected" /\ pc'[e] = pc[e]
      BY <2>1, <2>2, <2>4, ChainOwn DEF Unowned, Binding
    <2> QED
      BY <1>8, <2>3, <2>4 DEF BoundTick, Heartbeat, At, Moves, AbilityType
  <1>9. CASE CreateReturns(e)
    <2>1. /\ Alive(e) /\ pc[e] = "creating"
          /\ UNCHANGED <<journal, extLease, status, snap, creating, tun>>
          /\ Mine(e)' = Mine(e)
      BY <1>9 DEF CreateReturns, At, shared, lanes, Mine
    <2>2. Progresses(e)
      BY <2>1 DEF Progresses
    <2>3. CASE DestroyVpn(e) /\ EndRequest(e)
      BY <2>1, <2>2, <2>3, EndsOwn DEF Binding
    <2>4. CASE UNCHANGED <<req, act, conn, cleaning>> /\ pc'[e] = "created"
      BY <2>1, <2>2, <2>4, ChainOwn DEF Unowned, Binding
    <2> QED
      BY <1>9, <2>3, <2>4 DEF CreateReturns, Moves, AbilityType
  <1>10. CASE ChainFails(e)
    <2>1. /\ Alive(e) /\ pc[e] = "failing" /\ EndRequest(e) /\ pc'[e] = "idle"
          /\ UNCHANGED <<status, snap, creating, tun>>
      BY <1>10 DEF ChainFails, At, EndRequest, Moves, AbilityType
    <2>2. CASE Current(e)
      <3> DEFINE g == IF Accepts(f, req[e]) THEN FailedFrame(f) ELSE f
      <3>1. LocalOp(e, g, Accepts(f, req[e])) /\ DestroyVpn(e)
        BY <1>10, <2>2 DEF ChainFails
      <3>2. /\ g.attempt = f.attempt /\ g.cleanup = f.cleanup
            /\ f.outcome \in Terminal => g.outcome \in Terminal
        BY <1>1 DEF FailedFrame, Frames, Terminal
      <3> HIDE DEF g
      <3>3. journal' = journal /\ extLease' = extLease /\ Progresses(e)
        BY <2>1, <3>1, <3>2, LocalProgress
      <3> QED
        BY <2>1, <3>1, <3>3, EndsOwn DEF Binding
    <2>3. CASE ~Current(e)
      <3>1. UNCHANGED <<journal, extLease, act, conn, cleaning>> /\ Mine(e)' = Mine(e)
        BY <1>10, <2>3 DEF ChainFails, shared, lanes, Mine
      <3>2. act[e] = NoAttempt /\ Progresses(e)
        BY <2>3, <3>1 DEF Current, ExtInv, ActiveInv, Progresses
      <3> QED
        BY <2>1, <3>1, <3>2, LeaveOwn DEF Binding
    <2> QED
      BY <2>2, <2>3
  <1>11. CASE SetStarting(e)
    <2> DEFINE ok == Accepts(f, req[e]) /\ f.outcome = "Pending"
               g == IF ok THEN [f EXCEPT !.starting = TRUE, !.running = FALSE] ELSE f
    <2>1. /\ Alive(e) /\ pc[e] = "starting" /\ LocalOp(e, g, ok)
          /\ UNCHANGED <<status, req, act, conn, creating, tun, cleaning>>
          /\ pc'[e] \in {"network", "failing"}
      BY <1>11 DEF SetStarting, At, Moves, AbilityType
    <2>2. g.attempt = f.attempt /\ g.cleanup = f.cleanup /\ g.outcome = f.outcome
      BY <1>1 DEF Frames
    <2> HIDE DEF g, ok
    <2>3. journal' = journal /\ extLease' = extLease /\ Progresses(e)
      BY <2>1, <2>2, LocalProgress
    <2> QED
      BY <2>1, <2>3, ChainOwn DEF Unowned, Binding
  <1>12. CASE Protect(e)
    <2>1. /\ Alive(e) /\ pc[e] = "created"
          /\ LocalOp(e, f, Accepts(f, req[e]))
          /\ UNCHANGED <<status, req, act, conn, creating, tun, cleaning>>
          /\ pc'[e] \in {"protected", "failing"}
      BY <1>12 DEF Protect, At, Moves, AbilityType
    <2>2. journal' = journal /\ extLease' = extLease /\ Progresses(e)
      BY <2>1, LocalProgress
    <2> QED
      BY <2>1, <2>2, ChainOwn DEF Unowned, Binding
  <1>13. CASE StartEngine(e)
    <2>1. /\ Alive(e) /\ pc[e] = "protected"
          /\ LocalOp(e, f, FALSE) \/ UNCHANGED <<shared, lanes>>
          /\ UNCHANGED <<status, req, act, conn, creating, tun, cleaning>>
          /\ pc'[e] \in {"committing", "failing"}
      BY <1>13 DEF StartEngine, At, Moves, AbilityType
    <2>2. journal' = journal /\ extLease' = extLease /\ Progresses(e)
      BY <2>1, LocalProgress DEF Progresses, Mine, shared, lanes
    <2> QED
      BY <2>1, <2>2, ChainOwn DEF Unowned, Binding
  <1>14. CASE Commit(e)
    <2> DEFINE ok == Accepts(f, req[e])
               g == IF ok THEN [f EXCEPT !.starting = FALSE, !.running = TRUE,
                                         !.outcome = "Connected"] ELSE f
    <2>1. /\ Alive(e) /\ pc[e] = "committing" /\ LocalOp(e, g, ok)
          /\ UNCHANGED <<status, req, act, conn, creating, tun, cleaning>>
          /\ pc'[e] \in {"committed", "failing"}
      BY <1>14 DEF Commit, At, Moves, AbilityType
    <2>2. /\ g.attempt = f.attempt /\ g.cleanup = f.cleanup
          /\ f.outcome \in Terminal => g.outcome \in Terminal
      BY <1>1 DEF Frames, Accepts, ActiveFor, Terminal
    <2> HIDE DEF g, ok
    <2>3. journal' = journal /\ extLease' = extLease /\ Progresses(e)
      BY <2>1, <2>2, LocalProgress
    <2> QED
      BY <2>1, <2>3, ChainOwn DEF Unowned, Binding
  <1>15. CASE StartReturns(e)
    <2>1. /\ Alive(e) /\ pc[e] = "committed"
          /\ Tick(e) \/ UNCHANGED <<shared, lanes>>
          /\ UNCHANGED <<status, req, act, conn, creating, tun, cleaning>>
          /\ pc'[e] \in {"connected", "failing"}
      BY <1>15 DEF StartReturns, At, Moves, AbilityType
    <2>2. journal' = journal /\ extLease' = extLease /\ Progresses(e)
      BY <2>1, TickProgress DEF Progresses, Mine, shared, lanes
    <2> QED
      BY <2>1, <2>2, ChainOwn DEF Unowned, Binding
  <1>16. CASE StartFails(e)
    <2>1. /\ Alive(e) /\ pc[e] \in {"network", "creating", "created", "protected"}
          /\ UNCHANGED <<journal, extLease, status, req, act, conn, creating, tun, cleaning>>
          /\ pc'[e] = "failing" /\ Progresses(e)
      BY <1>16 DEF StartFails, Moves, AbilityType, shared, lanes, Progresses, Mine
    <2> QED
      BY <2>1, ChainOwn DEF Unowned, Binding
  <1>17. CASE NativeExit(e)
    <2>1. /\ Alive(e) /\ pc[e] \in {"committed", "connected"}
          /\ UNCHANGED <<journal, extLease, status, pc, req, act, conn, creating, tun,
                         cleaning>>
          /\ \/ UNCHANGED lanes
             \/ Store(e, FailedFrame(Mine(e)), FALSE, TRUE)
      BY <1>17 DEF NativeExit, shared
    <2>2. /\ FailedFrame(Mine(e)).attempt = Mine(e).attempt
          /\ FailedFrame(Mine(e)).outcome \in Terminal
      BY <1>1 DEF FailedFrame, Frames, Terminal
    <2>3. Progresses(e)
      BY <2>1, <2>2, StoreProgress DEF Progresses, Mine, lanes
    <2> QED
      BY <2>1, <2>3, ChainOwn DEF Unowned, Binding
  <1>18. CASE OnDestroy(e)
    <2>1. /\ Alive(e) /\ DestroyVpn(e) /\ Progresses(e)
          /\ pc[e] \notin Binding \cup {"bound", "starting", "network"}
          /\ UNCHANGED <<journal, extLease, status, snap, creating, tun>>
      BY <1>18 DEF OnDestroy, Punctual, Binding, shared, lanes, Progresses, Mine
    <2>2. \/ pc'[e] = "idle"
          \/ pc'[e] = pc[e] /\ req'[e] = req[e]
      BY <1>18 DEF OnDestroy, EndRequest, Moves, AbilityType
    <2>3. ExtInv(e)'
      BY <2>1, <2>2, DestroyVpnOwn DEF Progresses
    <2> QED
      BY <2>1, <2>3 DEF Moved
  <1> QED
    BY <1>2, <1>3, <1>4, <1>5, <1>6, <1>7, <1>8, <1>9, <1>10, <1>11, <1>12, <1>13,
       <1>14, <1>15, <1>16, <1>17, <1>18 DEF ExtNext, ExtRuns, ExtCleans

-----------------------------------------------------------------------------
(* A step of one Extension, seen by the others *)

(* A frame stored by p is the frame of p alone.                            *)
LEMMA StoreOther ==
    ASSUME LanesType, NEW p \in Procs, NEW q \in Procs, p # q,
           NEW f, NEW s, NEW b, Store(p, f, s, b)
    PROVE  Mine(q)' = Mine(q)
  BY DEF Store, Mine, LanesType

LEMMA LocalOther ==
    ASSUME LanesType, NEW p \in Procs, NEW q \in Procs, p # q,
           NEW f, NEW b, LocalOp(p, f, b)
    PROVE  Mine(q)' = Mine(q)
  BY StoreOther DEF LocalOp

(* No step of an Extension writes the state of another process.            *)
LEMMA ExtNextMine ==
    ASSUME TypeInv, NEW e \in Exts, NEW q \in Procs, q # e, ExtNext(e)
    PROVE  Mine(q)' = Mine(q)
  <1> USE DEF TypeInv, TypeOK
  <1>0. e \in Procs
    BY DEF Procs
  <1>1. CASE core' = core
    BY <1>1 DEF Mine
  <1>2. CASE \E f, s, b : Store(e, f, s, b)
    BY <1>0, <1>2, StoreOther
  <1>3. CASE ExtCrash(e)
    BY <1>0, <1>3 DEF ExtCrash, Mine, LanesType
  <1>4. ASSUME NEW f, NEW b, LocalOp(e, f, b) PROVE \E g, s, d : Store(e, g, s, d)
    BY <1>4 DEF LocalOp
  <1>5. CASE \/ RequestRefused(e) \/ BindAcquire(e) \/ CreateCall(e)
             \/ CreateReturns(e) \/ Destroy(e) \/ CreateSettles(e)
             \/ BindError(e) \/ StartFails(e) \/ OnDestroy(e) \/ CleanupError(e)
             \/ BindAttach(e) \/ \E w \in wants : Deliver(e, w)
    BY <1>1, <1>5 DEF RequestRefused, BindAcquire, CreateCall, CreateReturns,
       Destroy, CreateSettles, BindError, StartFails, OnDestroy, CleanupError,
       BindAttach, Deliver, lanes
  <1>6. CASE BindSync(e) \/ BoundTick(e) \/ Heartbeat(e) \/ SetStarting(e)
    BY <1>1, <1>2, <1>4, <1>6 DEF BindSync, BoundTick, Heartbeat, SetStarting,
       Tick, lanes
  <1>7. CASE Protect(e) \/ StartEngine(e) \/ Commit(e) \/ StartReturns(e)
             \/ ChainFails(e) \/ StopNative(e)
    BY <1>1, <1>2, <1>4, <1>7 DEF Protect, StartEngine, Commit, StartReturns,
       ChainFails, StopNative, Tick, lanes
  <1>8. CASE BindPublish(e) \/ Unbound(e) \/ Settle(e) \/ NativeExit(e) \/ Ack(e)
             \/ AckPublish(e)
    BY <1>1, <1>2, <1>4, <1>8 DEF BindPublish, Unbound, Settle, NativeExit, Ack,
       AckPublish, lanes
  <1> QED
    BY <1>3, <1>5, <1>6, <1>7, <1>8 DEF ExtNext, ExtRuns, ExtCleans

(* Nor the Ability of another Extension.                                   *)
LEMMA ExtNextUntouched ==
    ASSUME TypeInv, NEW e \in Exts, NEW x \in Exts, x # e, ExtNext(e)
    PROVE  Untouched(x)
  <1> USE DEF TypeInv, TypeOK
  <1>0. x \in Procs /\ e \in Procs
    BY DEF Procs
  <1>1. Mine(x)' = Mine(x)
    BY <1>0, ExtNextMine
  <1>2. /\ status'[x] = status[x] /\ pc'[x] = pc[x] /\ req'[x] = req[x]
        /\ act'[x] = act[x] /\ snap'[x] = snap[x] /\ conn'[x] = conn[x]
        /\ creating'[x] = creating[x] /\ tun'[x] = tun[x]
        /\ cleaning'[x] = cleaning[x]
    <2>1. CASE \/ RequestRefused(e) \/ BindSync(e) \/ BindAcquire(e)
               \/ BindAttach(e) \/ BindPublish(e) \/ Unbound(e) \/ Settle(e)
               \/ BindError(e) \/ \E w \in wants : Deliver(e, w)
      BY <1>0, <2>1 DEF RequestRefused, BindSync, BindAcquire, BindAttach,
         BindPublish, Unbound, Settle, BindError, Deliver, Moves, AbilityType
    <2>2. CASE \/ BoundTick(e) \/ CreateReturns(e) \/ ChainFails(e)
               \/ Heartbeat(e) \/ OnDestroy(e)
      BY <2>2 DEF BoundTick, CreateReturns, ChainFails, Heartbeat, OnDestroy,
         DestroyVpn, EndRequest, Moves, AbilityType
    <2>3. CASE \/ SetStarting(e) \/ CreateCall(e) \/ CreateSettles(e)
               \/ Protect(e) \/ StartEngine(e) \/ Commit(e)
               \/ StartReturns(e) \/ StartFails(e) \/ NativeExit(e)
      BY <2>3 DEF SetStarting, CreateCall, CreateSettles, Protect, StartEngine,
         Commit, StartReturns, StartFails, NativeExit, Moves, AbilityType
    <2>4. CASE \/ StopNative(e) \/ Destroy(e) \/ CleanupError(e) \/ Ack(e)
               \/ AckPublish(e)
      BY <2>4 DEF StopNative, Destroy, CleanupError, Ack, AckPublish, Cleans,
         AbilityType
    <2>5. CASE ExtCrash(e)
      BY <1>0, <2>5 DEF ExtCrash, AbilityType
    <2> QED
      BY <2>1, <2>2, <2>3, <2>4, <2>5 DEF ExtNext, ExtRuns, ExtCleans
  <1> QED
    BY <1>1, <1>2 DEF Untouched

(* The life of a process: an Extension that acts is not dead before, nor   *)
(* unborn after, and the Plugin's queue is left alone.                     *)
LEMMA ExtNextLife ==
    ASSUME TypeInv, NEW e \in Exts, ExtNext(e)
    PROVE  status[e] # "dead" /\ status'[e] # "unborn" /\ ops' = ops
  <1> USE DEF TypeInv, TypeOK
  <1>0. e \in Procs
    BY DEF Procs
  <1>1. CASE (\E w \in wants : Deliver(e, w)) \/ ExtCrash(e)
    BY <1>0, <1>1 DEF Deliver, ExtCrash, Alive, plugin
  <1>2. CASE \/ RequestRefused(e) \/ BindSync(e) \/ BindAcquire(e)
             \/ BindAttach(e) \/ BindPublish(e) \/ Unbound(e) \/ Settle(e)
             \/ BindError(e) \/ BoundTick(e) \/ CreateReturns(e)
             \/ ChainFails(e) \/ Heartbeat(e) \/ OnDestroy(e)
    BY <1>2 DEF RequestRefused, BindSync, BindAcquire, BindAttach, BindPublish,
       Unbound, Settle, BindError, BoundTick, CreateReturns, ChainFails,
       Heartbeat, OnDestroy, At, Alive, plugin
  <1>3. CASE \/ SetStarting(e) \/ CreateCall(e) \/ CreateSettles(e)
             \/ Protect(e) \/ StartEngine(e) \/ Commit(e)
             \/ StartReturns(e) \/ StartFails(e) \/ NativeExit(e)
             \/ StopNative(e) \/ Destroy(e) \/ CleanupError(e) \/ Ack(e)
             \/ AckPublish(e)
    BY <1>3 DEF SetStarting, CreateCall, CreateSettles, Protect, StartEngine,
       Commit, StartReturns, StartFails, NativeExit, StopNative, Destroy,
       CleanupError, Ack, AckPublish, CleaningAt, At, Alive, plugin
  <1> QED
    BY <1>1, <1>2, <1>3 DEF ExtNext, ExtRuns, ExtCleans

(* Every step of an Extension keeps the invariant.                         *)
LEMMA ExtNextOwnership ==
    ASSUME TypeInv, FramesInv, Punctual, OwnershipInv, NEW e \in Exts, ExtNext(e)
    PROVE  OwnershipInv'
  <1> USE DEF TypeInv, TypeOK
  <1>1. ExtInv(e)' /\ Moved(e)
    BY ExtNextOwn DEF OwnershipInv
  <1>a. /\ AttachedTo(journal, e).attempt = journal.attempt
        /\ AttachedTo(journal, e).extension = e
        /\ AttachedTo(journal, e).phase = "Attached"
    BY DEF AttachedTo, SharedType, Journals
  <1>2. ASSUME NEW x \in Exts PROVE ExtInv(x)'
    <2>1. CASE x = e
      BY <1>1, <2>1
    <2>2. CASE x # e
      <3>1. Respects(x)
        <4>1. CASE journal' = journal
          BY <1>1, <2>2, <4>1, ProcessAssumption DEF Respects, Moved
        <4>2. CASE /\ journal' = AttachedTo(journal, e)
                   /\ extLease.holder = e /\ extLease' = extLease
          BY <1>a, <2>2, <4>2 DEF Respects, Owner
        <4>3. CASE journal' = NoJournal /\ journal.extension \in {None, e}
          <5>1. journal'.extension # x /\ \A a : ~Owner(x, a)
            BY <2>2, <4>3, ProcessAssumption DEF Owner, NoJournal
          <5> QED
            BY <1>1, <2>2, <5>1, ProcessAssumption DEF Respects, Moved
        <4> QED
          BY <1>1, <4>1, <4>2, <4>3 DEF Moved
      <3> QED
        BY <2>2, <3>1, ExtNextUntouched, ExtKeeps DEF OwnershipInv
    <2> QED
      BY <2>1, <2>2
  <1>3. /\ status[e] # "dead" /\ status'[e] # "unborn" /\ ops' = ops
        /\ \A x \in Exts \ {e} : status'[x] = status[x]
    BY ExtNextLife, ExtNextUntouched DEF Untouched
  <1>4. JournalInv'
    <2> SUFFICES ASSUME journal'.phase = "Attached"
                 PROVE  /\ status'[journal'.extension] # "unborn"
                        /\ status'[journal'.extension] = "alive"
                              => extLease'.holder = journal'.extension
      BY DEF JournalInv, Alive
    <2>1. CASE journal' = journal
      <3> DEFINE x == journal.extension
      <3>1. x \in Exts /\ x # None
        BY <2>1, ProcessAssumption DEF SharedType, ValidRecord, NoJournal
      <3>2. status[x] # "unborn" /\ (status[x] = "alive" => extLease.holder = x)
        BY <2>1 DEF OwnershipInv, JournalInv, Alive
      <3>3. status[x] \in {"unborn", "alive", "dead"}
        BY <3>1 DEF Procs
      <3> HIDE DEF x
      <3>4. status'[x] # "unborn" /\ (status'[x] = "alive" => status[x] = "alive")
        BY <1>3, <3>1, <3>2, <3>3
      <3>5. status'[x] = "alive" => extLease'.holder = x
        BY <1>1, <2>1, <3>1, <3>2, <3>4 DEF Moved, x
      <3> QED
        BY <2>1, <3>4, <3>5 DEF x
    <2>2. CASE journal' = AttachedTo(journal, e) /\ extLease' = extLease
               /\ extLease.holder = e
      BY <1>3, <1>a, <2>2
    <2>3. CASE journal' = NoJournal
      BY <2>3 DEF NoJournal
    <2> QED
      BY <1>1, <2>1, <2>2, <2>3 DEF Moved
  <1>5. RecoverInv'
    <2>1. Op' = Op
      BY <1>3 DEF Op
    <2> SUFFICES ASSUME Len(ops) > 0, Op.pc \in {"recoverProve", "recoverDelete"},
                        Op.seen.phase = "Attached",
                        NEW x, x = Op.seen.extension, NEW a, a = Op.session
                 PROVE  \/ status'[x] = "dead"
                        \/ journal'.attempt # a
                        \/ Op.pc = "recoverProve" /\ Owner(x, a)'
      BY <1>3, <2>1 DEF OwnershipInv, RecoverInv
    <2>2. /\ a # NoAttempt /\ x \in Exts
          /\ \/ status[x] = "dead"
             \/ journal.attempt # a
             \/ Op.pc = "recoverProve" /\ Owner(x, a)
      BY DEF OwnershipInv, RecoverInv
    <2>3. CASE journal.attempt # a
      BY <1>1, <1>a, <2>2, <2>3 DEF Moved, NoJournal
    <2>4. CASE Op.pc = "recoverProve" /\ Owner(x, a)
      <3>1. CASE journal' = journal
        BY <1>1, <2>2, <2>4, <3>1, ProcessAssumption DEF Moved, Owner
      <3>2. CASE journal' = AttachedTo(journal, e) /\ extLease.holder = e
                 /\ extLease' = extLease
        BY <1>a, <2>4, <3>2 DEF Owner
      <3>3. CASE journal' = NoJournal
        BY <2>2, <3>3 DEF NoJournal
      <3> QED
        BY <1>1, <3>1, <3>2, <3>3 DEF Moved
    <2>5. CASE status[x] = "dead"
      BY <1>3, <2>2, <2>5
    <2> QED
      BY <2>2, <2>3, <2>4, <2>5
  <1> QED
    BY <1>2, <1>4, <1>5 DEF OwnershipInv

-----------------------------------------------------------------------------
(* A step of the UI process, seen by the Extensions *)

(* The UI process holds no Extension lease that it could release.          *)
LEMMA UiKeepsLease ==
    ASSUME SharedType, NEW u \in Uis
    PROVE  /\ ReleasedBy(extLease, u) = extLease
           /\ \A f : LeasesFollow(u, f) => extLease' = extLease
  <1>1. extLease.holder # u
    BY ProcessAssumption DEF SharedType, Leases
  <1> QED
    BY <1>1 DEF ReleasedBy, LeasesFollow

(* No step of the UI process touches an Extension or its lease.            *)
LEMMA UiNextUntouched ==
    ASSUME TypeInv, NEW u \in Uis, NEW e \in Exts, UiNext(u)
    PROVE  Untouched(e) /\ extLease' = extLease
  <1> USE DEF TypeInv, TypeOK
  <1>0. u \in Procs /\ e \in Procs /\ u # e
    BY ProcessAssumption DEF Procs
  <1>1. UNCHANGED ability /\ status'[e] = status[e]
    <2>1. CASE UiClaims(u) \/ UiRuns(u) \/ RecoverDeadline(u) \/ OsStopRejected(u)
      BY <2>1 DEF UiClaims, ClaimPublish, ClaimFence, ClaimReread, UiRuns,
         StartHead, Authorize, Cooperative, OsStopBegin, OsStopConfirmed,
         RecoverSync, RecoverRead, RecoverMissing, RecoverProve, RecoverDelete,
         RecoverFinish, Begin, AwaitDone, AwaitDeadline, RecoverDeadline,
         OsStopRejected
    <2>2. CASE \/ RequestStart(u) \/ RequestStop(u) \/ UiSync(u) \/ UiWatchdog(u)
               \/ UiOwnerReleased(u) \/ \E a \in dispatch : DispatchRejected(u, a)
      BY <2>2 DEF RequestStart, RequestStop, UiSync, UiWatchdog, UiOwnerReleased,
         DispatchRejected
    <2>3. CASE UiStart(u) \/ UiCrash(u)
      BY <1>0, <2>3 DEF UiStart, UiCrash
    <2> QED
      BY <2>1, <2>2, <2>3 DEF UiNext
  <1>l. ASSUME NEW f, NEW b, LocalOp(u, f, b)
        PROVE  Mine(e)' = Mine(e) /\ extLease' = extLease
    BY <1>0, <1>l, LocalOther, UiKeepsLease DEF LocalOp
  <1>s. ASSUME NEW f, NEW d, NEW b, Store(u, f, d, b)
        PROVE  Mine(e)' = Mine(e)
    BY <1>0, <1>s, StoreOther
  <1>n. UNCHANGED lanes => Mine(e)' = Mine(e)
    BY DEF lanes, Mine
  <1>c. ASSUME NEW kind, NEW ep, ClaimRead(u, kind, ep)
        PROVE  Mine(e)' = Mine(e) /\ extLease' = extLease
    BY <1>l, <1>c DEF ClaimRead, Mine
  <1>2. CASE ClaimPublish(u) \/ ClaimFence(u) \/ ClaimReread(u)
    <2>1. extLease' = extLease
      BY <1>2 DEF ClaimPublish, ClaimFence, ClaimReread, shared
    <2>2. Mine(e)' = Mine(e)
      BY <1>2, <1>s, <1>n DEF ClaimPublish, ClaimFence, ClaimReread
    <2> QED
      BY <1>1, <2>1, <2>2 DEF Untouched, ability
  <1>3. CASE \/ StartHead(u) \/ RequestStop(u) \/ Authorize(u) \/ Cooperative(u)
             \/ RecoverSync(u) \/ RecoverMissing(u) \/ RecoverFinish(u)
             \/ AwaitDeadline(u) \/ UiSync(u) \/ UiOwnerReleased(u)
    <2>1. Mine(e)' = Mine(e) /\ extLease' = extLease
      BY <1>3, <1>l, <1>n, <1>c DEF StartHead, RequestStop, Authorize, Cooperative,
         RecoverSync, RecoverMissing, RecoverFinish, AwaitDeadline, UiSync,
         UiOwnerReleased, shared
    <2> QED
      BY <1>1, <2>1 DEF Untouched, ability
  <1>4. CASE \/ OsStopBegin(u) \/ OsStopConfirmed(u) \/ OsStopRejected(u)
             \/ RecoverRead(u) \/ RecoverProve(u) \/ RecoverDeadline(u)
             \/ RecoverDelete(u) \/ AwaitDone(u) \/ RequestStart(u) \/ UiStart(u)
    <2>1. Mine(e)' = Mine(e) /\ extLease' = extLease
      BY <1>4, <1>n DEF OsStopBegin, OsStopConfirmed, OsStopRejected, RecoverRead,
         RecoverProve, RecoverDeadline, RecoverDelete, AwaitDone, RequestStart,
         UiStart, shared
    <2> QED
      BY <1>1, <2>1 DEF Untouched, ability
  <1>5. CASE Begin(u)
    <2>1. CASE LocalOp(u, Synced(u), FALSE)
      BY <1>1, <1>l, <2>1 DEF Untouched, ability
    <2>2. CASE /\ extLease' = ReleasedBy(extLease, u)
               /\ \E c : core' = [core EXCEPT ![u] = c]
      <3>1. Mine(e)' = Mine(e)
        BY <1>0, <2>2 DEF Mine, LanesType
      <3> QED
        BY <1>1, <2>2, <3>1, UiKeepsLease DEF Untouched, ability
    <2> QED
      BY <1>5, <2>1, <2>2 DEF Begin
  <1>6. CASE \E a \in dispatch : DispatchRejected(u, a)
    <2>1. Mine(e)' = Mine(e) /\ extLease' = extLease
      BY <1>6, <1>l, <1>s, UiKeepsLease DEF DispatchRejected
    <2> QED
      BY <1>1, <2>1 DEF Untouched, ability
  <1>7. CASE UiWatchdog(u)
    <2>1. Mine(e)' = Mine(e) /\ extLease' = extLease
      BY <1>0, <1>7, <1>l DEF UiWatchdog, Mine, LanesType, shared
    <2> QED
      BY <1>1, <2>1 DEF Untouched, ability
  <1>8. CASE UiCrash(u)
    <2>1. Mine(e)' = Mine(e) /\ extLease' = extLease
      BY <1>0, <1>8, UiKeepsLease DEF UiCrash, Mine, LanesType
    <2> QED
      BY <1>1, <2>1 DEF Untouched, ability
  <1> QED
    BY <1>2, <1>3, <1>4, <1>5, <1>6, <1>7, <1>8 DEF UiNext, UiClaims, UiRuns

(* What a step of the UI process other than the deletion by recovery does  *)
(* to the journal: it never touches an Attached record, and only begin,    *)
(* at the head of the queue, creates one.                                  *)
Leaves ==
    \/ journal' = journal
    \/ /\ journal.extension = None
       /\ journal'.extension = None
       /\ journal'.phase # "Attached"
       /\ \/ journal'.attempt \in {journal.attempt, NoAttempt}
          \/ Len(ops) > 0 /\ Op.pc = "begin"

LEMMA UiNextLeaves ==
    ASSUME TypeInv, NEW u \in Uis, UiNext(u)
    PROVE  Leaves \/ RecoverDelete(u)
  <1> USE DEF TypeInv, TypeOK
  <1>1. CASE ClaimFence(u)
    <2>1. CASE journal' = journal
      BY <2>1 DEF Leaves
    <2>2. CASE /\ CanFencePendingStop(journal, claim.seen.attempt, claim.seen.issuer)
               /\ journal' = Fenced(journal)
      <3>1. journal.extension = None
        BY <2>2 DEF CanFencePendingStop
      <3>2. /\ journal'.extension = journal.extension /\ journal'.phase = "Stopping"
            /\ journal'.attempt = journal.attempt
        BY <2>2 DEF Fenced, SharedType, Journals
      <3> QED
        BY <3>1, <3>2 DEF Leaves
    <2> QED
      BY <1>1, <2>1, <2>2 DEF ClaimFence
  <1>2. CASE Begin(u)
    <2>1. CASE LocalOp(u, Synced(u), FALSE)
      BY <2>1 DEF LocalOp, Leaves
    <2>2. CASE journal = NoJournal /\ journal' = PendingJournal(nextAttempt, u)
      BY <1>2, <2>2 DEF Begin, AtHead, Op, Leaves, NoJournal, PendingJournal
    <2> QED
      BY <1>2, <2>1, <2>2 DEF Begin
  <1>3. CASE \E a \in dispatch : DispatchRejected(u, a)
    <2>1. CASE LocalOp(u, Synced(u), FALSE)
      BY <2>1 DEF LocalOp, Leaves
    <2>2. CASE journal.extension = None /\ journal' = NoJournal
      BY <2>2 DEF Leaves, NoJournal
    <2>3. \/ LocalOp(u, Synced(u), FALSE)
          \/ journal.extension = None /\ journal' = NoJournal
      BY <1>3 DEF DispatchRejected, FailsUnattached, CanDeletePending
    <2> QED
      BY <2>1, <2>2, <2>3
  <1>4. CASE \/ ClaimPublish(u) \/ ClaimReread(u) \/ OsStopBegin(u)
             \/ OsStopConfirmed(u) \/ OsStopRejected(u) \/ RecoverRead(u)
             \/ RecoverProve(u) \/ RecoverDeadline(u) \/ AwaitDone(u)
             \/ RequestStart(u) \/ UiStart(u) \/ UiCrash(u)
    BY <1>4 DEF ClaimPublish, ClaimReread, OsStopBegin, OsStopConfirmed,
       OsStopRejected, RecoverRead, RecoverProve, RecoverDeadline, AwaitDone,
       RequestStart, UiStart, UiCrash, shared, Leaves
  <1>5. CASE \/ StartHead(u) \/ RequestStop(u) \/ Authorize(u) \/ Cooperative(u)
             \/ RecoverSync(u) \/ RecoverMissing(u) \/ RecoverFinish(u)
             \/ AwaitDeadline(u) \/ UiSync(u) \/ UiOwnerReleased(u) \/ UiWatchdog(u)
    BY <1>5 DEF StartHead, RequestStop, ClaimRead, Authorize, Cooperative,
       RecoverSync, RecoverMissing, RecoverFinish, AwaitDeadline, UiSync,
       UiOwnerReleased, UiWatchdog, LocalOp, shared, Leaves
  <1> QED
    BY <1>1, <1>2, <1>3, <1>4, <1>5 DEF UiNext, UiClaims, UiRuns

-----------------------------------------------------------------------------
(* The recovery *)

Recovery == {"recoverProve", "recoverDelete", "recoverFinish"}
Recovering == Len(ops) > 0 /\ Op.pc \in Recovery

(* The recovery at the head of the queue stays as it is, if there is one.  *)
Holds == Recovering' => Recovering /\ Op' = Op

(* The queue after its head has moved, ended, or been joined.              *)
LEMMA HeadHolds ==
    ASSUME ops \in Seq(Ops), QueueWaits
    PROVE  /\ Len(ops) > 0 =>
                 /\ EndOp => Holds
                 /\ AfterStop => Holds
                 /\ \A where \in OpPcs \ Recovery :
                       Goto(where) => Holds
                 /\ \A op \in Ops :
                       Step(op) /\ op.pc \notin Recovery
                          => Holds
           /\ \A op \in Ops :
                 ops' = Append(ops, op) /\ op.pc \in {"head", "authorize"} => Holds
           /\ ops' = ops => Holds
  <1>1. ASSUME Len(ops) > 0, EndOp PROVE Holds
    <2>1. ops' = Tail(ops) /\ Len(ops') = Len(ops) - 1
      BY <1>1 DEF EndOp
    <2>2. Len(ops') > 0 => Op' = ops[2] /\ 2 \in 2 .. Len(ops)
      BY <1>1, <2>1 DEF Op
    <2> QED
      BY <2>2 DEF Holds, Recovering, Recovery, QueueWaits
  <1>2. ASSUME Len(ops) > 0, NEW op \in Ops, Step(op),
               op.pc \notin Recovery
        PROVE  Holds
    BY <1>2, QueueMoves DEF Holds, Recovering
  <1>3. ASSUME Len(ops) > 0, NEW where \in OpPcs \ Recovery,
               Goto(where)
        PROVE  Holds
    BY <1>3, QueueMoves DEF Holds, Recovering
  <1>4. ASSUME Len(ops) > 0, AfterStop PROVE Holds
    BY <1>1, <1>3, <1>4 DEF AfterStop, OpPcs, Recovery
  <1>5. ASSUME NEW op \in Ops, ops' = Append(ops, op), op.pc \in {"head", "authorize"}
        PROVE  Holds
    <2>1. CASE Len(ops) = 0
      <3>1. Op' = op
        BY <1>5, <2>1 DEF Op
      <3> QED
        BY <1>5, <3>1 DEF Holds, Recovering, Recovery
    <2>2. CASE Len(ops) > 0
      <3>1. Op' = Op
        BY <1>5, <2>2 DEF Op
      <3> QED
        BY <2>2, <3>1 DEF Holds, Recovering
    <2>3. Len(ops) \in Nat
      OBVIOUS
    <2> QED
      BY <2>1, <2>2, <2>3
  <1>6. ops' = ops => Holds
    BY DEF Holds, Recovering, Op
  <1> QED
    BY <1>1, <1>2, <1>3, <1>4, <1>5, <1>6

(* A claim begins no recovery and disturbs none.                           *)
LEMMA ClaimHolds ==
    ASSUME PluginType, QueueWaits, NEW kind \in {"start", "stop"}, NEW ep \in Nat,
           NEW a \in Attempts \cup {NoAttempt},
           kind = "start" => Len(ops) > 0,
           ClaimReturns(kind, ep, a) \/ ClaimFails(kind)
    PROVE  Holds
  <1> USE DEF PluginType
  <1>1. CASE ClaimReturns(kind, ep, a) /\ kind = "stop"
    <2>1. NewOp("stop", ep, a, "authorize") \in Ops
      BY NewOpType DEF OpPcs
    <2>2. NewOp("stop", ep, a, "authorize").pc = "authorize"
      BY DEF NewOp
    <2> QED
      BY <1>1, <2>1, <2>2, HeadHolds DEF ClaimReturns
  <1>2. CASE ClaimReturns(kind, ep, a) /\ kind = "start"
    <2>1. PICK where \in {"authorize", "begin"} : Step(NewOp("start", ep, a, where))
      BY <1>2 DEF ClaimReturns
    <2>2. NewOp("start", ep, a, where) \in Ops
      BY NewOpType DEF OpPcs
    <2>3. NewOp("start", ep, a, where).pc = where
      BY DEF NewOp
    <2> QED
      BY <1>2, <2>1, <2>2, <2>3, HeadHolds DEF Recovery
  <1>3. CASE ClaimFails(kind)
    BY <1>3, HeadHolds DEF ClaimFails, EndOp
  <1> QED
    BY <1>1, <1>2, <1>3

(* Only the read of the journal begins a recovery, and only its proof and  *)
(* its deletion move it on.                                                *)
LEMMA UiNextHolds ==
    ASSUME TypeInv, QueueInv, NEW u \in Uis, UiNext(u)
    PROVE  Holds \/ RecoverRead(u) \/ RecoverProve(u) \/ RecoverDelete(u)
  <1> USE DEF TypeInv, TypeOK
  <1>q. ops \in Seq(Ops) /\ QueueWaits
    BY DEF PluginType, QueueInv
  <1>h. ASSUME Len(ops) > 0
        PROVE  /\ EndOp => Holds
               /\ AfterStop => Holds
               /\ \A where \in OpPcs \ Recovery :
                     Goto(where) => Holds
               /\ \A op \in Ops :
                     Step(op) /\ op.pc \notin Recovery
                        => Holds
    BY <1>q, <1>h, HeadHolds
  <1>n. ops' = ops => Holds
    BY <1>q, HeadHolds
  <1>c. ASSUME claim.pc # "none", FenceClaimed \/ ClaimFails(claim.kind)
        PROVE  Holds
    <2>1. /\ claim.kind \in {"start", "stop"}
          /\ claim.epoch \in Nat
          /\ claim.seen.attempt \in Attempts \cup {NoAttempt}
      BY DEF PluginType, Claims, Journals
    <2>2. claim.kind = "start" => Len(ops) > 0
      BY <1>c DEF ClaimAtHead
    <2>3. \/ ClaimReturns(claim.kind, claim.epoch, claim.seen.attempt)
          \/ ClaimFails(claim.kind)
      BY <1>c DEF FenceClaimed
    <2> QED
      BY <1>q, <2>1, <2>2, <2>3, ClaimHolds
  <1>r. ASSUME NEW kind \in {"start", "stop"}, NEW ep \in Nat,
               kind = "start" => Len(ops) > 0, ClaimRead(u, kind, ep)
        PROVE  Holds
    <2>1. fence.attempt \in Attempts \cup {NoAttempt}
      BY DEF PluginType, Fences
    <2>2. \/ ClaimFails(kind)
          \/ ClaimReturns(kind, ep, fence.attempt)
          \/ UNCHANGED ops
      BY <1>r DEF ClaimRead
    <2> QED
      BY <1>q, <1>n, <1>r, <2>1, <2>2, ClaimHolds
  <1>1. CASE ClaimPublish(u) \/ ClaimFence(u) \/ ClaimReread(u)
    BY <1>1, <1>c, <1>n DEF ClaimPublish, ClaimFence, ClaimReread
  <1>2. CASE StartHead(u)
    <2>1. Len(ops) > 0 /\ Op.epoch \in Nat
      BY <1>2, <1>q, HeadMoves DEF StartHead, AtHead, Op, Ops
    <2> QED
      BY <1>2, <1>h, <1>r, <2>1 DEF StartHead
  <1>3. CASE RequestStop(u)
    <2>1. epoch + 1 \in Nat
      BY BoundsAssumption DEF PluginType
    <2> QED
      BY <1>3, <1>r, <2>1 DEF RequestStop
  <1>4. CASE RequestStart(u)
    <2>1. NewOp("start", epoch + 1, NoAttempt, "head") \in Ops
      BY NewOpType, BoundsAssumption DEF PluginType, OpPcs
    <2>2. NewOp("start", epoch + 1, NoAttempt, "head").pc = "head"
      BY DEF NewOp
    <2> QED
      BY <1>4, <1>q, <2>1, <2>2, HeadHolds DEF RequestStart
  <1>5. CASE \/ Authorize(u) \/ OsStopBegin(u) \/ OsStopConfirmed(u)
             \/ OsStopRejected(u) \/ RecoverDeadline(u) \/ RecoverMissing(u)
             \/ RecoverFinish(u) \/ AwaitDone(u)
    <2>1. Len(ops) > 0
      BY <1>5 DEF Authorize, OsStopBegin, OsStopConfirmed, OsStopRejected,
         RecoverDeadline, RecoverMissing, RecoverFinish, AwaitDone,
         AtHead
    <2>2. \/ EndOp \/ AfterStop
          \/ \E where \in {"osBegin", "cooperative", "osStop", "recover"} : Goto(where)
      BY <1>5 DEF Authorize, OsStopBegin, OsStopConfirmed, OsStopRejected,
         RecoverDeadline, RecoverMissing, RecoverFinish, AwaitDone
    <2> QED
      BY <1>h, <2>1, <2>2 DEF OpPcs, Recovery
  <1>6. CASE Cooperative(u)
    <2>1. Len(ops) > 0
      BY <1>6 DEF Cooperative, AtHead
    <2>2. ASSUME NEW c \in BOOLEAN, Step([Op EXCEPT !.pc = "osBegin", !.cleaned = c])
          PROVE  Holds
      <3>1. /\ [Op EXCEPT !.pc = "osBegin", !.cleaned = c] \in Ops
            /\ [Op EXCEPT !.pc = "osBegin", !.cleaned = c].pc = "osBegin"
        BY <1>q, <2>1, HeadMoves DEF Ops, OpPcs
      <3> QED
        BY <1>h, <2>1, <2>2, <3>1 DEF Recovery
    <2> DEFINE c == /\ ~Synced(u).running /\ ~Synced(u).starting
                    /\ Synced(u).cleanup /\ Synced(u).outcome \in Terminal
    <2>3. AfterStop \/ Step([Op EXCEPT !.pc = "osBegin", !.cleaned = c])
      BY <1>6 DEF Cooperative
    <2>4. c \in BOOLEAN
      OBVIOUS
    <2> QED
      BY <1>h, <2>1, <2>2, <2>3, <2>4
  <1>7. CASE RecoverSync(u)
    <2>1. Len(ops) > 0
      BY <1>7 DEF RecoverSync, AtHead
    <2>2. ASSUME NEW c \in BOOLEAN,
                 Step([Op EXCEPT !.pc = "recoverRead", !.unattached = c])
          PROVE  Holds
      <3>1. /\ [Op EXCEPT !.pc = "recoverRead", !.unattached = c] \in Ops
            /\ [Op EXCEPT !.pc = "recoverRead", !.unattached = c].pc = "recoverRead"
        BY <1>q, <2>1, HeadMoves DEF Ops, OpPcs
      <3> QED
        BY <1>h, <2>1, <2>2, <3>1 DEF Recovery
    <2> DEFINE c == /\ Synced(u).attempt = Op.session /\ ~Synced(u).attached
                    /\ Synced(u).stopReq /\ Synced(u).outcome \in Terminal
    <2>3. AfterStop \/ Step([Op EXCEPT !.pc = "recoverRead", !.unattached = c])
      BY <1>7 DEF RecoverSync
    <2>4. c \in BOOLEAN
      OBVIOUS
    <2> QED
      BY <1>h, <2>1, <2>2, <2>3, <2>4
  <1>8. CASE Begin(u)
    <2>1. Len(ops) > 0
      BY <1>8 DEF Begin, AtHead
    <2>2. CASE EndOp
      BY <1>h, <2>1, <2>2
    <2> DEFINE op == [Op EXCEPT !.pc = "await", !.session = nextAttempt]
    <2>3. CASE ~(nextAttempt > MaxAttempts) /\ Step(op)
      <3>1. nextAttempt \in Nat \ {0}
        BY MaxAttemptsAssumption DEF PluginType
      <3>2. Op \in Ops /\ nextAttempt \in Attempts
        BY <1>q, <2>1, <2>3, <3>1, MaxAttemptsAssumption, HeadMoves DEF Attempts
      <3>3. op \in Ops /\ op.pc = "await"
        BY <3>2 DEF Ops, OpPcs
      <3> QED
        BY <1>h, <2>1, <2>3, <3>3 DEF Recovery
    <2> QED
      BY <1>8, <2>2, <2>3 DEF Begin
  <1>9. CASE \/ AwaitDeadline(u) \/ UiSync(u) \/ UiWatchdog(u) \/ UiOwnerReleased(u)
             \/ UiStart(u) \/ \E a \in dispatch : DispatchRejected(u, a)
    BY <1>9, <1>n DEF AwaitDeadline, UiSync, UiWatchdog, UiOwnerReleased, UiStart,
       DispatchRejected, plugin
  <1>10. CASE UiCrash(u)
    BY <1>10 DEF UiCrash, Holds, Recovering
  <1> QED
    BY <1>1, <1>2, <1>3, <1>4, <1>5, <1>6, <1>7, <1>8, <1>9, <1>10
       DEF UiNext, UiClaims, UiRuns

(* The record that recovery deletes has no living owner.                   *)
LEMMA RecoverDeleteFree ==
    ASSUME TypeInv, OwnershipInv, NEW u \in Uis, RecoverDelete(u), NEW e \in Exts,
           journal' # journal
    PROVE  journal'.extension # e /\ \A a : ~Owner(e, a)
  <1> USE DEF TypeInv, TypeOK
  <1>1. /\ Len(ops) > 0 /\ Op.pc = "recoverDelete"
        /\ journal' = NoJournal
        /\ journal.attempt = Op.session /\ journal.extension = Op.seen.extension
    BY DEF RecoverDelete, AtHead, Op, CanDelete
  <1>2. journal'.extension # e
    BY <1>1, ProcessAssumption DEF NoJournal
  <1>3. \/ journal.extension = None
        \/ journal.extension \in Exts /\ status[journal.extension] = "dead"
    BY <1>1 DEF OwnershipInv, RecoverInv
  <1>4. ASSUME NEW a, Owner(e, a) PROVE FALSE
    <2>1. journal.extension = e /\ extLease.holder = e
      BY <1>4 DEF Owner
    <2>2. status[e] = "dead"
      BY <1>3, <2>1, ProcessAssumption
    <2> QED
      BY <2>1, <2>2 DEF OwnershipInv, ExtInv, DeadIsEmpty, Alive
  <1> QED
    BY <1>2, <1>4

(* What recovery knows once it has read the record, and once it has proved *)
(* the owner gone.                                                         *)
LEMMA RecoverKnows ==
    ASSUME TypeInv, QueueInv, OwnershipInv, NEW u \in Uis,
           RecoverRead(u) \/ RecoverProve(u)
    PROVE  RecoverInv'
  <1> USE DEF TypeInv, TypeOK
  <1>q. ops \in Seq(Ops) /\ QueueWaits
    BY DEF PluginType, QueueInv
  <1>0. /\ Len(ops) > 0 /\ Op \in Ops
        /\ UNCHANGED <<journal, extLease, status>>
    BY <1>q, HeadMoves DEF RecoverRead, RecoverProve, AtHead, shared
  <1>1. CASE Holds
    <2> SUFFICES ASSUME Recovering', Op'.pc # "recoverFinish" PROVE RecoverInv'
      BY DEF RecoverInv, Recovering, Recovery
    <2>1. Recovering /\ Op' = Op
      BY <1>1 DEF Holds
    <2> QED
      BY <1>0, <2>1 DEF OwnershipInv, RecoverInv, Recovering, Recovery, Owner
  <1>2. CASE /\ RecoverRead(u) /\ journal # NoJournal /\ journal.attempt = Op.session
             /\ Step([Op EXCEPT !.pc = "recoverProve", !.seen = journal])
    <2> DEFINE op == [Op EXCEPT !.pc = "recoverProve", !.seen = journal]
    <2>1. /\ op \in Ops /\ op.pc = "recoverProve" /\ op.seen = journal
          /\ op.session = Op.session
      BY <1>0 DEF Ops, OpPcs, SharedType
    <2>2. Op' = op
      BY <1>0, <1>2, <1>q, <2>1, QueueMoves
    <2> HIDE DEF op
    <2>3. journal.attempt # NoAttempt
      BY <1>2 DEF SharedType, ValidRecord, Attempts, NoAttempt
    <2>4. CASE journal.phase # "Attached"
      <3>1. journal.extension = None
        BY <1>2, <2>4 DEF SharedType, ValidRecord
      <3> QED
        BY <1>2, <2>1, <2>2, <2>3, <2>4, <3>1 DEF RecoverInv
    <2>5. CASE journal.phase = "Attached"
      <3> PICK x : x = journal.extension
        OBVIOUS
      <3>1. x \in Exts
        BY <1>2, <2>5 DEF SharedType, ValidRecord
      <3>2. status[x] = "dead" \/ extLease.holder = x
        <4>1. status[x] \in {"unborn", "alive", "dead"}
          BY <3>1 DEF Procs
        <4> QED
          BY <2>5, <4>1 DEF OwnershipInv, JournalInv, Alive
      <3>3. extLease.holder = x => Owner(x, journal.attempt)
        <4> HAVE extLease.holder = x
        <4>1. pc[x] # "attach"
          BY <3>1 DEF OwnershipInv, ExtInv, BindInv
        <4> QED
          BY <3>1, <4>1, HolderOwns DEF OwnershipInv
      <3>4. status'[x] = "dead" \/ Owner(x, journal.attempt)'
        BY <1>0, <3>2, <3>3 DEF Owner
      <3> QED
        BY <1>0, <1>2, <2>1, <2>2, <2>3, <2>5, <3>1, <3>4 DEF RecoverInv
    <2> QED
      BY <2>4, <2>5
  <1>3. CASE RecoverProve(u) /\ Proven(Op) /\ Goto("recoverDelete")
    <2> DEFINE op == [Op EXCEPT !.pc = "recoverDelete"]
    <2>1. /\ op \in Ops /\ op.pc = "recoverDelete" /\ op.seen = Op.seen
          /\ op.session = Op.session
      BY <1>0 DEF Ops, OpPcs
    <2>2. Op' = op
      BY <1>0, <1>3, <1>q, <2>1, QueueMoves DEF Goto
    <2> HIDE DEF op
    <2>3. Op.pc = "recoverProve"
      BY <1>3 DEF RecoverProve, AtHead, Op
    <2>4. CASE Op.seen.phase # "Attached"
      BY <1>0, <2>1, <2>2, <2>3, <2>4 DEF OwnershipInv, RecoverInv
    <2>5. CASE Op.seen.phase = "Attached"
      <3>1. extLease.holder = None
        BY <1>3, <2>5 DEF Proven, Observed, Observe
      <3>2. Op.seen.extension \in Exts /\ Op.session # NoAttempt
        BY <1>0, <2>3, <2>5 DEF OwnershipInv, RecoverInv
      <3>3. ~Owner(Op.seen.extension, Op.session)
        BY <3>1, <3>2, ProcessAssumption DEF Owner
      <3>4. status[Op.seen.extension] = "dead" \/ journal.attempt # Op.session
        BY <1>0, <2>3, <2>5, <3>3 DEF OwnershipInv, RecoverInv
      <3> QED
        BY <1>0, <2>1, <2>2, <2>5, <3>2, <3>4 DEF RecoverInv
    <2> QED
      BY <2>4, <2>5
  <1>4. CASE EndOp \/ Goto("recoverMissing") \/ Goto("recover")
    BY <1>0, <1>1, <1>4, <1>q, HeadHolds DEF OpPcs, Recovery
  <1> QED
    BY <1>2, <1>3, <1>4 DEF RecoverRead, RecoverProve

(* Every step of a UI process keeps the invariant.                         *)
LEMMA UiNextOwnership ==
    ASSUME TypeInv, QueueInv, OwnershipInv, NEW u \in Uis, UiNext(u)
    PROVE  OwnershipInv'
  <1> USE DEF TypeInv, TypeOK
  <1>1. ASSUME NEW e \in Exts, journal' # journal
        PROVE  journal'.extension # e /\ \A a : ~Owner(e, a)
    <2>1. CASE Leaves
      BY <1>1, <2>1, ProcessAssumption DEF Leaves, Owner
    <2>2. CASE RecoverDelete(u)
      BY <1>1, <2>2, RecoverDeleteFree
    <2> QED
      BY <2>1, <2>2, UiNextLeaves
  <1>2. ASSUME NEW e \in Exts
        PROVE  ExtInv(e)' /\ status'[e] = status[e] /\ extLease' = extLease
    <2>1. Untouched(e) /\ extLease' = extLease
      BY UiNextUntouched
    <2>2. Respects(e)
      BY <1>1, <2>1 DEF Respects
    <2> QED
      BY <2>1, <2>2, ExtKeeps DEF OwnershipInv, Untouched
  <1>3. journal'.phase = "Attached" => journal' = journal /\ journal.extension \in Exts
    <2> HAVE journal'.phase = "Attached"
    <2>1. journal' = journal
      BY UiNextLeaves DEF Leaves, RecoverDelete, NoJournal
    <2> QED
      BY <2>1 DEF SharedType, ValidRecord, NoJournal
  <1>4. JournalInv'
    BY <1>2, <1>3 DEF OwnershipInv, JournalInv, Alive
  <1>5. CASE RecoverRead(u) \/ RecoverProve(u)
    BY <1>2, <1>4, <1>5, RecoverKnows DEF OwnershipInv
  <1>6. CASE Holds
    <2>1. RecoverInv'
      <3> SUFFICES ASSUME Recovering', Op'.pc # "recoverFinish" PROVE RecoverInv'
        BY DEF RecoverInv, Recovering, Recovery
      <3>1. Recovering /\ Op' = Op
        BY <1>6 DEF Holds
      <3>2. journal' = journal \/ journal'.attempt \in {journal.attempt, NoAttempt}
        BY <3>1, UiNextLeaves DEF Leaves, Recovering, Recovery, RecoverDelete, NoJournal
      <3> PICK x, a : x = Op.seen.extension /\ a = Op.session
        OBVIOUS
      <3>3. a # NoAttempt /\ (Op.seen.phase # "Attached" => x = None)
        BY <3>1 DEF OwnershipInv, RecoverInv, Recovering, Recovery
      <3>4. ASSUME Op.seen.phase = "Attached"
            PROVE  /\ x \in Exts
                   /\ \/ status'[x] = "dead"
                      \/ journal'.attempt # a
                      \/ Op.pc = "recoverProve" /\ Owner(x, a)'
        <4>1. /\ x \in Exts
              /\ \/ status[x] = "dead"
                 \/ journal.attempt # a
                 \/ Op.pc = "recoverProve" /\ Owner(x, a)
          BY <3>1, <3>4 DEF OwnershipInv, RecoverInv, Recovering, Recovery
        <4>2. CASE journal.attempt # a
          BY <3>2, <3>3, <4>1, <4>2
        <4>3. CASE Op.pc = "recoverProve" /\ Owner(x, a)
          <5>1. journal' = journal
            BY <1>1, <4>1, <4>3
          <5> QED
            BY <1>2, <4>1, <4>3, <5>1 DEF Owner
        <4> QED
          BY <1>2, <4>1, <4>2, <4>3
      <3> QED
        BY <3>1, <3>3, <3>4 DEF RecoverInv
    <2> QED
      BY <1>2, <1>4, <2>1 DEF OwnershipInv
  <1>7. CASE RecoverDelete(u)
    <2>1. ops \in Seq(Ops) /\ QueueWaits /\ Len(ops) > 0
      BY <1>7 DEF RecoverDelete, AtHead, PluginType, QueueInv
    <2>2. Goto("recoverFinish") \/ Goto("recover")
      BY <1>7 DEF RecoverDelete
    <2>3. Op'.pc \in {"recoverFinish", "recover"}
      BY <2>1, <2>2, QueueMoves DEF OpPcs
    <2>4. RecoverInv'
      BY <2>3 DEF RecoverInv
    <2> QED
      BY <1>2, <1>4, <2>4 DEF OwnershipInv
  <1> QED
    BY <1>5, <1>6, <1>7, UiNextHolds

-----------------------------------------------------------------------------
(* The theorems *)

(* Nobody owns anything before the first step.                             *)
LEMMA InitOwnership == Init => OwnershipInv
  <1> SUFFICES ASSUME Init PROVE OwnershipInv
    OBVIOUS
  <1>1. ASSUME NEW e \in Exts PROVE ExtInv(e)
    <2>1. /\ e \in Procs /\ extLease.holder # e
      BY ProcessAssumption DEF Init, FreeLease, Procs
    <2>2. /\ status[e] = "unborn" /\ pc[e] = "idle" /\ act[e] = NoAttempt
          /\ conn[e] = FALSE /\ creating[e] = NoAttempt /\ tun[e] = NoAttempt
          /\ cleaning[e].pc = "none"
      BY <2>1 DEF Init, NoCleanup
    <2> QED
      BY <2>1, <2>2 DEF ExtInv, DeadIsEmpty, LeaseInv, BindInv, ActiveInv,
         CleaningInv, TunInv, Binding
  <1>2. JournalInv /\ RecoverInv
    BY DEF Init, JournalInv, RecoverInv, NoJournal
  <1> QED
    BY <1>1, <1>2 DEF OwnershipInv

(* The ownership invariant holds in every reachable state, whatever        *)
(* processes die and whatever fails, as long as onDestroy does not         *)
(* interrupt performStart at its wait for the network and no cleanup       *)
(* outlives the wait of a later request for it.                            *)
THEOREM OwnershipInvariant == ASSUME Punctual PROVE Spec => []OwnershipInv
  <1>1. ASSUME TypeInv, FramesInv, QueueInv, OwnershipInv, [Next]_vars
        PROVE  OwnershipInv'
    <2>1. CASE Next
      BY <1>1, <2>1, UiNextOwnership, ExtNextOwnership DEF Next
    <2>2. CASE UNCHANGED vars
      BY <1>1, <2>2 DEF vars, shared, lanes, plugin, ability, OwnershipInv, ExtInv,
         DeadIsEmpty, LeaseInv, BindInv, ActiveInv, CleaningInv, TunInv, JournalInv,
         RecoverInv, Owner, Mine, Alive, Op
    <2> QED
      BY <1>1, <2>1, <2>2
  <1> QED
    BY <1>1, InitOwnership, TypeInvariant, CleanupInvariant, PTL DEF Spec

(* A TUN, existing or in creation, belongs to the one process that the     *)
(* journal and the Extension lease name.                                   *)
THEOREM TunIsOwned == ASSUME Punctual PROVE Spec => []TunOwned
  <1>1. TypeInv /\ OwnershipInv => TunOwned
    <2> SUFFICES ASSUME TypeInv, OwnershipInv, NEW e \in Exts,
                        NEW a \in {tun[e], creating[e]} \ {NoAttempt}
                 PROVE  /\ journal = [journal EXCEPT !.phase = "Attached",
                                          !.attempt = a, !.extension = e]
                        /\ extLease = [holder |-> e, attempt |-> a]
      BY DEF TunOwned
    <2>1. Owner(e, a)
      BY DEF OwnershipInv, ExtInv, TunInv
    <2>2. journal \in Journals
      BY DEF TypeInv, TypeOK, SharedType
    <2> QED
      BY <2>1, <2>2 DEF Owner, Journals
  <1> QED
    BY <1>1, OwnershipInvariant, TypeInvariant, PTL

(* An attempt that any process or lane declares cleaned up has no TUN, and *)
(* none is being created for it.                                           *)
THEOREM CleanupDestroyed == ASSUME Punctual PROVE Spec => []CleanupMeansDestroyed
  <1>1. OwnershipInv /\ CleanupMeansDeleted => CleanupMeansDestroyed
    <2> SUFFICES ASSUME OwnershipInv, CleanupMeansDeleted, NEW e \in Exts,
                        NEW a \in {tun[e], creating[e]}, a \in CleanedAttempts
                 PROVE  FALSE
      BY DEF CleanupMeansDestroyed
    <2>1. a # NoAttempt
      BY DEF CleanedAttempts
    <2>2. Owner(e, a)
      BY <2>1 DEF OwnershipInv, ExtInv, TunInv
    <2> QED
      BY <2>2 DEF Owner, CleanupMeansDeleted
  <1> QED
    BY <1>1, OwnershipInvariant, CleanupDeleted, PTL

-----------------------------------------------------------------------------
(* What the steps do to the abstract state *)

(* Whoever has a TUN is the owner in the journal and holds the lease.      *)
LEMMA RaisedOwns ==
    ASSUME OwnershipInv, NEW e \in Exts, tun[e] # NoAttempt
    PROVE  /\ journal.phase = "Attached"
           /\ journal.extension = e
           /\ extLease.holder = e
  <1>1. Owner(e, tun[e])
    BY DEF OwnershipInv, ExtInv, TunInv
  <1> QED
    BY <1>1 DEF Owner

(* A step of the UI process and the journal.                               *)
LEMMA UiNextJournal ==
    ASSUME TypeInv, NEW u \in Uis, UiNext(u)
    PROVE  \/ UNCHANGED <<journal, nextAttempt>>
           \/ /\ journal = NoJournal
              /\ journal' = PendingJournal(nextAttempt, u)
              /\ nextAttempt' = nextAttempt + 1
           \/ /\ journal.phase \in {"Pending", "Stopping"}
              /\ journal' = Fenced(journal)
              /\ nextAttempt' = nextAttempt
           \/ /\ journal.phase # "Missing"
              /\ journal' = NoJournal
              /\ nextAttempt' = nextAttempt
  <1>1. CASE ClaimFence(u)
    BY <1>1 DEF ClaimFence, CanFencePendingStop
  <1>2. CASE Begin(u)
    BY <1>2 DEF Begin, LocalOp
  <1>3. CASE \E a \in dispatch : DispatchRejected(u, a)
    BY <1>3 DEF DispatchRejected, FailsUnattached, CanDeletePending, LocalOp
  <1>4. CASE RecoverDelete(u)
    BY <1>4 DEF RecoverDelete, CanDelete
  <1>5. CASE \/ ClaimPublish(u) \/ ClaimReread(u) \/ OsStopBegin(u)
             \/ OsStopConfirmed(u) \/ OsStopRejected(u) \/ RecoverRead(u)
             \/ RecoverProve(u) \/ RecoverDeadline(u) \/ AwaitDone(u)
             \/ RequestStart(u) \/ UiStart(u) \/ UiCrash(u)
    BY <1>5 DEF ClaimPublish, ClaimReread, OsStopBegin, OsStopConfirmed,
       OsStopRejected, RecoverRead, RecoverProve, RecoverDeadline, AwaitDone,
       RequestStart, UiStart, UiCrash, shared, plugin
  <1>6. CASE \/ StartHead(u) \/ RequestStop(u) \/ Authorize(u) \/ Cooperative(u)
             \/ RecoverSync(u) \/ RecoverMissing(u) \/ RecoverFinish(u)
             \/ AwaitDeadline(u) \/ UiSync(u) \/ UiOwnerReleased(u) \/ UiWatchdog(u)
    BY <1>6 DEF StartHead, RequestStop, ClaimRead, Authorize, Cooperative,
       RecoverSync, RecoverMissing, RecoverFinish, AwaitDeadline, UiSync,
       UiOwnerReleased, UiWatchdog, LocalOp, shared, plugin
  <1> QED
    BY <1>1, <1>2, <1>3, <1>4, <1>5, <1>6 DEF UiNext, UiClaims, UiRuns

(* A step of an Extension, its TUN and the journal.                        *)
LEMMA ExtNextEffect ==
    ASSUME TypeInv, OwnershipInv, NEW e \in Exts, ExtNext(e)
    PROVE  /\ nextAttempt' = nextAttempt
           /\ \/ journal' = journal /\ tun'[e] \in {tun[e], NoAttempt}
              \/ journal' = journal /\ creating[e] # NoAttempt
                 /\ tun'[e] = creating[e]
              \/ /\ journal.phase \in {"Pending", "Attached"}
                 /\ journal' = AttachedTo(journal, e)
                 /\ extLease.holder = e
                 /\ tun[e] = NoAttempt /\ tun'[e] = tun[e]
              \/ /\ journal.phase # "Missing"
                 /\ journal.extension \in {None, e}
                 /\ journal' = NoJournal
                 /\ tun[e] = NoAttempt /\ tun'[e] = tun[e]
  <1> USE DEF TypeInv, TypeOK
  <1>1. nextAttempt' = nextAttempt
    BY DEF ExtNext, ExtRuns, ExtCleans, RequestRefused, BindSync, BindAcquire,
           BindAttach, BindPublish, Unbound, Settle, BoundTick, SetStarting,
           CreateCall, CreateReturns, Protect, StartEngine, Commit, StartReturns,
           ChainFails, Heartbeat, StopNative, Destroy, Ack, AckPublish, Deliver,
           CreateSettles, BindError, StartFails, NativeExit, OnDestroy,
           CleanupError, ExtCrash, plugin
  <1>2. CASE BindAttach(e)
    <2>1. tun' = tun /\ pc[e] = "attach"
      BY <1>2 DEF BindAttach, At
    <2>2. extLease.holder = e /\ tun[e] = NoAttempt
      BY <2>1 DEF OwnershipInv, ExtInv, BindInv, Binding
    <2>3. \/ journal' = journal
          \/ /\ journal.phase \in {"Pending", "Attached"}
             /\ journal' = AttachedTo(journal, e)
      BY <1>2 DEF BindAttach, CanUpgradeAttached, CanRebindAttached
    <2> QED
      BY <1>1, <2>1, <2>2, <2>3
  <1>3. CASE Unbound(e)
    <2>1. tun' = tun
      BY <1>3 DEF Unbound
    <2>2. CASE journal' = journal
      BY <1>1, <2>1, <2>2
    <2>3. CASE /\ journal' = NoJournal
               /\ journal.phase = "Pending" /\ journal.extension = None
      <3>1. tun[e] = NoAttempt
        BY <2>3, RaisedOwns
      <3> QED
        BY <1>1, <2>1, <2>3, <3>1
    <2> QED
      BY <1>3, <2>2, <2>3 DEF Unbound, FailsUnattached, CanDeletePending, LocalOp
  <1>4. CASE Ack(e)
    <2>1. tun' = tun /\ cleaning[e].pc = "ack" /\ Alive(e)
      BY <1>4 DEF Ack, CleaningAt
    <2>2. ~conn[e]
      BY <2>1, CleaningFacts DEF OwnershipInv
    <2>3. tun[e] = NoAttempt
      BY <2>1, <2>2 DEF OwnershipInv, ExtInv, TunInv
    <2>4. \/ journal' = journal
          \/ journal' = NoJournal /\ journal.phase = "Attached"
             /\ journal.extension = e
      BY <1>4 DEF Ack, LocalOp, CanDelete
    <2> QED
      BY <1>1, <2>1, <2>3, <2>4
  <1>5. CASE CreateSettles(e) \/ Destroy(e) \/ ExtCrash(e)
    BY <1>1, <1>5 DEF CreateSettles, Destroy, ExtCrash, AbilityType, shared
  <1>6. CASE \/ RequestRefused(e) \/ BindSync(e) \/ BindAcquire(e) \/ BindPublish(e)
             \/ Settle(e) \/ BoundTick(e) \/ CreateCall(e) \/ CreateReturns(e)
             \/ BindError(e) \/ \E w \in wants : Deliver(e, w)
    BY <1>1, <1>6 DEF RequestRefused, BindSync, BindAcquire, BindPublish, Settle,
       BoundTick, CreateCall, CreateReturns, BindError, Deliver, Tick, LocalOp, shared
  <1>7. CASE \/ SetStarting(e) \/ Protect(e) \/ StartEngine(e) \/ Commit(e)
             \/ StartReturns(e) \/ ChainFails(e) \/ Heartbeat(e) \/ StartFails(e)
    BY <1>1, <1>7 DEF SetStarting, Protect, StartEngine, Commit, StartReturns,
       ChainFails, Heartbeat, StartFails, Tick, LocalOp, shared
  <1>8. CASE \/ NativeExit(e) \/ OnDestroy(e) \/ StopNative(e) \/ CleanupError(e)
             \/ AckPublish(e)
    BY <1>1, <1>8 DEF NativeExit, OnDestroy, StopNative, CleanupError, AckPublish,
       LocalOp, shared
  <1> QED
    BY <1>2, <1>3, <1>4, <1>5, <1>6, <1>7, <1>8 DEF ExtNext, ExtRuns, ExtCleans

-----------------------------------------------------------------------------
(* The simulation *)

LEMMA UiRefines ==
    ASSUME TypeInv, OwnershipInv, NEW u \in Uis, UiNext(u)
    PROVE  Ownership!ANext \/ UNCHANGED Ownership!avars
  <1> USE DEF TypeInv, TypeOK
  <1>1. {e \in Exts : tun[e] # NoAttempt}' = {e \in Exts : tun[e] # NoAttempt}
    BY UiNextUntouched DEF Untouched
  <1>2. CASE UNCHANGED <<journal, nextAttempt>>
    BY <1>1, <1>2 DEF Ownership!avars
  <1>3. CASE /\ journal = NoJournal
             /\ journal' = PendingJournal(nextAttempt, u)
             /\ nextAttempt' = nextAttempt + 1
    <2>1. {e \in Exts : tun[e] # NoAttempt} = {}
      BY <1>3, RaisedOwns DEF NoJournal
    <2>2. nextAttempt \in Nat \ {0}
      BY MaxAttemptsAssumption DEF PluginType
    <2>3. Ownership!Issue
      BY <1>1, <1>3, <2>1, <2>2 DEF Ownership!Issue, NoJournal, PendingJournal
    <2> QED
      BY <2>3 DEF Ownership!ANext
  <1>4. CASE /\ journal.phase \in {"Pending", "Stopping"}
             /\ journal' = Fenced(journal)
             /\ nextAttempt' = nextAttempt
    <2>1. journal'.phase = "Stopping" /\ journal'.extension = journal.extension
      BY <1>4 DEF Fenced, SharedType, Journals
    <2>2. CASE journal.phase = "Pending"
      <3>1. Ownership!Fence
        BY <1>1, <1>4, <2>1, <2>2 DEF Ownership!Fence
      <3> QED
        BY <3>1 DEF Ownership!ANext
    <2>3. CASE journal.phase = "Stopping"
      BY <1>1, <1>4, <2>1, <2>3 DEF Ownership!avars
    <2> QED
      BY <1>4, <2>2, <2>3
  <1>5. CASE /\ journal.phase # "Missing"
             /\ journal' = NoJournal
             /\ nextAttempt' = nextAttempt
    <2>1. journal' # journal
      BY <1>5 DEF NoJournal
    <2>2. ASSUME NEW e \in Exts, tun[e] # NoAttempt PROVE FALSE
      <3>1. Owner(e, tun[e])
        BY <2>2 DEF OwnershipInv, ExtInv, TunInv
      <3>2. CASE Leaves
        BY <2>1, <3>1, <3>2, ProcessAssumption DEF Leaves, Owner
      <3>3. CASE RecoverDelete(u)
        BY <2>1, <3>1, <3>3, RecoverDeleteFree
      <3> QED
        BY <3>2, <3>3, UiNextLeaves
    <2>3. {e \in Exts : tun[e] # NoAttempt} = {}
      BY <2>2
    <2>4. journal.phase \in {"Pending", "Attached", "Stopping"}
      BY <1>5 DEF SharedType, Journals
    <2>5. Ownership!Release
      BY <1>1, <1>5, <2>3, <2>4 DEF Ownership!Release, NoJournal
    <2> QED
      BY <2>5 DEF Ownership!ANext
  <1> QED
    BY <1>2, <1>3, <1>4, <1>5, UiNextJournal

LEMMA ExtRefines ==
    ASSUME TypeInv, OwnershipInv, NEW e \in Exts, ExtNext(e)
    PROVE  Ownership!ANext \/ UNCHANGED Ownership!avars
  <1> USE DEF TypeInv, TypeOK
  <1>1. nextAttempt' = nextAttempt
    BY ExtNextEffect
  <1>2. \A x \in Exts \ {e} : tun'[x] = tun[x]
    BY ExtNextUntouched DEF Untouched
  <1>3. CASE journal' = journal /\ tun'[e] = tun[e]
    <2>1. {x \in Exts : tun[x] # NoAttempt}' = {x \in Exts : tun[x] # NoAttempt}
      BY <1>2, <1>3
    <2> QED
      BY <1>1, <1>3, <2>1 DEF Ownership!avars
  <1>4. CASE journal' = journal /\ tun'[e] = NoAttempt
    <2>1. {x \in Exts : tun[x] # NoAttempt}'
             = {x \in Exts : tun[x] # NoAttempt} \ {e}
      BY <1>2, <1>4
    <2>2. Ownership!Lower(e)
      BY <1>1, <1>4, <2>1 DEF Ownership!Lower
    <2> QED
      BY <2>2 DEF Ownership!ANext
  <1>5. CASE journal' = journal /\ creating[e] # NoAttempt /\ tun'[e] = creating[e]
    <2>1. {x \in Exts : tun[x] # NoAttempt}'
             = {x \in Exts : tun[x] # NoAttempt} \cup {e}
      BY <1>2, <1>5
    <2>2. Owner(e, creating[e])
      BY <1>5 DEF OwnershipInv, ExtInv, TunInv
    <2>3. journal.phase = "Attached" /\ journal.extension = e
      BY <2>2 DEF Owner
    <2>4. Ownership!Raise(e)
      BY <1>1, <1>5, <2>1, <2>3 DEF Ownership!Raise
    <2> QED
      BY <2>4 DEF Ownership!ANext
  <1>6. CASE /\ journal.phase \in {"Pending", "Attached"}
             /\ journal' = AttachedTo(journal, e)
             /\ extLease.holder = e
             /\ tun[e] = NoAttempt /\ tun'[e] = tun[e]
    <2>1. \A x \in Exts : tun[x] = NoAttempt
      BY <1>6, RaisedOwns
    <2>2. {x \in Exts : tun[x] # NoAttempt} = {} /\ {x \in Exts : tun[x] # NoAttempt}' = {}
      BY <1>2, <1>6, <2>1
    <2>3. journal'.phase = "Attached" /\ journal'.extension = e
      BY <1>6 DEF AttachedTo, SharedType, Journals
    <2>4. CASE journal.phase = "Pending"
      <3>1. Ownership!Adopt(e)
        BY <1>1, <2>2, <2>3, <2>4 DEF Ownership!Adopt
      <3> QED
        BY <3>1 DEF Ownership!ANext
    <2>5. CASE journal.phase = "Attached"
      <3>1. Ownership!TakeOver(e)
        BY <1>1, <2>2, <2>3, <2>5 DEF Ownership!TakeOver
      <3> QED
        BY <3>1 DEF Ownership!ANext
    <2> QED
      BY <1>6, <2>4, <2>5
  <1>7. CASE /\ journal.phase # "Missing"
             /\ journal.extension \in {None, e}
             /\ journal' = NoJournal
             /\ tun[e] = NoAttempt /\ tun'[e] = tun[e]
    <2>1. \A x \in Exts : tun[x] = NoAttempt
      BY <1>7, RaisedOwns, ProcessAssumption
    <2>2. {x \in Exts : tun[x] # NoAttempt} = {} /\ {x \in Exts : tun[x] # NoAttempt}' = {}
      BY <1>2, <1>7, <2>1
    <2>3. journal.phase \in {"Pending", "Attached", "Stopping"}
      BY <1>7 DEF SharedType, Journals
    <2>4. Ownership!Release
      BY <1>1, <1>7, <2>2, <2>3 DEF Ownership!Release, NoJournal
    <2> QED
      BY <2>4 DEF Ownership!ANext
  <1> QED
    BY <1>3, <1>4, <1>5, <1>6, <1>7, ExtNextEffect

(* The session implements VpnOwnership: the journal is the linearization   *)
(* of who owns the VPN, whatever the processes and the lanes do around it. *)
THEOREM SessionImplements == ASSUME Punctual PROVE Spec => ImplementsOwnership
  <1>1. Init => Ownership!AInit
    <2> SUFFICES ASSUME Init PROVE Ownership!AInit
      OBVIOUS
    <2>1. {e \in Exts : tun[e] # NoAttempt} = {}
      BY DEF Init
    <2> QED
      BY <2>1 DEF Init, Ownership!AInit, NoJournal
  <1>2. ASSUME TypeInv, OwnershipInv, [Next]_vars
        PROVE  [Ownership!ANext]_Ownership!avars
    <2>1. CASE Next
      BY <1>2, <2>1, UiRefines, ExtRefines DEF Next
    <2>2. CASE UNCHANGED vars
      BY <2>2 DEF vars, shared, plugin, ability, Ownership!avars
    <2> QED
      BY <1>2, <2>1, <2>2
  <1> QED
    BY <1>1, <1>2, OwnershipInvariant, TypeInvariant, PTL
       DEF Spec, ImplementsOwnership, Ownership!ASpec

-----------------------------------------------------------------------------
(* What a step leaves alone *)

(* A step of the UI process leaves the Ability alone.                      *)
LEMMA UiNextAbility ==
    ASSUME NEW u \in Uis, UiNext(u)
    PROVE  UNCHANGED ability
  <1>1. CASE UiClaims(u) \/ UiRuns(u) \/ RecoverDeadline(u) \/ OsStopRejected(u)
    BY <1>1 DEF UiClaims, ClaimPublish, ClaimFence, ClaimReread, UiRuns,
       StartHead, Authorize, Cooperative, OsStopBegin, OsStopConfirmed,
       RecoverSync, RecoverRead, RecoverMissing, RecoverProve, RecoverDelete,
       RecoverFinish, Begin, AwaitDone, AwaitDeadline, RecoverDeadline,
       OsStopRejected
  <1>2. CASE \/ RequestStart(u) \/ RequestStop(u) \/ UiSync(u) \/ UiWatchdog(u)
             \/ UiOwnerReleased(u) \/ \E a \in dispatch : DispatchRejected(u, a)
             \/ UiStart(u) \/ UiCrash(u)
    BY <1>2 DEF RequestStart, RequestStop, UiSync, UiWatchdog, UiOwnerReleased,
       DispatchRejected, UiStart, UiCrash
  <1> QED
    BY <1>1, <1>2 DEF UiNext

(* The engine and the shared memory of the other Extensions.               *)
LEMMA ExtNextOthers ==
    ASSUME TypeInv, NEW e \in Exts, NEW x \in Exts, x # e, ExtNext(e)
    PROVE  native'[x] = native[x] /\ ipc'[x] = ipc[x]
  <1> USE DEF TypeInv, TypeOK, AbilityType
  <1>1. CASE \/ StartEngine(e) \/ Commit(e) \/ NativeExit(e) \/ StopNative(e)
             \/ ExtCrash(e) \/ \E w \in wants : Deliver(e, w)
    BY <1>1 DEF StartEngine, Commit, NativeExit, StopNative, ExtCrash, Deliver
  <1>2. CASE \/ RequestRefused(e) \/ BindSync(e) \/ BindAcquire(e)
             \/ BindAttach(e) \/ BindPublish(e) \/ Unbound(e) \/ Settle(e)
             \/ BindError(e) \/ BoundTick(e) \/ CreateReturns(e)
             \/ ChainFails(e) \/ Heartbeat(e) \/ OnDestroy(e)
    BY <1>2 DEF RequestRefused, BindSync, BindAcquire, BindAttach, BindPublish,
       Unbound, Settle, BindError, BoundTick, CreateReturns, ChainFails,
       Heartbeat, OnDestroy
  <1>3. CASE \/ SetStarting(e) \/ CreateCall(e) \/ CreateSettles(e)
             \/ Protect(e) \/ StartReturns(e) \/ StartFails(e) \/ Destroy(e)
             \/ CleanupError(e) \/ Ack(e) \/ AckPublish(e)
    BY <1>3 DEF SetStarting, CreateCall, CreateSettles, Protect, StartReturns,
       StartFails, Destroy, CleanupError, Ack, AckPublish
  <1> QED
    BY <1>1, <1>2, <1>3 DEF ExtNext, ExtRuns, ExtCleans

-----------------------------------------------------------------------------
(* The engine and its TUN *)

LEMMA EngineKeeps ==
    ASSUME NEW e \in Exts, EngineInv(e), Untouched(e), native'[e] = native[e]
    PROVE  EngineInv(e)'
  BY DEF EngineInv, Untouched

(* destroyVpn hands the engine over to a cleanup that will stop it.        *)
LEMMA DestroyVpnEngine ==
    ASSUME TypeInv, NEW e \in Exts, ExtInv(e), EngineInv(e), DestroyVpn(e),
           UNCHANGED <<tun, native>>,
           \/ pc'[e] = "idle"
           \/ pc'[e] = pc[e] /\ pc[e] # "connected"
    PROVE  EngineInv(e)'
  <1> USE DEF TypeInv, TypeOK, AbilityType
  <1>1. act'[e] = NoAttempt
    BY DEF DestroyVpn
  <1>2. act[e] # NoAttempt => cleaning[e].pc = "none"
    BY DEF ExtInv, ActiveInv
  <1>3. act[e] # NoAttempt \/ cleaning[e].pc = "stop" => cleaning'[e].pc = "stop"
    BY <1>2 DEF DestroyVpn
  <1> QED
    BY <1>1, <1>3 DEF EngineInv

(* Every step of an Extension keeps its engine inside its TUN.             *)
LEMMA ExtNextEngine ==
    ASSUME TypeInv, FramesInv, NEW e \in Exts, ExtInv(e), EngineInv(e), ExtNext(e)
    PROVE  EngineInv(e)'
  <1> USE DEF TypeInv, TypeOK, AbilityType
  <1>0. act[e] # NoAttempt => cleaning[e].pc = "none" /\ pc[e] \notin Unowned
    BY DEF ExtInv, ActiveInv
  <1>1. CASE \/ BindSync(e) \/ BindAcquire(e) \/ BindAttach(e) \/ BindError(e)
             \/ Unbound(e) \/ Settle(e) \/ \E w \in wants : Deliver(e, w)
    <2>1. /\ UNCHANGED <<act, tun, native, cleaning>>
          /\ pc'[e] \in Unowned
      BY <1>1 DEF BindSync, BindAcquire, BindAttach, BindError, Unbound, Settle,
         Deliver, Moves, Unowned, Binding
    <2> QED
      BY <2>1 DEF EngineInv, Unowned, Binding
  <1>2. CASE BindPublish(e)
    <2>1. /\ UNCHANGED <<tun, native, cleaning>>
          /\ pc[e] = "publish" /\ pc'[e] = "bound" /\ act'[e] = req[e]
      BY <1>2 DEF BindPublish, At, Moves
    <2>2. req[e] # NoAttempt
      BY <2>1 DEF ExtInv, BindInv
    <2> QED
      BY <2>1, <2>2 DEF EngineInv
  <1>3. CASE RequestRefused(e)
    <2>1. /\ UNCHANGED <<act, tun, native>>
          /\ cleaning[e].pc = "failed" /\ pc'[e] = "unbound"
      BY <1>3 DEF RequestRefused, Moves
    <2>2. ~native[e]
      BY <1>0, <2>1 DEF EngineInv
    <2> QED
      BY <2>1, <2>2 DEF EngineInv
  <1>4. CASE BoundTick(e) \/ Heartbeat(e) \/ ChainFails(e) \/ CreateReturns(e)
    <2>1. UNCHANGED <<tun, native>> /\ pc[e] \in {"bound", "connected", "failing", "creating"}
      BY <1>4 DEF BoundTick, Heartbeat, ChainFails, CreateReturns, At
    <2>2. CASE DestroyVpn(e) /\ EndRequest(e)
      <3>1. pc'[e] = "idle"
        BY <2>2 DEF EndRequest, Moves
      <3> QED
        BY <2>1, <2>2, <3>1, DestroyVpnEngine
    <2>3. CASE /\ UNCHANGED <<act, cleaning>>
               /\ pc'[e] \in {pc[e], "starting", "idle"}
      BY <2>1, <2>3 DEF EngineInv
    <2>4. CASE /\ UNCHANGED <<act, cleaning>>
               /\ pc'[e] = "created" /\ conn[e] /\ tun[e] = req[e] /\ req[e] # NoAttempt
      BY <2>1, <2>4 DEF EngineInv
    <2>5. pc[e] = "creating" => req[e] # NoAttempt
      BY DEF ExtInv, BindInv
    <2> QED
      BY <1>4, <2>1, <2>2, <2>3, <2>4, <2>5
         DEF BoundTick, Heartbeat, ChainFails, CreateReturns, EndRequest, Moves, At
  <1>5. CASE OnDestroy(e)
    <2>1. DestroyVpn(e) /\ UNCHANGED <<tun, native>>
      BY <1>5 DEF OnDestroy
    <2>2. \/ pc'[e] = "idle"
          \/ pc'[e] = pc[e] /\ pc[e] # "connected"
      BY <1>5 DEF OnDestroy, EndRequest, Moves
    <2> QED
      BY <2>1, <2>2, DestroyVpnEngine
  <1>6. CASE SetStarting(e) \/ CreateCall(e) \/ StartFails(e)
    <2>1. /\ UNCHANGED <<act, tun, native, cleaning>>
          /\ pc'[e] \in {"network", "failing", "creating"}
      BY <1>6 DEF SetStarting, CreateCall, StartFails, Moves
    <2> QED
      BY <2>1 DEF EngineInv
  <1>7. CASE Protect(e)
    <2>1. /\ UNCHANGED <<act, tun, native, cleaning>>
          /\ pc[e] = "created" /\ pc'[e] \in {"protected", "failing"}
      BY <1>7 DEF Protect, At, Moves
    <2> QED
      BY <2>1 DEF EngineInv
  <1>8. CASE StartEngine(e)
    <2>1. /\ UNCHANGED <<act, tun, cleaning>> /\ pc[e] = "protected"
          /\ \/ native'[e] = FALSE /\ pc'[e] = "failing"
             \/ pc'[e] = "committing" /\ act[e] = req[e]
      BY <1>8 DEF StartEngine, At, Moves, Current
    <2>2. req[e] # NoAttempt
      BY <2>1 DEF ExtInv, BindInv
    <2> QED
      BY <2>1, <2>2 DEF EngineInv
  <1>9. CASE Commit(e)
    <2>1. /\ UNCHANGED <<act, tun, cleaning>> /\ pc[e] = "committing"
          /\ pc'[e] \in {"committed", "failing"}
      BY <1>9 DEF Commit, At, Moves
    <2> QED
      BY <2>1 DEF EngineInv
  <1>10. CASE StartReturns(e)
    <2>1. /\ UNCHANGED <<act, tun, native, cleaning>> /\ pc[e] = "committed"
          /\ \/ pc'[e] = "failing"
             \/ pc'[e] = "connected" /\ act[e] = req[e]
      BY <1>10 DEF StartReturns, At, Moves, Current
    <2>2. req[e] # NoAttempt
      BY <2>1 DEF ExtInv, BindInv
    <2> QED
      BY <2>1, <2>2 DEF EngineInv
  <1>11. CASE CreateSettles(e)
    <2>1. /\ UNCHANGED <<act, native, pc, cleaning>>
          /\ tun'[e] = tun[e] \/ tun'[e] # NoAttempt
      BY <1>11 DEF CreateSettles
    <2> QED
      BY <2>1 DEF EngineInv
  <1>12. CASE NativeExit(e)
    <2>1. UNCHANGED <<act, tun, pc, cleaning>> /\ native'[e] = FALSE
      BY <1>12 DEF NativeExit
    <2> QED
      BY <2>1 DEF EngineInv
  <1>13. CASE StopNative(e)
    <2>1. /\ UNCHANGED <<act, tun, pc>> /\ cleaning[e].pc = "stop" /\ Alive(e)
          /\ pc[e] # "committing"
          /\ native'[e] = (~StopsEngine(e, Synced(e)) /\ native[e])
      BY <1>13 DEF StopNative, CleaningAt
    <2>2. e \in Procs /\ nextAttempt \in Nat \ {0}
      BY MaxAttemptsAssumption DEF Procs, PluginType
    <2>3. Synced(e).attempt = Mine(e).attempt
      BY <2>2, SyncedSound
    <2>4. Owner(e, cleaning[e].attempt)
      BY <2>1 DEF ExtInv, CleaningInv
    <2>5. StopsEngine(e, Synced(e))
      BY <2>1, <2>3, <2>4, CleaningFacts, HolderOwns DEF Owner, StopsEngine, Binding
    <2>6. ~native'[e]
      BY <2>1, <2>5
    <2> QED
      BY <1>0, <2>1, <2>6 DEF EngineInv
  <1>14. CASE Destroy(e) \/ CleanupError(e) \/ Ack(e) \/ AckPublish(e)
    <2>1. /\ UNCHANGED <<act, native, pc>>
          /\ cleaning[e].pc \in {"destroy", "ack", "acked"}
      BY <1>14 DEF Destroy, CleanupError, Ack, AckPublish, CleaningAt
    <2> QED
      BY <1>0, <2>1 DEF EngineInv
  <1>15. CASE ExtCrash(e)
    BY <1>15 DEF ExtCrash, EngineInv
  <1> QED
    BY <1>1, <1>2, <1>3, <1>4, <1>5, <1>6, <1>7, <1>8, <1>9, <1>10, <1>11, <1>12,
       <1>13, <1>14, <1>15 DEF ExtNext, ExtRuns, ExtCleans

-----------------------------------------------------------------------------
(* The frames that an Extension publishes *)

AllClean == \A u \in Uis : UiCleanInv(u)

(* A frame cannot take an acknowledgement back if it repeats it, if it is  *)
(* not terminal, or if its attempt is still in the journal.                *)
Harmless(g) ==
    g.cleanup \/ g.outcome \notin Terminal \/ g.attempt = journal.attempt

LEMMA ExtStoreClean ==
    ASSUME TypeInv, FramesInv, AllClean, NEW e \in Exts, NEW g, NEW s, NEW b,
           Store(e, g, s, b), b => Harmless(g)
    PROVE  AllClean'
  <1> USE DEF TypeInv, TypeOK
  <1> SUFFICES ASSUME NEW u \in Uis PROVE UiCleanInv(u)'
    BY DEF AllClean
  <1>0. u \in Procs /\ e \in Procs /\ u # e /\ u # None
    BY ProcessAssumption DEF Procs
  <1>1. Mine(u)' = Mine(u) /\ UiCleanInv(u)
    BY <1>0, StoreOther DEF AllClean
  <1>2. CASE b /\ ipc[e] = u
    <2>1. vpnLane'[u] = g
      BY <1>0, <1>2 DEF Store, LanesType
    <2>2. Sound(Mine(u))
      BY <1>0 DEF FramesInv, AllFrames
    <2> QED
      BY <1>1, <1>2, <2>1, <2>2 DEF UiCleanInv, Matches, Harmless, Sound
  <1>3. CASE ~(b /\ ipc[e] = u)
    <2>1. vpnLane'[u] = vpnLane[u]
      BY <1>0, <1>3 DEF Store, LanesType
    <2>2. ~(b /\ Reads(u, e))
      BY <1>0, <1>3, ProcessAssumption DEF Reads
    <2>3. seen'[u] = seen[u]
      BY <1>0, <2>2 DEF Store, LanesType
    <2> QED
      BY <1>1, <2>1, <2>3 DEF UiCleanInv, Matches
  <1> QED
    BY <1>2, <1>3

(* A step that publishes nothing.                                          *)
LEMMA ExtQuietClean ==
    ASSUME AllClean, UNCHANGED vpnLane,
           \A u \in Uis : Mine(u)' = Mine(u) /\ seen'[u] = seen[u]
    PROVE  AllClean'
  BY DEF AllClean, UiCleanInv, Matches

(* While an Extension has a session, its attempt is in the journal.        *)
LEMMA SessionInJournal ==
    ASSUME TypeInv, FramesInv, NEW e \in Exts, ExtInv(e), Alive(e),
           act[e] # NoAttempt \/ cleaning[e].pc \in {"stop", "destroy", "ack", "failed"}
               \/ pc[e] = "publish"
    PROVE  Mine(e).attempt = journal.attempt /\ Synced(e).attempt = journal.attempt
  <1> USE DEF TypeInv, TypeOK
  <1>1. e \in Procs /\ nextAttempt \in Nat \ {0}
    BY MaxAttemptsAssumption DEF Procs, PluginType
  <1>2. extLease.holder = e
    BY DEF ExtInv, ActiveInv, CleaningInv, BindInv, Owner
  <1>3. pc[e] # "attach"
    <2>1. CASE act[e] # NoAttempt
      BY <2>1 DEF ExtInv, ActiveInv, Unowned, Binding
    <2>2. CASE cleaning[e].pc \in {"stop", "destroy", "ack", "failed"}
      BY <2>2, CleaningFacts DEF Binding
    <2> QED
      BY <2>1, <2>2
  <1> QED
    BY <1>1, <1>2, <1>3, HolderOwns, SyncedSound

(* No step of an Extension puts a frame in the lane that takes an          *)
(* acknowledgement back.                                                   *)
LEMMA ExtNextPublishes ==
    ASSUME TypeInv, FramesInv, AllClean, NEW e \in Exts, ExtInv(e), EngineInv(e),
           TellingInv(e), ExtNext(e)
    PROVE  AllClean'
  <1> USE DEF TypeInv, TypeOK
  <1> DEFINE f == Synced(e)
  <1>0. e \in Procs /\ \A u \in Uis : u \in Procs /\ u # e
    BY ProcessAssumption DEF Procs
  <1>f. f \in Frames /\ Mine(e) \in Frames
    BY <1>0, SyncedType
  <1>q. UNCHANGED lanes => AllClean'
    BY ExtQuietClean DEF lanes, Mine
  <1>l. ASSUME NEW g, NEW b, LocalOp(e, g, b), b => Harmless(g) PROVE AllClean'
    BY <1>l, ExtStoreClean DEF LocalOp
  <1>r. pc[e] # "idle" => req[e] # NoAttempt
    BY DEF ExtInv, BindInv
  <1>t. ASSUME Tick(e), Alive(e), act[e] # NoAttempt PROVE AllClean'
    <2>1. Ticked(e, f).attempt = f.attempt
      BY <1>f DEF Ticked, FailedFrame, Frames
    <2>2. f.attempt = journal.attempt
      BY <1>t, SessionInJournal
    <2> QED
      BY <1>l, <1>t, <2>1, <2>2 DEF Tick, Harmless
  <1>1. CASE \/ RequestRefused(e) \/ BindAcquire(e) \/ BindAttach(e) \/ BindError(e)
             \/ CreateCall(e) \/ CreateReturns(e) \/ CreateSettles(e) \/ StartFails(e)
             \/ OnDestroy(e) \/ Destroy(e) \/ CleanupError(e)
    BY <1>1, <1>q DEF RequestRefused, BindAcquire, BindAttach, BindError, CreateCall,
       CreateReturns, CreateSettles, StartFails, OnDestroy, Destroy, CleanupError
  <1>2. CASE (\E w \in wants : Deliver(e, w)) \/ ExtCrash(e)
    <2>1. UNCHANGED vpnLane
      BY <1>2 DEF Deliver, ExtCrash
    <2>2. \A u \in Uis : Mine(u)' = Mine(u) /\ seen'[u] = seen[u]
      BY <1>0, <1>2 DEF Deliver, ExtCrash, Mine, LanesType
    <2> QED
      BY <2>1, <2>2, ExtQuietClean
  <1>3. CASE BindSync(e) \/ StartEngine(e) \/ Unbound(e) \/ Ack(e)
    BY <1>3, <1>l, <1>q, ExtStoreClean
       DEF BindSync, StartEngine, Unbound, Ack, lanes
  <1>4. CASE BindPublish(e)
    <2> DEFINE g == [f EXCEPT !.owner = e, !.attached = TRUE,
                              !.cleanup = f.attached /\ f.cleanup]
    <2>1. Alive(e) /\ pc[e] = "publish" /\ \E b : Store(e, g, TRUE, b)
      BY <1>4 DEF BindPublish, At
    <2>2. g.attempt = f.attempt
      BY <1>f DEF Frames
    <2>3. f.attempt = journal.attempt
      BY <2>1, SessionInJournal
    <2> QED
      BY <2>1, <2>2, <2>3, ExtStoreClean DEF Harmless
  <1>5. CASE Settle(e) \/ AckPublish(e)
    <2>1. Telling(e) /\ Store(e, Mine(e), FALSE, TRUE)
      BY <1>5 DEF Settle, AckPublish, At, CleaningAt, Telling
    <2> QED
      BY <2>1, ExtStoreClean DEF TellingInv, Harmless
  <1>6. CASE BoundTick(e) \/ Heartbeat(e)
    <2>1. Alive(e) /\ Tick(e) /\ pc[e] \in {"bound", "connected"}
      BY <1>6 DEF BoundTick, Heartbeat, At
    <2>2. act[e] # NoAttempt
      BY <1>r, <2>1 DEF ExtInv, ActiveInv, EngineInv
    <2> QED
      BY <1>t, <2>1, <2>2
  <1>7. CASE StartReturns(e)
    <2>1. Alive(e) /\ pc[e] = "committed"
      BY <1>7 DEF StartReturns, At
    <2>2. UNCHANGED lanes \/ (Tick(e) /\ act[e] = req[e])
      BY <1>7 DEF StartReturns, Current
    <2> QED
      BY <1>q, <1>r, <1>t, <2>1, <2>2
  <1>8. CASE SetStarting(e)
    <2> DEFINE ok == Accepts(f, req[e]) /\ f.outcome = "Pending"
               g == IF ok THEN [f EXCEPT !.starting = TRUE, !.running = FALSE] ELSE f
    <2>1. LocalOp(e, g, ok)
      BY <1>8 DEF SetStarting
    <2>2. ok => g.outcome \notin Terminal
      BY <1>f DEF Frames, Terminal
    <2> HIDE DEF g, ok
    <2> QED
      BY <1>l, <2>1, <2>2 DEF Harmless
  <1>9. CASE Protect(e)
    <2>1. LocalOp(e, f, Accepts(f, req[e]))
      BY <1>9 DEF Protect
    <2>2. Accepts(f, req[e]) => f.outcome \notin Terminal
      BY DEF Accepts, ActiveFor, Terminal
    <2> QED
      BY <1>l, <2>1, <2>2 DEF Harmless
  <1>10. CASE Commit(e)
    <2> DEFINE ok == Accepts(f, req[e])
               g == IF ok THEN [f EXCEPT !.starting = FALSE, !.running = TRUE,
                                         !.outcome = "Connected"] ELSE f
    <2>1. LocalOp(e, g, ok)
      BY <1>10 DEF Commit
    <2>2. ok => g.outcome \notin Terminal
      BY <1>f DEF Frames, Terminal
    <2> HIDE DEF g, ok
    <2> QED
      BY <1>l, <2>1, <2>2 DEF Harmless
  <1>11. CASE ChainFails(e)
    <2>1. CASE UNCHANGED lanes
      BY <1>q, <2>1
    <2>2. CASE Current(e)
      <3> DEFINE g == IF Accepts(f, req[e]) THEN FailedFrame(f) ELSE f
      <3>1. LocalOp(e, g, Accepts(f, req[e])) /\ Alive(e) /\ pc[e] = "failing"
        BY <1>11, <2>2 DEF ChainFails, At
      <3>2. g.attempt = f.attempt
        BY <1>f DEF FailedFrame, Frames
      <3>3. f.attempt = journal.attempt
        BY <1>r, <2>2, <3>1, SessionInJournal DEF Current
      <3> HIDE DEF g
      <3> QED
        BY <1>l, <3>1, <3>2, <3>3 DEF Harmless
    <2> QED
      BY <1>11, <2>1, <2>2 DEF ChainFails
  <1>12. CASE NativeExit(e)
    <2>1. /\ Alive(e) /\ native[e]
          /\ UNCHANGED lanes \/ Store(e, FailedFrame(Mine(e)), FALSE, TRUE)
      BY <1>12 DEF NativeExit
    <2>2. Mine(e).attempt = journal.attempt
      BY <2>1, SessionInJournal DEF EngineInv
    <2>3. FailedFrame(Mine(e)).attempt = Mine(e).attempt
      BY <1>f DEF FailedFrame, Frames
    <2> QED
      BY <1>q, <2>1, <2>2, <2>3, ExtStoreClean DEF Harmless
  <1>13. CASE StopNative(e)
    <2> DEFINE ours == f.attempt = cleaning[e].attempt
               g == IF ours THEN StoppedFrame(f) ELSE f
    <2>1. LocalOp(e, g, ours) /\ Alive(e) /\ cleaning[e].pc = "stop"
      BY <1>13 DEF StopNative, CleaningAt
    <2>2. g.attempt = f.attempt
      BY <1>f DEF StoppedFrame, Frames
    <2>3. f.attempt = journal.attempt
      BY <2>1, SessionInJournal
    <2> HIDE DEF g, ours
    <2> QED
      BY <1>l, <2>1, <2>2, <2>3 DEF Harmless
  <1> QED
    BY <1>1, <1>2, <1>3, <1>4, <1>5, <1>6, <1>7, <1>8, <1>9, <1>10, <1>11, <1>12,
       <1>13 DEF ExtNext, ExtRuns, ExtCleans

(* What an Extension is about to say stays true until it has said it.      *)
LEMMA ExtNextTelling ==
    ASSUME TypeInv, FramesInv, NEW e \in Exts, ExtInv(e), EngineInv(e),
           TellingInv(e), ExtNext(e)
    PROVE  TellingInv(e)'
  <1> USE DEF TypeInv, TypeOK, AbilityType
  <1> DEFINE f == Synced(e)
  <1>0. e \in Procs
    BY DEF Procs
  <1>f. f \in Frames
    BY <1>0, SyncedType
  <1>d. DestroyVpn(e) => cleaning'[e] = cleaning[e] \/ cleaning'[e].pc # "acked"
    BY DEF DestroyVpn, NoCleanup
  <1>c. \A where : Cleans(e, where) => cleaning'[e].pc = where
    BY DEF Cleans, Cleanups
  <1>n. cleaning' = [cleaning EXCEPT ![e] = NoCleanup] => cleaning'[e].pc = "none"
    BY DEF NoCleanup
  <1>1. CASE \/ \E w \in wants : Deliver(e, w)
             \/ CreateSettles(e) \/ BindError(e) \/ StartFails(e) \/ OnDestroy(e)
             \/ CleanupError(e) \/ Destroy(e)
    <2>1. Mine(e)' = Mine(e)
      BY <1>1 DEF Deliver, CreateSettles, BindError, StartFails, OnDestroy,
         CleanupError, Destroy, lanes, Mine
    <2>2. pc'[e] = "settle" => pc[e] = "settle"
      BY <1>1 DEF Deliver, CreateSettles, BindError, StartFails, OnDestroy,
         CleanupError, Destroy, EndRequest, Moves
    <2>3. cleaning'[e].pc = "acked" => cleaning[e].pc = "acked"
      BY <1>1, <1>d, <1>c, <1>n DEF Deliver, CreateSettles, BindError, StartFails,
         OnDestroy, CleanupError, Destroy
    <2> QED
      BY <2>1, <2>2, <2>3 DEF TellingInv, Telling
  <1>2. CASE \/ RequestRefused(e) \/ BindSync(e) \/ BindAcquire(e) \/ BindAttach(e)
             \/ BindPublish(e) \/ Settle(e) \/ SetStarting(e) \/ CreateCall(e)
             \/ Protect(e) \/ StartEngine(e) \/ Commit(e) \/ StartReturns(e)
    <2>1. pc'[e] # "settle"
      BY <1>2 DEF RequestRefused, BindSync, BindAcquire, BindAttach, BindPublish,
         Settle, SetStarting, CreateCall, Protect, StartEngine, Commit,
         StartReturns, Moves
    <2>2. cleaning'[e].pc # "acked"
      BY <1>2, <1>n DEF RequestRefused, BindSync, BindAcquire, BindAttach,
         BindPublish, Settle, SetStarting, CreateCall, Protect, StartEngine,
         Commit, StartReturns, At
    <2> QED
      BY <2>1, <2>2 DEF TellingInv, Telling
  <1>3. CASE BoundTick(e) \/ CreateReturns(e) \/ ChainFails(e) \/ Heartbeat(e)
    <2>1. pc'[e] # "settle"
      BY <1>3 DEF BoundTick, CreateReturns, ChainFails, Heartbeat, EndRequest,
         Moves, At
    <2>2. cleaning'[e].pc # "acked"
      BY <1>3, <1>d DEF BoundTick, CreateReturns, ChainFails, Heartbeat, At
    <2> QED
      BY <2>1, <2>2 DEF TellingInv, Telling
  <1>4. CASE Unbound(e)
    <2>1. CASE Moves(e, "idle")
      <3>1. pc'[e] # "settle" /\ cleaning'[e].pc # "acked"
        BY <1>4, <2>1 DEF Unbound, At, Moves
      <3> QED
        BY <3>1 DEF TellingInv, Telling
    <2>2. CASE Store(e, FailedUnattached(f), TRUE, FALSE)
      <3>1. Mine(e)' = FailedUnattached(f)
        BY <1>0, <2>2 DEF Store, Mine, LanesType
      <3> QED
        BY <1>f, <3>1 DEF TellingInv, FailedUnattached, FailedFrame, Frames, Terminal
    <2> QED
      BY <1>4, <2>1, <2>2 DEF Unbound
  <1>5. CASE Ack(e)
    <2>1. CASE f.outcome \in Terminal /\ Store(e, CleanedFrame(f), TRUE, FALSE)
      <3>1. Mine(e)' = CleanedFrame(f)
        BY <1>0, <2>1 DEF Store, Mine, LanesType
      <3> QED
        BY <1>f, <2>1, <3>1 DEF TellingInv, CleanedFrame, Frames
    <2>2. CASE cleaning' = [cleaning EXCEPT ![e] = NoCleanup] \/ Cleans(e, "failed")
      <3>1. pc'[e] # "settle" /\ cleaning'[e].pc # "acked"
        BY <1>5, <1>c, <1>n, <2>2 DEF Ack, CleaningAt
      <3> QED
        BY <3>1 DEF TellingInv, Telling
    <2> QED
      BY <1>5, <2>1, <2>2 DEF Ack
  <1>6. CASE AckPublish(e) \/ StopNative(e)
    <2>1. pc'[e] # "settle" /\ cleaning'[e].pc # "acked"
      BY <1>6, <1>c, <1>n DEF AckPublish, StopNative, CleaningAt
    <2> QED
      BY <2>1 DEF TellingInv, Telling
  <1>7. CASE NativeExit(e)
    <2>1. /\ native[e] /\ pc[e] \in {"committed", "connected"}
          /\ UNCHANGED <<pc, cleaning>>
      BY <1>7 DEF NativeExit
    <2>2. cleaning[e].pc # "acked"
      BY <2>1 DEF EngineInv, ExtInv, ActiveInv
    <2> QED
      BY <2>1, <2>2 DEF TellingInv, Telling
  <1>8. CASE ExtCrash(e)
    BY <1>8 DEF ExtCrash, TellingInv, Telling, NoCleanup
  <1> QED
    BY <1>1, <1>2, <1>3, <1>4, <1>5, <1>6, <1>7, <1>8 DEF ExtNext, ExtRuns, ExtCleans

-----------------------------------------------------------------------------
(* The frames that the UI process keeps *)

(* u keeps what it has read, and what it has decided since: it takes no    *)
(* acknowledgement back, and one of its own settles the attempt.           *)
UiKeeps(u, f) ==
    /\ f.attempt = Mine(u).attempt
    /\ Synced(u).outcome \in Terminal => f.outcome \in Terminal
    /\ Synced(u).cleanup => f.cleanup
    /\ f.cleanup => \/ Synced(u).cleanup
                    \/ /\ f.attempt # NoAttempt /\ f.outcome \in Terminal
                       /\ journal.attempt = f.attempt \/ Finishing(f.attempt)

UiStores(u) == \E f, b : Store(u, f, TRUE, b) /\ UiKeeps(u, f)

(* Its frame is left alone.                                                *)
UiRests(u) == Mine(u)' = Mine(u) /\ UNCHANGED <<vpnLane, seen>>

(* A claim publishes the stop of an attempt that is not cleaned up.        *)
UiPublishes(u) ==
    /\ ~Mine(u).cleanup /\ ~Mine(u)'.cleanup
    /\ Mine(u)'.attempt = Mine(u).attempt
    /\ vpnLane' = vpnLane
    /\ seen'[u] = seen[u]

(* An attempt begins.                                                      *)
UiBegins(u) ==
    /\ Alive(u)
    /\ journal = NoJournal /\ journal'.attempt = nextAttempt
    /\ nextAttempt' = nextAttempt + 1
    /\ wants' = wants \cup {[attempt |-> nextAttempt, ui |-> u]}
    /\ Mine(u)'.attempt = nextAttempt
    /\ ~Mine(u)'.cleanup
    /\ Mine(u).attempt # NoAttempt => Synced(u).cleanup

(* The process has died.                                                   *)
UiForgets(u) == UiCrash(u) /\ Mine(u)' = InitFrame

(* What a step of the UI process does to its frame.                        *)
LEMMA UiNextFrame ==
    ASSUME TypeInv, FramesInv, FinishSession, NEW u \in Uis, UiNext(u)
    PROVE  UiStores(u) \/ UiRests(u) \/ UiPublishes(u) \/ UiBegins(u) \/ UiForgets(u)
  <1> USE DEF TypeInv, TypeOK
  <1> DEFINE f == Synced(u)
  <1>0. u \in Procs /\ u \notin Exts /\ nextAttempt \in Nat \ {0}
    BY ProcessAssumption, MaxAttemptsAssumption DEF Procs, PluginType
  <1>f. f \in Frames /\ Mine(u) \in Frames /\ f.attempt = Mine(u).attempt
    BY <1>0, SyncedType, SyncedSound
  <1>l. \A g, b : LocalOp(u, g, b) /\ UiKeeps(u, g) => UiStores(u)
    BY DEF LocalOp, UiStores
  <1>s. LocalOp(u, f, FALSE) => UiStores(u)
    BY <1>f, <1>l DEF UiKeeps
  <1>q. UNCHANGED lanes => UiRests(u)
    BY DEF lanes, UiRests, Mine
  <1>t. ASSUME NEW b, LocalOp(u, FailedFrame(f), b) PROVE UiStores(u)
    <2>1. UiKeeps(u, FailedFrame(f))
      BY <1>f DEF UiKeeps, FailedFrame, Frames, Terminal
    <2> QED
      BY <1>l, <1>t, <2>1
  <1>1. CASE \/ Cooperative(u) \/ RecoverSync(u) \/ RecoverMissing(u) \/ UiSync(u)
             \/ AwaitDeadline(u) \/ UiOwnerReleased(u)
    BY <1>1, <1>s, <1>t DEF Cooperative, RecoverSync, RecoverMissing, UiSync,
       AwaitDeadline, UiOwnerReleased
  <1>2. CASE \/ ClaimFence(u) \/ ClaimReread(u) \/ RequestStart(u) \/ OsStopBegin(u)
             \/ OsStopConfirmed(u) \/ OsStopRejected(u) \/ RecoverRead(u)
             \/ RecoverProve(u) \/ RecoverDeadline(u) \/ RecoverDelete(u)
             \/ AwaitDone(u) \/ UiStart(u)
    BY <1>2, <1>q DEF ClaimFence, ClaimReread, RequestStart, OsStopBegin,
       OsStopConfirmed, OsStopRejected, RecoverRead, RecoverProve, RecoverDeadline,
       RecoverDelete, AwaitDone, UiStart
  <1>3. CASE RequestStop(u) \/ StartHead(u)
    <2>1. UNCHANGED lanes \/ LocalOp(u, f, FALSE)
      BY <1>3 DEF RequestStop, StartHead, ClaimRead, lanes
    <2> QED
      BY <1>q, <1>s, <2>1
  <1>4. CASE Authorize(u)
    <2>1. \/ UNCHANGED lanes \/ LocalOp(u, f, FALSE)
          \/ LocalOp(u, [f EXCEPT !.stopReq = TRUE], TRUE)
      BY <1>4 DEF Authorize
    <2>2. UiKeeps(u, [f EXCEPT !.stopReq = TRUE])
      BY <1>f DEF UiKeeps, Frames
    <2> QED
      BY <1>l, <1>q, <1>s, <2>1, <2>2
  <1>5. CASE ClaimPublish(u)
    <2>1. CASE UNCHANGED lanes
      BY <1>q, <2>1
    <2>2. CASE ~(Mine(u).attempt = NoAttempt \/ Mine(u).cleanup)
      <3> DEFINE g == IF Mine(u).outcome = "Pending"
                      THEN [Mine(u) EXCEPT !.outcome = "Cancelled", !.starting = FALSE,
                                           !.running = FALSE, !.stopReq = TRUE]
                      ELSE [Mine(u) EXCEPT !.stopReq = TRUE]
      <3>1. Store(u, g, FALSE, TRUE)
        BY <1>5, <2>2 DEF ClaimPublish
      <3>2. g.attempt = Mine(u).attempt /\ g.cleanup = Mine(u).cleanup
        BY <1>f DEF Frames
      <3> HIDE DEF g
      <3>3. Mine(u)' = g /\ vpnLane' = vpnLane /\ seen'[u] = seen[u]
        BY <1>0, <3>1 DEF Store, Mine, LanesType
      <3> QED
        BY <2>2, <3>2, <3>3 DEF UiPublishes
    <2> QED
      BY <1>5, <2>1, <2>2 DEF ClaimPublish
  <1>6. CASE RecoverFinish(u)
    <2> DEFINE g == CleanedFrame([f EXCEPT !.starting = FALSE, !.running = FALSE,
                                    !.outcome = IF f.outcome = "Failed" THEN "Failed"
                                                ELSE "Cancelled"])
    <2>1. \/ LocalOp(u, g, TRUE) /\ f.attempt = Op.session
          \/ LocalOp(u, f, FALSE)
      BY <1>6 DEF RecoverFinish
    <2>2. Op.session # NoAttempt
      BY <1>6 DEF RecoverFinish, AtHead, FinishSession, Op
    <2>3. g.attempt = f.attempt /\ g.cleanup /\ g.outcome \in Terminal
      BY <1>f DEF CleanedFrame, Frames, Terminal
    <2> HIDE DEF g
    <2>4. Finishing(Op.session)
      BY <1>6 DEF RecoverFinish, AtHead, Finishing, Op
    <2>5. f.attempt = Op.session => UiKeeps(u, g)
      BY <1>f, <2>2, <2>3, <2>4 DEF UiKeeps
    <2> QED
      BY <1>l, <1>s, <2>1, <2>5
  <1>7. CASE \E a \in dispatch : DispatchRejected(u, a)
    <2> PICK a \in dispatch : DispatchRejected(u, a)
      BY <1>7
    <2>1. CASE LocalOp(u, f, FALSE)
      BY <1>s, <2>1
    <2>2. CASE FailsUnattached(f, a) /\ Store(u, FailedUnattached(f), TRUE, TRUE)
      <3>1. f.attempt # NoAttempt /\ journal.attempt = f.attempt
        BY <2>2 DEF FailsUnattached, CanDeletePending, SharedType, ValidRecord,
           NoJournal, Attempts, NoAttempt
      <3>2. UiKeeps(u, FailedUnattached(f))
        BY <1>f, <3>1 DEF UiKeeps, FailedUnattached, FailedFrame, Frames, Terminal
      <3> QED
        BY <2>2, <3>2 DEF UiStores
    <2> QED
      BY <2>1, <2>2 DEF DispatchRejected
  <1>8. CASE UiWatchdog(u)
    <2>1. seen[u]
      BY <1>8 DEF UiWatchdog
    <2>2. f = Mine(u)
      BY <2>1 DEF Synced
    <2>3. CASE core' = [core EXCEPT ![u].stale = TRUE] /\ UNCHANGED <<vpnLane, seen>>
      BY <1>0, <2>3 DEF UiRests, Mine, LanesType, Cores
    <2>4. CASE LocalOp(u, FailedFrame(Mine(u)), TRUE)
      BY <1>t, <2>2, <2>4
    <2> QED
      BY <1>8, <2>3, <2>4 DEF UiWatchdog
  <1>9. CASE Begin(u)
    <2>1. CASE LocalOp(u, f, FALSE)
      BY <1>s, <2>1
    <2>2. CASE ~LocalOp(u, f, FALSE)
      <3> DEFINE pending == [InitFrame EXCEPT !.attempt = nextAttempt,
                                              !.outcome = "Pending", !.starting = TRUE]
      <3>1. /\ core' = [core EXCEPT ![u] = [frame |-> pending, stale |-> FALSE]]
            /\ ~(f.attempt # NoAttempt /\ ~f.cleanup)
            /\ Alive(u) /\ journal = NoJournal
            /\ journal' = PendingJournal(nextAttempt, u)
            /\ nextAttempt' = nextAttempt + 1
            /\ wants' = wants \cup {[attempt |-> nextAttempt, ui |-> u]}
        BY <1>9, <2>2 DEF Begin, UiReady
      <3>2. Mine(u)' = pending
        BY <1>0, <3>1 DEF Mine, LanesType
      <3>3. pending.attempt = nextAttempt /\ ~pending.cleanup
        BY DEF InitFrame
      <3> QED
        BY <1>f, <3>1, <3>2, <3>3 DEF UiBegins, PendingJournal
    <2> QED
      BY <2>1, <2>2
  <1>10. CASE UiCrash(u)
    BY <1>0, <1>10 DEF UiCrash, UiForgets, Mine, InitCore, LanesType
  <1> QED
    BY <1>1, <1>2, <1>3, <1>4, <1>5, <1>6, <1>7, <1>8, <1>9, <1>10
       DEF UiNext, UiClaims, UiRuns

(* A step of one process of the UI leaves the lane and the others alone.   *)
Alone(u) ==
    /\ vpnLane' = vpnLane
    /\ \A v \in Uis \ {u} : Mine(v)' = Mine(v) /\ seen'[v] = seen[v]

LEMMA UiNextAlone ==
    ASSUME TypeInv, NEW u \in Uis, UiNext(u)
    PROVE  Alone(u)
  <1> USE DEF TypeInv, TypeOK
  <1>0. u \in Procs /\ u \notin Exts /\ \A v \in Uis : v \in Procs /\ v \notin Exts
    BY ProcessAssumption DEF Procs
  <1>s. ASSUME NEW f, NEW s, NEW b, Store(u, f, s, b) PROVE Alone(u)
    BY <1>0, <1>s DEF Store, Reads, Mine, LanesType, Alone
  <1>l. \A f, b : LocalOp(u, f, b) => Alone(u)
    BY <1>s DEF LocalOp
  <1>q. UNCHANGED lanes => Alone(u)
    BY DEF lanes, Alone, Mine
  <1>1. CASE \/ Cooperative(u) \/ RecoverSync(u) \/ RecoverMissing(u) \/ UiSync(u)
             \/ AwaitDeadline(u) \/ UiOwnerReleased(u) \/ RecoverFinish(u)
    BY <1>1, <1>l DEF Cooperative, RecoverSync, RecoverMissing, UiSync,
       AwaitDeadline, UiOwnerReleased, RecoverFinish
  <1>2. CASE \/ ClaimFence(u) \/ ClaimReread(u) \/ RequestStart(u) \/ OsStopBegin(u)
             \/ OsStopConfirmed(u) \/ OsStopRejected(u) \/ RecoverRead(u)
             \/ RecoverProve(u) \/ RecoverDeadline(u) \/ RecoverDelete(u)
             \/ AwaitDone(u) \/ UiStart(u)
    BY <1>2, <1>q DEF ClaimFence, ClaimReread, RequestStart, OsStopBegin,
       OsStopConfirmed, OsStopRejected, RecoverRead, RecoverProve, RecoverDeadline,
       RecoverDelete, AwaitDone, UiStart
  <1>3. CASE RequestStop(u) \/ StartHead(u) \/ Authorize(u)
    <2>1. UNCHANGED lanes \/ \E f, b : LocalOp(u, f, b)
      BY <1>3 DEF RequestStop, StartHead, ClaimRead, Authorize, lanes
    <2> QED
      BY <1>q, <1>l, <2>1
  <1>4. CASE ClaimPublish(u) \/ \E a \in dispatch : DispatchRejected(u, a)
    <2>1. \/ UNCHANGED lanes \/ \E f, b : LocalOp(u, f, b)
          \/ \E f, s, b : Store(u, f, s, b)
      BY <1>4 DEF ClaimPublish, DispatchRejected
    <2> QED
      BY <1>q, <1>l, <1>s, <2>1
  <1>5. CASE UiWatchdog(u)
    <2>1. \/ LocalOp(u, FailedFrame(Mine(u)), TRUE)
          \/ core' = [core EXCEPT ![u].stale = TRUE] /\ UNCHANGED <<vpnLane, seen>>
      BY <1>5 DEF UiWatchdog
    <2> QED
      BY <1>0, <1>l, <2>1 DEF Alone, Mine, LanesType
  <1>6. CASE Begin(u)
    <2>1. CASE LocalOp(u, Synced(u), FALSE)
      BY <1>l, <2>1
    <2>2. CASE /\ \E c : core' = [core EXCEPT ![u] = c]
               /\ vpnLane' = vpnLane
               /\ seen' = [q \in Procs |-> seen[q] /\ q # u /\ ~Reads(q, u)]
      BY <1>0, <2>2 DEF Alone, Mine, Reads, LanesType
    <2> QED
      BY <1>6, <2>1, <2>2 DEF Begin
  <1>7. CASE UiCrash(u)
    BY <1>0, <1>7 DEF UiCrash, Alone, Mine, LanesType
  <1> QED
    BY <1>1, <1>2, <1>3, <1>4, <1>5, <1>6, <1>7 DEF UiNext, UiClaims, UiRuns

(* What the UI process has learnt of a cleanup, it knows after it has read *)
(* the lane again.                                                         *)
LEMMA SyncedClean ==
    ASSUME TypeInv, NEW u \in Uis, UiCleanInv(u)
    PROVE  /\ Mine(u).cleanup => Synced(u).cleanup
           /\ Synced(u).cleanup => /\ Synced(u).outcome \in Terminal
                                   /\ Synced(u).attempt # NoAttempt
  <1> USE DEF TypeInv, TypeOK
  <1>1. u \in Procs /\ Mine(u) \in Frames /\ Remote(u) = vpnLane[u]
    BY SyncedType DEF Procs, Remote
  <1>2. CASE Matches(Mine(u), Remote(u)) /\ ~seen[u]
    <2>1. Synced(u) = Merge(Mine(u), vpnLane[u], TRUE)
      BY <1>1, <1>2 DEF Synced
    <2>2. Mine(u).attempt # NoAttempt /\ vpnLane[u] \in Frames
      BY <1>1, <1>2 DEF Matches, LanesType
    <2> QED
      BY <1>1, <1>2, <2>1, <2>2 DEF Merge, UiCleanInv, Frames
  <1>3. CASE ~(Matches(Mine(u), Remote(u)) /\ ~seen[u])
    BY <1>3 DEF Synced, UiCleanInv
  <1> QED
    BY <1>2, <1>3

(* No step of the UI process forgets that an attempt is cleaned up.        *)
LEMMA UiNextAcknowledged ==
    ASSUME TypeInv, FramesInv, FinishSession, AllClean, NEW u \in Uis, UiNext(u)
    PROVE  /\ AllClean'
           /\ \A v \in Uis : Mine(v).cleanup /\ Mine(v)'.attempt = Mine(v).attempt
                  => Mine(v)'.cleanup
  <1> USE DEF TypeInv, TypeOK
  <1>0. u \in Procs /\ u \notin Exts /\ nextAttempt \in Nat \ {0}
    BY ProcessAssumption, MaxAttemptsAssumption DEF Procs, PluginType
  <1>1. /\ vpnLane' = vpnLane
        /\ \A v \in Uis \ {u} : Mine(v)' = Mine(v) /\ seen'[v] = seen[v]
    BY UiNextAlone DEF Alone
  <1>2. \A v \in Uis \ {u} : UiCleanInv(v)' /\ (Mine(v).cleanup => Mine(v)'.cleanup)
    BY <1>1 DEF AllClean, UiCleanInv, Matches
  <1>3. UiCleanInv(u) /\ Sound(Mine(u)) /\ Remote(u) = vpnLane[u]
    BY <1>0 DEF AllClean, FramesInv, AllFrames, Remote
  <1> SUFFICES /\ UiCleanInv(u)'
               /\ Mine(u).cleanup /\ Mine(u)'.attempt = Mine(u).attempt
                      => Mine(u)'.cleanup
    BY <1>2 DEF AllClean
  <1>4. CASE UiStores(u)
    <2> PICK f, b : Store(u, f, TRUE, b) /\ UiKeeps(u, f)
      BY <1>4 DEF UiStores
    <2>1. Mine(u)' = f
      BY <1>0 DEF Store, Mine, LanesType
    <2>2. seen'[u] = (seen[u] \/ Matches(f, vpnLane[u]))
      BY <1>0, <1>3 DEF Store, LanesType
    <2>3. Synced(u).attempt = Mine(u).attempt
      BY <1>0, SyncedSound
    <2>4. f.cleanup => f.attempt # NoAttempt /\ f.outcome \in Terminal
      BY <1>3, <2>3, SyncedClean DEF UiKeeps
    <2>5. Mine(u).cleanup => f.cleanup
      BY <1>3, SyncedClean DEF UiKeeps
    <2> QED
      BY <1>1, <2>1, <2>2, <2>4, <2>5 DEF UiCleanInv, Matches
  <1>5. CASE UiRests(u) \/ UiPublishes(u)
    BY <1>3, <1>5 DEF UiRests, UiPublishes, UiCleanInv, Matches
  <1>6. CASE UiBegins(u)
    BY <1>3, <1>6 DEF UiBegins, UiCleanInv, Sound, PluginType
  <1>7. CASE UiForgets(u)
    BY <1>3, <1>7 DEF UiForgets, UiCleanInv, InitFrame
  <1> QED
    BY <1>4, <1>5, <1>6, <1>7, UiNextFrame

-----------------------------------------------------------------------------
(* The theorems *)

LEMMA InitFinal == Init => FinalInv
  BY DEF Init, FinalInv, EngineInv, TellingInv, Telling, UiCleanInv, FinishSession,
     InitCore, InitFrame, NoCleanup, Mine, Procs

(* Recovery finishes the attempt whose record it has deleted.              *)
LEMMA UiNextFinish ==
    ASSUME TypeInv, QueueInv, OwnershipInv, FinishSession, NEW u \in Uis, UiNext(u)
    PROVE  FinishSession'
  <1> USE DEF TypeInv, TypeOK
  <1>q. ops \in Seq(Ops) /\ QueueWaits
    BY DEF PluginType, QueueInv
  <1>1. CASE Holds
    BY <1>1 DEF Holds, Recovering, Recovery, FinishSession
  <1>2. CASE RecoverRead(u) \/ RecoverProve(u)
    <2>1. Len(ops) > 0 /\ Op \in Ops
      BY <1>q, <1>2, HeadMoves DEF RecoverRead, RecoverProve, AtHead
    <2> DEFINE op == [Op EXCEPT !.pc = "recoverProve", !.seen = journal]
    <2>2. op \in Ops /\ op.pc = "recoverProve"
      BY <2>1 DEF Ops, OpPcs, SharedType
    <2>3. \/ EndOp \/ Step(op)
          \/ \E where \in {"recoverMissing", "recoverDelete", "recover"} : Goto(where)
      BY <1>2 DEF RecoverRead, RecoverProve
    <2> HIDE DEF op
    <2>4. CASE EndOp
      BY <1>q, <1>1, <2>1, <2>4, HeadHolds
    <2>5. CASE Step(op)
      BY <1>q, <2>1, <2>2, <2>5, QueueMoves DEF FinishSession
    <2>6. CASE \E where \in {"recoverMissing", "recoverDelete", "recover"} : Goto(where)
      BY <1>q, <2>1, <2>6, QueueMoves DEF FinishSession, OpPcs
    <2> QED
      BY <2>3, <2>4, <2>5, <2>6
  <1>3. CASE RecoverDelete(u)
    <2>1. Len(ops) > 0 /\ Op \in Ops /\ Op.session # NoAttempt
      BY <1>q, <1>3, HeadMoves DEF RecoverDelete, AtHead, Op, OwnershipInv, RecoverInv
    <2>2. ASSUME NEW where \in OpPcs, Goto(where) PROVE Op'.session = Op.session
      <3> DEFINE op == [Op EXCEPT !.pc = where]
      <3>1. op \in Ops /\ op.session = Op.session /\ Step(op)
        BY <2>1, <2>2 DEF Ops, Goto
      <3> HIDE DEF op
      <3> QED
        BY <1>q, <2>1, <3>1, QueueMoves
    <2> QED
      BY <1>3, <2>1, <2>2 DEF RecoverDelete, FinishSession, OpPcs
  <1> QED
    BY <1>1, <1>2, <1>3, UiNextHolds

LEMMA UiNextFinalInv ==
    ASSUME TypeInv, FramesInv, QueueInv, OwnershipInv, FinalInv, NEW u \in Uis,
           UiNext(u)
    PROVE  FinalInv'
  <1>1. \A e \in Exts : EngineInv(e)' /\ TellingInv(e)'
    <2> TAKE e \in Exts
    <2>1. Untouched(e) /\ UNCHANGED ability
      BY UiNextUntouched, UiNextAbility
    <2> QED
      BY <2>1 DEF Untouched, ability, FinalInv, EngineInv, TellingInv, Telling
  <1> QED
    BY <1>1, UiNextAcknowledged, UiNextFinish DEF FinalInv, AllClean

LEMMA ExtNextFinalInv ==
    ASSUME TypeInv, FramesInv, OwnershipInv, FinalInv, NEW e \in Exts, ExtNext(e)
    PROVE  FinalInv'
  <1>1. ExtInv(e) /\ EngineInv(e) /\ TellingInv(e) /\ AllClean
    BY DEF OwnershipInv, FinalInv, AllClean
  <1>2. EngineInv(e)' /\ TellingInv(e)' /\ AllClean'
    BY <1>1, ExtNextEngine, ExtNextTelling, ExtNextPublishes
  <1>3. \A x \in Exts \ {e} : EngineInv(x)' /\ TellingInv(x)'
    <2> TAKE x \in Exts \ {e}
    <2>1. Untouched(x) /\ native'[x] = native[x]
      BY ExtNextUntouched, ExtNextOthers
    <2> QED
      BY <2>1 DEF Untouched, FinalInv, EngineInv, TellingInv, Telling
  <1>4. FinishSession'
    BY ExtNextLife DEF FinalInv, FinishSession, Op
  <1> QED
    BY <1>2, <1>3, <1>4 DEF FinalInv, AllClean

(* The engine has its TUN and someone who will stop it; what a process is  *)
(* about to say of a cleanup, and what it knows of one, stays true.        *)
THEOREM FinalInvariant == ASSUME Punctual PROVE Spec => []FinalInv
  <1> DEFINE Inv == TypeInv /\ FramesInv /\ QueueInv /\ OwnershipInv
  <1>1. Inv /\ FinalInv /\ [Next]_vars => FinalInv'
    <2> SUFFICES ASSUME Inv, FinalInv, [Next]_vars PROVE FinalInv'
      OBVIOUS
    <2>1. CASE Next
      BY <2>1, UiNextFinalInv, ExtNextFinalInv DEF Next
    <2>2. CASE UNCHANGED vars
      BY <2>2 DEF vars, shared, lanes, plugin, ability, FinalInv, EngineInv,
         TellingInv, Telling, UiCleanInv, Matches, FinishSession, Mine, Op
    <2> QED
      BY <2>1, <2>2
  <1>2. Spec => []Inv
    BY TypeInvariant, CleanupInvariant, OwnershipInvariant, PTL
  <1> QED
    BY <1>1, <1>2, InitFinal, PTL DEF Spec

(* The engine never outlives the TUN it reads (stop_platform_vpn before    *)
(* connection.destroy).                                                    *)
THEOREM EngineIsInside == ASSUME Punctual PROVE Spec => []EngineInsideTun
  <1>1. FinalInv => EngineInsideTun
    BY DEF FinalInv, EngineInv, EngineInsideTun
  <1> QED
    BY <1>1, FinalInvariant, PTL

(* What the UI process knows to be cleaned up stays so: no frame that it   *)
(* reads late closes the barrier of the next start again                   *)
(* (apply_platform_envelope_locked).                                       *)
THEOREM CleanupFinal == ASSUME Punctual PROVE Spec => CleanupIsFinal
  <1> DEFINE Inv == TypeInv /\ FramesInv /\ FinalInv
             Kept == \A u \in Uis :
                         Mine(u).cleanup /\ Mine(u)'.attempt = Mine(u).attempt
                             => Mine(u)'.cleanup
  <1>1. Inv /\ [Next]_vars => [Kept]_vars
    <2> SUFFICES ASSUME Inv, Next PROVE Kept
      OBVIOUS
    <2>1. ASSUME NEW u \in Uis, UiNext(u) PROVE Kept
      BY <2>1, UiNextAcknowledged DEF FinalInv, AllClean
    <2>2. ASSUME NEW e \in Exts, ExtNext(e) PROVE Kept
      <3>1. \A u \in Uis : u \in Procs /\ u # e
        BY ProcessAssumption DEF Procs
      <3> QED
        BY <2>2, <3>1, ExtNextMine
    <2> QED
      BY <2>1, <2>2 DEF Next
  <1>2. Spec => []Inv
    BY TypeInvariant, CleanupInvariant, FinalInvariant, PTL
  <1> QED
    BY <1>1, <1>2, PTL DEF Spec, CleanupIsFinal

-----------------------------------------------------------------------------
(* The steps of the UI process *)

(* Only begin issues an attempt, and its Want.                             *)
LEMMA UiNextIssues ==
    ASSUME TypeInv, FramesInv, FinishSession, NEW u \in Uis, UiNext(u)
    PROVE  UNCHANGED <<nextAttempt, wants>> \/ Begin(u)
  <1>1. CASE UiClaims(u) \/ UiRuns(u) \/ RecoverDeadline(u) \/ OsStopRejected(u)
    BY <1>1 DEF UiClaims, ClaimPublish, ClaimFence, ClaimReread, UiRuns,
       StartHead, Authorize, Cooperative, OsStopBegin, OsStopConfirmed,
       RecoverSync, RecoverRead, RecoverMissing, RecoverProve, RecoverDelete,
       RecoverFinish, AwaitDone, AwaitDeadline, RecoverDeadline,
       OsStopRejected, plugin
  <1>2. CASE \/ RequestStart(u) \/ RequestStop(u) \/ UiSync(u) \/ UiWatchdog(u)
             \/ UiOwnerReleased(u) \/ \E a \in dispatch : DispatchRejected(u, a)
             \/ UiStart(u) \/ UiCrash(u)
    BY <1>2 DEF RequestStart, RequestStop, UiSync, UiWatchdog, UiOwnerReleased,
       DispatchRejected, UiStart, UiCrash, plugin
  <1> QED
    BY <1>1, <1>2 DEF UiNext

(* Only a process that lives takes a step, but for its birth.              *)
LEMMA UiNextLives ==
    ASSUME Lasting, NEW u \in Uis, UiNext(u)
    PROVE  UiStart(u) \/ (Alive(u) /\ status' = status)
  <1>1. CASE UiClaims(u) \/ UiRuns(u) \/ RecoverDeadline(u) \/ OsStopRejected(u)
    BY <1>1 DEF UiClaims, ClaimPublish, ClaimFence, ClaimReread, UiRuns,
       StartHead, Authorize, Cooperative, OsStopBegin, OsStopConfirmed,
       RecoverSync, RecoverRead, RecoverMissing, RecoverProve, RecoverDelete,
       RecoverFinish, Begin, AwaitDone, AwaitDeadline, RecoverDeadline,
       OsStopRejected, UiReady, AtHead
  <1>2. CASE \/ RequestStart(u) \/ RequestStop(u) \/ UiSync(u) \/ UiWatchdog(u)
             \/ UiOwnerReleased(u) \/ \E a \in dispatch : DispatchRejected(u, a)
             \/ UiCrash(u)
    BY <1>2 DEF RequestStart, RequestStop, UiSync, UiWatchdog, UiOwnerReleased,
       DispatchRejected, UiCrash, UiReady, Lasting
  <1> QED
    BY <1>1, <1>2 DEF UiNext

(* u keeps its attempt, or begins the next one.                            *)
UiContinues(u) ==
    /\ UNCHANGED <<nextAttempt, wants>>
    /\ Mine(u)'.attempt = Mine(u).attempt
    /\ journal'.attempt \in {journal.attempt, NoAttempt}
    /\ UiStores(u) \/ UiRests(u) \/ UiPublishes(u)

LEMMA UiNextContinues ==
    ASSUME TypeInv, FramesInv, FinishSession, Lasting, NEW u \in Uis, UiNext(u)
    PROVE  UiContinues(u) \/ UiBegins(u)
  <1> USE DEF TypeInv, TypeOK
  <1>0. u \in Procs /\ nextAttempt \in Nat \ {0} /\ ~UiForgets(u)
    BY MaxAttemptsAssumption DEF Procs, PluginType, UiForgets, UiCrash, Lasting
  <1>1. SUFFICES ASSUME ~UiBegins(u) PROVE UiContinues(u)
    OBVIOUS
  <1>2. UiStores(u) \/ UiRests(u) \/ UiPublishes(u)
    BY <1>0, <1>1, UiNextFrame
  <1>3. Mine(u)'.attempt = Mine(u).attempt
    <2>1. CASE UiStores(u)
      <3> PICK f, b : Store(u, f, TRUE, b) /\ UiKeeps(u, f)
        BY <2>1 DEF UiStores
      <3>1. Mine(u)' = f
        BY <1>0 DEF Store, Mine, LanesType
      <3> QED
        BY <3>1 DEF UiKeeps
    <2> QED
      BY <1>2, <2>1 DEF UiRests, UiPublishes
  <1>4. UNCHANGED <<nextAttempt, wants>>
    <2>1. CASE Begin(u)
      <3> DEFINE pending == [InitFrame EXCEPT !.attempt = nextAttempt,
                                              !.outcome = "Pending", !.starting = TRUE]
      <3>1. \/ UNCHANGED <<nextAttempt, wants>>
            \/ core' = [core EXCEPT ![u] = [frame |-> pending, stale |-> FALSE]]
        BY <2>1 DEF Begin
      <3>2. pending.attempt = nextAttempt
        BY DEF InitFrame
      <3> HIDE DEF pending
      <3>3. CASE core' = [core EXCEPT ![u] = [frame |-> pending, stale |-> FALSE]]
        <4>1. Mine(u)'.attempt = nextAttempt
          BY <1>0, <3>2, <3>3 DEF Mine, LanesType
        <4>2. Mine(u).attempt < nextAttempt
          BY <1>0 DEF FramesInv, AllFrames, Sound
        <4> QED
          BY <1>0, <1>3, <4>1, <4>2
      <3> QED
        BY <3>1, <3>3
    <2> QED
      BY <2>1, UiNextIssues
  <1>5. journal'.attempt \in {journal.attempt, NoAttempt}
    <2>1. nextAttempt' # nextAttempt + 1
      BY <1>0, <1>4
    <2>2. Fenced(journal).attempt = journal.attempt
      BY DEF Fenced, SharedType, Journals
    <2> QED
      BY <2>1, <2>2, UiNextJournal DEF NoJournal
  <1> QED
    BY <1>2, <1>3, <1>4, <1>5 DEF UiContinues

(* The recovery that has deleted the record goes on to finish.             *)
LEMMA UiNextFinishes ==
    ASSUME TypeInv, QueueInv, OwnershipInv, Lasting, NEW u \in Uis, UiNext(u), NEW a
    PROVE  /\ Finishing(a) => Finishing(a)' \/ RecoverFinish(u)
           /\ Finishing(a)' => \/ Finishing(a)
                              \/ /\ RecoverDelete(u)
                                 /\ journal.attempt = a
                                 /\ a # NoAttempt
  <1> USE DEF TypeInv, TypeOK
  <1>q. ops \in Seq(Ops) /\ QueueWaits
    BY DEF PluginType, QueueInv
  <1>1. ASSUME Finishing(a), ~RecoverFinish(u) PROVE Finishing(a)'
    <2>n. ops' = ops => Finishing(a)'
      BY <1>1 DEF Finishing, Op
    <2>a. ASSUME NEW op, ops' = Append(ops, op), op \in Ops PROVE Finishing(a)'
      BY <1>q, <1>1, <2>a DEF Finishing, Op
    <2>h. ASSUME NEW where, where # "recoverFinish" PROVE ~AtHead(u, where)
      BY <1>1, <2>h DEF Finishing, AtHead, Op
    <2>c. claim.pc # "none" => claim.kind = "stop"
      BY <1>1 DEF ClaimAtHead, Finishing, PluginType, Claims
    <2>r. ASSUME NEW ep \in Nat, NEW b \in Attempts \cup {NoAttempt},
                 ClaimReturns("stop", ep, b)
          PROVE  Finishing(a)'
      <3>1. NewOp("stop", ep, b, "authorize") \in Ops
        BY NewOpType DEF OpPcs
      <3> QED
        BY <2>r, <2>a, <3>1 DEF ClaimReturns
    <2>f. ClaimFails("stop") => Finishing(a)'
      BY <2>n DEF ClaimFails
    <2>1. CASE UiClaims(u)
      <3>1. /\ claim.pc # "none" /\ claim.epoch \in Nat
            /\ claim.seen.attempt \in Attempts \cup {NoAttempt}
        BY <2>1 DEF UiClaims, ClaimPublish, ClaimFence, ClaimReread, PluginType,
           Claims, Journals
      <3>2. UNCHANGED ops \/ FenceClaimed \/ ClaimFails(claim.kind)
        BY <2>1 DEF UiClaims, ClaimPublish, ClaimFence, ClaimReread
      <3> QED
        BY <2>c, <2>n, <2>r, <2>f, <3>1, <3>2 DEF FenceClaimed
    <2>2. CASE UiRuns(u) \/ RecoverDeadline(u) \/ OsStopRejected(u)
      BY <1>1, <2>2, <2>h DEF UiRuns,
         StartHead, Authorize, Cooperative, OsStopBegin, OsStopConfirmed,
         RecoverSync, RecoverRead, RecoverMissing, RecoverProve, RecoverDelete,
         Begin, AwaitDone, AwaitDeadline, RecoverDeadline, OsStopRejected
    <2>3. CASE RequestStart(u)
      <3>1. NewOp("start", epoch + 1, NoAttempt, "head") \in Ops
        BY BoundsAssumption, NewOpType DEF OpPcs, PluginType
      <3> QED
        BY <2>3, <2>a, <3>1 DEF RequestStart
    <2>4. CASE RequestStop(u)
      <3>1. epoch + 1 \in Nat /\ fence.attempt \in Attempts \cup {NoAttempt}
        BY BoundsAssumption DEF PluginType, Fences
      <3>2. \/ ClaimFails("stop") \/ UNCHANGED ops
            \/ ClaimReturns("stop", epoch + 1, fence.attempt)
        BY <2>4 DEF RequestStop, ClaimRead
      <3> QED
        BY <2>n, <2>r, <2>f, <3>1, <3>2
    <2>5. CASE \/ \E b \in dispatch : DispatchRejected(u, b)
               \/ UiSync(u) \/ UiWatchdog(u) \/ UiOwnerReleased(u)
               \/ UiStart(u) \/ UiCrash(u)
      BY <2>5, <2>n DEF DispatchRejected, UiSync, UiWatchdog, UiOwnerReleased,
         UiStart, UiCrash, Lasting, plugin
    <2> QED
      BY <2>1, <2>2, <2>3, <2>4, <2>5 DEF UiNext
  <1>2. ASSUME Finishing(a)', ~Finishing(a)
        PROVE  RecoverDelete(u) /\ journal.attempt = a /\ a # NoAttempt
    <2>1. CASE Holds
      BY <1>2, <2>1 DEF Holds, Recovering, Recovery, Finishing
    <2>2. CASE RecoverRead(u) \/ RecoverProve(u)
      <3>1. Len(ops) > 0 /\ Op \in Ops
        BY <1>q, <2>2, HeadMoves DEF RecoverRead, RecoverProve, AtHead
      <3> DEFINE op == [Op EXCEPT !.pc = "recoverProve", !.seen = journal]
      <3>2. op \in Ops /\ op.pc = "recoverProve"
        BY <3>1 DEF Ops, OpPcs, SharedType
      <3>3. \/ EndOp \/ Step(op)
            \/ \E where \in {"recoverMissing", "recoverDelete", "recover"} : Goto(where)
        BY <2>2 DEF RecoverRead, RecoverProve
      <3> HIDE DEF op
      <3>4. CASE EndOp
        BY <1>q, <2>1, <3>1, <3>4, HeadHolds
      <3>5. CASE Step(op)
        BY <1>q, <1>2, <3>1, <3>2, <3>5, QueueMoves DEF Finishing
      <3>6. CASE \E where \in {"recoverMissing", "recoverDelete", "recover"} : Goto(where)
        BY <1>q, <1>2, <3>1, <3>6, QueueMoves DEF Finishing, OpPcs
      <3> QED
        BY <3>3, <3>4, <3>5, <3>6
    <2>3. CASE RecoverDelete(u)
      <3>1. Len(ops) > 0 /\ Op \in Ops /\ Op.session # NoAttempt
        BY <1>q, <2>3, HeadMoves DEF RecoverDelete, AtHead, Op, OwnershipInv, RecoverInv
      <3>2. ASSUME NEW where \in OpPcs, Goto(where)
            PROVE Op'.session = Op.session /\ Op'.pc = where
        <4> DEFINE op == [Op EXCEPT !.pc = where]
        <4>1. op \in Ops /\ op.session = Op.session /\ op.pc = where /\ Step(op)
          BY <3>1, <3>2 DEF Ops, Goto
        <4> HIDE DEF op
        <4> QED
          BY <1>q, <3>1, <4>1, QueueMoves
      <3>3. \/ /\ Goto("recoverFinish")
               /\ CanDelete(journal, Op.session, Op.seen.extension)
            \/ Goto("recover")
        BY <2>3 DEF RecoverDelete
      <3> QED
        BY <1>2, <2>3, <3>1, <3>2, <3>3 DEF Finishing, OpPcs, CanDelete
    <2> QED
      BY <2>1, <2>2, <2>3, UiNextHolds
  <1> QED
    BY <1>1, <1>2

(* When it finishes, the process knows the attempt to be cleaned up.       *)
LEMMA RecoverFinishCleans ==
    ASSUME TypeInv, FramesInv, NEW u \in Uis, RecoverFinish(u),
           Finishing(Mine(u).attempt)
    PROVE  Mine(u)'.cleanup
  <1> USE DEF TypeInv, TypeOK
  <1> DEFINE f == Synced(u)
             g == CleanedFrame([f EXCEPT !.starting = FALSE, !.running = FALSE,
                                  !.outcome = IF f.outcome = "Failed" THEN "Failed"
                                              ELSE "Cancelled"])
  <1>0. u \in Procs /\ nextAttempt \in Nat \ {0}
    BY MaxAttemptsAssumption DEF Procs, PluginType
  <1>1. f \in Frames /\ f.attempt = Mine(u).attempt
    BY <1>0, SyncedType, SyncedSound
  <1>2. g.cleanup
    BY <1>1 DEF CleanedFrame, Frames
  <1>3. \/ LocalOp(u, g, TRUE)
        \/ LocalOp(u, f, FALSE) /\ ~(f.attempt = Op.session /\ ~f.cleanup)
    BY DEF RecoverFinish
  <1> HIDE DEF g, f
  <1>4. \A h, b : LocalOp(u, h, b) => Mine(u)' = h
    BY <1>0 DEF LocalOp, Store, Mine, LanesType
  <1>5. f.attempt = Op.session
    BY <1>1 DEF Finishing
  <1> QED
    BY <1>1, <1>2, <1>3, <1>4, <1>5

(* The record goes only to the process that says so, or to a recovery that *)
(* will.                                                                   *)
LEMMA UiNextDeletes ==
    ASSUME TypeInv, FramesInv, QueueInv, OwnershipInv, NEW u \in Uis, UiNext(u),
           NEW a, journal.attempt = a, a # NoAttempt
    PROVE  journal'.attempt = a \/ Mine(u)'.cleanup \/ Finishing(a)'
  <1> USE DEF TypeInv, TypeOK
  <1> DEFINE f == Synced(u)
  <1>0. u \in Procs /\ f \in Frames
    BY SyncedType DEF Procs
  <1>1. CASE ClaimFence(u)
    <2>1. Fenced(journal).attempt = journal.attempt
      BY DEF Fenced, SharedType, Journals
    <2> QED
      BY <1>1, <2>1 DEF ClaimFence
  <1>2. CASE Begin(u)
    <2>1. journal' = journal \/ journal = NoJournal
      BY <1>2 DEF Begin, LocalOp
    <2> QED
      BY <2>1 DEF NoJournal
  <1>3. CASE \E b \in dispatch : DispatchRejected(u, b)
    <2>1. journal' = journal \/ Store(u, FailedUnattached(f), TRUE, TRUE)
      BY <1>3 DEF DispatchRejected, LocalOp
    <2>2. FailedUnattached(f).cleanup
      BY <1>0 DEF FailedUnattached, FailedFrame, Frames
    <2>3. Store(u, FailedUnattached(f), TRUE, TRUE) => Mine(u)' = FailedUnattached(f)
      BY <1>0 DEF Store, Mine, LanesType
    <2> QED
      BY <2>1, <2>2, <2>3
  <1>4. CASE RecoverDelete(u)
    <2>1. Len(ops) > 0 /\ ops \in Seq(Ops) /\ QueueWaits
      BY <1>4 DEF RecoverDelete, AtHead, PluginType, QueueInv
    <2>2. Op \in Ops
      BY <2>1, HeadMoves
    <2> DEFINE op == [Op EXCEPT !.pc = "recoverFinish"]
    <2>3. op \in Ops /\ op.session = Op.session /\ op.pc = "recoverFinish"
      BY <2>2 DEF Ops, OpPcs
    <2>4. \/ journal' = journal
          \/ Step(op) /\ journal.attempt = Op.session
      BY <1>4 DEF RecoverDelete, CanDelete, Goto
    <2> HIDE DEF op
    <2> QED
      BY <2>1, <2>3, <2>4, QueueMoves DEF Finishing
  <1>5. CASE \/ ClaimPublish(u) \/ ClaimReread(u) \/ OsStopBegin(u)
             \/ OsStopConfirmed(u) \/ OsStopRejected(u) \/ RecoverRead(u)
             \/ RecoverProve(u) \/ RecoverDeadline(u) \/ AwaitDone(u)
             \/ RequestStart(u) \/ UiStart(u) \/ UiCrash(u)
    BY <1>5 DEF ClaimPublish, ClaimReread, OsStopBegin, OsStopConfirmed,
       OsStopRejected, RecoverRead, RecoverProve, RecoverDeadline, AwaitDone,
       RequestStart, UiStart, UiCrash, shared, plugin
  <1>6. CASE \/ StartHead(u) \/ RequestStop(u) \/ Authorize(u) \/ Cooperative(u)
             \/ RecoverSync(u) \/ RecoverMissing(u) \/ RecoverFinish(u)
             \/ AwaitDeadline(u) \/ UiSync(u) \/ UiOwnerReleased(u) \/ UiWatchdog(u)
    BY <1>6 DEF StartHead, RequestStop, ClaimRead, Authorize, Cooperative,
       RecoverSync, RecoverMissing, RecoverFinish, AwaitDeadline, UiSync,
       UiOwnerReleased, UiWatchdog, LocalOp, shared, plugin
  <1> QED
    BY <1>1, <1>2, <1>3, <1>4, <1>5, <1>6 DEF UiNext, UiClaims, UiRuns

(* An acknowledgement is read from the lane or known already.              *)
LEMMA SyncedTold ==
    ASSUME TypeInv, NEW u \in Uis, ~Mine(u).cleanup,
           ~(vpnLane[u].attempt = Mine(u).attempt /\ vpnLane[u].cleanup)
    PROVE  ~Synced(u).cleanup
  <1> USE DEF TypeInv, TypeOK
  <1>1. u \in Procs /\ Mine(u) \in Frames /\ vpnLane[u] \in Frames
        /\ Remote(u) = vpnLane[u]
    BY SyncedType DEF Procs, Remote, LanesType
  <1> QED
    BY <1>1 DEF Synced, Merge, Matches, Frames

(* What waits in the lane is known as soon as it is read.                  *)
LEMMA SyncedTells ==
    ASSUME TypeInv, NEW u \in Uis, LaneTells(u), Mine(u).attempt # NoAttempt
    PROVE  Synced(u).cleanup
  <1> USE DEF TypeInv, TypeOK
  <1>1. u \in Procs /\ Mine(u) \in Frames /\ vpnLane[u] \in Frames
        /\ Remote(u) = vpnLane[u]
    BY SyncedType DEF Procs, Remote, LanesType
  <1> QED
    BY <1>1 DEF Synced, Merge, Matches, Frames, LaneTells, Says

(* While a process is about to say that it has deleted a record, there is  *)
(* none: the next attempt cannot begin before the UI process is told.      *)
LEMMA TellingAlone ==
    ASSUME TypeInv, FramesInv, OwnershipInv, FinalInv, RecordInv,
           NEW e \in Exts, Telling(e)
    PROVE  \E u \in Uis : /\ Alive(e) /\ Alive(u) /\ ipc[e] = u
                          /\ Mine(u).attempt # NoAttempt
                          /\ journal.attempt = NoAttempt
  <1> USE DEF TypeInv, TypeOK
  <1>1. Alive(e)
    BY DEF OwnershipInv, ExtInv, DeadIsEmpty, Telling
  <1>2. ipc[e] # None /\ ipc[e] \in Uis
    BY <1>1 DEF RecordInv, OneUi, AbilityType
  <1> DEFINE u == ipc[e]
  <1>3. Alive(u) /\ u \in Uis
    BY <1>2 DEF RecordInv, OneUi
  <1>4. TellerInv(e, u) /\ TellingInv(e)
    BY <1>3 DEF RecordInv, FinalInv
  <1>5. /\ Mine(u).attempt # NoAttempt
        /\ Mine(e).attempt = Mine(u).attempt
        /\ Mine(e).cleanup
    BY <1>4 DEF TellerInv, TellingInv
  <1>6. Sound(Mine(e))
    BY DEF FramesInv, AllFrames, Procs
  <1>7. journal.attempt # Mine(u).attempt
    BY <1>5, <1>6 DEF Sound
  <1>8. journal.attempt = NoAttempt
    <2> SUFFICES ASSUME journal.attempt # NoAttempt PROVE FALSE
      OBVIOUS
    <2> PICK v \in Uis : Alive(v) /\ Mine(v).attempt = journal.attempt
      BY DEF RecordInv, OneUi
    <2>1. v = u
      BY <1>3 DEF RecordInv, OneUi
    <2> QED
      BY <1>7, <2>1
  <1> QED
    BY <1>1, <1>3, <1>5, <1>8

(* The birth of a UI process: there is no attempt yet.                     *)
LEMMA UiStartRecord ==
    ASSUME TypeInv, RecordInv, NEW u \in Uis, UiStart(u)
    PROVE  RecordInv'
  <1> USE DEF TypeInv, TypeOK
  <1>1. /\ UNCHANGED <<journal, lanes, wants, ops, ipc, pc, act, cleaning>>
        /\ status' = [status EXCEPT ![u] = "alive"]
        /\ \A v \in Uis : ~Alive(v)
    BY DEF UiStart, shared, plugin, ability
  <1>2. u \in Procs /\ \A e \in Exts : e \in Procs /\ e # u
    BY ProcessAssumption DEF Procs
  <1>3. /\ journal.attempt = NoAttempt
        /\ \A v \in Uis : Mine(v).attempt = NoAttempt
        /\ \A w \in wants : FALSE
        /\ \A e \in Exts : ipc[e] = None
    BY <1>1 DEF RecordInv, OneUi, PluginType, AbilityType
  <1>4. \A p \in Procs : Mine(p)' = Mine(p)
    BY <1>1 DEF lanes, Mine
  <1>5. \A v \in Uis : Alive(v)' => v = u
    BY <1>1 DEF Alive, Procs
  <1>6. \A e \in Exts : ~Alive(e) /\ ~Alive(e)'
    BY <1>1, <1>2, <1>3 DEF RecordInv, OneUi, Alive
  <1>7. OneUi'
    BY <1>1, <1>3, <1>4, <1>5, <1>6 DEF OneUi, Procs
  <1>8. \A e \in Exts : ChainInv(e)'
    BY <1>1, <1>4 DEF RecordInv, ChainInv, Procs
  <1>9. \A e \in Exts, v \in Uis : ipc'[e] # v
    BY <1>1, <1>3, ProcessAssumption
  <1> QED
    BY <1>3, <1>4, <1>7, <1>8, <1>9 DEF RecordInv, TellerInv, OwedInv, Procs

(* Every other step of the UI process.                                     *)
LEMMA UiNextRecord ==
    ASSUME TypeInv, FramesInv, QueueInv, OwnershipInv, FinalInv, RecordInv, Lasting,
           NEW u \in Uis, UiNext(u)
    PROVE  RecordInv'
  <1> USE DEF TypeInv, TypeOK
  <1>s. CASE UiStart(u)
    BY <1>s, UiStartRecord
  <1>l. SUFFICES ASSUME Alive(u), status' = status PROVE RecordInv'
    BY <1>s, UiNextLives
  <1>0. u \in Procs /\ nextAttempt \in Nat \ {0} /\ FinishSession
    BY MaxAttemptsAssumption DEF Procs, PluginType, FinalInv
  <1>1. UNCHANGED <<ipc, pc, act, cleaning>> /\ \A e \in Exts : Mine(e)' = Mine(e)
    BY UiNextAbility, UiNextUntouched DEF ability, Untouched
  <1>2. vpnLane' = vpnLane /\ \A v \in Uis \ {u} : Mine(v)' = Mine(v)
    BY UiNextAlone DEF Alone
  <1>3. \A v \in Uis : Alive(v) => v = u
    BY <1>l DEF RecordInv, OneUi
  <1>4. \A v \in Uis \ {u} : Mine(v).attempt = NoAttempt
    BY <1>3 DEF RecordInv, OneUi
  <1>5. UiContinues(u) \/ UiBegins(u)
    BY <1>0, UiNextContinues
  <1>6. \A e \in Exts : Telling(e)' <=> Telling(e)
    BY <1>1 DEF Telling
  <1>a. journal.attempt # NoAttempt => Mine(u).attempt = journal.attempt
    BY <1>3 DEF RecordInv, OneUi
  <1>7. OneUi'
    <2>1. \A v \in Uis : Alive(v)' <=> Alive(v)
      BY <1>l DEF Alive
    <2>2. journal'.attempt # NoAttempt => Mine(u)'.attempt = journal'.attempt
      BY <1>5, <1>a DEF UiContinues, UiBegins
    <2>3. wants' = wants \/ wants' = wants \cup {[attempt |-> nextAttempt, ui |-> u]}
      BY <1>5 DEF UiContinues, UiBegins
    <2>4. \A w \in wants' : Alive(w.ui)'
      BY <1>l, <2>3 DEF RecordInv, OneUi, Alive
    <2>5. \A v \in Uis : Mine(v)'.attempt # NoAttempt => Alive(v)'
      BY <1>l, <1>2, <1>4, <2>1
    <2>6. \A e \in Exts : /\ Alive(e)' => ipc'[e] # None
                          /\ ipc'[e] # None => Alive(ipc[e])'
      BY <1>l, <1>1 DEF RecordInv, OneUi, Alive
    <2> QED
      BY <1>l, <1>1, <1>3, <2>1, <2>2, <2>4, <2>5, <2>6 DEF OneUi
  <1>8. \A e \in Exts : ChainInv(e)'
    BY <1>1 DEF RecordInv, ChainInv
  <1>9. ASSUME NEW e \in Exts, NEW v \in Uis PROVE TellerInv(e, v)'
    <2> SUFFICES ASSUME Telling(e), ipc[e] = v PROVE TellerInv(e, v)'
      BY <1>1, <1>6 DEF TellerInv
    <2>1. v = u /\ journal.attempt = NoAttempt
      BY <1>3, TellingAlone
    <2>2. /\ Mine(u).attempt # NoAttempt
          /\ Mine(e).attempt = Mine(u).attempt
          /\ ~Mine(u).cleanup
          /\ ~(vpnLane[u].attempt = Mine(u).attempt /\ vpnLane[u].cleanup)
          /\ ~Finishing(Mine(u).attempt)
          /\ \A x \in Exts : Telling(x) /\ ipc[x] = u => x = e
      BY <2>1 DEF RecordInv, TellerInv
    <2>3. ~Synced(u).cleanup
      BY <2>2, SyncedTold
    <2>4. UiContinues(u)
      BY <1>5, <2>2, <2>3 DEF UiBegins
    <2>5. ~Mine(u)'.cleanup
      <3>1. CASE UiStores(u)
        <4> PICK f, b : Store(u, f, TRUE, b) /\ UiKeeps(u, f)
          BY <3>1 DEF UiStores
        <4>1. Mine(u)' = f
          BY <1>0 DEF Store, Mine, LanesType
        <4> QED
          BY <2>1, <2>2, <2>3, <4>1 DEF UiKeeps
      <3> QED
        BY <2>2, <2>4, <3>1 DEF UiContinues, UiRests, UiPublishes
    <2>6. \A a : a = Mine(u).attempt => ~Finishing(a)'
      BY <2>1, <2>2, UiNextFinishes
    <2>7. Mine(u)'.attempt = Mine(u).attempt
      BY <2>4 DEF UiContinues
    <2>8. ~Finishing(Mine(u).attempt)'
      BY <2>6, <2>7 DEF Finishing
    <2> QED
      BY <1>1, <1>2, <1>6, <2>1, <2>2, <2>5, <2>7, <2>8 DEF TellerInv
  <1>10. OwedInv(u)'
    <2>1. CASE UiBegins(u)
      BY <2>1 DEF UiBegins, OwedInv
    <2>2. CASE UiContinues(u)
      <3> DEFINE a == Mine(u).attempt
      <3>1. SUFFICES ASSUME a # NoAttempt, ~Mine(u)'.cleanup PROVE OwedInv(u)'
        BY <2>2 DEF UiContinues, OwedInv
      <3>2. Mine(u)'.attempt = a
        BY <2>2 DEF UiContinues
      <3>3. ~Mine(u).cleanup
        BY <3>1, <3>2, UiNextAcknowledged DEF FinalInv, AllClean
      <3>4. CASE journal.attempt = a
        <4>1. journal'.attempt = a \/ (\A b : b = a => Finishing(b)')
          BY <3>1, <3>4, UiNextDeletes
        <4> QED
          BY <3>2, <4>1 DEF OwedInv, Finishing
      <3>5. CASE LaneTells(u)
        <4>1. Synced(u).cleanup
          BY <3>1, <3>5, SyncedTells
        <4>2. ~UiStores(u)
          <5> SUFFICES ASSUME UiStores(u) PROVE FALSE
            OBVIOUS
          <5> PICK f, b : Store(u, f, TRUE, b) /\ UiKeeps(u, f)
            BY DEF UiStores
          <5>1. Mine(u)' = f
            BY <1>0 DEF Store, Mine, LanesType
          <5> QED
            BY <3>1, <4>1, <5>1 DEF UiKeeps
        <4>3. vpnLane' = vpnLane /\ seen'[u] = seen[u]
          BY <2>2, <4>2 DEF UiContinues, UiRests, UiPublishes
        <4> QED
          BY <3>2, <3>5, <4>3 DEF OwedInv, LaneTells, Says
      <3>6. CASE \E e \in Exts : Telling(e) /\ ipc[e] = u
        BY <1>1, <1>6, <3>6 DEF OwedInv
      <3>7. CASE Finishing(a)
        <4>1. ~RecoverFinish(u)
          BY <3>1, <3>7, RecoverFinishCleans
        <4>2. \A b : b = a => Finishing(b)'
          BY <3>7, <4>1, UiNextFinishes
        <4> QED
          BY <3>2, <4>2 DEF OwedInv, Finishing
      <3>8. OwedInv(u)
        BY DEF RecordInv
      <3> QED
        BY <3>1, <3>3, <3>4, <3>5, <3>6, <3>7, <3>8 DEF OwedInv
    <2> QED
      BY <1>5, <2>1, <2>2
  <1>11. \A v \in Uis \ {u} : OwedInv(v)'
    BY <1>2, <1>4 DEF OwedInv
  <1> QED
    BY <1>7, <1>8, <1>9, <1>10, <1>11 DEF RecordInv

-----------------------------------------------------------------------------
(* The steps of an Extension *)

(* A delivery gives an Extension its life and its shared memory.           *)
LEMMA ExtNextLives ==
    ASSUME TypeInv, Lasting, NEW e \in Exts, ExtNext(e)
    PROVE  \/ \E w \in wants : Deliver(e, w)
           \/ Alive(e) /\ UNCHANGED <<status, ipc, wants>>
  <1>1. CASE \/ ExtRuns(e) \/ BindError(e) \/ StartFails(e) \/ NativeExit(e)
    BY <1>1 DEF ExtRuns, RequestRefused, BindSync, BindAcquire, BindAttach,
       BindPublish, Unbound, Settle, BoundTick, SetStarting, CreateCall,
       CreateReturns, Protect, StartEngine, Commit, StartReturns, ChainFails,
       Heartbeat, BindError, StartFails, NativeExit, At, plugin
  <1>2. CASE \/ ExtCleans(e) \/ CreateSettles(e) \/ OnDestroy(e)
             \/ CleanupError(e) \/ ExtCrash(e)
    BY <1>2 DEF ExtCleans, StopNative, Destroy, Ack, AckPublish, CreateSettles,
       OnDestroy, CleanupError, ExtCrash, CleaningAt, Lasting, plugin
  <1> QED
    BY <1>1, <1>2 DEF ExtNext

(* e leaves the lanes of the UI processes alone.                           *)
Quiet(e) == vpnLane' = vpnLane /\ \A u \in Uis : seen'[u] = seen[u]

(* e says what it has done.                                                *)
Tells(e) ==
    /\ Alive(e) /\ Telling(e) /\ ~Telling(e)'
    /\ Store(e, Mine(e), FALSE, TRUE)
    /\ UNCHANGED journal

LEMMA StoreQuiet ==
    ASSUME TypeInv, NEW e \in Exts, NEW g, NEW s, NEW b, Store(e, g, s, b), ~b
    PROVE  Quiet(e)
  <1>1. e \in Procs /\ \A u \in Uis : u \in Procs /\ u # e
    BY ProcessAssumption DEF Procs
  <1> QED
    BY <1>1 DEF Store, Quiet, TypeInv, TypeOK, LanesType

(* Nothing but that is published while there is no record.                 *)
LEMMA ExtNextSpeaks ==
    ASSUME TypeInv, FramesInv, NEW e \in Exts, ExtInv(e), EngineInv(e), ChainInv(e),
           Lasting, ExtNext(e)
    PROVE  Quiet(e) \/ journal.attempt # NoAttempt \/ Tells(e)
  <1> SUFFICES ASSUME journal.attempt = NoAttempt PROVE Quiet(e) \/ Tells(e)
    OBVIOUS
  <1> USE DEF TypeInv, TypeOK
  <1> DEFINE f == Synced(e)
  <1>0. e \in Procs /\ \A u \in Uis : u \in Procs /\ u # e
    BY ProcessAssumption DEF Procs
  <1>q. UNCHANGED lanes => Quiet(e)
    BY DEF lanes, Quiet
  <1>l. \A g : LocalOp(e, g, FALSE) => Quiet(e)
    BY StoreQuiet DEF LocalOp
  <1>r. pc[e] # "idle" => req[e] # NoAttempt
    BY DEF ExtInv, BindInv
  <1>o. /\ act[e] = NoAttempt
        /\ cleaning[e].pc \notin {"stop", "destroy", "ack", "failed"}
        /\ pc[e] # "publish"
    BY DEF ExtInv, ActiveInv, CleaningInv, BindInv, Owner
  <1>p. pc[e] \notin {"bound", "starting", "network", "committing", "connected"}
        /\ ~native[e]
    BY <1>r, <1>o DEF ExtInv, ActiveInv, EngineInv
  <1>1. CASE \/ RequestRefused(e) \/ BindAcquire(e) \/ BindAttach(e) \/ BindError(e)
             \/ CreateCall(e) \/ CreateReturns(e) \/ CreateSettles(e) \/ StartFails(e)
             \/ OnDestroy(e) \/ Destroy(e) \/ CleanupError(e)
    BY <1>1, <1>q DEF RequestRefused, BindAcquire, BindAttach, BindError, CreateCall,
       CreateReturns, CreateSettles, StartFails, OnDestroy, Destroy, CleanupError
  <1>2. CASE (\E w \in wants : Deliver(e, w)) \/ ExtCrash(e)
    BY <1>0, <1>2 DEF Deliver, ExtCrash, Lasting, Quiet, LanesType
  <1>3. CASE BindSync(e) \/ StartEngine(e)
    BY <1>3, <1>l, <1>q DEF BindSync, StartEngine, lanes
  <1>4. CASE Unbound(e) \/ Ack(e)
    <2>1. \E g : Store(e, g, TRUE, FALSE)
      BY <1>4 DEF Unbound, Ack, LocalOp
    <2> QED
      BY <2>1, StoreQuiet
  <1>5. CASE \/ BindPublish(e) \/ BoundTick(e) \/ SetStarting(e) \/ Commit(e)
             \/ Heartbeat(e) \/ NativeExit(e) \/ StopNative(e)
    BY <1>o, <1>p, <1>5 DEF BindPublish, BoundTick, SetStarting, Commit, Heartbeat,
       NativeExit, StopNative, At, CleaningAt
  <1>6. CASE StartReturns(e) \/ ChainFails(e)
    <2>1. ~Current(e)
      BY <1>o, <1>r, <1>6 DEF StartReturns, ChainFails, At, Current
    <2> QED
      BY <1>q, <1>6, <2>1 DEF StartReturns, ChainFails
  <1>7. CASE Protect(e)
    <2>1. LocalOp(e, f, Accepts(f, req[e])) /\ pc[e] = "created"
      BY <1>7 DEF Protect, At
    <2>2. Mine(e).outcome \in Terminal
      BY <1>o, <2>1 DEF ChainInv, Unowned, Binding
    <2>3. ~Accepts(f, req[e])
      BY <2>2, SyncedTerminal DEF Accepts, ActiveFor, Terminal
    <2> HIDE DEF f
    <2> QED
      BY <1>0, <2>1, <2>3 DEF LocalOp, Store, Quiet, LanesType
  <1>8. CASE Settle(e) \/ AckPublish(e)
    <2>1. /\ Alive(e) /\ Telling(e) /\ Store(e, Mine(e), FALSE, TRUE)
          /\ UNCHANGED journal
      BY <1>8 DEF Settle, AckPublish, At, CleaningAt, Telling, shared
    <2>2. pc'[e] # "settle" /\ cleaning'[e].pc # "acked"
      <3>1. CASE Settle(e)
        BY <3>1 DEF Settle, At, Moves, AbilityType
      <3>2. CASE AckPublish(e)
        BY <3>2 DEF AckPublish, CleaningAt, NoCleanup, AbilityType
      <3> QED
        BY <1>8, <3>1, <3>2
    <2> QED
      BY <2>1, <2>2 DEF Tells, Telling
  <1> QED
    BY <1>1, <1>2, <1>3, <1>4, <1>5, <1>6, <1>7, <1>8 DEF ExtNext, ExtRuns, ExtCleans

(* What e is about to say begins with the deletion of the record of its    *)
(* attempt, and ends when it says it.                                      *)
LEMMA ExtNextTold ==
    ASSUME TypeInv, FramesInv, NEW e \in Exts, ExtInv(e), EngineInv(e),
           TellingInv(e), Lasting, ExtNext(e)
    PROVE  /\ Telling(e)' => \/ Telling(e) /\ Mine(e)' = Mine(e)
                             \/ /\ journal' = NoJournal
                                /\ journal.attempt # NoAttempt
                                /\ Mine(e)'.attempt = journal.attempt
           /\ Telling(e) => \/ Telling(e)' \/ Tells(e)
                            \/ \E w \in wants : Deliver(e, w)
           /\ \/ journal'.attempt = journal.attempt
              \/ journal' = NoJournal /\ Telling(e)' /\ Quiet(e)
  <1> USE DEF TypeInv, TypeOK, AbilityType
  <1> DEFINE f == Synced(e)
  <1>0. e \in Procs /\ nextAttempt \in Nat \ {0}
    BY MaxAttemptsAssumption DEF Procs, PluginType
  <1>f. f \in Frames /\ f.attempt = Mine(e).attempt
    BY <1>0, SyncedType, SyncedSound
  <1>d. DestroyVpn(e) => \/ cleaning'[e] = cleaning[e]
                         \/ cleaning[e].pc = "none" /\ cleaning'[e].pc # "acked"
    BY DEF DestroyVpn, NoCleanup
  <1>c. \A where : Cleans(e, where) => cleaning'[e].pc = where
    BY DEF Cleans, Cleanups
  <1>n. cleaning' = [cleaning EXCEPT ![e] = NoCleanup] => cleaning'[e].pc = "none"
    BY DEF NoCleanup
  <1>l. \A g, b : LocalOp(e, g, b) => journal' = journal
    BY DEF LocalOp
  <1>1. CASE \/ \E w \in wants : Deliver(e, w)
             \/ CreateSettles(e) \/ BindError(e) \/ StartFails(e) \/ OnDestroy(e)
             \/ CleanupError(e) \/ Destroy(e)
    <2>1. Mine(e)' = Mine(e) /\ journal' = journal
      BY <1>1 DEF Deliver, CreateSettles, BindError, StartFails, OnDestroy,
         CleanupError, Destroy, lanes, shared, Mine
    <2>2. pc'[e] = "settle" => pc[e] = "settle"
      BY <1>1 DEF Deliver, CreateSettles, BindError, StartFails, OnDestroy,
         CleanupError, Destroy, EndRequest, Moves
    <2>3. cleaning'[e].pc = "acked" <=> cleaning[e].pc = "acked"
      BY <1>1, <1>d, <1>c, <1>n DEF Deliver, CreateSettles, BindError, StartFails,
         OnDestroy, CleanupError, Destroy, CleaningAt
    <2>4. pc[e] = "settle" => \/ pc'[e] = "settle"
                              \/ \E w \in wants : Deliver(e, w)
      BY <1>1 DEF CreateSettles, BindError, StartFails, OnDestroy,
         CleanupError, Destroy
    <2> QED
      BY <2>1, <2>2, <2>3, <2>4 DEF Telling
  <1>2. CASE \/ RequestRefused(e) \/ BindSync(e) \/ BindAcquire(e) \/ BindAttach(e)
             \/ BindPublish(e) \/ SetStarting(e) \/ CreateCall(e)
             \/ Protect(e) \/ StartEngine(e) \/ Commit(e) \/ StartReturns(e)
    <2>1. pc'[e] # "settle" /\ pc[e] # "settle"
      BY <1>2 DEF RequestRefused, BindSync, BindAcquire, BindAttach, BindPublish,
         SetStarting, CreateCall, Protect, StartEngine, Commit,
         StartReturns, Moves, At
    <2>2. cleaning'[e].pc # "acked" /\ cleaning[e].pc # "acked"
      BY <1>2, <1>n DEF RequestRefused, BindSync, BindAcquire, BindAttach,
         BindPublish, SetStarting, CreateCall, Protect, StartEngine,
         Commit, StartReturns, At
    <2>3. AttachedTo(journal, e).attempt = journal.attempt
      BY DEF AttachedTo, SharedType, Journals
    <2>4. journal' = journal \/ journal' = AttachedTo(journal, e)
      BY <1>2, <1>l DEF RequestRefused, BindSync, BindAcquire, BindAttach,
         BindPublish, SetStarting, CreateCall, Protect, StartEngine, Commit,
         StartReturns, Tick, shared
    <2> QED
      BY <2>1, <2>2, <2>3, <2>4 DEF Telling
  <1>3. CASE BoundTick(e) \/ CreateReturns(e) \/ ChainFails(e) \/ Heartbeat(e)
    <2>1. pc'[e] # "settle" /\ pc[e] # "settle"
      BY <1>3 DEF BoundTick, CreateReturns, ChainFails, Heartbeat, EndRequest,
         Moves, At
    <2>2. cleaning'[e].pc # "acked" /\ cleaning[e].pc # "acked"
      BY <1>3, <1>d DEF BoundTick, CreateReturns, ChainFails, Heartbeat, At
    <2>3. journal' = journal
      BY <1>3, <1>l DEF BoundTick, CreateReturns, ChainFails, Heartbeat, Tick, shared
    <2> QED
      BY <2>1, <2>2, <2>3 DEF Telling
  <1>4. CASE Unbound(e)
    <2>0. pc[e] = "unbound" /\ cleaning[e].pc # "acked" /\ cleaning' = cleaning
      BY <1>4 DEF Unbound, At
    <2>1. CASE Moves(e, "idle") /\ LocalOp(e, f, FALSE)
      <3>1. pc'[e] = "idle" /\ journal' = journal
        BY <1>l, <2>1 DEF Moves
      <3> QED
        BY <2>0, <3>1 DEF Telling
    <2>2. CASE /\ FailsUnattached(f, req[e]) /\ journal' = NoJournal
               /\ Store(e, FailedUnattached(f), TRUE, FALSE) /\ Moves(e, "settle")
      <3>1. Mine(e)' = FailedUnattached(f) /\ pc'[e] = "settle"
        BY <1>0, <2>2 DEF Store, Mine, LanesType, Moves
      <3>2. /\ FailedUnattached(f).attempt = f.attempt /\ f.attempt = journal.attempt
            /\ journal.attempt = req[e]
        BY <1>f, <2>2 DEF FailedUnattached, FailedFrame, Frames, FailsUnattached,
           CanDeletePending
      <3>4. req[e] # NoAttempt
        BY <2>0 DEF ExtInv, BindInv
      <3>3. Quiet(e)
        BY <2>2, StoreQuiet
      <3> QED
        BY <2>0, <2>2, <3>1, <3>2, <3>3, <3>4 DEF Telling
    <2> QED
      BY <1>4, <2>1, <2>2 DEF Unbound
  <1>5. CASE Ack(e)
    <2>0. cleaning[e].pc = "ack" /\ pc[e] # "settle" /\ pc' = pc
      BY <1>5 DEF Ack, CleaningAt
    <2>1. CASE /\ f.attempt = cleaning[e].attempt /\ journal' = NoJournal
               /\ CanDelete(journal, cleaning[e].attempt, e)
               /\ Store(e, CleanedFrame(f), TRUE, FALSE) /\ Cleans(e, "acked")
      <3>1. Mine(e)' = CleanedFrame(f) /\ cleaning'[e].pc = "acked"
        BY <1>0, <1>c, <2>1 DEF Store, Mine, LanesType
      <3>2. CleanedFrame(f).attempt = f.attempt /\ f.attempt = journal.attempt
        BY <1>f, <2>1 DEF CleanedFrame, Frames, CanDelete
      <3>4. journal.attempt # NoAttempt
        BY <2>0, <2>1 DEF ExtInv, CleaningInv, CanDelete
      <3>3. Quiet(e)
        BY <2>1, StoreQuiet
      <3> QED
        BY <2>0, <2>1, <3>1, <3>2, <3>3, <3>4 DEF Telling
    <2>2. CASE /\ cleaning' = [cleaning EXCEPT ![e] = NoCleanup] \/ Cleans(e, "failed")
               /\ LocalOp(e, f, FALSE)
      <3>1. cleaning'[e].pc # "acked" /\ journal' = journal
        BY <1>l, <1>c, <1>n, <2>2
      <3> QED
        BY <2>0, <3>1 DEF Telling
    <2> QED
      BY <1>5, <2>1, <2>2 DEF Ack
  <1>6. CASE Settle(e) \/ AckPublish(e)
    <2>1. /\ Alive(e) /\ Telling(e) /\ Store(e, Mine(e), FALSE, TRUE)
          /\ UNCHANGED journal
      BY <1>6 DEF Settle, AckPublish, At, CleaningAt, Telling, shared
    <2>2. pc'[e] # "settle" /\ cleaning'[e].pc # "acked"
      <3>1. CASE Settle(e)
        BY <3>1 DEF Settle, At, Moves
      <3>2. CASE AckPublish(e)
        BY <3>2 DEF AckPublish, CleaningAt, NoCleanup
      <3> QED
        BY <1>6, <3>1, <3>2
    <2> QED
      BY <2>1, <2>2 DEF Tells, Telling
  <1>7. CASE StopNative(e) \/ NativeExit(e)
    <2>1. pc' = pc /\ journal' = journal /\ pc[e] # "settle"
      BY <1>7, <1>l DEF StopNative, NativeExit, CleaningAt, shared
    <2>2. cleaning[e].pc # "acked" /\ cleaning'[e].pc # "acked"
      BY <1>7, <1>c DEF StopNative, NativeExit, CleaningAt, EngineInv, ExtInv, ActiveInv
    <2> QED
      BY <2>1, <2>2 DEF Telling
  <1> QED
    BY <1>1, <1>2, <1>3, <1>4, <1>5, <1>6, <1>7
       DEF ExtNext, ExtRuns, ExtCleans, ExtCrash, Lasting

(* Only bind changes the attempt of an Extension.                          *)
LEMMA ExtNextAttempt ==
    ASSUME TypeInv, FramesInv, NEW e \in Exts, ExtNext(e), Lasting
    PROVE  Mine(e)'.attempt = Mine(e).attempt \/ BindSync(e)
  <1> USE DEF TypeInv, TypeOK
  <1> DEFINE f == Synced(e)
  <1>0. e \in Procs /\ nextAttempt \in Nat \ {0}
    BY MaxAttemptsAssumption DEF Procs, PluginType
  <1>f. f \in Frames /\ Mine(e) \in Frames /\ f.attempt = Mine(e).attempt
    BY <1>0, SyncedType, SyncedSound
  <1> DEFINE Same == Mine(e)'.attempt = Mine(e).attempt
  <1> SUFFICES Same \/ BindSync(e)
    OBVIOUS
  <1>q. core' = core => Same
    BY DEF Mine
  <1>s. \A g, s, b : Store(e, g, s, b) /\ g.attempt = Mine(e).attempt => Same
    BY <1>0 DEF Store, Mine, LanesType
  <1>l. \A g, b : LocalOp(e, g, b) /\ g.attempt = Mine(e).attempt => Same
    BY <1>s DEF LocalOp
  <1>g. /\ FailedFrame(f).attempt = f.attempt
        /\ FailedFrame(Mine(e)).attempt = Mine(e).attempt
        /\ FailedUnattached(f).attempt = f.attempt
        /\ CleanedFrame(f).attempt = f.attempt
        /\ StoppedFrame(f).attempt = f.attempt
        /\ Ticked(e, f).attempt = f.attempt
    BY <1>f DEF FailedFrame, FailedUnattached, CleanedFrame, StoppedFrame, Ticked, Frames
  <1> HIDE DEF Same, f
  <1>t. Tick(e) => Same
    BY <1>f, <1>g, <1>l DEF Tick, f
  <1>1. CASE \/ RequestRefused(e) \/ BindAcquire(e) \/ BindAttach(e) \/ BindError(e)
             \/ CreateCall(e) \/ CreateReturns(e) \/ CreateSettles(e) \/ StartFails(e)
             \/ OnDestroy(e) \/ Destroy(e) \/ CleanupError(e)
             \/ \E w \in wants : Deliver(e, w)
    BY <1>1, <1>q DEF RequestRefused, BindAcquire, BindAttach, BindError, CreateCall,
       CreateReturns, CreateSettles, StartFails, OnDestroy, Destroy, CleanupError,
       Deliver, lanes
  <1>2. CASE BoundTick(e) \/ Heartbeat(e) \/ StartReturns(e)
    BY <1>2, <1>q, <1>t DEF BoundTick, Heartbeat, StartReturns, lanes
  <1>3. CASE BindPublish(e)
    <2> DEFINE g == [f EXCEPT !.owner = e, !.attached = TRUE,
                              !.cleanup = f.attached /\ f.cleanup]
    <2>1. \E b : Store(e, g, TRUE, b)
      BY <1>3 DEF BindPublish, f
    <2>2. g.attempt = f.attempt
      BY <1>f DEF Frames
    <2> HIDE DEF g
    <2> QED
      BY <1>f, <1>s, <2>1, <2>2
  <1>4. CASE SetStarting(e) \/ Protect(e) \/ StartEngine(e) \/ Commit(e)
    <2> DEFINE g == [f EXCEPT !.starting = TRUE, !.running = FALSE]
               h == [f EXCEPT !.starting = FALSE, !.running = TRUE,
                              !.outcome = "Connected"]
    <2>1. \/ UNCHANGED core
          \/ \E b : LocalOp(e, f, b) \/ LocalOp(e, g, b) \/ LocalOp(e, h, b)
      BY <1>4 DEF SetStarting, Protect, StartEngine, Commit, lanes, f
    <2>2. g.attempt = f.attempt /\ h.attempt = f.attempt
      BY <1>f DEF Frames
    <2> HIDE DEF g, h
    <2> QED
      BY <1>f, <1>l, <1>q, <2>1, <2>2
  <1>5. CASE ChainFails(e) \/ StopNative(e)
    <2>1. \/ UNCHANGED core
          \/ \E b : \/ LocalOp(e, f, b) \/ LocalOp(e, FailedFrame(f), b)
                    \/ LocalOp(e, StoppedFrame(f), b)
      BY <1>5 DEF ChainFails, StopNative, lanes, f
    <2> QED
      BY <1>f, <1>g, <1>l, <1>q, <2>1
  <1>6. CASE Unbound(e) \/ Ack(e)
    <2>1. \/ LocalOp(e, f, FALSE)
          \/ Store(e, FailedUnattached(f), TRUE, FALSE)
          \/ Store(e, CleanedFrame(f), TRUE, FALSE)
      BY <1>6 DEF Unbound, Ack, f
    <2> QED
      BY <1>f, <1>g, <1>l, <1>s, <2>1
  <1>7. CASE Settle(e) \/ AckPublish(e) \/ NativeExit(e)
    <2>1. \/ UNCHANGED core
          \/ Store(e, Mine(e), FALSE, TRUE)
          \/ Store(e, FailedFrame(Mine(e)), FALSE, TRUE)
      BY <1>7 DEF Settle, AckPublish, NativeExit, lanes
    <2> QED
      BY <1>g, <1>s, <1>q, <2>1
  <1> QED
    BY <1>1, <1>2, <1>3, <1>4, <1>5, <1>6, <1>7
       DEF ExtNext, ExtRuns, ExtCleans, ExtCrash, Lasting

(* A request that has lost its session has a terminal frame, or a cleanup  *)
(* that will leave one.                                                    *)
LEMMA ExtNextChain ==
    ASSUME TypeInv, FramesInv, JournalInv, Punctual, NEW e \in Exts, ExtInv(e),
           EngineInv(e), ChainInv(e), Lasting, ExtNext(e)
    PROVE  ChainInv(e)'
  <1> USE DEF TypeInv, TypeOK, AbilityType
  <1>0. e \in Procs /\ ExtInv(e)' /\ Final(e)
    BY ExtNextOwn, ExtNextFinal DEF Procs, AllFinal
  <1>1. CASE \/ BindSync(e) \/ BindAcquire(e) \/ BindAttach(e) \/ BindError(e)
             \/ RequestRefused(e) \/ Unbound(e) \/ Settle(e)
             \/ \E w \in wants : Deliver(e, w)
    <2>1. pc'[e] \in Unowned
      BY <1>1 DEF BindSync, BindAcquire, BindAttach, BindError, RequestRefused,
         Unbound, Settle, Deliver, Moves, Unowned, Binding
    <2> QED
      BY <2>1 DEF ChainInv
  <1>2. CASE BindPublish(e)
    <2>1. act'[e] = req[e] /\ pc[e] = "publish"
      BY <1>2 DEF BindPublish, At
    <2> QED
      BY <2>1 DEF ChainInv, ExtInv, BindInv
  <1>p. ASSUME pc[e] \notin Unowned, Alive(e)', Mine(e)'.attempt = Mine(e).attempt,
               \/ act'[e] = act[e] /\ cleaning'[e] = cleaning[e]
               \/ DestroyVpn(e)
               \/ cleaning'[e].pc = "destroy"
               \/ cleaning[e].pc # "stop" /\ act'[e] = act[e]
        PROVE  ChainInv(e)'
    <2>1. Mine(e).outcome \in Terminal => Mine(e)'.outcome \in Terminal
      BY <1>0, <1>p DEF Final
    <2>2. act[e] # NoAttempt => cleaning[e].pc = "none"
      BY DEF ExtInv, ActiveInv
    <2>3. CASE DestroyVpn(e)
      <3>1. act[e] # NoAttempt \/ cleaning[e].pc = "stop" => cleaning'[e].pc = "stop"
        BY <2>2, <2>3 DEF DestroyVpn
      <3> QED
        BY <1>p, <2>1, <3>1 DEF ChainInv
    <2>4. CASE cleaning'[e].pc = "destroy"
      BY <1>0, <2>4 DEF ChainInv, ExtInv, CleaningInv
    <2> QED
      BY <1>p, <2>1, <2>3, <2>4 DEF ChainInv
  <1>3. CASE \/ SetStarting(e) \/ CreateCall(e) \/ CreateReturns(e) \/ Protect(e)
             \/ StartEngine(e) \/ Commit(e) \/ StartReturns(e) \/ StartFails(e)
             \/ BoundTick(e) \/ Heartbeat(e) \/ ChainFails(e) \/ NativeExit(e)
    <2>1. pc[e] \notin Unowned /\ Alive(e)' /\ ~BindSync(e)
      BY <1>3 DEF SetStarting, CreateCall, CreateReturns, Protect, StartEngine,
         Commit, StartReturns, StartFails, BoundTick, Heartbeat, ChainFails,
         NativeExit, BindSync, At, Alive, Unowned, Binding
    <2>2. \/ act'[e] = act[e] /\ cleaning'[e] = cleaning[e]
          \/ DestroyVpn(e)
      BY <1>3 DEF SetStarting, CreateCall, CreateReturns, Protect, StartEngine,
         Commit, StartReturns, StartFails, BoundTick, Heartbeat, ChainFails,
         NativeExit
    <2> QED
      BY <1>p, <2>1, <2>2, ExtNextAttempt
  <1>4. CASE \/ CreateSettles(e) \/ StopNative(e) \/ Destroy(e) \/ CleanupError(e)
             \/ Ack(e) \/ AckPublish(e)
    <2>1. pc'[e] = pc[e] /\ act'[e] = act[e] /\ Alive(e)'
      BY <1>4 DEF CreateSettles, StopNative, Destroy, CleanupError, Ack, AckPublish,
         CleaningAt, Alive
    <2>2. \/ cleaning'[e] = cleaning[e]
          \/ cleaning'[e].pc = "destroy"
          \/ cleaning[e].pc # "stop"
      <3>1. CASE StopNative(e)
        BY <3>1 DEF StopNative, Cleans, Cleanups
      <3> QED
        BY <1>4, <3>1 DEF CreateSettles, Destroy, CleanupError, Ack, AckPublish,
           CleaningAt
    <2>3. pc[e] \notin Unowned => ~BindSync(e)
      BY DEF BindSync, At, Unowned
    <2> QED
      BY <1>p, <2>1, <2>2, <2>3, ExtNextAttempt DEF ChainInv
  <1>5. CASE OnDestroy(e)
    <2>1. DestroyVpn(e) /\ Alive(e)'
      BY <1>5 DEF OnDestroy, Alive
    <2>2. pc'[e] \in {pc[e], "idle"}
      BY <1>5 DEF OnDestroy, EndRequest, Moves
    <2>3. pc[e] \notin Unowned => ~BindSync(e)
      BY DEF BindSync, At, Unowned
    <2> QED
      BY <1>p, <2>1, <2>2, <2>3, ExtNextAttempt DEF ChainInv, Unowned
  <1> QED
    BY <1>1, <1>2, <1>3, <1>4, <1>5 DEF ExtNext, ExtRuns, ExtCleans, ExtCrash, Lasting

(* A delivery brings the Extension to the UI process that lives.           *)
LEMMA ExtNextOneUi ==
    ASSUME TypeInv, RecordInv, Lasting, NEW e \in Exts, ExtNext(e),
           journal'.attempt \in {journal.attempt, NoAttempt}
    PROVE  OneUi' /\ \E u \in Uis : Alive(u) /\ ipc'[e] = u
  <1> USE DEF TypeInv, TypeOK
  <1>0. e \in Procs /\ \A u \in Uis : u \in Procs /\ u # e
    BY ProcessAssumption DEF Procs
  <1>1. \A v \in Uis : Mine(v)' = Mine(v)
    BY <1>0, ExtNextMine
  <1>2. \A x \in Exts \ {e} : ipc'[x] = ipc[x] /\ status'[x] = status[x]
    BY ExtNextOthers, ExtNextUntouched DEF Untouched
  <1>3. CASE \E w \in wants : Deliver(e, w)
    <2> PICK w \in wants : Deliver(e, w)
      BY <1>3
    <2>1. w.ui \in Uis /\ Alive(w.ui)
      BY DEF PluginType, RecordInv, OneUi
    <2>2. status' = [status EXCEPT ![e] = "alive"] /\ ipc' = [ipc EXCEPT ![e] = w.ui]
          /\ wants' \subseteq wants
      BY DEF Deliver
    <2>3. \A v \in Uis : Alive(v)' <=> Alive(v)
      BY <1>0, <2>2 DEF Alive
    <2>4. ipc'[e] = w.ui
      BY <2>2 DEF AbilityType
    <2>5. \A x \in Exts : /\ Alive(x)' => ipc'[x] # None
                          /\ ipc'[x] # None => Alive(ipc[x])'
      <3> TAKE x \in Exts
      <3>1. CASE x = e
        BY <2>1, <2>3, <2>4, <3>1, ProcessAssumption DEF Alive
      <3>2. CASE x # e
        <4>1. ipc[x] \in Uis \cup {None}
          BY DEF AbilityType
        <4> QED
          BY <1>2, <2>3, <3>2, <4>1 DEF RecordInv, OneUi, Alive
      <3> QED
        BY <3>1, <3>2
    <2>6. \A z \in wants' : Alive(z.ui)'
      BY <2>2, <2>3 DEF RecordInv, OneUi, PluginType
    <2> QED
      BY <1>1, <2>1, <2>3, <2>4, <2>5, <2>6 DEF RecordInv, OneUi
  <1>4. CASE Alive(e) /\ UNCHANGED <<status, ipc, wants>>
    <2>1. \A p : Alive(p)' <=> Alive(p)
      BY <1>4 DEF Alive
    <2>2. ipc[e] # None /\ Alive(ipc[e]) /\ ipc[e] \in Uis
      BY <1>4 DEF RecordInv, OneUi, AbilityType
    <2>3. \A x \in Exts : ipc'[x] # None => Alive(ipc[x])'
      BY <1>4, <2>1 DEF RecordInv, OneUi, Alive
    <2> QED
      BY <1>1, <1>4, <2>1, <2>2, <2>3 DEF RecordInv, OneUi
  <1> QED
    BY <1>3, <1>4, ExtNextLives

(* An Extension deletes the record and says so, or keeps what is said.     *)
LEMMA ExtNextRecord ==
    ASSUME TypeInv, FramesInv, QueueInv, OwnershipInv, FinalInv, RecordInv,
           Punctual, Lasting, NEW e \in Exts, ExtNext(e)
    PROVE  RecordInv'
  <1> USE DEF TypeInv, TypeOK
  <1>0. e \in Procs /\ \A u \in Uis : u \in Procs /\ u # e
    BY ProcessAssumption DEF Procs
  <1>i. /\ ExtInv(e) /\ EngineInv(e) /\ TellingInv(e) /\ ChainInv(e) /\ JournalInv
        /\ OneUi
    BY DEF OwnershipInv, FinalInv, RecordInv
  <1>t. /\ Telling(e)' => \/ Telling(e) /\ Mine(e)' = Mine(e)
                          \/ /\ journal' = NoJournal
                             /\ journal.attempt # NoAttempt
                             /\ Mine(e)'.attempt = journal.attempt
        /\ Telling(e) => \/ Telling(e)' \/ Tells(e)
                         \/ \E w \in wants : Deliver(e, w)
        /\ \/ journal'.attempt = journal.attempt
           \/ journal' = NoJournal /\ Telling(e)' /\ Quiet(e)
    BY <1>i, ExtNextTold
  <1>1. journal'.attempt \in {journal.attempt, NoAttempt}
    BY <1>t DEF NoJournal
  <1>2. PICK u \in Uis : Alive(u) /\ ipc'[e] = u
    BY <1>1, ExtNextOneUi
  <1>3. OneUi'
    BY <1>1, ExtNextOneUi
  <1>4. \A v \in Uis : Mine(v)' = Mine(v)
    BY <1>0, ExtNextMine
  <1>5. \A v \in Uis : Mine(v).attempt # NoAttempt => v = u
    BY <1>2, <1>i DEF OneUi
  <1>6. journal.attempt # NoAttempt => Mine(u).attempt = journal.attempt
    BY <1>2, <1>i DEF OneUi
  <1>7. \A x \in Exts \ {e} : /\ Mine(x)' = Mine(x) /\ ipc'[x] = ipc[x]
                              /\ Telling(x)' <=> Telling(x)
    BY ExtNextOthers, ExtNextUntouched DEF Untouched, Telling
  <1>8. \A x \in Exts : ChainInv(x)'
    <2>1. ChainInv(e)'
      BY <1>i, ExtNextChain
    <2>2. \A x \in Exts \ {e} : ChainInv(x)'
      BY ExtNextUntouched DEF Untouched, ChainInv, RecordInv
    <2> QED
      BY <2>1, <2>2
  <1>9. ops' = ops /\ \A a : Finishing(a) => journal = NoJournal
    BY ExtNextLife DEF Finishing, QueueInv, FinishDeleted
  <1>10. journal.attempt # NoAttempt => \A x \in Exts : ~Telling(x)
    BY TellingAlone
  <1>11. \A v \in Uis : v # u => OwedInv(v)'
    BY <1>4, <1>5 DEF OwedInv
  <1>q. SUFFICES OwedInv(u)' /\ \A x \in Exts, v \in Uis : TellerInv(x, v)'
    BY <1>3, <1>8, <1>11 DEF RecordInv
  <1>a. CASE journal.attempt # NoAttempt /\ journal'.attempt = journal.attempt
    <2>1. \A x \in Exts : ~Telling(x)'
      BY <1>7, <1>10, <1>a, <1>t DEF NoJournal
    <2> QED
      BY <1>4, <1>6, <1>a, <2>1 DEF TellerInv, OwedInv
  <1>b. CASE journal.attempt # NoAttempt /\ journal'.attempt # journal.attempt
    <2>1. /\ journal' = NoJournal /\ Telling(e)' /\ Quiet(e)
          /\ Mine(e)'.attempt = journal.attempt
      BY <1>10, <1>b, <1>t
    <2>2. \A x \in Exts : Telling(x)' => x = e
      BY <1>7, <1>10, <1>b
    <2>3. /\ ~Mine(u).cleanup
          /\ ~(vpnLane[u].attempt = Mine(u).attempt /\ vpnLane[u].cleanup)
      <3>1. Sound(Mine(u)) /\ Sound(vpnLane[u])
        BY <1>0 DEF FramesInv, AllFrames
      <3> QED
        BY <1>6, <1>b, <3>1 DEF Sound
    <2>4. \A a : ~Finishing(a)
      BY <1>9, <1>b DEF NoJournal
    <2>5. \A a : ~Finishing(a)'
      BY <1>9, <2>4 DEF Finishing, Op
    <2>6. ~Finishing(Mine(u).attempt)'
      BY <1>9, <2>4 DEF Finishing, Op
    <2>7. vpnLane' = vpnLane
      BY <2>1 DEF Quiet
    <2>8. TellerInv(e, u)'
      BY <1>4, <1>6, <1>b, <2>1, <2>2, <2>3, <2>6, <2>7 DEF TellerInv
    <2> QED
      BY <1>2, <2>1, <2>2, <2>8 DEF TellerInv, OwedInv
  <1>c. CASE journal.attempt = NoAttempt
    <2>1. Quiet(e) \/ Tells(e)
      BY <1>c, <1>i, ExtNextSpeaks
    <2>2. ~(\E w \in wants : Deliver(e, w))
      <3> SUFFICES ASSUME NEW w \in wants, Deliver(e, w) PROVE FALSE
        OBVIOUS
      <3>1. w.attempt \in Attempts /\ journal.attempt = w.attempt
        BY DEF PluginType, Deliver
      <3> QED
        BY <1>c, <3>1 DEF Attempts, NoAttempt
    <2>3. ipc' = ipc
      BY <2>2, ExtNextLives
    <2>4. journal'.attempt = NoAttempt
      BY <1>1, <1>c
    <2>5. Telling(e)' => Telling(e) /\ Mine(e)' = Mine(e)
      BY <1>c, <1>t
    <2>6. \A a : Finishing(a)' <=> Finishing(a)
      BY <1>9 DEF Finishing, Op
    <2>7. \A v \in Uis : Finishing(Mine(v).attempt)' <=> Finishing(Mine(v).attempt)
      BY <1>4, <1>9 DEF Finishing, Op
    <2>8. \A x \in Exts : Telling(x)' => Telling(x) /\ Mine(x)' = Mine(x)
      BY <1>7, <2>5
    <2>9. CASE Quiet(e) /\ ~Tells(e)
      <3>1. Telling(e) => Telling(e)'
        BY <1>t, <2>2, <2>9
      <3>2. vpnLane' = vpnLane /\ seen'[u] = seen[u]
        BY <2>9 DEF Quiet
      <3>3. \A x \in Exts : Telling(x)' <=> Telling(x)
        BY <1>7, <2>8, <3>1
      <3>4. \A x \in Exts, v \in Uis : TellerInv(x, v)'
        <4> TAKE x \in Exts, v \in Uis
        <4>1. TellerInv(x, v)
          BY DEF RecordInv
        <4> QED
          BY <1>4, <2>3, <2>7, <2>8, <3>2, <3>3, <4>1 DEF TellerInv
      <3>5. LaneTells(u) => LaneTells(u)'
        BY <1>4, <3>2 DEF LaneTells, Says
      <3>6. OwedInv(u)
        BY DEF RecordInv
      <3>7. journal'.attempt = journal.attempt
        BY <1>c, <2>4
      <3> QED
        BY <1>4, <2>3, <2>7, <3>3, <3>4, <3>5, <3>6, <3>7 DEF OwedInv
    <2>10. CASE Tells(e)
      <3>1. Telling(e) /\ ~Telling(e)' /\ Store(e, Mine(e), FALSE, TRUE)
        BY <2>10 DEF Tells
      <3>2. ipc[e] = u
        BY <1>2, <2>3
      <3>3. /\ Mine(e).attempt = Mine(u).attempt
            /\ Mine(e).cleanup /\ Mine(e).outcome \in Terminal
            /\ \A x \in Exts : Telling(x) /\ ipc[x] = u => x = e
        BY <1>i, <3>1, <3>2 DEF RecordInv, TellerInv, TellingInv
      <3>4. vpnLane'[u] = Mine(e) /\ ~seen'[u]
        BY <1>0, <3>1, <3>2, ProcessAssumption DEF Store, Reads, LanesType
      <3>5. LaneTells(u)'
        BY <1>4, <3>3, <3>4 DEF LaneTells, Says
      <3>6. \A x \in Exts : ~Telling(x)'
        <4> SUFFICES ASSUME NEW x \in Exts, Telling(x)' PROVE FALSE
          OBVIOUS
        <4>1. Telling(x) /\ x # e
          BY <2>8, <3>1
        <4>2. PICK v \in Uis : Alive(v) /\ ipc[x] = v
          BY <4>1, TellingAlone
        <4>3. v = u
          BY <1>2, <1>i, <4>2 DEF OneUi
        <4> QED
          BY <3>3, <4>1, <4>2, <4>3
      <3> QED
        BY <3>5, <3>6 DEF TellerInv, OwedInv
    <2> QED
      BY <2>1, <2>9, <2>10
  <1> QED
    BY <1>a, <1>b, <1>c

-----------------------------------------------------------------------------
(* The theorems *)

LEMMA InitRecord == Init => RecordInv
  <1> SUFFICES ASSUME Init PROVE RecordInv
    OBVIOUS
  <1>1. /\ journal.attempt = NoAttempt /\ wants = {} /\ ops = << >>
        /\ \A p \in Procs : ~Alive(p) /\ Mine(p).attempt = NoAttempt
        /\ \A e \in Exts : /\ e \in Procs /\ ipc[e] = None /\ pc[e] = "idle"
                           /\ cleaning[e].pc = "none"
        /\ \A u \in Uis : u \in Procs
    BY DEF Init, NoJournal, InitCore, InitFrame, Mine, Alive, Procs, NoCleanup
  <1> QED
    BY <1>1 DEF RecordInv, OneUi, ChainInv, TellerInv, OwedInv, Telling, Unowned

(* While no process dies, the record of an attempt is deleted by exactly   *)
(* one process, and the UI process that owes the cleanup is told.          *)
THEOREM RecordInvariant == ASSUME Punctual, Lasting PROVE Spec => []RecordInv
  <1> DEFINE Inv == TypeInv /\ FramesInv /\ QueueInv /\ OwnershipInv /\ FinalInv
  <1>1. Inv /\ RecordInv /\ [Next]_vars => RecordInv'
    <2> SUFFICES ASSUME Inv, RecordInv, [Next]_vars PROVE RecordInv'
      OBVIOUS
    <2>1. CASE Next
      BY <2>1, UiNextRecord, ExtNextRecord DEF Next
    <2>2. CASE UNCHANGED vars
      <3>1. UNCHANGED <<journal, core, vpnLane, seen, ops, wants, status, ipc, pc,
                        act, cleaning>>
        BY <2>2 DEF vars, shared, lanes, plugin, ability
      <3>2. OneUi' /\ \A e \in Exts : ChainInv(e)'
        BY <3>1 DEF RecordInv, OneUi, ChainInv, Mine, Alive
      <3>3. /\ \A e \in Exts, u \in Uis : TellerInv(e, u)'
            /\ \A u \in Uis : OwedInv(u)'
        BY <3>1 DEF RecordInv, TellerInv, OwedInv, Telling, LaneTells, Says,
           Finishing, Mine, Op
      <3> QED
        BY <3>2, <3>3 DEF RecordInv
    <2> QED
      BY <2>1, <2>2
  <1>2. Spec => []Inv
    BY TypeInvariant, CleanupInvariant, OwnershipInvariant, FinalInvariant, PTL
  <1> QED
    BY <1>1, <1>2, InitRecord, PTL DEF Spec

(* A UI process that owes the cleanup of its attempt can always learn of   *)
(* it: the record is in the journal, the acknowledgement is in its lane, or*)
(* the process that deleted the record is about to publish it              *)
(* (complete_platform_vpn_cleanup,                                         *)
(* recover_platform_vpn_cleanup_after_confirmed_stop).                     *)
THEOREM OwedHasRecord ==
    ASSUME Punctual, Lasting PROVE Spec => []OwedCleanupHasRecord
  <1>1. OwnershipInv /\ RecordInv => OwedCleanupHasRecord
    <2> SUFFICES ASSUME OwnershipInv, RecordInv PROVE OwedCleanupHasRecord
      OBVIOUS
    <2>1. \A e \in Exts : Telling(e) => Alive(e)
      BY DEF OwnershipInv, ExtInv, DeadIsEmpty, Telling
    <2>2. \A u \in Uis : OwedInv(u)
      BY DEF RecordInv
    <2> QED
      BY <2>1, <2>2 DEF OwedCleanupHasRecord, OwedInv, LaneTells, Says, Telling,
         Finishing, AtHead, Op
  <1> QED
    BY <1>1, OwnershipInvariant, RecordInvariant, PTL
=============================================================================
