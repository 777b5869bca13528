------------------------- MODULE ConfigTransaction -------------------------
(***************************************************************************)
(* The configuration transactions of Core (crates/paws_core/src/lib.rs):   *)
(* importing, refreshing, editing, activating and deleting profiles, rule  *)
(* changes, the synchronisation with the external controller, and the      *)
(* reload of the engine that all of them share.                            *)
(*                                                                         *)
(* A transaction holds config_reload_lock from its first change of the     *)
(* profile store to its publication, but it releases the state lock at     *)
(* every await: while a configuration is built, control frames of the peer *)
(* process are applied, delay tests end, and calls that need no            *)
(* transaction run.  An action is what happens under one hold of the state *)
(* lock.                                                                   *)
(*                                                                         *)
(* A profile's content (YAML, overrides and rules) is a stamp: a new stamp *)
(* is a new configuration, and stamp 0 is "no such profile".               *)
(***************************************************************************)
EXTENDS Naturals, FiniteSets

CONSTANTS
  Tasks,     \* concurrent callers of Core
  SyncLoop,  \* the caller that runs controller_sync_loop
  Profiles,  \* profile ids; an id is given out once
  None,      \* no profile, no task
  Kinds,     \* the operations that callers request
  Faults,    \* which steps may fail, and what may run beside a transaction
  MaxOps     \* bound: operations requested in a behaviour

AllKinds == {"import", "importPlain", "refresh", "refreshActivate", "activate",
             "delete", "rules", "storeEdit", "edit", "restore", "vpnConfig",
             "manual", "select", "startVpn", "patch", "mode", "subscription",
             "backup"}
AllFaults == {"load", "controller", "io", "native",   \* a step fails
              "deleteIo", "vpnIo",         \* so does one that leaves a trace
              "delayTest", "control"}      \* others that write meanwhile

ConstantsOK ==
  /\ SyncLoop \in Tasks /\ None \notin Tasks \cup Profiles
  /\ Kinds \subseteq AllKinds /\ Faults \subseteq AllFaults
  /\ MaxOps \in Nat

VARIABLES
  store,       \* CoreState.profiles: [contents, active]; the index agrees
  born,        \* profile ids that have been given out
  stamp,       \* the last stamp given out
  mode,        \* CoreState.mode
  engine,      \* CoreState.tunnel: what it was built from, and its mode
  controller,  \* CoreState.api_controller: "off", "on", or "patched" by a client
  connected,   \* the VPN is running, here or in the Extension
  rev,         \* CoreState.config_revision
  shown,       \* the configuration when a revision was last published
  tasks,       \* the operation each caller is in
  configLock,  \* config_reload_lock: its holder or None
  vpnLock,     \* vpn_operation_lock: its holder or None
  broken       \* a rollback failed too, and the caller was told so

vars == <<store, born, stamp, mode, engine, controller, connected, rev, shown,
          tasks, configLock, vpnLock, broken>>

-----------------------------------------------------------------------------
(* Data *)

Modes == {"rule", "global"}
Stamps == 0..(MaxOps + 1)
Stores == [contents : [Profiles -> Stamps], active : Profiles \cup {None}]
NoEngine == [profile |-> None, content |-> 0, mode |-> "rule"]
Engines == [profile : Profiles \cup {None}, content : Stamps, mode : Modes]

Ids(s) == {p \in Profiles : s.contents[p] # 0}
Loaded == engine.profile # None

Pcs == {"idle", "vpnWait", "wait", "markFailed", "read", "take", "install",
        "finish", "remove", "manualCommit", "route", "native", "nativeAgain",
        "rollback"}

NoSnap == [content |-> 0, mode |-> "rule", rev |-> 0]
NoTask == [op |-> None, pc |-> "idle", p |-> None, exp |-> 0, content |-> 0,
           seen |-> None, old |-> None, oldLoaded |-> FALSE, tgt |-> None,
           undo |-> FALSE, snap |-> NoSnap]

At(t, op, pc) == tasks[t].op = op /\ tasks[t].pc = pc
Goto(t, pc) == tasks' = [tasks EXCEPT ![t].pc = pc]

Init ==
  \E S \in SUBSET Profiles :
    /\ \E a \in IF S = {} THEN {None} ELSE S :
         store = [contents |-> [p \in Profiles |-> IF p \in S THEN 1 ELSE 0],
                  active |-> a]
    /\ born = S /\ stamp = 1
    /\ mode = "rule" /\ engine = NoEngine /\ controller = "off"
    /\ connected = FALSE
    /\ rev = 0 /\ shown = store
    /\ tasks = [t \in Tasks |-> NoTask]
    /\ configLock = None /\ vpnLock = None /\ broken = FALSE

-----------------------------------------------------------------------------
(* What a transaction does to the store *)

\* import_profile_content_with_subscription_metadata
WithProfile(s, p, c) ==
  [contents |-> [s.contents EXCEPT ![p] = c],
   active |-> IF s.active = None THEN p ELSE s.active]

\* Any replacement of the content of p: YAML, overlay or rules.
Edited(s, p, c) == [s EXCEPT !.contents[p] = c]

\* delete_profile, when another profile is active or none is left
Without(s, p) == [contents |-> [s.contents EXCEPT ![p] = 0],
                  active |-> IF s.active = p THEN None ELSE s.active]

\* restore_profile_checkpoint: the document of p as it was
Restored(s, p, old) == Edited(s, p, old.contents[p])

-----------------------------------------------------------------------------
(* Publication, and the ends of an operation *)

\* Mutant of PublishConfig: the revision wraps at one.
PublishConfigWraps == rev' = (rev + 1) % 2 /\ shown' = store'

\* publish_..._change_locked when config_changed
PublishConfig == rev' = rev + 1 /\ shown' = store'

\* publish_..._change_locked for status, resources or telemetry only
PublishOther == UNCHANGED <<rev, shown>>

\* Mutant of RevisionCurrent: any revision from before will do.
RevisionKnown(r) == rev >= r

\* ensure_config_revision_locked
RevisionCurrent(r) == rev = r

\* The call returns; its guards are dropped.
Return(t) ==
  /\ tasks' = [tasks EXCEPT ![t] = NoTask]
  /\ configLock' = IF configLock = t THEN None ELSE configLock
  /\ vpnLock' = IF vpnLock = t THEN None ELSE vpnLock

\* The call fails.  refresh_profile still records that, in a transaction of
\* its own.
Fail(t) ==
  \/ /\ tasks[t].op = "refresh"
     /\ tasks' = [tasks EXCEPT ![t].pc = "markFailed"]
     /\ configLock' = IF configLock = t THEN None ELSE configLock
     /\ UNCHANGED vpnLock
  \/ tasks[t].op # "refresh" /\ Return(t)

\* try_config_transaction
TryConfigTransaction == configLock = None

-----------------------------------------------------------------------------
(* A caller asks for an operation.  It works against the revision it knows,  *)
(* and for an import, refresh or edit it downloads and validates content.    *)

Request(t, op, p) ==
  /\ tasks[t].pc = "idle" /\ t # SyncLoop /\ stamp <= MaxOps
  /\ \A u \in Tasks : tasks[u].op # op
  /\ p \in IF op \in {"import", "importPlain", "select", "startVpn"}
           THEN {None} ELSE Ids(store)
  /\ op \in {"import", "importPlain"} => born # Profiles
  /\ tasks' = [tasks EXCEPT ![t] =
       [NoTask EXCEPT !.op = op, !.p = p, !.exp = rev, !.seen = shown,
                      !.content = stamp + 1,
                      !.pc = IF op = "startVpn" THEN "vpnWait" ELSE "wait"]]
  /\ stamp' = stamp + 1
  /\ UNCHANGED <<store, born, mode, engine, controller, connected, rev, shown,
                 configLock, vpnLock, broken>>

\* The next tick of controller_sync_loop.
SyncTick ==
  /\ tasks[SyncLoop].pc = "idle"
  /\ tasks' = [tasks EXCEPT ![SyncLoop].op = "sync", ![SyncLoop].pc = "vpnWait"]
  /\ UNCHANGED <<store, born, stamp, mode, engine, controller, connected, rev,
                 shown, configLock, vpnLock, broken>>

\* The download or the validation fails before anything is locked.
PrepareFails(t) ==
  /\ "load" \in Faults
  /\ tasks[t].pc = "wait"
  /\ tasks[t].op \in {"import", "importPlain", "refresh", "refreshActivate", "edit"}
  /\ Fail(t)
  /\ UNCHANGED <<store, born, stamp, mode, engine, controller, connected, rev,
                 shown, broken>>

TakeVpnLock(t) ==
  /\ tasks[t].pc = "vpnWait" /\ vpnLock = None
  /\ vpnLock' = t
  /\ Goto(t, "wait")
  /\ UNCHANGED <<store, born, stamp, mode, engine, controller, connected, rev,
                 shown, configLock, broken>>

-----------------------------------------------------------------------------
(* The first step of each transaction: take config_reload_lock, check the    *)
(* revision, remember how to undo, commit the change to the store.           *)

\* The caller enters the transaction of op.
Enter(t, op) == At(t, op, "wait") /\ TryConfigTransaction

\* Commit s; then reload target, or finish at once if there is none.
BeginWith(t, p, s, target) ==
  /\ configLock' = t
  /\ store' = s
  /\ tasks' = [tasks EXCEPT ![t].p = p, ![t].old = store, ![t].tgt = target,
                            ![t].oldLoaded = Loaded,
                            ![t].pc = IF target = None THEN "finish" ELSE "read"]
  /\ UNCHANGED <<stamp, mode, engine, controller, connected, rev, shown,
                 vpnLock, broken>>

\* An edit reloads the engine only if it is of the active profile.
IfActive(p) == IF store.active = p THEN p ELSE None

BeginImport(t) ==
  /\ Enter(t, "import") /\ RevisionCurrent(tasks[t].exp)
  /\ \E p \in Profiles \ born :
       /\ born' = born \cup {p}
       /\ BeginWith(t, p, WithProfile(store, p, tasks[t].content), p)

\* import_profile_from_url and ..._from_content: no reload, no revision check
ImportPlain(t) ==
  /\ Enter(t, "importPlain")
  /\ \E p \in Profiles \ born :
       /\ born' = born \cup {p}
       /\ store' = WithProfile(store, p, tasks[t].content)
  /\ PublishConfig
  /\ Return(t)
  /\ UNCHANGED <<stamp, mode, engine, controller, connected, broken>>

BeginRefreshActivate(t) ==
  LET p == tasks[t].p IN
  /\ Enter(t, "refreshActivate") /\ RevisionCurrent(tasks[t].exp)
  /\ p \in Ids(store)
  /\ BeginWith(t, p, Edited(store, p, tasks[t].content), p)
  /\ UNCHANGED born

BeginRefresh(t) ==
  LET p == tasks[t].p IN
  /\ Enter(t, "refresh") /\ RevisionCurrent(tasks[t].exp)
  /\ p \in Ids(store)
  /\ BeginWith(t, p, Edited(store, p, tasks[t].content), IfActive(p))
  /\ UNCHANGED born

BeginActivate(t) ==
  LET p == tasks[t].p IN
  /\ Enter(t, "activate") /\ RevisionCurrent(tasks[t].exp)
  /\ BeginWith(t, p, store, p)
  /\ UNCHANGED born

\* delete_profile first activates another profile if there is one.
BeginDelete(t) ==
  LET p == tasks[t].p IN
  /\ Enter(t, "delete") /\ RevisionCurrent(tasks[t].exp)
  /\ p \in Ids(store)
  /\ \E next \in IF store.active = p /\ Ids(store) # {p}
                 THEN Ids(store) \ {p} ELSE {None} :
       /\ configLock' = t
       /\ tasks' = [tasks EXCEPT ![t].old = store, ![t].tgt = next,
                                 ![t].oldLoaded = Loaded,
                                 ![t].pc = IF next = None THEN "remove" ELSE "read"]
  /\ UNCHANGED <<store, born, stamp, mode, engine, controller, connected, rev,
                 shown, vpnLock, broken>>

\* commit_prepared_rule_import_checked: only into the active profile
BeginRules(t) ==
  LET p == tasks[t].p IN
  /\ Enter(t, "rules") /\ RevisionCurrent(tasks[t].exp)
  /\ store.active = p
  /\ BeginWith(t, p, Edited(store, p, tasks[t].content), p)
  /\ UNCHANGED born

\* set_rule_enabled_checked, reorder_rules_checked, delete_rule_checked
StoreEditCalls == {"storeEdit"}

\* mutate_profile_store_config
BeginStoreEdit(t) ==
  LET p == tasks[t].p IN
  /\ \E op \in StoreEditCalls : Enter(t, op) /\ RevisionCurrent(tasks[t].exp)
  /\ p \in Ids(store)
  /\ BeginWith(t, p, Edited(store, p, tasks[t].content), IfActive(p))
  /\ UNCHANGED born

\* The content is edited, or restored from its backup; a restore, like every
\* call without _checked, names no revision.
EditCalls == {"edit", "restore"}

\* set_profile_dns_config, ..._vpn_config, ..._network_config
OverlayCalls == {"vpnConfig"}

\* mutate_profile_config
BeginEdit(t) ==
  LET p == tasks[t].p IN
  /\ \E op \in EditCalls \cup OverlayCalls :
       /\ Enter(t, op)
       /\ op # "restore" => RevisionCurrent(tasks[t].exp)
  /\ p \in Ids(store)
  /\ BeginWith(t, p, Edited(store, p, tasks[t].content), IfActive(p))
  /\ UNCHANGED born

\* set_profile_vpn_config_with_apps_and_engine commits twice: an error of the
\* second commit is returned with the first one made.
VpnConfigHalf(t) ==
  /\ "vpnIo" \in Faults
  /\ Enter(t, "vpnConfig") /\ RevisionCurrent(tasks[t].exp)
  /\ tasks[t].p \in Ids(store)
  /\ store' = Edited(store, tasks[t].p, tasks[t].content)
  /\ Return(t)
  /\ UNCHANGED <<born, stamp, mode, engine, controller, connected, rev, shown,
                 broken>>

\* apply_manual_rule stages the rule in a copy of the store.
BeginManual(t) ==
  /\ Enter(t, "manual")
  /\ store.active = tasks[t].p
  /\ configLock' = t
  /\ tasks' = [tasks EXCEPT ![t].old = store, ![t].pc = "manualCommit",
                            ![t].snap.rev = rev]
  /\ UNCHANGED <<store, born, stamp, mode, engine, controller, connected, rev,
                 shown, vpnLock, broken>>

\* prepare_active_vpn: reload the active profile unless an engine is loaded
BeginPrepare(t) ==
  /\ tasks[t].op \in {"select", "startVpn"} /\ tasks[t].pc = "wait"
  /\ IF Loaded
     THEN Goto(t, "finish") /\ UNCHANGED configLock
     ELSE /\ TryConfigTransaction /\ store.active # None
          /\ configLock' = t
          /\ tasks' = [tasks EXCEPT ![t].old = store, ![t].tgt = store.active,
                                    ![t].pc = "read"]
  /\ UNCHANGED <<store, born, stamp, mode, engine, controller, connected, rev,
                 shown, vpnLock, broken>>

\* The transaction is refused: the revision is stale, the profile is gone or
\* not active, or the store cannot be written.  refresh_profile records every
\* error but a stale revision.
Reject(t) ==
  LET op == tasks[t].op
      p == tasks[t].p
      stale == /\ ~RevisionCurrent(tasks[t].exp)
               /\ op \notin {"importPlain", "restore", "manual", "select",
                             "startVpn", "sync"}
      gone == \/ p # None /\ p \notin Ids(store)
              \/ op \in {"rules", "manual"} /\ store.active # p
              \/ op \in {"select", "startVpn"} /\ ~Loaded /\ store.active = None
      failing == "io" \in Faults /\ op \notin {"select", "startVpn", "sync",
                                               "activate", "delete"}
  IN
  /\ tasks[t].pc = "wait" /\ TryConfigTransaction
  /\ stale \/ gone \/ failing
  /\ IF stale THEN Return(t) ELSE Fail(t)
  /\ UNCHANGED <<store, born, stamp, mode, engine, controller, connected, rev,
                 shown, broken>>

-----------------------------------------------------------------------------
(* reload_config_inner: build a configuration from what the store holds now, *)
(* stop the controller, start the next one, install.                         *)

\* render the runtime YAML and note the revision it is built from
ReloadRead(t) ==
  /\ tasks[t].pc = "read"
  /\ tasks' = [tasks EXCEPT ![t].pc = "take", ![t].snap =
                 [content |-> store.contents[tasks[t].tgt], mode |-> mode, rev |-> rev]]
  /\ UNCHANGED <<store, born, stamp, mode, engine, controller, connected, rev,
                 shown, configLock, vpnLock, broken>>

\* the built tunnel is ready: take the controller down
ReloadTake(t) ==
  /\ tasks[t].pc = "take" /\ RevisionCurrent(tasks[t].snap.rev)
  /\ controller' = "off"
  /\ Goto(t, "install")
  /\ UNCHANGED <<store, born, stamp, mode, engine, connected, rev, shown,
                 configLock, vpnLock, broken>>

\* Mutant of StartedController: the VPN is taken to be down while it reloads.
NoController == "off"

\* start_api_controller starts one only while the VPN is running.
StartedController == IF connected THEN "on" ELSE "off"

\* Where an operation goes on after its reload, or after the reload that
\* undoes it.
AfterReload(t) ==
  LET task == tasks[t] IN
  \/ /\ ~task.undo
     /\ Goto(t, IF task.op = "delete" THEN "remove"
                ELSE IF task.op = "sync" /\ connected THEN "native" ELSE "finish")
     /\ UNCHANGED <<configLock, vpnLock>>
  \/ /\ task.undo /\ task.op = "sync" /\ task.oldLoaded
     /\ Goto(t, "nativeAgain")
     /\ UNCHANGED <<configLock, vpnLock>>
  \/ /\ task.undo /\ ~(task.op = "sync" /\ task.oldLoaded)
     /\ Fail(t)

\* set_active, and the tunnel and controller of the new configuration
ReloadInstall(t) ==
  LET task == tasks[t] IN
  /\ task.pc = "install" /\ RevisionCurrent(task.snap.rev)
  /\ store' = [store EXCEPT !.active = task.tgt]
  /\ engine' = [profile |-> task.tgt, content |-> task.snap.content,
                mode |-> task.snap.mode]
  /\ controller' = StartedController
  /\ AfterReload(t)
  /\ PublishOther
  /\ UNCHANGED <<born, stamp, mode, connected, broken>>

\* The configuration does not load, the controller does not start, the store
\* cannot be written, or the revision moved on; status is published.
ReloadFails(t) ==
  LET task == tasks[t] IN
  /\ \/ task.pc \in {"take", "install"} /\ ~RevisionCurrent(task.snap.rev)
     \/ task.pc = "take" /\ "load" \in Faults
     \/ task.pc = "install" /\ "controller" \in Faults /\ connected
     \/ task.pc = "install" /\ "io" \in Faults
  /\ IF task.undo
     THEN \* the undo failed too
          /\ broken' = TRUE
          /\ IF task.op \in {"storeEdit", "activate", "delete"}
             THEN PublishOther ELSE rev' = rev + 1 /\ shown' = store
          /\ Fail(t)
     ELSE IF task.op \in {"select", "startVpn"}
     THEN Return(t) /\ PublishOther /\ UNCHANGED broken
     ELSE /\ Goto(t, "rollback") /\ PublishOther
          /\ UNCHANGED <<configLock, vpnLock, broken>>
  /\ UNCHANGED <<store, born, stamp, mode, engine, controller, connected>>

-----------------------------------------------------------------------------
(* Undoing a transaction whose reload failed *)

\* Put s back and reload target; with no target the undo is complete.
UndoWith(t, s, target) ==
  /\ store' = s
  /\ IF target = None
     THEN Fail(t)
     ELSE /\ tasks' = [tasks EXCEPT ![t].undo = TRUE, ![t].tgt = target,
                                    ![t].pc = "read"]
          /\ UNCHANGED <<configLock, vpnLock>>
  /\ UNCHANGED <<born, stamp, mode, engine, controller, connected, rev, shown,
                 broken>>

\* The runtime an undo brings back: none if none was loaded.
WasLoaded(t, p) == IF tasks[t].oldLoaded THEN p ELSE None

\* rollback_profile_after_failure; the sync step uses it once more when the
\* native worker does not restart
RollbackProfile(t) ==
  LET p == tasks[t].p IN
  /\ tasks[t].pc = "rollback"
  /\ tasks[t].op \in EditCalls \cup OverlayCalls \cup {"refresh", "sync"}
  /\ UndoWith(t, Restored(store, p, tasks[t].old), p)

RollbackStore(t) ==
  /\ At(t, "rules", "rollback")
  /\ UndoWith(t, tasks[t].old, WasLoaded(t, tasks[t].p))

RollbackStoreEdit(t) ==
  /\ At(t, "storeEdit", "rollback")
  /\ UndoWith(t, tasks[t].old, tasks[t].p)

RollbackActivation(t) ==
  /\ At(t, "refreshActivate", "rollback")
  /\ UndoWith(t, Restored(store, tasks[t].p, tasks[t].old),
              WasLoaded(t, tasks[t].old.active))

RollbackImport(t) ==
  /\ At(t, "import", "rollback")
  /\ UndoWith(t, tasks[t].old, WasLoaded(t, tasks[t].old.active))

\* reload_config_at_revision: back to the profile that was active
RollbackActivate(t) ==
  LET a == tasks[t].old.active IN
  /\ At(t, "activate", "rollback")
  /\ UndoWith(t, store, IF a = tasks[t].p THEN None ELSE WasLoaded(t, a))

\* delete_profile: back to the profile that was to be deleted
RollbackDelete(t) ==
  /\ At(t, "delete", "rollback")
  /\ UndoWith(t, store, WasLoaded(t, IF tasks[t].old.active = tasks[t].p
                                     THEN tasks[t].p ELSE None))

\* The previous store cannot be written back.
RollbackFails(t) ==
  /\ "io" \in Faults
  /\ tasks[t].pc = "rollback" /\ tasks[t].op \notin {"activate", "delete"}
  /\ broken' = TRUE
  /\ rev' = rev + 1 /\ shown' = store
  /\ Fail(t)
  /\ UNCHANGED <<store, born, stamp, mode, engine, controller, connected>>

-----------------------------------------------------------------------------
(* The last step of each transaction *)

\* Publish and return.  What only rebuilds the runtime publishes status.
Finish(t) ==
  LET task == tasks[t] IN
  /\ task.pc = "finish"
  /\ UNCHANGED store
  /\ IF \/ task.op \in {"select", "startVpn"}
        \/ task.op = "activate" /\ task.old.active = task.p
     THEN PublishOther ELSE PublishConfig
  /\ connected' = (connected \/ task.op = "startVpn")
  /\ Return(t)
  /\ UNCHANGED <<born, stamp, mode, engine, controller, broken>>

\* delete_profile: the removal itself, after another profile was activated.
\* The last profile takes the engine and the controller with it.
Remove(t) ==
  LET p == tasks[t].p IN
  /\ At(t, "delete", "remove")
  /\ store' = Without(store, p)
  /\ IF store.active = p
     THEN engine' = NoEngine /\ controller' = "off"
     ELSE UNCHANGED <<engine, controller>>
  /\ PublishConfig
  /\ Return(t)
  /\ UNCHANGED <<born, stamp, mode, connected, broken>>

\* The removal fails: the previous runtime comes back only if there was one.
RemoveFails(t) ==
  LET task == tasks[t] IN
  /\ At(t, "delete", "remove")
  /\ \/ "deleteIo" \in Faults
     \/ "io" \in Faults /\ (task.oldLoaded \/ task.tgt = None)
  /\ IF task.tgt # None /\ task.oldLoaded
     THEN Goto(t, "rollback") /\ UNCHANGED <<configLock, vpnLock>>
     ELSE Return(t)
  /\ UNCHANGED <<store, born, stamp, mode, engine, controller, connected, rev,
                 shown, broken>>

\* apply_manual_rule: the copy replaces the store, the tunnel gets its rules,
\* and the controller its baseline.
ManualCommit(t) ==
  LET task == tasks[t] IN
  /\ At(t, "manual", "manualCommit")
  /\ RevisionCurrent(task.snap.rev) /\ store.active = task.p
  /\ store' = Edited(task.old, task.p, task.content)
  /\ engine' = IF Loaded THEN [engine EXCEPT !.content = task.content] ELSE engine
  /\ controller' = IF controller = "off" THEN "off" ELSE "on"
  /\ PublishConfig
  /\ Return(t)
  /\ UNCHANGED <<born, stamp, mode, connected, broken>>

ManualFails(t) ==
  /\ At(t, "manual", "manualCommit")
  /\ \/ ~RevisionCurrent(tasks[t].snap.rev)
     \/ Faults \cap {"load", "io"} # {}
  /\ Return(t)
  /\ UNCHANGED <<store, born, stamp, mode, engine, controller, connected, rev,
                 shown, broken>>

\* refresh_profile: record the failure if nothing changed since it began
MarkFailed(t) ==
  /\ At(t, "refresh", "markFailed") /\ TryConfigTransaction
  /\ UNCHANGED store
  /\ IF RevisionCurrent(tasks[t].exp) /\ tasks[t].p \in Ids(store)
     THEN PublishConfig ELSE PublishOther
  /\ Return(t)
  /\ UNCHANGED <<born, stamp, mode, engine, controller, connected, broken>>

-----------------------------------------------------------------------------
(* sync_external_controller_config *)

\* Stop or start the controller as the VPN is down or up.
SyncController(t) ==
  /\ Enter(t, "sync")
  /\ \/ ~connected /\ controller # "patched" /\ controller' = "off"
     \/ connected /\ controller = "off" /\ Loaded /\ controller' = StartedController
     \/ connected /\ (controller # "off" \/ ~Loaded) /\ UNCHANGED controller
     \/ ~connected /\ controller = "patched" /\ UNCHANGED controller
  /\ configLock' = t
  /\ Goto(t, "route")
  /\ UNCHANGED <<store, born, stamp, mode, engine, connected, rev, shown,
                 vpnLock, broken>>

SyncControllerFails(t) ==
  /\ "controller" \in Faults
  /\ Enter(t, "sync") /\ connected /\ controller = "off" /\ Loaded
  /\ Return(t)
  /\ UNCHANGED <<store, born, stamp, mode, engine, controller, connected, rev,
                 shown, broken>>

\* sync_live_controller_route: Core's mode is the tunnel's.
LiveMode == IF Loaded THEN engine.mode ELSE mode

\* The live route is adopted; then commit what a client changed.  (Bound: a
\* patch that cannot be loaded is tried again at every tick; after a failed
\* rollback it is not tried again here.)
SyncRoute(t) ==
  LET p == store.active IN
  /\ At(t, "sync", "route")
  /\ mode' = LiveMode
  /\ IF controller = "patched" /\ p # None /\ ~broken
     THEN /\ store' = Edited(store, p, stamp)
          /\ tasks' = [tasks EXCEPT ![t].p = p, ![t].old = store, ![t].tgt = p,
                                    ![t].pc = "read"]
          /\ UNCHANGED <<configLock, vpnLock>>
     ELSE Return(t) /\ UNCHANGED store
  /\ UNCHANGED <<born, stamp, engine, controller, connected, rev, shown, broken>>

\* The native worker restarts on the new tunnel.
NativeRestart(t) ==
  /\ tasks[t].pc = "native"
  /\ \/ Goto(t, "finish") /\ UNCHANGED connected
     \/ /\ "native" \in Faults
        /\ tasks' = [tasks EXCEPT ![t].pc = "rollback", ![t].oldLoaded = TRUE]
        /\ connected' = FALSE
  /\ UNCHANGED <<store, born, stamp, mode, engine, controller, rev, shown,
                 configLock, vpnLock, broken>>

\* ... or, after the rollback, on the previous one; status is published.
NativeRestore(t) ==
  /\ tasks[t].pc = "nativeAgain"
  /\ connected' \in {TRUE} \cup {"native" \notin Faults}
  /\ Return(t)
  /\ PublishOther
  /\ UNCHANGED <<store, born, stamp, mode, engine, controller, broken>>

-----------------------------------------------------------------------------
(* Calls that need no await, and what happens beside a transaction         *)

\* The budget of operations counts these calls too.
Spend(op) == op \in Kinds /\ stamp <= MaxOps /\ stamp' = stamp + 1

\* set_mode
SetMode(m) ==
  /\ Spend("mode") /\ TryConfigTransaction
  /\ m = "global" => Loaded
  /\ mode' = m
  /\ engine' = IF Loaded THEN [engine EXCEPT !.mode = m] ELSE engine
  /\ UNCHANGED store /\ PublishConfig
  /\ UNCHANGED <<born, controller, connected, tasks, configLock, vpnLock, broken>>

\* update_profile_subscription: name and URL are shown, but not loaded
UpdateSubscription ==
  /\ Spend("subscription") /\ TryConfigTransaction
  /\ UNCHANGED store /\ PublishConfig
  /\ UNCHANGED <<born, mode, engine, controller, connected, tasks, configLock,
                 vpnLock, broken>>

\* restore_portable_backup: a copy is added, and does not become active
RestoreBackup(p) ==
  /\ Spend("backup") /\ TryConfigTransaction
  /\ p \notin born /\ born' = born \cup {p}
  /\ store' = Edited(store, p, stamp')
  /\ PublishConfig
  /\ UNCHANGED <<mode, engine, controller, connected, tasks, configLock, vpnLock,
                 broken>>

\* A client of the controller changes the configuration.
ExternalPatch ==
  /\ Spend("patch")
  /\ controller # "off" /\ controller' = "patched"
  /\ UNCHANGED <<store, born, mode, engine, connected, rev, shown, tasks,
                 configLock, vpnLock, broken>>

\* test_proxy_group_via_controller unfixes a group: it records that in the
\* store and publishes, without config_reload_lock.
DelayTestUnfixes ==
  /\ "delayTest" \in Faults /\ stamp <= MaxOps /\ stamp' = stamp + 1
  /\ Loaded
  /\ UNCHANGED store /\ PublishConfig
  /\ UNCHANGED <<born, mode, engine, controller, connected, tasks, configLock,
                 vpnLock, broken>>

\* sync_platform_vpn_control_locked: the peer process chose a mode
ControlSync(m) ==
  /\ "control" \in Faults
  /\ stamp <= MaxOps /\ stamp' = stamp + 1
  /\ m = "global" => Loaded
  /\ mode' = m
  /\ engine' = IF Loaded THEN [engine EXCEPT !.mode = m] ELSE engine
  /\ UNCHANGED <<store, born, controller, connected, rev, shown, tasks,
                 configLock, vpnLock, broken>>

\* The VPN stops, here or in the Extension.
Disconnect ==
  /\ connected /\ connected' = FALSE
  /\ UNCHANGED <<store, born, stamp, mode, engine, controller, rev, shown, tasks,
                 configLock, vpnLock, broken>>

-----------------------------------------------------------------------------

Begin(t) ==
  \/ BeginImport(t) \/ ImportPlain(t) \/ BeginRefreshActivate(t)
  \/ BeginRefresh(t) \/ BeginActivate(t) \/ BeginDelete(t) \/ BeginRules(t)
  \/ BeginStoreEdit(t) \/ BeginEdit(t) \/ BeginManual(t)
  \/ BeginPrepare(t) \/ SyncController(t)
  \/ Reject(t) \/ MarkFailed(t) \/ VpnConfigHalf(t) \/ SyncControllerFails(t)

Progress(t) ==
  \/ ReloadRead(t) \/ ReloadTake(t) \/ ReloadInstall(t) \/ ReloadFails(t)
  \/ RollbackProfile(t) \/ RollbackStore(t) \/ RollbackStoreEdit(t)
  \/ RollbackActivation(t) \/ RollbackImport(t) \/ RollbackActivate(t)
  \/ RollbackDelete(t) \/ RollbackFails(t)
  \/ Finish(t) \/ Remove(t) \/ RemoveFails(t) \/ ManualCommit(t)
  \/ ManualFails(t) \/ SyncRoute(t) \/ NativeRestart(t) \/ NativeRestore(t)

Next ==
  \/ \E t \in Tasks :
       \/ \E op \in Kinds \ {"patch", "mode", "subscription", "backup"},
             p \in Profiles \cup {None} : Request(t, op, p)
       \/ PrepareFails(t) \/ TakeVpnLock(t) \/ Begin(t) \/ Progress(t)
  \/ SyncTick
  \/ \E m \in Modes : SetMode(m) \/ ControlSync(m)
  \/ UpdateSubscription \/ ExternalPatch \/ DelayTestUnfixes \/ Disconnect
  \/ \E p \in Profiles : RestoreBackup(p)

Spec == Init /\ [][Next]_vars

\* A call that runs goes on, the sync loop ticks and begins what it waits for.
\* Among the callers someone who can begin again and again does: a tokio mutex
\* hands itself to the first that waits.  Nothing is assumed of callers,
\* clients or failures.
Fair(n) ==
  \/ n = 1 /\ \E t \in Tasks : Progress(t)
  \/ n = 2 /\ SyncTick
  \/ n = 3 /\ (Begin(SyncLoop) \/ TakeVpnLock(SyncLoop))

FairStrongly == \E t \in Tasks \ {SyncLoop} : Begin(t) \/ TakeVpnLock(t)

FairSpec == Spec /\ (\A n \in 1..3 : WF_vars(Fair(n))) /\ SF_vars(FairStrongly)

-----------------------------------------------------------------------------
(* Properties *)

TypeOK ==
  /\ store \in Stores /\ shown \in Stores
  /\ born \subseteq Profiles /\ stamp \in Stamps
  /\ mode \in Modes /\ engine \in Engines
  /\ controller \in {"off", "on", "patched"}
  /\ connected \in BOOLEAN /\ broken \in BOOLEAN /\ rev \in Nat
  /\ \A t \in Tasks : tasks[t].pc \in Pcs /\ tasks[t].exp <= rev
  /\ configLock \in Tasks \cup {None} /\ vpnLock \in Tasks \cup {None}

\* No transaction is under way and none ended with a failed rollback.
Settled == configLock = None /\ ~broken

\* Whatever failed on the way, between transactions the engine that runs was
\* built from what the store holds of the active profile: no failed reload,
\* rollback or cancelled deletion leaves the tunnel on other content.
RuntimeMatchesStore ==
  Settled /\ Loaded =>
    /\ engine.profile = store.active
    /\ engine.content = store.contents[store.active]

\* Between transactions a config_revision stands for one configuration: what
\* the store holds is what was shown when the revision was published, so that
\* ensure_config_revision_locked can stand for "nothing changed".
RevisionIdentifiesConfig == Settled => shown = store

\* A transaction that names a revision commits over the configuration its
\* caller saw and over no other (no lost update).
CommitSawStore ==
  \A t \in Tasks :
    /\ ~broken /\ configLock = None /\ configLock' = t
    /\ tasks[t].op \in {"import", "refresh", "refreshActivate", "activate",
                        "delete", "rules", "storeEdit", "edit", "vpnConfig"}
    => store = tasks[t].seen

\* That, of every step.
CommitsOverWhatWasSeen == [][CommitSawStore]_vars

\* Between transactions the tunnel routes in the mode that Core reports.
ModeApplied == configLock = None /\ Loaded => engine.mode = mode

\* Every operation ends: transactions, synchronisation and VPN start take the
\* two locks in one order and release them on every path.
OperationsEnd ==
  \A t \in Tasks : []<>(tasks[t].pc = "idle")

\* While the VPN runs, a controller that a failed reload left down comes back.
ControllerComesBack == []<>(connected /\ Loaded => controller # "off")
=============================================================================
