----------------------- MODULE ConfigTransactionProofs -----------------------
(***************************************************************************)
(* The configuration transactions of Core, for any callers, profiles and   *)
(* number of operations: between transactions the engine runs what the     *)
(* store holds, a revision stands for one configuration, a commit is made  *)
(* over the configuration its caller saw, and the tunnel routes in the     *)
(* mode that Core reports.                                                 *)
(***************************************************************************)
EXTENDS ConfigTransaction, TLAPS

(* The faults that the observations of the README show to break one of     *)
(* these: half a commit of the VPN page; a deletion that fails after       *)
(* another profile was activated, or a delay test that publishes in the    *)
(* middle of a transaction; a mode applied from the peer during a reload.  *)
WholeCommits == "vpnIo" \notin Faults
NoSilentChange == WholeCommits /\ Faults \cap {"deleteIo", "delayTest"} = {}
NoPeerMode == "control" \notin Faults

StoreRecs == [contents : [Profiles -> Nat], active : Profiles \cup {None}]
Snaps == [content : Nat, mode : Modes, rev : Nat]
TaskRecs == [op : AllKinds \cup {"sync", None}, pc : Pcs, p : Profiles \cup {None},
             exp : Nat, content : Nat, seen : StoreRecs \cup {None},
             old : StoreRecs \cup {None}, oldLoaded : BOOLEAN,
             tgt : Profiles \cup {None}, undo : BOOLEAN, snap : Snaps]
EngineRecs == [profile : Profiles \cup {None}, content : Nat, mode : Modes]

(* A profile of s has been given out, and so has the active one.           *)
Known(ids, s) ==
    /\ \A q \in Profiles : s.contents[q] # 0 => q \in ids
    /\ s.active # None => s.active \in ids

Fits(task) == task.p \in born \cup {None} /\ task.tgt \in born \cup {None}

Data ==
    /\ store \in StoreRecs /\ shown \in StoreRecs
    /\ stamp \in Nat /\ rev \in Nat /\ mode \in Modes /\ engine \in EngineRecs
    /\ broken \in BOOLEAN
    /\ born \subseteq Profiles /\ Known(born, store)

Types ==
    /\ Data
    /\ tasks \in [Tasks -> TaskRecs]
    /\ configLock \in Tasks \cup {None}
    /\ \A t \in Tasks : Fits(tasks[t])

TxPcs == {"read", "take", "install", "rollback", "remove", "native", "nativeAgain",
          "manualCommit", "route"}
Reloading == {"read", "take", "install"}
EditOps == {"edit", "restore", "vpnConfig", "refresh", "storeEdit", "sync", "rules"}
OtherOps == {"import", "refreshActivate", "activate", "delete"}
PrepareOps == {"select", "startVpn"}
Early == {"idle", "vpnWait", "wait"}
NoProfileYet == {"import", "importPlain", "select", "startVpn", "sync"}

(* What a caller's record says at each step, and who may hold the lock.    *)
Locked(t) ==
    LET task == tasks[t] IN
    /\ task.pc \in TxPcs => configLock = t
    /\ configLock = t => task.pc \in TxPcs \cup {"finish"}
    /\ task.pc = "finish" /\ configLock # t => task.op \in PrepareOps
    /\ task.pc = "vpnWait" => task.op \in {"sync", "startVpn"}
    /\ task.pc \in Early \cup {"route"} => ~task.undo /\ ~task.oldLoaded
    /\ task.pc = "wait" /\ task.op \notin NoProfileYet => task.p \in Profiles
    /\ task.pc \in Reloading => task.tgt \in Profiles
    /\ task.pc \in Reloading \cup {"rollback"} => task.op \in EditOps \cup OtherOps \cup PrepareOps
    /\ task.pc = "rollback" \/ (task.pc \in Reloading /\ task.undo) => task.op \notin PrepareOps
    /\ task.pc = "remove" => task.op = "delete"
    /\ task.pc \in {"native", "nativeAgain", "route"} => task.op = "sync"
    /\ task.pc = "manualCommit" => task.op = "manual"
    /\ task.pc \in TxPcs \ {"route"} =>
          /\ task.old \in StoreRecs /\ Known(born, task.old)
          /\ task.op \in PrepareOps \/ task.p \in Profiles

(* A caller that knows the present revision has seen what it stands for.   *)
Seen(t) ==
    /\ tasks[t].exp <= rev
    /\ tasks[t].exp = rev /\ tasks[t].pc \in {"vpnWait", "wait"} /\ tasks[t].op # "sync"
          => tasks[t].seen = shown

(* The engine runs what s holds of its active profile.                     *)
Matches(s) == Loaded => engine.profile = s.active /\ engine.content = s.contents[s.active]

(* The store holds what it held when the transaction began, but for the    *)
(* profile that the transaction is about.                                  *)
Differs(t) == \A q \in Profiles : q # tasks[t].p => store.contents[q] = tasks[t].old.contents[q]

(* The edit of the active profile.                                         *)
EditsActive(t) ==
    LET task == tasks[t] IN
    task.p \in Profiles /\ task.old.active = task.p /\ store.active = task.p /\ Differs(t)

(* A reload on the way to the new configuration...                         *)
Forth(t) ==
    LET task == tasks[t] IN
    /\ task.tgt \in Profiles
    /\ Matches(task.old)
    /\ task.op # "sync" => (Loaded <=> task.oldLoaded)
    /\ task.op \in EditOps => EditsActive(t) /\ task.tgt = task.p
    /\ task.op = "refreshActivate" => store.active = task.old.active /\ Differs(t)
    /\ task.op \in {"activate", "delete"} \cup PrepareOps => store = task.old
    /\ task.op = "activate" => task.tgt = task.p
    /\ task.op = "delete" => task.old.active = task.p /\ task.tgt # task.p
    /\ task.op \in PrepareOps => task.tgt = task.old.active

(* ...and one on the way back.                                             *)
Back(t) ==
    LET task == tasks[t] IN
    store.contents = task.old.contents /\ task.tgt = task.old.active /\ task.tgt \in Profiles

(* A reload has failed, or what followed it.                               *)
Undoable(t) ==
    LET task == tasks[t] IN
    /\ task.op \in EditOps => EditsActive(t)
    /\ task.op = "refreshActivate" => store.active = task.old.active /\ Differs(t)
    /\ task.op = "activate" => store = task.old /\ Matches(store)
    /\ task.op = "delete" => /\ task.old.active = task.p /\ store.contents = task.old.contents
                             /\ ~task.oldLoaded => store = task.old
    /\ task.op \in OtherOps \cup {"rules"} =>
          /\ task.oldLoaded => task.old.active # None
          /\ ~task.oldLoaded => ~Loaded

Transaction(t) ==
    LET task == tasks[t] IN
    /\ task.pc \in Reloading /\ ~task.undo => Forth(t)
    /\ task.pc \in Reloading /\ task.undo => Back(t)
    /\ task.pc \in {"take", "install"} => task.snap.content = store.contents[task.tgt]
    /\ task.pc = "rollback" => Undoable(t)
    /\ task.pc = "finish" =>
          /\ Matches(store)
          /\ task.op \in PrepareOps \/ (task.op = "activate" /\ task.old.active = task.p)
             => store = task.old
    /\ task.pc = "remove" =>
          /\ Matches(store)
          /\ task.tgt = None => store = task.old
          /\ task.tgt # None => task.old.active = task.p /\ store.contents = task.old.contents
    /\ task.pc = "native" => EditsActive(t) /\ Matches(store)
    /\ task.pc \in {"nativeAgain", "manualCommit"} => store = task.old /\ Matches(store)
    /\ task.pc = "route" => Matches(store)

LockInv == Types /\ \A t \in Tasks : Locked(t) /\ Seen(t)

RuntimeInv ==
    ~broken => IF configLock = None THEN Matches(store) ELSE Transaction(configLock)

(* What the revision stands for: the store, or while a transaction is      *)
(* under way what the store held when it began.                            *)
RevisionInv ==
    ~broken =>
        shown = IF configLock = None \/ tasks[configLock].pc = "route"
                THEN store ELSE tasks[configLock].old

ModeInv ==
    /\ Loaded => engine.mode = mode
    /\ \A t \in Tasks : tasks[t].pc \in {"take", "install"} => tasks[t].snap.mode = mode

-----------------------------------------------------------------------------
(* What a step does to the record of its caller *)

(* Only t steps; the other callers are where they were.                    *)
Only(t) ==
    /\ tasks' \in [Tasks -> TaskRecs]
    /\ \A u \in Tasks : u # t => tasks'[u] = tasks[u]

LEMMA TaskOf ==
    ASSUME Types, NEW t \in Tasks
    PROVE  /\ tasks[t] \in TaskRecs /\ Fits(tasks[t])
           /\ tasks[t].pc \in Pcs /\ tasks[t].exp \in Nat /\ tasks[t].content \in Nat
           /\ tasks[t].p \in Profiles \cup {None} /\ tasks[t].tgt \in Profiles \cup {None}
           /\ tasks[t].op \in AllKinds \cup {"sync", None}
           /\ tasks[t].old \in StoreRecs \cup {None}
           /\ tasks[t].undo \in BOOLEAN /\ tasks[t].oldLoaded \in BOOLEAN
           /\ tasks[t].snap \in Snaps
  BY DEF Types, TaskRecs

(* A caller goes on: pc, p, old, tgt, oldLoaded and undo as given.         *)
Steps(t, pc, p, old, tgt, loaded, undo) ==
    /\ Only(t)
    /\ tasks'[t].pc = pc /\ tasks'[t].p = p /\ tasks'[t].old = old /\ tasks'[t].tgt = tgt
    /\ tasks'[t].oldLoaded = loaded /\ tasks'[t].undo = undo
    /\ tasks'[t].op = tasks[t].op /\ tasks'[t].exp = tasks[t].exp
    /\ tasks'[t].seen = tasks[t].seen /\ tasks'[t].content = tasks[t].content

LEMMA GotoFacts ==
    ASSUME Types, NEW t \in Tasks, NEW pc \in Pcs, Goto(t, pc)
    PROVE  /\ Steps(t, pc, tasks[t].p, tasks[t].old, tasks[t].tgt, tasks[t].oldLoaded, tasks[t].undo)
           /\ tasks'[t].snap = tasks[t].snap
  <1>1. tasks \in [Tasks -> TaskRecs] /\ tasks' = [tasks EXCEPT ![t].pc = pc]
    BY DEF Types, Goto
  <1>2. [tasks[t] EXCEPT !.pc = pc] \in TaskRecs
    BY <1>1 DEF TaskRecs
  <1>3. tasks' = [tasks EXCEPT ![t] = [tasks[t] EXCEPT !.pc = pc]]
    BY <1>1
  <1>4. Only(t) /\ tasks'[t] = [tasks[t] EXCEPT !.pc = pc]
    BY <1>1, <1>2, <1>3 DEF Only
  <1> QED
    BY <1>1, <1>4 DEF Steps, TaskRecs

LEMMA SnapFacts ==
    ASSUME Types, NEW t \in Tasks, NEW pc \in Pcs, NEW snap \in Snaps,
           tasks' = [tasks EXCEPT ![t].pc = pc, ![t].snap = snap]
    PROVE  /\ Steps(t, pc, tasks[t].p, tasks[t].old, tasks[t].tgt, tasks[t].oldLoaded, tasks[t].undo)
           /\ tasks'[t].snap = snap
  <1>1. tasks \in [Tasks -> TaskRecs]
    BY DEF Types
  <1>2. [tasks[t] EXCEPT !.pc = pc, !.snap = snap] \in TaskRecs
    BY <1>1 DEF TaskRecs
  <1>3. tasks' = [tasks EXCEPT ![t] = [tasks[t] EXCEPT !.pc = pc, !.snap = snap]]
    BY <1>1
  <1>4. Only(t) /\ tasks'[t] = [tasks[t] EXCEPT !.pc = pc, !.snap = snap]
    BY <1>1, <1>2, <1>3 DEF Only
  <1> QED
    BY <1>1, <1>4 DEF Steps, TaskRecs

LEMMA NoTaskFacts ==
    /\ NoTask \in TaskRecs /\ Fits(NoTask) /\ NoTask.pc = "idle" /\ NoTask.op = None
    /\ NoTask.exp = 0 /\ ~NoTask.undo /\ ~NoTask.oldLoaded /\ NoTask.old = None
    /\ NoTask.p = None /\ NoTask.tgt = None
  BY DEF NoTask, TaskRecs, NoSnap, Snaps, Modes, Pcs, Fits

(* The call returns, or refresh_profile goes on to record its failure.     *)
Over(t) ==
    /\ Only(t)
    /\ \/ tasks'[t] = NoTask
       \/ /\ tasks'[t].pc = "markFailed" /\ tasks'[t].exp = tasks[t].exp
          /\ Fits(tasks'[t])
    /\ configLock' = IF configLock = t THEN None ELSE configLock

LEMMA OverFacts ==
    ASSUME Types, NEW t \in Tasks, Fail(t) \/ Return(t)
    PROVE  Over(t)
  <1>1. tasks \in [Tasks -> TaskRecs]
    BY DEF Types
  <1>2. CASE Return(t)
    BY <1>1, <1>2, NoTaskFacts DEF Return, Over, Only
  <1>3. CASE Fail(t) /\ ~Return(t)
    <2>1. tasks' = [tasks EXCEPT ![t].pc = "markFailed"] /\ "markFailed" \in Pcs
      BY <1>3 DEF Fail, Pcs
    <2>2. Steps(t, "markFailed", tasks[t].p, tasks[t].old, tasks[t].tgt, tasks[t].oldLoaded,
                tasks[t].undo)
      BY <2>1, GotoFacts DEF Goto
    <2>3. configLock' = IF configLock = t THEN None ELSE configLock
      BY <1>3 DEF Fail
    <2>4. /\ Only(t) /\ tasks'[t].pc = "markFailed" /\ tasks'[t].exp = tasks[t].exp
          /\ tasks'[t].p = tasks[t].p /\ tasks'[t].tgt = tasks[t].tgt
          /\ tasks'[t].old = tasks[t].old
      BY <2>2 DEF Steps
    <2>6. Fits(tasks'[t])
      BY <2>4, TaskOf DEF Fits
    <2> QED
      BY <2>3, <2>4, <2>6 DEF Over
  <1> QED
    BY <1>2, <1>3 DEF Fail

-----------------------------------------------------------------------------
(* What a step leaves alone *)

(* A revision is published, or the last one stands.                        *)
Grows == (rev' = rev /\ shown' = shown) \/ rev' = rev + 1

(* A caller that does not step knows what it knew.                         *)
LEMMA Keeps ==
    ASSUME Types, Grows, born \subseteq born', NEW u \in Tasks, tasks'[u] = tasks[u],
           configLock' = u <=> configLock = u, Locked(u), Seen(u)
    PROVE  Locked(u)' /\ Seen(u)' /\ Fits(tasks[u])'
  <1>1. Known(born, tasks[u].old) => Known(born, tasks[u].old)'
    BY DEF Known
  <1>2. Locked(u)'
    BY <1>1 DEF Locked
  <1>3. Seen(u)'
    <2>1. tasks[u].exp \in Nat /\ rev \in Nat
      BY TaskOf DEF Types, Data
    <2>2. CASE rev' = rev /\ shown' = shown
      BY <2>2 DEF Seen
    <2>3. CASE rev' = rev + 1
      BY <2>1, <2>3 DEF Seen
    <2> QED
      BY <2>2, <2>3 DEF Grows
  <1>4. Fits(tasks[u])'
    BY TaskOf DEF Fits
  <1> QED
    BY <1>2, <1>3, <1>4

(* The engine runs the same configuration, perhaps in another mode.        *)
SameEngine == engine'.profile = engine.profile /\ engine'.content = engine.content

(* The caller goes on with the transaction as it is.                       *)
SameCall(t) ==
    /\ tasks'[t].op = tasks[t].op /\ tasks'[t].p = tasks[t].p /\ tasks'[t].old = tasks[t].old
    /\ tasks'[t].tgt = tasks[t].tgt /\ tasks'[t].oldLoaded = tasks[t].oldLoaded
    /\ tasks'[t].undo = tasks[t].undo

LEMMA SameCallKeeps ==
    ASSUME SameEngine, store' = store, NEW t \in Tasks, SameCall(t)
    PROVE  /\ Matches(store)' <=> Matches(store)
           /\ EditsActive(t)' <=> EditsActive(t)
           /\ Forth(t)' <=> Forth(t)
           /\ Back(t)' <=> Back(t)
           /\ Undoable(t)' <=> Undoable(t)
  <1>1. Loaded' <=> Loaded
    BY DEF SameEngine, Loaded
  <1>2. Matches(store)' <=> Matches(store)
    BY <1>1 DEF SameEngine, Matches
  <1>3. Matches(tasks[t].old)' <=> Matches(tasks[t].old)
    BY <1>1 DEF SameEngine, Matches, SameCall
  <1>4. /\ Differs(t)' <=> Differs(t)
        /\ Back(t)' <=> Back(t)
    BY DEF Differs, Back, SameCall
  <1>5. EditsActive(t)' <=> EditsActive(t)
    BY <1>4 DEF EditsActive, SameCall
  <1>6. Forth(t)' <=> Forth(t)
    BY <1>1, <1>3, <1>4, <1>5 DEF Forth, SameCall
  <1>7. Undoable(t)' <=> Undoable(t)
    BY <1>1, <1>2, <1>4, <1>5 DEF Undoable, SameCall
  <1> QED
    BY <1>2, <1>4, <1>5, <1>6, <1>7

LEMMA TransactionKeeps ==
    ASSUME SameEngine, store' = store, NEW u \in Tasks, tasks'[u] = tasks[u]
    PROVE  /\ Matches(store)' <=> Matches(store)
           /\ Transaction(u)' <=> Transaction(u)
  <1>1. SameCall(u)
    BY DEF SameCall
  <1> QED
    BY <1>1, SameCallKeeps DEF Transaction

(* The lock is where it was, or t takes it or gives it back.               *)
Moves(t) == configLock' = configLock \/ {configLock, configLock'} \subseteq {None, t}

LEMMA LockStep ==
    ASSUME ConstantsOK, LockInv, NEW t \in Tasks, Only(t), Moves(t), Grows,
           born \subseteq born', Data', Fits(tasks[t])', Locked(t)', Seen(t)'
    PROVE  LockInv'
  <1>1. Types /\ configLock \in Tasks \cup {None} /\ None \notin Tasks
    BY DEF LockInv, Types, ConstantsOK
  <1>2. configLock' \in Tasks \cup {None}
    BY <1>1 DEF Moves
  <1>3. ASSUME NEW u \in Tasks, u # t
        PROVE  Locked(u)' /\ Seen(u)' /\ Fits(tasks[u])'
    <2>1. tasks'[u] = tasks[u]
      BY <1>3 DEF Only
    <2>2. configLock' = u <=> configLock = u
      BY <1>1, <1>3 DEF Moves
    <2> QED
      BY <1>1, <2>1, <2>2, Keeps DEF LockInv
  <1>4. Types'
    BY <1>2, <1>3 DEF Types, Only
  <1> QED
    BY <1>3, <1>4 DEF LockInv

(* What a step has to keep.                                                *)
Kept ==
    /\ LockInv'
    /\ WholeCommits /\ RuntimeInv => RuntimeInv'
    /\ NoSilentChange /\ RuntimeInv /\ RevisionInv => RevisionInv'

LEMMA OverLocked ==
    ASSUME ConstantsOK, LockInv, NEW t \in Tasks, Over(t), Grows, born \subseteq born',
           rev \in Nat
    PROVE  Locked(t)' /\ Seen(t)' /\ Fits(tasks[t])' /\ configLock' # t
  <1>1. Types /\ Seen(t) /\ configLock' # t
    BY DEF LockInv, Over, ConstantsOK
  <1>2. tasks[t].exp \in Nat /\ rev' \in Nat /\ rev' >= rev
    BY <1>1, TaskOf DEF Grows
  <1>3. CASE tasks'[t] = NoTask
    <2>1. /\ tasks'[t].pc = "idle" /\ tasks'[t].exp = 0 /\ ~tasks'[t].undo
          /\ ~tasks'[t].oldLoaded /\ tasks'[t].p = None /\ tasks'[t].tgt = None
      BY <1>3, NoTaskFacts
    <2>2. Locked(t)'
      BY <1>1, <2>1 DEF Locked, TxPcs, Early, Reloading
    <2>3. Seen(t)'
      BY <1>2, <2>1 DEF Seen
    <2> QED
      BY <1>1, <2>1, <2>2, <2>3 DEF Fits
  <1>4. CASE /\ tasks'[t].pc = "markFailed" /\ tasks'[t].exp = tasks[t].exp
             /\ Fits(tasks'[t])
    <2>1. Locked(t)'
      BY <1>1, <1>4 DEF Locked, TxPcs, Early, Reloading
    <2>2. Seen(t)'
      BY <1>1, <1>2, <1>4 DEF Seen
    <2>3. Fits(tasks[t])'
      BY <1>4 DEF Fits
    <2> QED
      BY <1>1, <2>1, <2>2, <2>3
  <1> QED
    BY <1>3, <1>4 DEF Over

(* A step beside the transaction that is under way, if one is.             *)
LEMMA BesideStep ==
    ASSUME ConstantsOK, LockInv, NEW t \in Tasks, Only(t), configLock' = configLock,
           configLock # t, Grows, Data', UNCHANGED <<store, born, broken>>, SameEngine,
           Fits(tasks[t])', Locked(t)', Seen(t)',
           NoSilentChange => shown' = shown \/ (shown' = store /\ configLock = None)
    PROVE  Kept
  <1>1. LockInv'
    BY LockStep DEF Moves
  <1>2. configLock \in Tasks \cup {None} /\ None \notin Tasks
    BY DEF LockInv, Types, ConstantsOK
  <1>3. CASE configLock = None
    <2>1. Matches(store)' <=> Matches(store)
      BY DEF SameEngine, Matches, Loaded
    <2> QED
      BY <1>1, <1>3, <2>1 DEF Kept, RuntimeInv, RevisionInv
  <1>4. CASE configLock \in Tasks
    <2>1. tasks'[configLock] = tasks[configLock]
      BY <1>4 DEF Only
    <2>2. Transaction(configLock)' <=> Transaction(configLock)
      BY <1>4, <2>1, TransactionKeeps
    <2> QED
      BY <1>1, <1>2, <1>4, <2>1, <2>2 DEF Kept, RuntimeInv, RevisionInv
  <1> QED
    BY <1>2, <1>3, <1>4

(* No caller steps.                                                        *)
LEMMA StillStep ==
    ASSUME ConstantsOK, LockInv, UNCHANGED <<tasks, configLock>>, Grows, Data',
           UNCHANGED <<store, born, broken>>, SameEngine,
           NoSilentChange => shown' = shown \/ (shown' = store /\ configLock = None)
    PROVE  Kept
  <1>1. Types /\ tasks \in [Tasks -> TaskRecs] /\ configLock \in Tasks \cup {None}
    BY DEF LockInv, Types
  <1>2. ASSUME NEW u \in Tasks PROVE Only(u) /\ Locked(u)' /\ Seen(u)' /\ Fits(tasks[u])'
    <2>1. tasks'[u] = tasks[u] /\ (configLock' = u <=> configLock = u) /\ born \subseteq born'
      OBVIOUS
    <2>2. Locked(u)' /\ Seen(u)' /\ Fits(tasks[u])'
      BY <1>1, <2>1, Keeps DEF LockInv
    <2> QED
      BY <1>1, <2>2 DEF Only
  <1>3. LockInv'
    BY <1>2, LockStep DEF Moves, ConstantsOK
  <1>4. CASE configLock = None
    <2>1. Matches(store)' <=> Matches(store)
      BY DEF SameEngine, Matches, Loaded
    <2> QED
      BY <1>3, <1>4, <2>1 DEF Kept, RuntimeInv, RevisionInv
  <1>5. CASE configLock \in Tasks
    <2>1. Transaction(configLock)' <=> Transaction(configLock)
      BY <1>5, TransactionKeeps
    <2> QED
      BY <1>3, <1>5, <2>1 DEF Kept, RuntimeInv, RevisionInv, ConstantsOK
  <1> QED
    BY <1>1, <1>4, <1>5

(* The holder of the lock, or who takes it, goes on.                       *)
LEMMA GoStep ==
    ASSUME ConstantsOK, LockInv, NEW t \in Tasks, Only(t), configLock \in {None, t},
           configLock' = t, Grows, Data', born \subseteq born',
           Fits(tasks[t])', Locked(t)', Seen(t)',
           WholeCommits /\ RuntimeInv /\ ~broken' => Transaction(t)',
           NoSilentChange /\ RuntimeInv /\ RevisionInv /\ ~broken'
             => shown' = IF tasks'[t].pc = "route" THEN store' ELSE tasks'[t].old
    PROVE  Kept
  <1>1. LockInv'
    BY LockStep DEF Moves
  <1>2. t # None
    BY DEF ConstantsOK
  <1> QED
    BY <1>1, <1>2 DEF Kept, RuntimeInv, RevisionInv

(* The holder of the lock, or a caller that needs it for one step, ends.   *)
LEMMA EndStep ==
    ASSUME ConstantsOK, LockInv, NEW t \in Tasks, Over(t), configLock \in {None, t},
           Grows, Data', born \subseteq born',
           WholeCommits /\ RuntimeInv /\ ~broken' => Matches(store)',
           NoSilentChange /\ RuntimeInv /\ RevisionInv /\ ~broken' => shown' = store'
    PROVE  Kept
  <1>1. configLock' = None /\ Only(t) /\ rev \in Nat
    BY DEF Over, LockInv, Types, Data
  <1>2. LockInv'
    BY <1>1, OverLocked, LockStep DEF Moves
  <1> QED
    BY <1>1, <1>2 DEF Kept, RuntimeInv, RevisionInv

-----------------------------------------------------------------------------
(* Steps beside the transaction *)

LEMMA Unmoved ==
    ASSUME Data, UNCHANGED <<store, born, stamp, mode, engine, rev, shown, broken>>
    PROVE  Data' /\ Grows /\ SameEngine
  BY DEF Data, Known, Grows, SameEngine

LEMMA DataKeeps ==
    ASSUME Data, UNCHANGED <<store, born>>, shown' \in {shown, store}, rev' \in {rev, rev + 1},
           stamp' \in {stamp, stamp + 1}, mode' \in Modes, engine' \in EngineRecs,
           broken' \in BOOLEAN
    PROVE  Data'
  BY DEF Data, Known

LEMMA Waiting ==
    ASSUME ConstantsOK, LockInv, NEW t \in Tasks, tasks[t].pc \in Early \cup {"markFailed"}
    PROVE  configLock # t /\ (tasks[t].pc \in Early => ~tasks[t].undo /\ ~tasks[t].oldLoaded)
  BY DEF LockInv, Locked, TxPcs, Early

LEMMA LockFacts ==
    ASSUME ConstantsOK, LockInv
    PROVE  /\ Types /\ Data /\ configLock \in Tasks \cup {None} /\ None \notin Tasks
           /\ None \notin Profiles
           /\ store \in StoreRecs /\ shown \in StoreRecs /\ stamp \in Nat /\ rev \in Nat
           /\ mode \in Modes /\ engine \in EngineRecs /\ broken \in BOOLEAN
           /\ born \subseteq Profiles /\ Known(born, store)
           /\ tasks \in [Tasks -> TaskRecs]
  BY DEF LockInv, Types, Data, ConstantsOK

LEMMA RequestKept ==
    ASSUME ConstantsOK, LockInv, NEW t \in Tasks, NEW op \in Kinds,
           NEW p \in Profiles \cup {None}, Request(t, op, p)
    PROVE  Kept
  <1> DEFINE r == [NoTask EXCEPT !.op = op, !.p = p, !.exp = rev, !.seen = shown,
                                 !.content = stamp + 1,
                                 !.pc = IF op = "startVpn" THEN "vpnWait" ELSE "wait"]
  <1>1. /\ tasks[t].pc = "idle" /\ tasks' = [tasks EXCEPT ![t] = r] /\ stamp' = stamp + 1
        /\ UNCHANGED <<store, born, mode, engine, rev, shown, configLock, broken>>
    BY DEF Request
  <1>2. configLock # t
    BY <1>1, Waiting DEF Early
  <1>3. p # None => p \in Profiles /\ store.contents[p] # 0
    BY DEF Request, Ids
  <1>4. op \notin NoProfileYet => p \in Profiles
    BY DEF Request, Ids, NoProfileYet
  <1>5. op \in AllKinds /\ op # "sync"
    BY DEF ConstantsOK, AllKinds
  <1>6. r \in TaskRecs
    <2>1. /\ NoTask \in TaskRecs /\ op \in AllKinds \cup {"sync", None}
          /\ rev \in Nat /\ shown \in StoreRecs \cup {None} /\ stamp + 1 \in Nat
          /\ (IF op = "startVpn" THEN "vpnWait" ELSE "wait") \in Pcs
      BY <1>5, LockFacts, NoTaskFacts DEF Pcs
    <2> QED
      BY <2>1 DEF TaskRecs
  <1>7. /\ r.op = op /\ r.p = p /\ r.tgt = None /\ r.exp = rev /\ r.seen = shown
        /\ r.pc = (IF op = "startVpn" THEN "vpnWait" ELSE "wait")
        /\ ~r.undo /\ ~r.oldLoaded
    BY DEF NoTask
  <1> HIDE DEF r
  <1>8. Only(t) /\ tasks'[t] = r
    BY <1>1, <1>6, LockFacts DEF Only
  <1>9. Fits(tasks[t])'
    BY <1>1, <1>3, <1>7, <1>8, LockFacts DEF Fits, Known
  <1>10. Locked(t)'
    BY <1>1, <1>2, <1>4, <1>7, <1>8 DEF Locked, TxPcs, Early, Reloading
  <1>11. Seen(t)'
    BY <1>1, <1>7, <1>8, LockFacts DEF Seen
  <1>12. Data' /\ Grows /\ SameEngine
    BY <1>1, LockFacts, DataKeeps DEF Grows, SameEngine
  <1> QED
    BY <1>1, <1>2, <1>8, <1>9, <1>10, <1>11, <1>12, BesideStep

LEMMA SyncTickKept ==
    ASSUME ConstantsOK, LockInv, SyncTick
    PROVE  Kept
  <1> DEFINE t == SyncLoop
             r == [tasks[t] EXCEPT !.op = "sync", !.pc = "vpnWait"]
  <1>1. /\ t \in Tasks /\ tasks[t].pc = "idle" /\ tasks' = [tasks EXCEPT ![t] = r]
        /\ UNCHANGED <<store, born, stamp, mode, engine, rev, shown, configLock, broken>>
    BY LockFacts DEF SyncTick, ConstantsOK
  <1>2. configLock # t /\ ~tasks[t].undo /\ ~tasks[t].oldLoaded
    BY <1>1, Waiting DEF Early
  <1>3. r \in TaskRecs
    <2>1. tasks[t] \in TaskRecs /\ "vpnWait" \in Pcs
      BY <1>1, LockFacts DEF Pcs
    <2> QED
      BY <2>1 DEF TaskRecs
  <1>4. /\ r.op = "sync" /\ r.pc = "vpnWait" /\ r.p = tasks[t].p /\ r.tgt = tasks[t].tgt
        /\ r.exp = tasks[t].exp /\ r.undo = tasks[t].undo /\ r.oldLoaded = tasks[t].oldLoaded
    BY <1>1, LockFacts DEF TaskRecs
  <1> HIDE DEF r
  <1>5. Only(t) /\ tasks'[t] = r
    BY <1>1, <1>3, LockFacts DEF Only
  <1> HIDE DEF t
  <1>6. Fits(tasks[t])'
    BY <1>1, <1>4, <1>5, LockFacts, TaskOf DEF Fits
  <1>7. Locked(t)'
    BY <1>1, <1>2, <1>4, <1>5 DEF Locked, TxPcs, Early, Reloading
  <1>8. Seen(t)'
    BY <1>1, <1>4, <1>5 DEF Seen, LockInv
  <1>9. Data' /\ Grows /\ SameEngine
    BY <1>1, LockFacts, Unmoved
  <1> QED
    BY <1>1, <1>2, <1>5, <1>6, <1>7, <1>8, <1>9, BesideStep

(* A call that ends before it has changed anything.                        *)
LEMMA RefusedKept ==
    ASSUME ConstantsOK, LockInv, NEW t \in Tasks, Fail(t) \/ Return(t), configLock # t,
           UNCHANGED <<store, born, stamp, mode, engine, broken>>,
           UNCHANGED <<rev, shown>> \/ (rev' = rev + 1 /\ shown' = store /\ configLock = None)
    PROVE  Kept
  <1>1. Over(t) /\ configLock' = configLock /\ Only(t)
    BY OverFacts, LockFacts DEF Over
  <1>2. Data' /\ Grows /\ SameEngine
    BY LockFacts, DataKeeps DEF Grows, SameEngine
  <1>3. Locked(t)' /\ Seen(t)' /\ Fits(tasks[t])'
    BY <1>1, <1>2, OverLocked, LockFacts
  <1> QED
    BY <1>1, <1>2, <1>3, BesideStep

LEMMA EarlyEndsKept ==
    ASSUME ConstantsOK, LockInv, NEW t \in Tasks,
           \/ PrepareFails(t) \/ Reject(t) \/ SyncControllerFails(t) \/ MarkFailed(t)
    PROVE  Kept
  <1>1. CASE PrepareFails(t)
    BY <1>1, RefusedKept, Waiting DEF PrepareFails, Early
  <1>2. CASE Reject(t)
    <2>1. /\ tasks[t].pc = "wait" /\ (Fail(t) \/ Return(t))
          /\ UNCHANGED <<store, born, stamp, mode, engine, rev, shown, broken>>
      BY <1>2 DEF Reject
    <2> QED
      BY <2>1, RefusedKept, Waiting DEF Early
  <1>3. CASE SyncControllerFails(t)
    BY <1>3, RefusedKept, Waiting DEF SyncControllerFails, Enter, At, Early
  <1>4. CASE MarkFailed(t)
    <2>1. /\ tasks[t].pc = "markFailed" /\ configLock = None /\ Return(t)
          /\ UNCHANGED <<store, born, stamp, mode, engine, broken>>
          /\ UNCHANGED <<rev, shown>> \/ (rev' = rev + 1 /\ shown' = store)
      BY <1>4 DEF MarkFailed, At, TryConfigTransaction, PublishConfig, PublishOther
    <2> QED
      BY <2>1, RefusedKept, Waiting
  <1> QED
    BY <1>1, <1>2, <1>3, <1>4

LEMMA TakeVpnLockKept ==
    ASSUME ConstantsOK, LockInv, NEW t \in Tasks, TakeVpnLock(t)
    PROVE  Kept
  <1>1. /\ tasks[t].pc = "vpnWait" /\ Goto(t, "wait") /\ "wait" \in Pcs
        /\ UNCHANGED <<store, born, stamp, mode, engine, rev, shown, configLock, broken>>
    BY DEF TakeVpnLock, Pcs
  <1>2. configLock # t /\ ~tasks[t].undo /\ ~tasks[t].oldLoaded /\ tasks[t].op \in {"sync", "startVpn"}
    BY <1>1, Waiting DEF Early, LockInv, Locked
  <1>3. Steps(t, "wait", tasks[t].p, tasks[t].old, tasks[t].tgt, tasks[t].oldLoaded, tasks[t].undo)
    BY <1>1, GotoFacts, LockFacts
  <1>4. Locked(t)'
    BY <1>1, <1>2, <1>3 DEF Locked, TxPcs, Early, Reloading, NoProfileYet, Steps
  <1>5. Seen(t)'
    BY <1>1, <1>3 DEF Seen, LockInv, Steps
  <1>6. Fits(tasks[t])'
    BY <1>1, <1>3, TaskOf, LockFacts DEF Steps, Fits
  <1>7. Data' /\ Grows /\ SameEngine
    BY <1>1, LockFacts, Unmoved
  <1> QED
    BY <1>1, <1>2, <1>3, <1>4, <1>5, <1>6, <1>7, BesideStep DEF Steps

(* What needs no await.                                                    *)
LEMMA CallsKept ==
    ASSUME ConstantsOK, LockInv, NEW m \in Modes,
           \/ SetMode(m) \/ ControlSync(m) \/ UpdateSubscription \/ ExternalPatch
           \/ DelayTestUnfixes \/ Disconnect
    PROVE  Kept
  <1>1. [engine EXCEPT !.mode = m] \in EngineRecs
        /\ [engine EXCEPT !.mode = m].profile = engine.profile
        /\ [engine EXCEPT !.mode = m].content = engine.content
    BY LockFacts DEF EngineRecs
  <1>2. /\ UNCHANGED <<store, born, tasks, configLock, broken>>
        /\ stamp' \in {stamp, stamp + 1} /\ mode' \in {mode, m}
        /\ engine' \in {engine, [engine EXCEPT !.mode = m]}
        /\ UNCHANGED <<rev, shown>> \/ (rev' = rev + 1 /\ shown' = store)
    BY DEF SetMode, ControlSync, UpdateSubscription, ExternalPatch, DelayTestUnfixes, Disconnect,
           Spend, PublishConfig
  <1>3. NoSilentChange => shown' = shown \/ (shown' = store /\ configLock = None)
    BY DEF SetMode, ControlSync, UpdateSubscription, ExternalPatch, DelayTestUnfixes, Disconnect,
           PublishConfig, TryConfigTransaction, NoSilentChange
  <1>4. Data' /\ Grows /\ SameEngine
    BY <1>1, <1>2, LockFacts, DataKeeps DEF Grows, SameEngine
  <1> QED
    BY <1>2, <1>3, <1>4, StillStep

-----------------------------------------------------------------------------
(* What a transaction does to the store *)

LEMMA EditedFacts ==
    ASSUME NEW s \in StoreRecs, NEW p \in Profiles, NEW c \in Nat
    PROVE  /\ Edited(s, p, c) \in StoreRecs /\ Edited(s, p, c).active = s.active
           /\ Edited(s, p, c).contents[p] = c
           /\ \A q \in Profiles : q # p => Edited(s, p, c).contents[q] = s.contents[q]
           /\ Known(born, s) /\ p \in born => Known(born, Edited(s, p, c))
  <1>1. Edited(s, p, c) = [s EXCEPT !.contents = [s.contents EXCEPT ![p] = c]]
    BY DEF Edited, StoreRecs
  <1>2. [s.contents EXCEPT ![p] = c] \in [Profiles -> Nat]
    BY DEF StoreRecs
  <1>3. /\ Edited(s, p, c) \in StoreRecs /\ Edited(s, p, c).active = s.active
        /\ Edited(s, p, c).contents = [s.contents EXCEPT ![p] = c]
    BY <1>1, <1>2 DEF StoreRecs
  <1>4. /\ Edited(s, p, c).contents[p] = c
        /\ \A q \in Profiles : q # p => Edited(s, p, c).contents[q] = s.contents[q]
    BY <1>3 DEF StoreRecs
  <1> QED
    BY <1>3, <1>4 DEF Known

LEMMA WithProfileFacts ==
    ASSUME NEW s \in StoreRecs, NEW p \in Profiles, NEW c \in Nat
    PROVE  LET v == WithProfile(s, p, c) IN
           /\ v \in StoreRecs /\ v.active = IF s.active = None THEN p ELSE s.active
           /\ v.contents[p] = c
           /\ \A q \in Profiles : q # p => v.contents[q] = s.contents[q]
  <1>1. [s.contents EXCEPT ![p] = c] \in [Profiles -> Nat]
    BY DEF StoreRecs
  <1> QED
    BY <1>1 DEF WithProfile, StoreRecs

LEMMA WithoutFacts ==
    ASSUME NEW s \in StoreRecs, NEW p \in Profiles
    PROVE  /\ Without(s, p) \in StoreRecs
           /\ Without(s, p).active = IF s.active = p THEN None ELSE s.active
           /\ \A q \in Profiles : q # p => Without(s, p).contents[q] = s.contents[q]
           /\ Known(born, s) => Known(born, Without(s, p))
  <1>1. [s.contents EXCEPT ![p] = 0] \in [Profiles -> Nat]
    BY DEF StoreRecs
  <1>2. /\ Without(s, p) \in StoreRecs
        /\ Without(s, p).active = IF s.active = p THEN None ELSE s.active
        /\ Without(s, p).contents = [s.contents EXCEPT ![p] = 0]
    BY <1>1 DEF Without, StoreRecs
  <1>3. /\ Without(s, p).contents[p] = 0
        /\ \A q \in Profiles : q # p => Without(s, p).contents[q] = s.contents[q]
    BY <1>2 DEF StoreRecs
  <1> QED
    BY <1>2, <1>3 DEF Known

LEMMA ActiveFacts ==
    ASSUME NEW s \in StoreRecs, NEW p \in Profiles \cup {None}
    PROVE  LET v == [s EXCEPT !.active = p] IN
           /\ v \in StoreRecs /\ v.active = p /\ v.contents = s.contents
           /\ Known(born, s) /\ p \in born \cup {None} => Known(born, v)
  BY DEF StoreRecs, Known

-----------------------------------------------------------------------------
(* The first step of a transaction *)

LEMMA BeginSteps ==
    ASSUME ConstantsOK, LockInv, NEW t \in Tasks, NEW p \in Profiles, NEW s \in StoreRecs,
           NEW target \in Profiles \cup {None}, BeginWith(t, p, s, target)
    PROVE  /\ Steps(t, IF target = None THEN "finish" ELSE "read", p, store, target, Loaded,
                    tasks[t].undo)
           /\ configLock' = t /\ store' = s
           /\ UNCHANGED <<stamp, mode, engine, rev, shown, broken>>
  <1> DEFINE pc == IF target = None THEN "finish" ELSE "read"
             r == [tasks[t] EXCEPT !.pc = pc, !.p = p, !.old = store, !.tgt = target,
                                   !.oldLoaded = Loaded, !.undo = tasks[t].undo]
  <1>1. /\ Types /\ tasks \in [Tasks -> TaskRecs] /\ pc \in Pcs /\ store \in StoreRecs
        /\ Loaded \in BOOLEAN /\ tasks[t].undo \in BOOLEAN
    BY LockFacts, TaskOf DEF Pcs, Loaded
  <1>2. tasks[t] \in TaskRecs
    BY <1>1
  <1>3. tasks' = [tasks EXCEPT ![t].p = p, ![t].old = store, ![t].tgt = target,
                               ![t].oldLoaded = Loaded, ![t].pc = pc]
    BY DEF BeginWith
  <1>4. tasks' = [tasks EXCEPT ![t] = [tasks[t] EXCEPT !.p = p, !.old = store, !.tgt = target,
                                                       !.oldLoaded = Loaded, !.pc = pc]]
    BY <1>1, <1>3
  <1>5. [tasks[t] EXCEPT !.p = p, !.old = store, !.tgt = target, !.oldLoaded = Loaded, !.pc = pc]
          = r
    BY <1>2 DEF TaskRecs
  <1>6. tasks' = [tasks EXCEPT ![t] = r]
    BY <1>4, <1>5
  <1> HIDE DEF pc
  <1>7. ASSUME NEW b \in BOOLEAN, b = Loaded
        PROVE  Steps(t, pc, p, store, target, b, tasks[t].undo)
    <2>1. r = [tasks[t] EXCEPT !.pc = pc, !.p = p, !.old = store, !.tgt = target,
                               !.oldLoaded = b, !.undo = tasks[t].undo]
      BY <1>7
    <2>2. /\ r \in TaskRecs /\ r.pc = pc /\ r.p = p /\ r.old = store /\ r.tgt = target
          /\ r.oldLoaded = b /\ r.undo = tasks[t].undo /\ r.op = tasks[t].op
          /\ r.exp = tasks[t].exp /\ r.seen = tasks[t].seen /\ r.content = tasks[t].content
      BY <1>1, <1>2, <2>1 DEF TaskRecs
    <2> HIDE DEF r
    <2>3. Only(t) /\ tasks'[t] = r
      BY <1>1, <1>6, <2>2 DEF Only
    <2> QED
      BY <2>2, <2>3 DEF Steps
  <1>8. Steps(t, pc, p, store, target, Loaded, tasks[t].undo)
    BY <1>1, <1>7
  <1> QED
    BY <1>8 DEF BeginWith, pc

(* A transaction of p begins: what it does and where it goes on.           *)
LEMMA BeginKept ==
    ASSUME ConstantsOK, LockInv, NEW t \in Tasks, NEW p \in Profiles, NEW s \in StoreRecs,
           NEW target \in Profiles \cup {None}, tasks[t].pc = "wait", configLock = None,
           tasks[t].op \in (EditOps \ {"sync"}) \cup OtherOps,
           BeginWith(t, p, s, target),
           born \subseteq born', born' \subseteq Profiles, Known(born', s), p \in born',
           target \in born' \cup {None},
           WholeCommits /\ RuntimeInv /\ ~broken => Transaction(t)'
    PROVE  Kept
  <1>1. /\ Steps(t, IF target = None THEN "finish" ELSE "read", p, store, target, Loaded,
                 tasks[t].undo)
        /\ configLock' = t /\ store' = s
        /\ UNCHANGED <<stamp, mode, engine, rev, shown, broken>>
    BY BeginSteps
  <1>2. ~tasks[t].undo /\ Seen(t)
    BY Waiting DEF Early, LockInv
  <1>3. Data' /\ Grows
    BY <1>1, LockFacts DEF Data, Known, Grows
  <1>4. Fits(tasks[t])'
    BY <1>1 DEF Steps, Fits
  <1>5. tasks'[t].old \in StoreRecs /\ Known(born, tasks[t].old)'
    BY <1>1, LockFacts DEF Steps, Known
  <1>6. Locked(t)'
    BY <1>1, <1>2, <1>5
       DEF Steps, Locked, TxPcs, Early, Reloading, EditOps, OtherOps, PrepareOps
  <1>7. Seen(t)'
    BY <1>1, <1>2 DEF Steps, Seen
  <1>8. RevisionInv /\ ~broken => shown' = tasks'[t].old /\ tasks'[t].pc # "route"
    BY <1>1 DEF Steps, RevisionInv
  <1> QED
    BY <1>1, <1>3, <1>4, <1>6, <1>7, <1>8, GoStep DEF Steps

(* An edit reloads the engine if it is of the active profile.              *)
LEMMA EditBegins ==
    ASSUME ConstantsOK, LockInv, NEW t \in Tasks, NEW p \in Profiles, p = tasks[t].p,
           tasks[t].pc = "wait", configLock = None, tasks[t].op \in EditOps \ {"sync"},
           BeginWith(t, p, Edited(store, p, tasks[t].content), IfActive(p)), UNCHANGED born
    PROVE  Kept
  <1> DEFINE s == Edited(store, p, tasks[t].content)
             target == IfActive(p)
  <1>1. /\ s \in StoreRecs /\ s.active = store.active /\ Known(born, s) /\ p \in born
        /\ \A q \in Profiles : q # p => s.contents[q] = store.contents[q]
    BY LockFacts, TaskOf, EditedFacts DEF Fits
  <1>2. target \in Profiles \cup {None} /\ target \in born \cup {None}
    BY <1>1 DEF IfActive
  <1>3. BeginWith(t, p, s, target)
    OBVIOUS
  <1> HIDE DEF s
  <1>4. target = IF store.active = p THEN p ELSE None
    BY DEF IfActive
  <1> HIDE DEF target
  <1>5. /\ Steps(t, IF target = None THEN "finish" ELSE "read", p, store, target, Loaded,
                 tasks[t].undo)
        /\ configLock' = t /\ store' = s
        /\ UNCHANGED <<stamp, mode, engine, rev, shown, broken>>
    BY <1>1, <1>2, <1>3, BeginSteps
  <1>6. Known(born', s)
    BY <1>1 DEF Known
  <1>7. ~tasks[t].undo /\ None \notin Profiles
    BY Waiting, LockFacts DEF Early
  <1>8. ASSUME RuntimeInv, ~broken
        PROVE  Transaction(t)'
    <2>1. Matches(store)
      BY <1>8 DEF RuntimeInv
    <2>2. CASE store.active = p
      <3>1. target = p /\ tasks'[t].pc = "read" /\ ~tasks'[t].undo
        BY <1>4, <1>5, <1>7, <2>2 DEF Steps
      <3>2. EditsActive(t)'
        BY <1>1, <1>5, <2>2 DEF EditsActive, Differs, Steps
      <3>3. Matches(tasks[t].old)' /\ (Loaded' <=> tasks'[t].oldLoaded)
        BY <1>5, <2>1 DEF Matches, Loaded, Steps
      <3>4. Forth(t)'
        BY <1>5, <3>1, <3>2, <3>3
           DEF Forth, Steps, EditOps, OtherOps, PrepareOps
      <3> QED
        BY <3>1, <3>4 DEF Transaction, Reloading
    <2>3. CASE store.active # p
      <3>1. target = None /\ tasks'[t].pc = "finish"
        BY <1>4, <1>5, <2>3 DEF Steps
      <3>2. Matches(s)
        BY <1>1, <2>1, <2>3, LockFacts DEF Matches, Loaded, StoreRecs
      <3>3. Matches(store)'
        BY <1>5, <3>2 DEF Matches, Loaded
      <3> QED
        BY <1>5, <3>1, <3>3 DEF Transaction, Reloading, Steps, EditOps, PrepareOps
    <2> QED
      BY <2>2, <2>3
  <1> QED
    BY <1>1, <1>2, <1>3, <1>6, <1>8, BeginKept, LockFacts

LEMMA EditsKept ==
    ASSUME ConstantsOK, LockInv, NEW t \in Tasks,
           BeginRefresh(t) \/ BeginRules(t) \/ BeginStoreEdit(t) \/ BeginEdit(t)
    PROVE  Kept
  <1>1. /\ tasks[t].pc = "wait" /\ configLock = None /\ UNCHANGED born
        /\ tasks[t].op \in EditOps \ {"sync"}
        /\ BeginWith(t, tasks[t].p, Edited(store, tasks[t].p, tasks[t].content), IfActive(tasks[t].p))
    BY DEF BeginRefresh, BeginRules, BeginStoreEdit, BeginEdit, Enter, At, TryConfigTransaction,
           StoreEditCalls, EditCalls, OverlayCalls, EditOps, IfActive
  <1>2. tasks[t].p \in Profiles
    BY <1>1 DEF LockInv, Locked, EditOps, NoProfileYet
  <1> QED
    BY <1>1, <1>2, EditBegins

(* A reload of another profile, or of content that is not active.          *)
LEMMA ReloadBegins ==
    ASSUME ConstantsOK, LockInv, NEW t \in Tasks, NEW p \in Profiles, NEW s \in StoreRecs,
           tasks[t].pc = "wait", configLock = None, tasks[t].op \in OtherOps \ {"delete"},
           BeginWith(t, p, s, p), born \subseteq born', born' \subseteq Profiles,
           Known(born', s), p \in born',
           tasks[t].op = "refreshActivate"
             => s.active = store.active /\ \A q \in Profiles : q # p => s.contents[q] = store.contents[q],
           tasks[t].op = "activate" => s = store
    PROVE  Kept
  <1>1. /\ Steps(t, "read", p, store, p, Loaded, tasks[t].undo)
        /\ configLock' = t /\ store' = s
        /\ UNCHANGED <<stamp, mode, engine, rev, shown, broken>>
    BY BeginSteps, LockFacts
  <1>2. ~tasks[t].undo
    BY Waiting DEF Early
  <1>3. ASSUME RuntimeInv, ~broken
        PROVE  Transaction(t)'
    <2>1. Matches(store)
      BY <1>3 DEF RuntimeInv
    <2>2. Matches(tasks[t].old)' /\ (Loaded' <=> tasks'[t].oldLoaded)
      BY <1>1, <2>1 DEF Matches, Loaded, Steps
    <2>3. tasks[t].op = "refreshActivate" => store'.active = tasks'[t].old.active /\ Differs(t)'
      BY <1>1 DEF Differs, Steps
    <2>4. Forth(t)'
      BY <1>1, <2>2, <2>3 DEF Forth, Steps, EditOps, OtherOps, PrepareOps
    <2> QED
      BY <1>1, <1>2, <2>4 DEF Transaction, Reloading, Steps
  <1> QED
    BY <1>3, BeginKept

LEMMA ReloadsKept ==
    ASSUME ConstantsOK, LockInv, NEW t \in Tasks,
           BeginImport(t) \/ BeginRefreshActivate(t) \/ BeginActivate(t)
    PROVE  Kept
  <1>1. CASE BeginImport(t)
    <2>1. /\ tasks[t].pc = "wait" /\ configLock = None /\ tasks[t].op = "import"
      BY <1>1 DEF BeginImport, Enter, At, TryConfigTransaction
    <2>2. PICK p \in Profiles \ born :
              /\ born' = born \cup {p}
              /\ BeginWith(t, p, WithProfile(store, p, tasks[t].content), p)
      BY <1>1 DEF BeginImport
    <2> DEFINE s == WithProfile(store, p, tasks[t].content)
    <2>3. /\ s \in StoreRecs /\ s.active = (IF store.active = None THEN p ELSE store.active)
          /\ \A q \in Profiles : q # p => s.contents[q] = store.contents[q]
      BY LockFacts, TaskOf, WithProfileFacts
    <2>4. BeginWith(t, p, s, p)
      BY <2>2
    <2> HIDE DEF s
    <2>5. Known(born', s)
      BY <2>2, <2>3, LockFacts DEF Known
    <2>6. born \subseteq born' /\ born' \subseteq Profiles /\ p \in born' /\ p \in Profiles
      BY <2>2, LockFacts
    <2> QED
      BY <2>1, <2>3, <2>4, <2>5, <2>6, ReloadBegins DEF OtherOps
  <1>2. CASE BeginRefreshActivate(t)
    <2> DEFINE p == tasks[t].p
               s == Edited(store, p, tasks[t].content)
    <2>1. /\ tasks[t].pc = "wait" /\ configLock = None /\ tasks[t].op = "refreshActivate"
          /\ BeginWith(t, p, s, p) /\ UNCHANGED born
      BY <1>2 DEF BeginRefreshActivate, Enter, At, TryConfigTransaction
    <2>2. p \in Profiles /\ p \in born
      BY <2>1, LockFacts, TaskOf DEF LockInv, Locked, NoProfileYet, Fits
    <2>3. tasks[t].content \in Nat /\ store \in StoreRecs /\ Known(born, store)
      BY LockFacts, TaskOf
    <2> HIDE DEF p
    <2>5. /\ s \in StoreRecs /\ s.active = store.active /\ Known(born, s)
          /\ \A q \in Profiles : q # p => s.contents[q] = store.contents[q]
      BY <2>2, <2>3, EditedFacts
    <2> HIDE DEF s
    <2>4. Known(born', s) /\ born \subseteq born' /\ born' \subseteq Profiles
      BY <2>1, <2>5, LockFacts DEF Known
    <2> QED
      BY <2>1, <2>2, <2>4, <2>5, ReloadBegins DEF OtherOps
  <1>3. CASE BeginActivate(t)
    <2> DEFINE p == tasks[t].p
    <2>1. /\ tasks[t].pc = "wait" /\ configLock = None /\ tasks[t].op = "activate"
          /\ BeginWith(t, p, store, p) /\ UNCHANGED born
      BY <1>3 DEF BeginActivate, Enter, At, TryConfigTransaction
    <2>2. p \in Profiles /\ p \in born
      BY <2>1, LockFacts, TaskOf DEF LockInv, Locked, NoProfileYet, Fits
    <2> HIDE DEF p
    <2>3. ASSUME NEW s \in StoreRecs, s = store
          PROVE  Kept
      <3>1. Known(born', s) /\ born \subseteq born' /\ born' \subseteq Profiles
        BY <2>1, <2>3, LockFacts DEF Known
      <3>2. BeginWith(t, p, s, p)
        BY <2>1, <2>3
      <3> QED
        BY <2>1, <2>2, <2>3, <3>1, <3>2, ReloadBegins DEF OtherOps
    <2> QED
      BY <2>3, LockFacts
  <1> QED
    BY <1>1, <1>2, <1>3

LEMMA DeleteKept ==
    ASSUME ConstantsOK, LockInv, NEW t \in Tasks, BeginDelete(t)
    PROVE  Kept
  <1> DEFINE p == tasks[t].p
  <1>1. /\ tasks[t].pc = "wait" /\ tasks[t].op = "delete" /\ configLock = None
        /\ store.contents[p] # 0 /\ p \in Profiles
        /\ UNCHANGED <<store, born, stamp, mode, engine, rev, shown, broken>>
    BY DEF BeginDelete, Enter, At, TryConfigTransaction, Ids
  <1>2. PICK next \in IF store.active = p /\ Ids(store) # {p} THEN Ids(store) \ {p} ELSE {None} :
          /\ configLock' = t
          /\ tasks' = [tasks EXCEPT ![t].old = store, ![t].tgt = next, ![t].oldLoaded = Loaded,
                                    ![t].pc = IF next = None THEN "remove" ELSE "read"]
    BY DEF BeginDelete
  <1>3. /\ next \in Profiles \cup {None} /\ next \in born \cup {None} /\ None \notin Profiles
        /\ next # None => store.active = p /\ next # p
    BY <1>2, LockFacts DEF Ids, Known
  <1>4. ASSUME NEW b \in BOOLEAN, b = Loaded
        PROVE  Steps(t, IF next = None THEN "remove" ELSE "read", p, store, next, b, tasks[t].undo)
    <2> DEFINE pc == IF next = None THEN "remove" ELSE "read"
               r == [tasks[t] EXCEPT !.old = store, !.tgt = next, !.oldLoaded = b, !.pc = pc]
    <2>1. tasks \in [Tasks -> TaskRecs] /\ pc \in Pcs /\ store \in StoreRecs /\ tasks[t] \in TaskRecs
      BY LockFacts, TaskOf DEF Pcs
    <2>2. tasks' = [tasks EXCEPT ![t] = r]
      BY <1>2, <1>4, <2>1
    <2>3. /\ r \in TaskRecs /\ r.pc = pc /\ r.p = p /\ r.old = store /\ r.tgt = next
          /\ r.oldLoaded = b /\ r.undo = tasks[t].undo /\ r.op = tasks[t].op
          /\ r.exp = tasks[t].exp /\ r.seen = tasks[t].seen /\ r.content = tasks[t].content
      BY <1>3, <2>1 DEF TaskRecs
    <2> HIDE DEF r
    <2>4. Only(t) /\ tasks'[t] = r
      BY <2>1, <2>2, <2>3 DEF Only
    <2> QED
      BY <2>3, <2>4 DEF Steps
  <1>5. Steps(t, IF next = None THEN "remove" ELSE "read", p, store, next, Loaded, tasks[t].undo)
    BY <1>4 DEF Loaded
  <1>6. ~tasks[t].undo /\ Seen(t)
    BY <1>1, Waiting DEF Early, LockInv
  <1>7. Data' /\ Grows
    BY <1>1, LockFacts, Unmoved
  <1>8. Fits(tasks[t])'
    BY <1>1, <1>3, <1>5, LockFacts, TaskOf DEF Steps, Fits
  <1>9. tasks'[t].old \in StoreRecs /\ Known(born, tasks[t].old)'
    BY <1>1, <1>5, LockFacts DEF Steps
  <1> HIDE DEF p
  <1>10. Locked(t)'
    BY <1>1, <1>2, <1>3, <1>5, <1>6, <1>9
       DEF Steps, Locked, TxPcs, Early, Reloading, EditOps, OtherOps, PrepareOps
  <1>11. Seen(t)'
    BY <1>1, <1>5, <1>6 DEF Steps, Seen
  <1>12. ASSUME RuntimeInv, ~broken
         PROVE  Transaction(t)'
    <2>1. Matches(store)
      BY <1>1, <1>12 DEF RuntimeInv
    <2>2. Matches(tasks[t].old)' /\ Matches(store)' /\ (Loaded' <=> tasks'[t].oldLoaded)
      BY <1>1, <1>5, <2>1 DEF Matches, Loaded, Steps
    <2>3. CASE next = None
      BY <1>1, <1>5, <2>2, <2>3 DEF Transaction, Steps, Reloading
    <2>4. CASE next # None
      <3>1. Forth(t)'
        BY <1>1, <1>3, <1>5, <2>2, <2>4 DEF Forth, Steps, EditOps, OtherOps, PrepareOps
      <3> QED
        BY <1>1, <1>5, <1>6, <2>4, <3>1 DEF Transaction, Steps, Reloading
    <2> QED
      BY <2>3, <2>4
  <1>13. RevisionInv /\ ~broken => shown' = tasks'[t].old /\ tasks'[t].pc # "route"
    BY <1>1, <1>5 DEF Steps, RevisionInv
  <1> QED
    BY <1>1, <1>2, <1>5, <1>7, <1>8, <1>10, <1>11, <1>12, <1>13, GoStep DEF Steps

LEMMA ManualKept ==
    ASSUME ConstantsOK, LockInv, NEW t \in Tasks, BeginManual(t)
    PROVE  Kept
  <1>1. /\ tasks[t].pc = "wait" /\ tasks[t].op = "manual" /\ configLock = None /\ configLock' = t
        /\ tasks' = [tasks EXCEPT ![t].old = store, ![t].pc = "manualCommit", ![t].snap.rev = rev]
        /\ UNCHANGED <<store, born, stamp, mode, engine, rev, shown, broken>>
    BY DEF BeginManual, Enter, At, TryConfigTransaction
  <1>2. tasks[t].p \in Profiles /\ ~tasks[t].undo /\ Seen(t)
    BY <1>1, Waiting DEF LockInv, Locked, NoProfileYet, Early
  <1> DEFINE snap == [tasks[t].snap EXCEPT !.rev = rev]
             r == [tasks[t] EXCEPT !.old = store, !.pc = "manualCommit", !.snap = snap]
  <1>3. /\ tasks \in [Tasks -> TaskRecs] /\ tasks[t] \in TaskRecs /\ store \in StoreRecs
        /\ "manualCommit" \in Pcs /\ rev \in Nat /\ tasks[t].snap \in Snaps
    BY LockFacts, TaskOf DEF Pcs
  <1>4. tasks' = [tasks EXCEPT ![t] = r]
    BY <1>1, <1>3
  <1>5. snap \in Snaps
    BY <1>3 DEF Snaps
  <1> HIDE DEF snap
  <1>6. /\ r \in TaskRecs /\ r.pc = "manualCommit" /\ r.p = tasks[t].p /\ r.old = store
        /\ r.tgt = tasks[t].tgt /\ r.oldLoaded = tasks[t].oldLoaded /\ r.undo = tasks[t].undo
        /\ r.op = tasks[t].op /\ r.exp = tasks[t].exp
    BY <1>3, <1>5 DEF TaskRecs
  <1> HIDE DEF r
  <1>7. Only(t) /\ tasks'[t] = r
    BY <1>3, <1>4, <1>6 DEF Only
  <1>8. Data' /\ Grows
    BY <1>1, LockFacts, Unmoved
  <1>9. Fits(tasks[t])'
    BY <1>1, <1>6, <1>7, LockFacts, TaskOf DEF Fits
  <1>10. tasks'[t].old \in StoreRecs /\ Known(born, tasks[t].old)'
    BY <1>1, <1>6, <1>7, LockFacts
  <1>11. Locked(t)'
    BY <1>1, <1>2, <1>6, <1>7, <1>10 DEF Locked, TxPcs, Early, Reloading
  <1>12. Seen(t)'
    BY <1>1, <1>2, <1>6, <1>7 DEF Seen
  <1>13. RuntimeInv /\ ~broken => Transaction(t)'
    <2>1. RuntimeInv /\ ~broken => Matches(store)'
      BY <1>1 DEF RuntimeInv, Matches, Loaded
    <2> QED
      BY <1>1, <1>6, <1>7, <2>1 DEF Transaction, Reloading
  <1>14. RevisionInv /\ ~broken => shown' = tasks'[t].old /\ tasks'[t].pc # "route"
    BY <1>1, <1>6, <1>7 DEF RevisionInv
  <1> QED
    BY <1>1, <1>7, <1>8, <1>9, <1>11, <1>12, <1>13, <1>14, GoStep

LEMMA PrepareKept ==
    ASSUME ConstantsOK, LockInv, NEW t \in Tasks, BeginPrepare(t)
    PROVE  Kept
  <1>1. /\ tasks[t].pc = "wait" /\ tasks[t].op \in PrepareOps
        /\ UNCHANGED <<store, born, stamp, mode, engine, rev, shown, broken>>
    BY DEF BeginPrepare, PrepareOps
  <1>2. ~tasks[t].undo /\ ~tasks[t].oldLoaded /\ configLock # t /\ Seen(t)
    BY <1>1, Waiting DEF LockInv, Early
  <1>3. Data' /\ Grows /\ SameEngine
    BY <1>1, LockFacts, Unmoved
  <1>4. CASE Loaded
    <2>1. Goto(t, "finish") /\ configLock' = configLock /\ "finish" \in Pcs
      BY <1>4 DEF BeginPrepare, Pcs
    <2>2. Steps(t, "finish", tasks[t].p, tasks[t].old, tasks[t].tgt, tasks[t].oldLoaded, tasks[t].undo)
      BY <2>1, GotoFacts, LockFacts
    <2>3. Locked(t)'
      BY <1>1, <1>2, <2>1, <2>2 DEF Steps, Locked, TxPcs, Early, Reloading
    <2>4. Seen(t)'
      BY <1>1, <1>2, <2>2 DEF Steps, Seen
    <2>5. Fits(tasks[t])'
      BY <1>1, <2>2, LockFacts, TaskOf DEF Steps, Fits
    <2> QED
      BY <1>1, <1>2, <1>3, <2>1, <2>2, <2>3, <2>4, <2>5, BesideStep DEF Steps
  <1>5. CASE ~Loaded
    <2> DEFINE a == store.active
               r == [tasks[t] EXCEPT !.old = store, !.tgt = a, !.pc = "read"]
    <2>1. /\ configLock = None /\ configLock' = t /\ a # None
          /\ tasks' = [tasks EXCEPT ![t].old = store, ![t].tgt = a, ![t].pc = "read"]
      BY <1>5 DEF BeginPrepare, TryConfigTransaction
    <2>2. /\ tasks \in [Tasks -> TaskRecs] /\ tasks[t] \in TaskRecs /\ store \in StoreRecs
          /\ "read" \in Pcs /\ a \in Profiles /\ a \in born
      BY <2>1, LockFacts, TaskOf DEF Pcs, StoreRecs, Known
    <2>3. tasks' = [tasks EXCEPT ![t] = r]
      BY <2>1, <2>2
    <2> HIDE DEF a
    <2>4. /\ r \in TaskRecs /\ r.pc = "read" /\ r.p = tasks[t].p /\ r.old = store
          /\ r.tgt = a /\ r.oldLoaded = tasks[t].oldLoaded /\ r.undo = tasks[t].undo
          /\ r.op = tasks[t].op /\ r.exp = tasks[t].exp
      BY <2>2 DEF TaskRecs
    <2> HIDE DEF r
    <2>5. Only(t) /\ tasks'[t] = r
      BY <2>2, <2>3, <2>4 DEF Only
    <2>6. Fits(tasks[t])'
      BY <1>1, <2>2, <2>4, <2>5, LockFacts, TaskOf DEF Fits
    <2>7. tasks'[t].old \in StoreRecs /\ Known(born, tasks[t].old)'
      BY <1>1, <2>4, <2>5, LockFacts
    <2>8. Locked(t)'
      BY <1>1, <1>2, <2>1, <2>2, <2>4, <2>5, <2>7 DEF Locked, TxPcs, Early, Reloading
    <2>9. Seen(t)'
      BY <1>1, <1>2, <2>4, <2>5 DEF Seen
    <2>10. Forth(t)'
      <3>1. ~Loaded' /\ Matches(tasks[t].old)'
        BY <1>1, <1>5 DEF Loaded, Matches
      <3> QED
        BY <1>1, <1>2, <2>2, <2>4, <2>5, <3>1
           DEF a, Forth, EditOps, OtherOps, PrepareOps
    <2>11. Transaction(t)'
      BY <1>2, <2>4, <2>5, <2>10 DEF Transaction, Reloading
    <2>12. RevisionInv /\ ~broken => shown' = tasks'[t].old /\ tasks'[t].pc # "route"
      BY <1>1, <2>1, <2>4, <2>5 DEF RevisionInv
    <2> QED
      BY <1>1, <1>3, <2>1, <2>5, <2>6, <2>8, <2>9, <2>11, <2>12, GoStep
  <1> QED
    BY <1>4, <1>5

LEMMA SyncControllerKept ==
    ASSUME ConstantsOK, LockInv, NEW t \in Tasks, SyncController(t)
    PROVE  Kept
  <1>1. /\ tasks[t].pc = "wait" /\ tasks[t].op = "sync" /\ configLock = None /\ configLock' = t
        /\ Goto(t, "route") /\ "route" \in Pcs
        /\ UNCHANGED <<store, born, stamp, mode, engine, rev, shown, broken>>
    BY DEF SyncController, Enter, At, TryConfigTransaction, Pcs
  <1>2. ~tasks[t].undo /\ ~tasks[t].oldLoaded /\ Seen(t)
    BY <1>1, Waiting DEF LockInv, Early
  <1>3. Steps(t, "route", tasks[t].p, tasks[t].old, tasks[t].tgt, tasks[t].oldLoaded, tasks[t].undo)
    BY <1>1, GotoFacts, LockFacts
  <1>4. Data' /\ Grows
    BY <1>1, LockFacts, Unmoved
  <1>5. Locked(t)'
    BY <1>1, <1>2, <1>3 DEF Steps, Locked, TxPcs, Early, Reloading
  <1>6. Seen(t)'
    BY <1>1, <1>2, <1>3 DEF Steps, Seen
  <1>7. Fits(tasks[t])'
    BY <1>1, <1>3, LockFacts, TaskOf DEF Steps, Fits
  <1>8. RuntimeInv /\ ~broken => Transaction(t)'
    <2>1. RuntimeInv /\ ~broken => Matches(store)'
      BY <1>1 DEF RuntimeInv, Matches, Loaded
    <2> QED
      BY <1>3, <2>1 DEF Transaction, Reloading, Steps
  <1>9. RevisionInv /\ ~broken => shown' = store'
    BY <1>1 DEF RevisionInv
  <1> QED
    BY <1>1, <1>3, <1>4, <1>5, <1>6, <1>7, <1>8, <1>9, GoStep DEF Steps

-----------------------------------------------------------------------------
(* The store changes and the engine stays *)

(* A profile that is not the active one, or is the first, is added.        *)
LEMMA AddedMatches ==
    ASSUME ConstantsOK, LockInv, RuntimeInv, ~broken, configLock = None, UNCHANGED engine,
           NEW p \in Profiles \ born,
           store.active # None => store'.active = store.active,
           \A q \in Profiles : q # p => store'.contents[q] = store.contents[q]
    PROVE  Matches(store)'
  <1>1. Matches(store) /\ Known(born, store) /\ engine \in EngineRecs
    BY LockFacts DEF RuntimeInv
  <1>2. CASE Loaded
    <2>1. store.active = engine.profile /\ store.active \in Profiles /\ store.active # p
      BY <1>1, <1>2 DEF Matches, Loaded, Known, EngineRecs
    <2> QED
      BY <1>1, <1>2, <2>1 DEF Matches, Loaded
  <1>3. CASE ~Loaded
    BY <1>3 DEF Matches, Loaded
  <1> QED
    BY <1>2, <1>3

LEMMA ImportPlainKept ==
    ASSUME ConstantsOK, LockInv, NEW t \in Tasks, ImportPlain(t)
    PROVE  Kept
  <1>1. /\ configLock = None /\ Return(t) /\ rev' = rev + 1 /\ shown' = store'
        /\ UNCHANGED <<stamp, mode, engine, broken>>
    BY DEF ImportPlain, Enter, TryConfigTransaction, PublishConfig
  <1>2. PICK p \in Profiles \ born :
            born' = born \cup {p} /\ store' = WithProfile(store, p, tasks[t].content)
    BY DEF ImportPlain
  <1>3. /\ store' \in StoreRecs
        /\ store'.active = IF store.active = None THEN p ELSE store.active
        /\ \A q \in Profiles : q # p => store'.contents[q] = store.contents[q]
    <2> DEFINE c == tasks[t].content
    <2>1. c \in Nat /\ store \in StoreRecs /\ store' = WithProfile(store, p, c)
      BY <1>2, LockFacts, TaskOf
    <2> HIDE DEF c
    <2> QED
      BY <2>1, WithProfileFacts
  <1>4. Known(born', store')
    BY <1>2, <1>3, LockFacts DEF Known
  <1>5. Data' /\ Grows /\ born \subseteq born'
    BY <1>1, <1>2, <1>3, <1>4, LockFacts DEF Data, Grows
  <1>6. RuntimeInv /\ ~broken' => Matches(store)'
    BY <1>1, <1>2, <1>3, AddedMatches
  <1> QED
    BY <1>1, <1>5, <1>6, OverFacts, LockFacts, EndStep

LEMMA VpnConfigHalfKept ==
    ASSUME ConstantsOK, LockInv, NEW t \in Tasks, VpnConfigHalf(t)
    PROVE  Kept
  <1>1. /\ configLock = None /\ Return(t) /\ ~WholeCommits /\ ~NoSilentChange
        /\ tasks[t].p \in Profiles
        /\ store' = Edited(store, tasks[t].p, tasks[t].content)
        /\ UNCHANGED <<born, stamp, mode, engine, rev, shown, broken>>
    BY DEF VpnConfigHalf, Enter, TryConfigTransaction, Ids, WholeCommits, NoSilentChange
  <1>2. tasks[t].p \in born /\ tasks[t].content \in Nat
    BY <1>1, LockFacts, TaskOf DEF Fits
  <1>3. store' \in StoreRecs /\ Known(born, store')
    BY <1>1, <1>2, LockFacts, EditedFacts
  <1>4. Data' /\ Grows
    BY <1>1, <1>3, LockFacts DEF Data, Grows, Known
  <1> QED
    BY <1>1, <1>4, OverFacts, LockFacts, EndStep

LEMMA RestoreBackupKept ==
    ASSUME ConstantsOK, LockInv, NEW p \in Profiles, RestoreBackup(p)
    PROVE  Kept
  <1>1. /\ configLock = None /\ configLock' = None /\ p \notin born /\ born' = born \cup {p}
        /\ stamp' = stamp + 1 /\ store' = Edited(store, p, stamp')
        /\ rev' = rev + 1 /\ shown' = store'
        /\ UNCHANGED <<tasks, mode, engine, broken>>
    BY DEF RestoreBackup, Spend, TryConfigTransaction, PublishConfig
  <1>2. stamp' \in Nat
    BY <1>1, LockFacts
  <1>3. /\ store' \in StoreRecs /\ store'.active = store.active
        /\ \A q \in Profiles : q # p => store'.contents[q] = store.contents[q]
    <2>1. ASSUME NEW c \in Nat, c = stamp'
          PROVE  /\ Edited(store, p, c) \in StoreRecs /\ Edited(store, p, c).active = store.active
                 /\ \A q \in Profiles :
                       q # p => Edited(store, p, c).contents[q] = store.contents[q]
      BY LockFacts, EditedFacts
    <2> QED
      BY <1>1, <1>2, <2>1
  <1>4. Known(born', store')
    BY <1>1, <1>3, LockFacts DEF Known
  <1>5. Data' /\ Grows /\ born \subseteq born'
    BY <1>1, <1>2, <1>3, <1>4, LockFacts DEF Data, Grows
  <1>6. ASSUME NEW u \in Tasks PROVE Only(u) /\ Locked(u)' /\ Seen(u)' /\ Fits(tasks[u])'
    <2>1. tasks'[u] = tasks[u] /\ (configLock' = u <=> configLock = u)
      BY <1>1
    <2>2. Locked(u)' /\ Seen(u)' /\ Fits(tasks[u])'
      BY <1>5, <2>1, LockFacts, Keeps DEF LockInv
    <2> QED
      BY <1>1, <2>2, LockFacts DEF Only
  <1>7. LockInv'
    BY <1>1, <1>5, <1>6, LockStep DEF Moves, ConstantsOK
  <1>8. RuntimeInv /\ ~broken' => Matches(store)'
    BY <1>1, <1>3, AddedMatches
  <1> QED
    BY <1>1, <1>7, <1>8 DEF Kept, RuntimeInv, RevisionInv

-----------------------------------------------------------------------------
(* The reload *)

(* The holder of the lock.                                                 *)
LEMMA HolderFacts ==
    ASSUME ConstantsOK, LockInv, NEW t \in Tasks, tasks[t].pc \in TxPcs
    PROVE  /\ configLock = t /\ Seen(t) /\ t # None
           /\ tasks[t].pc \in TxPcs \ {"route"} =>
                 tasks[t].old \in StoreRecs /\ Known(born, tasks[t].old)
           /\ RuntimeInv /\ ~broken => Transaction(t)
           /\ RevisionInv /\ ~broken /\ tasks[t].pc # "route" => shown = tasks[t].old
  BY DEF LockInv, Locked, ConstantsOK, RuntimeInv, RevisionInv

LEMMA ReloadOnKept ==
    ASSUME ConstantsOK, LockInv, NEW t \in Tasks, ReloadRead(t) \/ ReloadTake(t)
    PROVE  Kept
  <1>1. /\ tasks[t].pc \in {"read", "take"}
        /\ UNCHANGED <<store, born, stamp, mode, engine, rev, shown, configLock, broken>>
    BY DEF ReloadRead, ReloadTake
  <1>2. /\ configLock = t /\ Seen(t) /\ tasks[t].old \in StoreRecs /\ Known(born, tasks[t].old)
        /\ tasks[t].tgt \in Profiles
        /\ RuntimeInv /\ ~broken => Transaction(t)
        /\ RevisionInv /\ ~broken => shown = tasks[t].old
    BY <1>1, HolderFacts DEF LockInv, Locked, TxPcs, Reloading
  <1>3. PICK pc \in {"take", "install"} :
          /\ Steps(t, pc, tasks[t].p, tasks[t].old, tasks[t].tgt, tasks[t].oldLoaded, tasks[t].undo)
          /\ RuntimeInv /\ ~broken => tasks'[t].snap.content = store.contents[tasks[t].tgt]
    <2>1. CASE ReloadRead(t)
      <3>1. store.contents[tasks[t].tgt] \in Nat /\ mode \in Modes /\ rev \in Nat
        BY <1>2, LockFacts DEF StoreRecs
      <3>2. ASSUME NEW snap \in Snaps,
                   snap = [content |-> store.contents[tasks[t].tgt], mode |-> mode, rev |-> rev]
            PROVE  /\ Steps(t, "take", tasks[t].p, tasks[t].old, tasks[t].tgt,
                            tasks[t].oldLoaded, tasks[t].undo)
                   /\ tasks'[t].snap = snap
        <4>1. tasks' = [tasks EXCEPT ![t].pc = "take", ![t].snap = snap] /\ "take" \in Pcs
          BY <2>1, <3>2 DEF ReloadRead, Pcs
        <4> QED
          BY <4>1, LockFacts, SnapFacts
      <3>3. [content |-> store.contents[tasks[t].tgt], mode |-> mode, rev |-> rev] \in Snaps
        BY <3>1 DEF Snaps
      <3> QED
        BY <3>2, <3>3
    <2>2. CASE ReloadTake(t)
      <3>1. Goto(t, "install") /\ tasks[t].pc = "take" /\ "install" \in Pcs
        BY <2>2 DEF ReloadTake, Pcs
      <3>2. /\ Steps(t, "install", tasks[t].p, tasks[t].old, tasks[t].tgt, tasks[t].oldLoaded,
                     tasks[t].undo)
            /\ tasks'[t].snap = tasks[t].snap
        BY <3>1, LockFacts, GotoFacts
      <3>3. Transaction(t) => tasks[t].snap.content = store.contents[tasks[t].tgt]
        BY <3>1 DEF Transaction
      <3> QED
        BY <1>2, <3>2, <3>3
    <2> QED
      BY <2>1, <2>2
  <1>4. Data' /\ Grows /\ SameEngine
    BY <1>1, LockFacts, Unmoved
  <1>5. Fits(tasks[t])'
    BY <1>1, <1>3, LockFacts, TaskOf DEF Steps, Fits
  <1>6. tasks'[t].old \in StoreRecs /\ Known(born, tasks[t].old)'
    BY <1>1, <1>2, <1>3 DEF Steps
  <1>7. Locked(t)'
    BY <1>1, <1>2, <1>3, <1>6 DEF Steps, LockInv, Locked, TxPcs, Early, Reloading
  <1>8. Seen(t)'
    BY <1>1, <1>2, <1>3 DEF Steps, Seen
  <1>9. RuntimeInv /\ ~broken => Transaction(t)'
    <2>1. SameCall(t) /\ (Forth(t)' <=> Forth(t)) /\ (Back(t)' <=> Back(t))
      BY <1>1, <1>3, <1>4, SameCallKeeps DEF Steps, SameCall
    <2>2. Transaction(t) => (~tasks[t].undo => Forth(t)) /\ (tasks[t].undo => Back(t))
      BY <1>1 DEF Transaction, Reloading
    <2> QED
      BY <1>1, <1>2, <1>3, <2>1, <2>2 DEF Transaction, Reloading, Steps
  <1> QED
    BY <1>1, <1>2, <1>3, <1>4, <1>5, <1>7, <1>8, <1>9, GoStep DEF Steps

(* The holder goes on where no reload is under way and no engine runs with *)
(* a task yet: what its record says, of what it said.                      *)
LEMMA HolderLocked ==
    ASSUME ConstantsOK, LockInv, NEW t \in Tasks, tasks[t].pc \in TxPcs \ {"route"},
           Only(t), SameCall(t), tasks'[t].exp = tasks[t].exp, configLock' = t,
           UNCHANGED <<born, rev, shown>>,
           tasks'[t].pc \in {"finish", "rollback", "remove", "native", "nativeAgain"},
           tasks'[t].pc = "rollback" => tasks[t].op \in EditOps \cup OtherOps,
           tasks'[t].pc = "remove" => tasks[t].op = "delete",
           tasks'[t].pc \in {"native", "nativeAgain"} => tasks[t].op = "sync"
    PROVE  Fits(tasks[t])' /\ Locked(t)' /\ Seen(t)'
  <1>1. Seen(t) /\ tasks[t].old \in StoreRecs /\ Known(born, tasks[t].old)
    BY HolderFacts
  <1>2. Fits(tasks[t])'
    BY LockFacts, TaskOf DEF SameCall, Fits
  <1>3. tasks'[t].old \in StoreRecs /\ Known(born, tasks[t].old)'
    BY <1>1 DEF SameCall, Known
  <1>4. tasks[t].op \in PrepareOps \/ tasks[t].p \in Profiles
    BY DEF LockInv, Locked
  <1>5. Locked(t)'
    BY <1>3, <1>4 DEF SameCall, Locked, TxPcs, Early, Reloading, EditOps, OtherOps, PrepareOps
  <1>6. Seen(t)'
    BY <1>1 DEF SameCall, Seen
  <1> QED
    BY <1>2, <1>5, <1>6

LEMMA ReloadInstallKept ==
    ASSUME ConstantsOK, LockInv, NEW t \in Tasks, ReloadInstall(t)
    PROVE  Kept
  <1> DEFINE g == tasks[t].tgt
             c == tasks[t].snap.content
             m == tasks[t].snap.mode
  <1>1. /\ tasks[t].pc = "install" /\ store' = [store EXCEPT !.active = g]
        /\ engine' = [profile |-> g, content |-> c, mode |-> m] /\ AfterReload(t)
        /\ UNCHANGED <<born, stamp, mode, rev, shown, broken>>
    BY DEF ReloadInstall, PublishOther
  <1>2. /\ configLock = t /\ t # None
        /\ tasks[t].old \in StoreRecs /\ Known(born, tasks[t].old)
        /\ RuntimeInv /\ ~broken => Transaction(t)
        /\ RevisionInv /\ ~broken => shown = tasks[t].old
    BY <1>1, HolderFacts DEF TxPcs
  <1>3. g \in Profiles /\ g \in born /\ c \in Nat /\ m \in Modes /\ tasks[t].undo \in BOOLEAN
    BY <1>1, LockFacts, TaskOf DEF LockInv, Locked, Reloading, Fits, Snaps
  <1>4. /\ store' \in StoreRecs /\ store'.active = g /\ store'.contents = store.contents
        /\ Known(born, store')
    <2> HIDE DEF g
    <2> QED
      BY <1>1, <1>3, LockFacts, ActiveFacts
  <1>5. engine' \in EngineRecs /\ engine'.profile = g /\ engine'.content = c
    BY <1>1, <1>3 DEF EngineRecs
  <1>6. Data' /\ Grows
    BY <1>1, <1>4, <1>5, LockFacts DEF Data, Grows, Known
  <1>7. RuntimeInv /\ ~broken => c = store.contents[g]
    BY <1>1, <1>2 DEF Transaction
  <1>8. RuntimeInv /\ ~broken => Matches(store)'
    BY <1>4, <1>5, <1>7 DEF Matches
  <1>9. RuntimeInv /\ ~broken /\ ~tasks[t].undo => Forth(t)
    BY <1>1, <1>2 DEF Transaction, Reloading
  <1>10. RuntimeInv /\ ~broken /\ tasks[t].undo => store' = tasks[t].old
    <2>1. RuntimeInv /\ ~broken /\ tasks[t].undo => Back(t)
      BY <1>1, <1>2 DEF Transaction, Reloading
    <2>2. Back(t) => store' = tasks[t].old
      BY <1>2, <1>4 DEF Back, StoreRecs
    <2> QED
      BY <2>1, <2>2
  <1> HIDE DEF c, m
  <1>11. ASSUME NEW pc \in {"finish", "remove", "native", "nativeAgain"}, Goto(t, pc),
                configLock' = configLock,
                pc = "remove" => tasks[t].op = "delete",
                pc \in {"native", "nativeAgain"} => tasks[t].op = "sync",
                RuntimeInv /\ ~broken => Transaction(t)'
         PROVE  Kept
    <2>1. pc \in Pcs
      BY DEF Pcs
    <2>2. Steps(t, pc, tasks[t].p, tasks[t].old, g, tasks[t].oldLoaded, tasks[t].undo)
      BY <1>11, <2>1, LockFacts, GotoFacts
    <2>3. SameCall(t) /\ Only(t) /\ tasks'[t].pc = pc /\ tasks'[t].exp = tasks[t].exp
      BY <2>2 DEF Steps, SameCall
    <2>4. Fits(tasks[t])' /\ Locked(t)' /\ Seen(t)'
      BY <1>1, <1>2, <1>11, <2>3, HolderLocked DEF TxPcs
    <2>5. RevisionInv /\ ~broken' => shown' = tasks'[t].old /\ tasks'[t].pc # "route"
      BY <1>1, <1>2, <1>11, <2>3 DEF SameCall
    <2> QED
      BY <1>1, <1>2, <1>6, <1>11, <2>3, <2>4, <2>5, GoStep
  <1>12. CASE /\ ~tasks[t].undo
              /\ Goto(t, IF tasks[t].op = "delete" THEN "remove"
                         ELSE IF tasks[t].op = "sync" /\ connected THEN "native" ELSE "finish")
              /\ UNCHANGED <<configLock, vpnLock>>
    <2>1. PICK pc \in {"finish", "remove", "native"} :
              /\ Goto(t, pc)
              /\ pc = "remove" <=> tasks[t].op = "delete"
              /\ pc = "native" => tasks[t].op = "sync"
      BY <1>12
    <2>2. /\ Only(t) /\ SameCall(t) /\ tasks'[t].pc = pc
      <3>1. pc \in Pcs
        BY DEF Pcs
      <3> QED
        BY <2>1, <3>1, LockFacts, GotoFacts DEF Steps, SameCall
    <2>3. ASSUME RuntimeInv, ~broken
          PROVE  Transaction(t)'
      <3>1. Forth(t) /\ Matches(store)'
        BY <1>8, <1>9, <1>12, <2>3
      <3>2. tasks[t].op = "delete" =>
               tasks'[t].old.active = tasks'[t].p /\ store'.contents = tasks'[t].old.contents
        BY <1>4, <2>2, <3>1 DEF Forth, SameCall
      <3>3. tasks[t].op = "sync" => EditsActive(t)'
        <4>1. tasks[t].op = "sync" => EditsActive(t) /\ g = tasks[t].p
          BY <3>1 DEF Forth, EditOps
        <4> QED
          BY <1>4, <2>2, <4>1 DEF EditsActive, Differs, SameCall
      <3>4. tasks[t].op \in PrepareOps \/ (tasks[t].op = "activate" /\ tasks[t].old.active = tasks[t].p)
               => store' = tasks[t].old
        <4>1. tasks[t].op \in PrepareOps \/ (tasks[t].op = "activate" /\ tasks[t].old.active = tasks[t].p)
                 => store = tasks[t].old /\ g = tasks[t].old.active
          BY <3>1 DEF Forth, EditOps, OtherOps, PrepareOps
        <4> QED
          BY <1>2, <1>4, <4>1 DEF StoreRecs
      <3> QED
        BY <1>3, <2>1, <2>2, <3>1, <3>2, <3>3, <3>4, LockFacts
           DEF Transaction, Reloading, SameCall
    <2> QED
      BY <1>11, <1>12, <2>1, <2>3
  <1>13. CASE /\ tasks[t].undo /\ tasks[t].op = "sync" /\ tasks[t].oldLoaded
              /\ Goto(t, "nativeAgain")
              /\ UNCHANGED <<configLock, vpnLock>>
    <2>1. /\ SameCall(t) /\ tasks'[t].pc = "nativeAgain"
      <3>1. "nativeAgain" \in Pcs
        BY DEF Pcs
      <3> QED
        BY <1>13, <3>1, LockFacts, GotoFacts DEF Steps, SameCall
    <2>2. RuntimeInv /\ ~broken => Transaction(t)'
      BY <1>8, <1>10, <1>13, <2>1 DEF Transaction, Reloading, SameCall
    <2> QED
      BY <1>11, <1>13, <2>2
  <1>14. CASE tasks[t].undo /\ ~(tasks[t].op = "sync" /\ tasks[t].oldLoaded) /\ Fail(t)
    <2>1. NoSilentChange /\ RuntimeInv /\ RevisionInv /\ ~broken' => shown' = store'
      BY <1>1, <1>2, <1>10, <1>14
    <2> QED
      BY <1>1, <1>2, <1>6, <1>8, <1>14, <2>1, OverFacts, LockFacts, EndStep
  <1> QED
    BY <1>1, <1>12, <1>13, <1>14 DEF AfterReload

LEMMA ReloadFailsKept ==
    ASSUME ConstantsOK, LockInv, NEW t \in Tasks, ReloadFails(t)
    PROVE  Kept
  <1>1. /\ tasks[t].pc \in {"take", "install"}
        /\ UNCHANGED <<store, born, stamp, mode, engine>>
    BY DEF ReloadFails
  <1>2. /\ configLock = t /\ t # None
        /\ RuntimeInv /\ ~broken => Transaction(t)
        /\ RevisionInv /\ ~broken => shown = tasks[t].old
    BY <1>1, HolderFacts DEF TxPcs
  <1>3. CASE /\ tasks[t].undo /\ broken' = TRUE /\ Fail(t)
             /\ UNCHANGED <<rev, shown>> \/ (rev' = rev + 1 /\ shown' = store)
    <2>1. Data' /\ Grows
      BY <1>1, <1>3, LockFacts, DataKeeps DEF Grows
    <2> QED
      BY <1>1, <1>2, <1>3, <2>1, OverFacts, LockFacts, EndStep
  <1>4. CASE ~tasks[t].undo /\ UNCHANGED <<rev, shown, broken>>
    <2>1. Data' /\ Grows /\ SameEngine
      BY <1>1, <1>4, LockFacts, Unmoved
    <2>2. RuntimeInv /\ ~broken => Forth(t)
      BY <1>1, <1>2, <1>4 DEF Transaction, Reloading
    <2>3. CASE tasks[t].op \in PrepareOps /\ Return(t)
      <3>1. RuntimeInv /\ ~broken => store = tasks[t].old /\ Matches(store)
        BY <2>2, <2>3 DEF Forth, EditOps, OtherOps, PrepareOps
      <3>2. Matches(store) => Matches(store)'
        BY <1>1 DEF Matches, Loaded
      <3> QED
        BY <1>1, <1>2, <1>4, <2>1, <2>3, <3>1, <3>2, OverFacts, LockFacts, EndStep
    <2>4. CASE tasks[t].op \notin PrepareOps /\ Goto(t, "rollback") /\ configLock' = configLock
      <3>1. /\ Only(t) /\ SameCall(t) /\ tasks'[t].pc = "rollback" /\ tasks'[t].exp = tasks[t].exp
        <4>1. "rollback" \in Pcs
          BY DEF Pcs
        <4> QED
          BY <2>4, <4>1, LockFacts, GotoFacts DEF Steps, SameCall
      <3>2. tasks[t].op \in EditOps \cup OtherOps
        BY <1>1, <2>4 DEF LockInv, Locked, Reloading
      <3>3. Fits(tasks[t])' /\ Locked(t)' /\ Seen(t)'
        BY <1>1, <1>2, <1>4, <2>4, <3>1, <3>2, HolderLocked DEF TxPcs
      <3>4. ASSUME RuntimeInv, ~broken
            PROVE  Transaction(t)'
        <4>1. Forth(t) /\ (Undoable(t)' <=> Undoable(t))
          BY <1>1, <2>1, <2>2, <3>1, <3>4, SameCallKeeps
        <4>2. tasks[t].op # "sync" =>
                 /\ tasks[t].oldLoaded => tasks[t].old.active # None
                 /\ ~tasks[t].oldLoaded => ~Loaded
          BY <4>1 DEF Forth, Matches, Loaded
        <4>3. Undoable(t)
          BY <4>1, <4>2 DEF Forth, Undoable, EditOps, OtherOps, PrepareOps
        <4> QED
          BY <3>1, <4>1, <4>3 DEF Transaction, Reloading
      <3>5. RevisionInv /\ ~broken => shown' = tasks'[t].old
        BY <1>2, <1>4, <3>1 DEF SameCall
      <3> QED
        BY <1>1, <1>2, <1>4, <2>1, <2>4, <3>1, <3>3, <3>4, <3>5, GoStep
    <2> QED
      BY <1>4, <2>3, <2>4 DEF ReloadFails, PrepareOps
  <1> QED
    BY <1>1, <1>3, <1>4 DEF ReloadFails, PublishOther

-----------------------------------------------------------------------------
(* Undoing a transaction *)

(* s is put back, and target is reloaded if there is one.                  *)
LEMMA UndoKept ==
    ASSUME ConstantsOK, LockInv, NEW t \in Tasks, NEW s \in StoreRecs,
           NEW target \in Profiles \cup {None}, tasks[t].pc = "rollback",
           UndoWith(t, s, target), Known(born, s), target \in born \cup {None},
           RuntimeInv /\ ~broken =>
             IF target = None THEN s = tasks[t].old /\ (Loaded => Matches(s))
             ELSE s.contents = tasks[t].old.contents /\ target = tasks[t].old.active
    PROVE  Kept
  <1>1. /\ store' = s /\ UNCHANGED <<born, stamp, mode, engine, rev, shown, broken>>
        /\ IF target = None THEN Fail(t)
           ELSE /\ tasks' = [tasks EXCEPT ![t].undo = TRUE, ![t].tgt = target, ![t].pc = "read"]
                /\ configLock' = configLock
    BY DEF UndoWith
  <1>2. /\ configLock = t /\ t # None /\ Seen(t)
        /\ tasks[t].old \in StoreRecs /\ Known(born, tasks[t].old)
        /\ RevisionInv /\ ~broken => shown = tasks[t].old
    BY HolderFacts DEF TxPcs
  <1>3. Data' /\ Grows
    BY <1>1, LockFacts DEF Data, Grows, Known
  <1>4. CASE target = None
    <2>1. RuntimeInv /\ ~broken => s = tasks[t].old /\ Matches(store)'
      BY <1>1, <1>4 DEF Matches, Loaded
    <2> QED
      BY <1>1, <1>2, <1>3, <1>4, <2>1, OverFacts, LockFacts, EndStep
  <1>5. CASE target # None
    <2> DEFINE r == [tasks[t] EXCEPT !.undo = TRUE, !.tgt = target, !.pc = "read"]
    <2>1. tasks \in [Tasks -> TaskRecs] /\ tasks[t] \in TaskRecs /\ "read" \in Pcs
      BY LockFacts DEF Pcs
    <2>2. tasks' = [tasks EXCEPT ![t] = r]
      BY <1>1, <1>5, <2>1
    <2>3. /\ r \in TaskRecs /\ r.pc = "read" /\ r.undo /\ r.tgt = target /\ r.p = tasks[t].p
          /\ r.op = tasks[t].op /\ r.old = tasks[t].old /\ r.exp = tasks[t].exp
      BY <2>1 DEF TaskRecs
    <2> HIDE DEF r
    <2>4. Only(t) /\ tasks'[t] = r
      BY <2>1, <2>2, <2>3 DEF Only
    <2>5. Fits(tasks[t])'
      BY <1>1, <2>3, <2>4, LockFacts, TaskOf DEF Fits
    <2>6. /\ tasks[t].op \in PrepareOps \/ tasks[t].p \in Profiles
          /\ tasks[t].op \in EditOps \cup OtherOps
      BY DEF LockInv, Locked, TxPcs, Reloading
    <2>7. tasks'[t].old \in StoreRecs /\ Known(born, tasks[t].old)'
      BY <1>1, <1>2, <2>3, <2>4
    <2>8. Locked(t)'
      BY <1>1, <1>2, <1>5, <2>3, <2>4, <2>6, <2>7
         DEF Locked, TxPcs, Early, Reloading, EditOps, OtherOps, PrepareOps
    <2>9. Seen(t)'
      BY <1>1, <1>2, <2>3, <2>4 DEF Seen
    <2>10. RuntimeInv /\ ~broken => Transaction(t)'
      <3>1. RuntimeInv /\ ~broken => Back(t)'
        BY <1>1, <1>5, <2>3, <2>4 DEF Back
      <3> QED
        BY <2>3, <2>4, <3>1 DEF Transaction, Reloading
    <2>11. RevisionInv /\ ~broken => shown' = tasks'[t].old
      BY <1>1, <1>2, <2>3, <2>4
    <2> QED
      BY <1>1, <1>2, <1>3, <1>5, <2>3, <2>4, <2>5, <2>8, <2>9, <2>10, <2>11, GoStep
  <1> QED
    BY <1>4, <1>5

(* What the undo starts from.                                              *)
LEMMA UndoFacts ==
    ASSUME ConstantsOK, LockInv, NEW t \in Tasks, tasks[t].pc = "rollback"
    PROVE  /\ tasks[t].old \in StoreRecs /\ Known(born, tasks[t].old)
           /\ tasks[t].op \in EditOps \cup OtherOps /\ tasks[t].p \in Profiles /\ tasks[t].p \in born
           /\ tasks[t].old.active \in Profiles \cup {None}
           /\ tasks[t].old.active \in born \cup {None}
           /\ tasks[t].old.contents[tasks[t].p] \in Nat
           /\ RuntimeInv /\ ~broken => Undoable(t)
  <1>1. /\ tasks[t].old \in StoreRecs /\ Known(born, tasks[t].old)
        /\ RuntimeInv /\ ~broken => Transaction(t)
    BY HolderFacts DEF TxPcs
  <1>2. /\ tasks[t].op \in PrepareOps \/ tasks[t].p \in Profiles
        /\ tasks[t].op \in EditOps \cup OtherOps
    BY DEF LockInv, Locked, TxPcs, Reloading
  <1>3. tasks[t].p \in Profiles /\ tasks[t].p \in born
    BY <1>2, LockFacts, TaskOf DEF Fits, PrepareOps, EditOps, OtherOps
  <1>4. Transaction(t) => Undoable(t)
    BY DEF Transaction
  <1> QED
    BY <1>1, <1>2, <1>3, <1>4 DEF StoreRecs, Known

(* The document of p alone is put back.                                    *)
LEMMA RestoredFacts ==
    ASSUME ConstantsOK, LockInv, NEW t \in Tasks, tasks[t].pc = "rollback",
           NEW s, s = Restored(store, tasks[t].p, tasks[t].old)
    PROVE  /\ s \in StoreRecs /\ s.active = store.active /\ Known(born, s)
           /\ Differs(t) => s.contents = tasks[t].old.contents
  <1> DEFINE p == tasks[t].p
             c == tasks[t].old.contents[p]
  <1>1. /\ p \in Profiles /\ p \in born /\ c \in Nat /\ store \in StoreRecs /\ Known(born, store)
        /\ tasks[t].old \in StoreRecs
    BY UndoFacts, LockFacts
  <1>2. s = Edited(store, p, c)
    BY DEF Restored
  <1>3. tasks[t].old.contents[p] = c
    OBVIOUS
  <1> HIDE DEF p, c
  <1>4. /\ s \in StoreRecs /\ s.active = store.active /\ s.contents[p] = c /\ Known(born, s)
        /\ \A q \in Profiles : q # p => s.contents[q] = store.contents[q]
    BY <1>1, <1>2, EditedFacts
  <1>5. Differs(t) => \A q \in Profiles : s.contents[q] = tasks[t].old.contents[q]
    BY <1>3, <1>4 DEF Differs, p
  <1> QED
    BY <1>1, <1>4, <1>5 DEF StoreRecs

LEMMA RollbacksKept ==
    ASSUME ConstantsOK, LockInv, NEW t \in Tasks,
           \/ RollbackProfile(t) \/ RollbackStore(t) \/ RollbackStoreEdit(t)
           \/ RollbackActivation(t) \/ RollbackImport(t) \/ RollbackActivate(t)
           \/ RollbackDelete(t)
    PROVE  Kept
  <1> DEFINE p == tasks[t].p
             old == tasks[t].old
             back == IF tasks[t].oldLoaded THEN old.active ELSE None
  <1>1. /\ tasks[t].pc = "rollback" /\ None \notin Profiles
        /\ store \in StoreRecs /\ Known(born, store)
    BY LockFacts DEF RollbackProfile, RollbackStore, RollbackStoreEdit, RollbackActivation,
           RollbackImport, RollbackActivate, RollbackDelete, At
  <1>2. /\ old \in StoreRecs /\ Known(born, old) /\ p \in Profiles /\ p \in born
        /\ old.active \in Profiles \cup {None} /\ old.active \in born \cup {None}
        /\ RuntimeInv /\ ~broken => Undoable(t)
    BY <1>1, UndoFacts
  <1>3. back \in Profiles \cup {None} /\ back \in born \cup {None}
    BY <1>2
  (* The engine that ran before comes back, or none does.                  *)
  <1>5. ASSUME NEW s \in StoreRecs, Known(born, s), UndoWith(t, s, back),
               tasks[t].op \in OtherOps \cup {"rules"},
               RuntimeInv /\ ~broken =>
                 /\ s.contents = old.contents
                 /\ ~tasks[t].oldLoaded => s = old
        PROVE  Kept
    <2>1. RuntimeInv /\ ~broken =>
            /\ tasks[t].oldLoaded => old.active # None
            /\ ~tasks[t].oldLoaded => ~Loaded
      BY <1>2, <1>5 DEF Undoable
    <2>2. RuntimeInv /\ ~broken =>
            IF back = None THEN s = old /\ (Loaded => Matches(s))
            ELSE s.contents = old.contents /\ back = old.active
      BY <1>5, <2>1
    <2> HIDE DEF back
    <2> QED
      BY <1>1, <1>3, <1>5, <2>2, UndoKept
  (* The active profile is reloaded as it was.                             *)
  <1>6. ASSUME NEW s \in StoreRecs, Known(born, s), UndoWith(t, s, p),
               RuntimeInv /\ ~broken => s.contents = old.contents /\ old.active = p
        PROVE  Kept
    <2>1. RuntimeInv /\ ~broken =>
            IF p = None THEN s = old /\ (Loaded => Matches(s))
            ELSE s.contents = old.contents /\ p = old.active
      BY <1>1, <1>2, <1>6
    <2> HIDE DEF p
    <2> QED
      BY <1>1, <1>2, <1>6, <2>1, UndoKept
  <1>7. CASE RollbackProfile(t)
    <2>1. /\ tasks[t].op \in EditOps
          /\ UndoWith(t, Restored(store, p, old), p)
      BY <1>7 DEF RollbackProfile, EditCalls, OverlayCalls, EditOps
    <2>2. ASSUME NEW s, s = Restored(store, p, old) PROVE Kept
      <3>1. /\ s \in StoreRecs /\ Known(born, s)
            /\ Differs(t) => s.contents = old.contents
        BY <1>1, <2>2, RestoredFacts
      <3>2. RuntimeInv /\ ~broken => Differs(t) /\ old.active = p
        BY <1>2, <2>1 DEF Undoable, EditsActive
      <3> QED
        BY <1>6, <2>1, <2>2, <3>1, <3>2
    <2> QED
      BY <2>2
  <1>8. CASE RollbackStore(t)
    <2>1. tasks[t].op = "rules" /\ UndoWith(t, old, WasLoaded(t, p))
      BY <1>8 DEF RollbackStore, At
    <2>2. RuntimeInv /\ ~broken => old.active = p /\ (~tasks[t].oldLoaded => ~Loaded)
      BY <1>2, <2>1 DEF Undoable, EditsActive, EditOps
    <2> DEFINE target == IF tasks[t].oldLoaded THEN p ELSE None
    <2>3. RuntimeInv /\ ~broken =>
            IF target = None THEN old = old /\ (Loaded => Matches(old))
            ELSE old.contents = old.contents /\ target = old.active
      BY <1>1, <1>2, <2>2
    <2>4. target \in Profiles \cup {None} /\ target \in born \cup {None} /\ UndoWith(t, old, target)
      BY <1>2, <2>1 DEF WasLoaded
    <2> HIDE DEF target
    <2>5. ASSUME NEW s \in StoreRecs, s = old PROVE Kept
      BY <1>1, <1>2, <2>3, <2>4, <2>5, UndoKept
    <2> QED
      BY <1>2, <2>5
  <1>9. CASE RollbackStoreEdit(t)
    <2>1. tasks[t].op = "storeEdit" /\ UndoWith(t, old, p)
      BY <1>9 DEF RollbackStoreEdit, At
    <2>2. RuntimeInv /\ ~broken => old.active = p
      BY <1>2, <2>1 DEF Undoable, EditsActive, EditOps
    <2>3. ASSUME NEW s \in StoreRecs, s = old PROVE Kept
      BY <1>2, <1>6, <2>1, <2>2, <2>3
    <2> QED
      BY <1>2, <2>3
  <1>10. CASE RollbackActivation(t)
    <2>1. tasks[t].op = "refreshActivate" /\ UndoWith(t, Restored(store, p, old), back)
      BY <1>10 DEF RollbackActivation, At, WasLoaded
    <2>2. ASSUME NEW s, s = Restored(store, p, old) PROVE Kept
      <3>1. /\ s \in StoreRecs /\ Known(born, s) /\ s.active = store.active
            /\ Differs(t) => s.contents = old.contents
        BY <1>1, <2>2, RestoredFacts
      <3>2. RuntimeInv /\ ~broken => Differs(t) /\ store.active = old.active
        BY <1>2, <2>1 DEF Undoable
      <3>3. RuntimeInv /\ ~broken => s = old /\ s.contents = old.contents
        BY <1>2, <3>1, <3>2 DEF StoreRecs
      <3> QED
        BY <1>5, <2>1, <2>2, <3>1, <3>3 DEF OtherOps
    <2> QED
      BY <2>2
  <1>11. CASE RollbackImport(t)
    <2>1. tasks[t].op = "import" /\ UndoWith(t, old, back)
      BY <1>11 DEF RollbackImport, At, WasLoaded
    <2>2. ASSUME NEW s \in StoreRecs, s = old PROVE Kept
      BY <1>2, <1>5, <2>1, <2>2 DEF OtherOps
    <2> QED
      BY <1>2, <2>2
  <1>12. CASE RollbackActivate(t)
    <2>1. /\ tasks[t].op = "activate"
          /\ UndoWith(t, store, IF old.active = p THEN None ELSE back)
      BY <1>12 DEF RollbackActivate, At, WasLoaded
    <2>2. RuntimeInv /\ ~broken => store = old /\ Matches(store)
      BY <1>2, <2>1 DEF Undoable
    <2>3. ASSUME NEW s \in StoreRecs, s = store PROVE Kept
      <3>1. CASE old.active = p
        <4>1. UndoWith(t, s, None)
          BY <2>1, <2>3, <3>1
        <4>2. RuntimeInv /\ ~broken => s = old /\ (Loaded => Matches(s))
          BY <2>2, <2>3
        <4> QED
          BY <1>1, <2>3, <4>1, <4>2, UndoKept
      <3>2. CASE old.active # p
        BY <1>1, <1>5, <2>1, <2>2, <2>3, <3>2 DEF OtherOps
      <3> QED
        BY <3>1, <3>2
    <2> QED
      BY <1>1, <2>3
  <1>13. CASE RollbackDelete(t)
    <2>1. /\ tasks[t].op = "delete"
          /\ UndoWith(t, store, WasLoaded(t, IF old.active = p THEN p ELSE None))
      BY <1>13 DEF RollbackDelete, At
    <2>2. RuntimeInv /\ ~broken =>
            /\ store.contents = old.contents /\ old.active = p
            /\ ~tasks[t].oldLoaded => store = old /\ ~Loaded
      BY <1>2, <2>1 DEF Undoable, OtherOps
    <2> DEFINE target == IF tasks[t].oldLoaded /\ old.active = p THEN p ELSE None
    <2>3. /\ target \in Profiles \cup {None} /\ target \in born \cup {None}
          /\ UndoWith(t, store, target)
      BY <1>2, <2>1 DEF WasLoaded
    <2>4. RuntimeInv /\ ~broken =>
            IF target = None THEN store = old /\ (Loaded => Matches(store))
            ELSE store.contents = old.contents /\ target = old.active
      BY <1>1, <1>2, <2>2
    <2> HIDE DEF target
    <2>5. ASSUME NEW s \in StoreRecs, s = store PROVE Kept
      BY <1>1, <2>3, <2>4, <2>5, UndoKept
    <2> QED
      BY <1>1, <2>5
  <1> QED
    BY <1>7, <1>8, <1>9, <1>10, <1>11, <1>12, <1>13

LEMMA RollbackFailsKept ==
    ASSUME ConstantsOK, LockInv, NEW t \in Tasks, RollbackFails(t)
    PROVE  Kept
  <1>1. /\ tasks[t].pc = "rollback" /\ broken' = TRUE /\ rev' = rev + 1 /\ shown' = store
        /\ Fail(t) /\ UNCHANGED <<store, born, stamp, mode, engine>>
    BY DEF RollbackFails
  <1>2. configLock = t
    BY <1>1, HolderFacts DEF TxPcs
  <1>3. Data' /\ Grows
    BY <1>1, LockFacts, DataKeeps DEF Grows
  <1> QED
    BY <1>1, <1>2, <1>3, OverFacts, LockFacts, EndStep

LEMMA RemoveFailsKept ==
    ASSUME ConstantsOK, LockInv, NEW t \in Tasks, RemoveFails(t)
    PROVE  Kept
  <1>1. /\ tasks[t].pc = "remove" /\ tasks[t].op = "delete"
        /\ UNCHANGED <<store, born, stamp, mode, engine, rev, shown, broken>>
    BY DEF RemoveFails, At
  <1>2. /\ configLock = t /\ t # None
        /\ RuntimeInv /\ ~broken => Transaction(t)
        /\ RevisionInv /\ ~broken => shown = tasks[t].old
    BY <1>1, HolderFacts DEF TxPcs
  <1>3. RuntimeInv /\ ~broken =>
          /\ Matches(store)
          /\ tasks[t].tgt = None => store = tasks[t].old
          /\ tasks[t].tgt # None =>
                tasks[t].old.active = tasks[t].p /\ store.contents = tasks[t].old.contents
    BY <1>1, <1>2 DEF Transaction
  <1>4. Data' /\ Grows /\ SameEngine
    BY <1>1, LockFacts, Unmoved
  <1>5. CASE tasks[t].tgt # None /\ tasks[t].oldLoaded
    <2>1. Goto(t, "rollback") /\ configLock' = configLock /\ "rollback" \in Pcs
      BY <1>5 DEF RemoveFails, Pcs
    <2>2. /\ Only(t) /\ SameCall(t) /\ tasks'[t].pc = "rollback" /\ tasks'[t].exp = tasks[t].exp
      BY <2>1, LockFacts, GotoFacts DEF Steps, SameCall
    <2>3. Fits(tasks[t])' /\ Locked(t)' /\ Seen(t)'
      BY <1>1, <1>2, <2>1, <2>2, HolderLocked DEF TxPcs, OtherOps
    <2>4. RuntimeInv /\ ~broken => Transaction(t)'
      <3>1. tasks[t].p \in Profiles /\ None \notin Profiles
        BY <1>1, LockFacts DEF LockInv, Locked, TxPcs, PrepareOps
      <3>2. RuntimeInv /\ ~broken => Undoable(t)
        BY <1>1, <1>3, <1>5, <3>1 DEF Undoable, EditOps, OtherOps
      <3>3. Undoable(t)' <=> Undoable(t)
        BY <1>1, <1>4, <2>2, SameCallKeeps
      <3> QED
        BY <2>2, <3>2, <3>3 DEF Transaction, Reloading
    <2>5. RevisionInv /\ ~broken => shown' = tasks'[t].old
      BY <1>1, <1>2, <2>2 DEF SameCall
    <2> QED
      BY <1>1, <1>2, <1>4, <2>1, <2>2, <2>3, <2>4, <2>5, GoStep
  <1>6. CASE ~(tasks[t].tgt # None /\ tasks[t].oldLoaded)
    <2>1. Return(t) /\ (NoSilentChange => tasks[t].tgt = None)
      BY <1>6 DEF RemoveFails, NoSilentChange
    <2>2. Matches(store)' <=> Matches(store)
      BY <1>1 DEF Matches, Loaded
    <2> QED
      BY <1>1, <1>2, <1>3, <1>4, <2>1, <2>2, OverFacts, LockFacts, EndStep
  <1> QED
    BY <1>5, <1>6

-----------------------------------------------------------------------------
(* The synchronisation with the controller, and the native worker          *)

LEMMA SyncRouteKept ==
    ASSUME ConstantsOK, LockInv, NEW t \in Tasks, SyncRoute(t)
    PROVE  Kept
  <1> DEFINE p == store.active
  <1>1. /\ tasks[t].pc = "route" /\ tasks[t].op = "sync" /\ mode' = LiveMode
        /\ UNCHANGED <<born, stamp, engine, rev, shown, broken>>
    BY DEF SyncRoute, At
  <1>2. /\ configLock = t /\ t # None /\ Seen(t) /\ ~tasks[t].undo /\ ~tasks[t].oldLoaded
    BY <1>1, HolderFacts DEF TxPcs, Early, LockInv, Locked
  <1>3. /\ RuntimeInv /\ ~broken => Matches(store)
        /\ RevisionInv /\ ~broken => shown = store
    BY <1>1, <1>2 DEF RuntimeInv, RevisionInv, Transaction
  <1>4. mode' \in Modes
    BY <1>1, LockFacts DEF LiveMode, EngineRecs
  <1>5. CASE Return(t) /\ UNCHANGED store
    <2>1. Data' /\ Grows
      BY <1>1, <1>4, <1>5, LockFacts, DataKeeps DEF Grows
    <2>2. Matches(store) => Matches(store)'
      BY <1>1, <1>5 DEF Matches, Loaded
    <2> QED
      BY <1>1, <1>2, <1>3, <1>5, <2>1, <2>2, OverFacts, LockFacts, EndStep
  <1>6. CASE /\ p # None
             /\ store' = Edited(store, p, stamp)
             /\ tasks' = [tasks EXCEPT ![t].p = p, ![t].old = store, ![t].tgt = p,
                                       ![t].pc = "read"]
             /\ configLock' = configLock
    <2> DEFINE r == [tasks[t] EXCEPT !.p = p, !.old = store, !.tgt = p, !.pc = "read"]
    <2>1. /\ tasks \in [Tasks -> TaskRecs] /\ tasks[t] \in TaskRecs /\ store \in StoreRecs
          /\ "read" \in Pcs /\ p \in Profiles /\ p \in born /\ stamp \in Nat
      BY <1>6, LockFacts DEF Pcs, StoreRecs, Known
    <2>2. tasks' = [tasks EXCEPT ![t] = r]
      BY <1>6, <2>1
    <2> HIDE DEF p
    <2>3. /\ r \in TaskRecs /\ r.pc = "read" /\ r.p = p /\ r.old = store /\ r.tgt = p
          /\ r.oldLoaded = tasks[t].oldLoaded /\ r.undo = tasks[t].undo
          /\ r.op = tasks[t].op /\ r.exp = tasks[t].exp
      BY <2>1 DEF TaskRecs
    <2> HIDE DEF r
    <2>4. Only(t) /\ tasks'[t] = r
      BY <2>1, <2>2, <2>3 DEF Only
    <2>5. /\ store' \in StoreRecs /\ store'.active = store.active /\ Known(born, store')
          /\ \A q \in Profiles : q # p => store'.contents[q] = store.contents[q]
      BY <1>6, <2>1, LockFacts, EditedFacts
    <2>6. Data' /\ Grows
      BY <1>1, <1>4, <2>5, LockFacts DEF Data, Grows, Known
    <2>7. Fits(tasks[t])'
      BY <1>1, <2>1, <2>3, <2>4 DEF Fits
    <2>8. tasks'[t].old \in StoreRecs /\ Known(born, tasks[t].old)'
      BY <1>1, <2>3, <2>4, LockFacts DEF Known
    <2>9. Locked(t)'
      BY <1>1, <1>2, <1>6, <2>1, <2>3, <2>4, <2>8
         DEF Locked, TxPcs, Early, Reloading, EditOps, OtherOps, PrepareOps
    <2>10. Seen(t)'
      BY <1>1, <1>2, <2>3, <2>4 DEF Seen
    <2>11. ASSUME RuntimeInv, ~broken
           PROVE  Transaction(t)'
      <3>1. Matches(tasks[t].old)'
        BY <1>1, <1>3, <2>3, <2>4, <2>11 DEF Matches, Loaded
      <3>2. EditsActive(t)'
        BY <2>1, <2>3, <2>4, <2>5 DEF EditsActive, Differs, p
      <3>3. Forth(t)'
        BY <1>1, <2>1, <2>3, <2>4, <3>1, <3>2 DEF Forth, OtherOps, PrepareOps
      <3> QED
        BY <1>2, <2>3, <2>4, <3>3 DEF Transaction, Reloading
    <2>12. RevisionInv /\ ~broken => shown' = tasks'[t].old
      BY <1>1, <1>3, <2>3, <2>4
    <2> QED
      BY <1>1, <1>2, <1>6, <2>3, <2>4, <2>6, <2>7, <2>9, <2>10, <2>11, <2>12, GoStep
  <1> QED
    BY <1>5, <1>6 DEF SyncRoute

LEMMA NativeRestartKept ==
    ASSUME ConstantsOK, LockInv, NEW t \in Tasks, NativeRestart(t)
    PROVE  Kept
  <1>1. /\ tasks[t].pc = "native" /\ tasks[t].op = "sync" /\ configLock' = configLock
        /\ UNCHANGED <<store, born, stamp, mode, engine, rev, shown, broken>>
    BY DEF NativeRestart, LockInv, Locked
  <1>2. /\ configLock = t /\ t # None /\ Seen(t)
        /\ tasks[t].old \in StoreRecs /\ Known(born, tasks[t].old)
        /\ RuntimeInv /\ ~broken => Transaction(t)
        /\ RevisionInv /\ ~broken => shown = tasks[t].old
    BY <1>1, HolderFacts DEF TxPcs
  <1>3. RuntimeInv /\ ~broken => EditsActive(t) /\ Matches(store)
    BY <1>1, <1>2 DEF Transaction
  <1>4. Data' /\ Grows /\ SameEngine
    BY <1>1, LockFacts, Unmoved
  <1>5. CASE Goto(t, "finish")
    <2>1. /\ Only(t) /\ SameCall(t) /\ tasks'[t].pc = "finish" /\ tasks'[t].exp = tasks[t].exp
      <3>1. "finish" \in Pcs
        BY DEF Pcs
      <3> QED
        BY <1>5, <3>1, LockFacts, GotoFacts DEF Steps, SameCall
    <2>2. Fits(tasks[t])' /\ Locked(t)' /\ Seen(t)'
      BY <1>1, <1>2, <2>1, HolderLocked DEF TxPcs
    <2>3. RuntimeInv /\ ~broken => Transaction(t)'
      BY <1>1, <1>3, <1>4, <2>1, SameCallKeeps DEF Transaction, Reloading, SameCall, PrepareOps
    <2>4. RevisionInv /\ ~broken => shown' = tasks'[t].old
      BY <1>1, <1>2, <2>1 DEF SameCall
    <2> QED
      BY <1>1, <1>2, <1>4, <2>1, <2>2, <2>3, <2>4, GoStep
  <1>6. CASE tasks' = [tasks EXCEPT ![t].pc = "rollback", ![t].oldLoaded = TRUE]
    <2> DEFINE r == [tasks[t] EXCEPT !.pc = "rollback", !.oldLoaded = TRUE]
    <2>1. tasks \in [Tasks -> TaskRecs] /\ tasks[t] \in TaskRecs /\ "rollback" \in Pcs
      BY LockFacts DEF Pcs
    <2>2. tasks' = [tasks EXCEPT ![t] = r]
      BY <1>6, <2>1
    <2>3. /\ r \in TaskRecs /\ r.pc = "rollback" /\ r.p = tasks[t].p /\ r.old = tasks[t].old
          /\ r.tgt = tasks[t].tgt /\ r.op = tasks[t].op /\ r.exp = tasks[t].exp
      BY <2>1 DEF TaskRecs
    <2> HIDE DEF r
    <2>4. Only(t) /\ tasks'[t] = r
      BY <2>1, <2>2, <2>3 DEF Only
    <2>5. Fits(tasks[t])'
      BY <1>1, <2>3, <2>4, LockFacts, TaskOf DEF Fits
    <2>6. tasks'[t].old \in StoreRecs /\ Known(born, tasks[t].old)'
      BY <1>1, <1>2, <2>3, <2>4
    <2>7. tasks[t].op \in PrepareOps \/ tasks[t].p \in Profiles
      BY <1>1 DEF LockInv, Locked, TxPcs
    <2>8. Locked(t)'
      BY <1>1, <1>2, <2>3, <2>4, <2>6, <2>7
         DEF Locked, TxPcs, Early, Reloading, EditOps, PrepareOps
    <2>9. Seen(t)'
      BY <1>1, <1>2, <2>3, <2>4 DEF Seen
    <2>10. RuntimeInv /\ ~broken => Transaction(t)'
      <3>1. EditsActive(t)' <=> EditsActive(t)
        BY <1>1, <2>3, <2>4 DEF EditsActive, Differs
      <3>2. RuntimeInv /\ ~broken => Undoable(t)'
        BY <1>1, <1>3, <2>3, <2>4, <3>1 DEF Undoable, OtherOps
      <3> QED
        BY <2>3, <2>4, <3>2 DEF Transaction, Reloading
    <2>11. RevisionInv /\ ~broken => shown' = tasks'[t].old
      BY <1>1, <1>2, <2>3, <2>4
    <2> QED
      BY <1>1, <1>2, <1>4, <2>3, <2>4, <2>5, <2>8, <2>9, <2>10, <2>11, GoStep
  <1> QED
    BY <1>5, <1>6 DEF NativeRestart

-----------------------------------------------------------------------------
(* The last step of a transaction *)

LEMMA FinishKept ==
    ASSUME ConstantsOK, LockInv, NEW t \in Tasks, Finish(t)
    PROVE  Kept
  <1>1. /\ tasks[t].pc = "finish" /\ Return(t)
        /\ UNCHANGED <<store, born, stamp, mode, engine, broken>>
        /\ IF \/ tasks[t].op \in PrepareOps
              \/ tasks[t].op = "activate" /\ tasks[t].old.active = tasks[t].p
           THEN UNCHANGED <<rev, shown>> ELSE rev' = rev + 1 /\ shown' = store
    BY DEF Finish, PublishOther, PublishConfig, PrepareOps
  <1>2. CASE configLock # t
    <2>1. tasks[t].op \in PrepareOps
      BY <1>1, <1>2 DEF LockInv, Locked
    <2> QED
      BY <1>1, <1>2, <2>1, RefusedKept
  <1>3. CASE configLock = t
    <2>1. RuntimeInv /\ ~broken => Transaction(t)
      BY <1>3 DEF RuntimeInv, ConstantsOK
    <2>2. RuntimeInv /\ ~broken =>
            /\ Matches(store)
            /\ \/ tasks[t].op \in PrepareOps
               \/ tasks[t].op = "activate" /\ tasks[t].old.active = tasks[t].p
               => store = tasks[t].old
      BY <1>1, <2>1 DEF Transaction
    <2>3. RevisionInv /\ ~broken => shown = tasks[t].old
      BY <1>1, <1>3 DEF RevisionInv, ConstantsOK
    <2>4. Data' /\ Grows
      BY <1>1, LockFacts, DataKeeps DEF Grows
    <2>5. Matches(store)' <=> Matches(store)
      BY <1>1 DEF Matches, Loaded
    <2> QED
      BY <1>1, <1>3, <2>2, <2>3, <2>4, <2>5, OverFacts, LockFacts, EndStep
  <1> QED
    BY <1>2, <1>3

LEMMA RemoveKept ==
    ASSUME ConstantsOK, LockInv, NEW t \in Tasks, Remove(t)
    PROVE  Kept
  <1> DEFINE p == tasks[t].p
  <1>1. /\ tasks[t].pc = "remove" /\ tasks[t].op = "delete" /\ store' = Without(store, p)
        /\ IF store.active = p THEN engine' = NoEngine ELSE engine' = engine
        /\ rev' = rev + 1 /\ shown' = store' /\ Return(t)
        /\ UNCHANGED <<born, stamp, mode, broken>>
    BY DEF Remove, At, PublishConfig
  <1>2. configLock = t /\ (RuntimeInv /\ ~broken => Transaction(t)) /\ p \in Profiles
    BY <1>1, HolderFacts DEF TxPcs, LockInv, Locked, PrepareOps
  <1>3. RuntimeInv /\ ~broken => Matches(store)
    BY <1>1, <1>2 DEF Transaction
  <1> HIDE DEF p
  <1>4. /\ store' \in StoreRecs /\ Known(born, store')
        /\ store'.active = IF store.active = p THEN None ELSE store.active
        /\ \A q \in Profiles : q # p => store'.contents[q] = store.contents[q]
    BY <1>1, <1>2, LockFacts, WithoutFacts
  <1>5. NoEngine \in EngineRecs /\ NoEngine.profile = None
    BY DEF NoEngine, EngineRecs, Modes
  <1>6. Data' /\ Grows
    BY <1>1, <1>4, <1>5, LockFacts DEF Data, Grows, Known
  <1>7. RuntimeInv /\ ~broken => Matches(store)'
    <2>1. CASE store.active = p
      BY <1>1, <1>5, <2>1 DEF Matches, Loaded
    <2>2. CASE store.active # p
      <3>1. engine' = engine /\ store'.active = store.active /\ engine \in EngineRecs
        BY <1>1, <1>4, <2>2, LockFacts
      <3>2. Loaded => engine.profile \in Profiles
        BY <3>1 DEF Loaded, EngineRecs
      <3> QED
        BY <1>3, <1>4, <2>2, <3>1, <3>2 DEF Matches, Loaded
    <2> QED
      BY <2>1, <2>2
  <1> QED
    BY <1>1, <1>2, <1>6, <1>7, OverFacts, LockFacts, EndStep

LEMMA ManualCommitKept ==
    ASSUME ConstantsOK, LockInv, NEW t \in Tasks, ManualCommit(t)
    PROVE  Kept
  <1> DEFINE p == tasks[t].p
             c == tasks[t].content
             old == tasks[t].old
  <1>1. /\ tasks[t].pc = "manualCommit" /\ tasks[t].op = "manual" /\ store.active = p
        /\ store' = Edited(old, p, c)
        /\ engine' = IF Loaded THEN [engine EXCEPT !.content = c] ELSE engine
        /\ rev' = rev + 1 /\ shown' = store' /\ Return(t)
        /\ UNCHANGED <<born, stamp, mode, broken>>
    BY DEF ManualCommit, At, PublishConfig
  <1>2. /\ configLock = t /\ (RuntimeInv /\ ~broken => Transaction(t)) /\ p \in Profiles
        /\ old \in StoreRecs /\ Known(born, old)
    BY <1>1, HolderFacts DEF TxPcs, LockInv, Locked, PrepareOps
  <1>3. p \in born /\ c \in Nat
    BY <1>2, LockFacts, TaskOf DEF Fits
  <1>4. RuntimeInv /\ ~broken => store = old /\ Matches(store)
    BY <1>1, <1>2 DEF Transaction
  <1> HIDE DEF p, c, old
  <1>5. /\ store' \in StoreRecs /\ Known(born, store') /\ store'.active = old.active
        /\ store'.contents[p] = c
    BY <1>1, <1>2, <1>3, EditedFacts
  <1>6. /\ engine' \in EngineRecs /\ engine'.profile = engine.profile
        /\ Loaded => engine'.content = c
    BY <1>1, <1>3, LockFacts DEF EngineRecs
  <1>7. Data' /\ Grows
    BY <1>1, <1>5, <1>6, LockFacts DEF Data, Grows, Known
  <1>8. RuntimeInv /\ ~broken => Matches(store)'
    BY <1>1, <1>4, <1>5, <1>6 DEF Matches, Loaded
  <1> QED
    BY <1>1, <1>2, <1>7, <1>8, OverFacts, LockFacts, EndStep

LEMMA ManualEndsKept ==
    ASSUME ConstantsOK, LockInv, NEW t \in Tasks, ManualFails(t) \/ NativeRestore(t)
    PROVE  Kept
  <1>1. /\ tasks[t].pc \in {"manualCommit", "nativeAgain"} /\ Return(t)
        /\ UNCHANGED <<store, born, stamp, mode, engine, rev, shown, broken>>
    BY DEF ManualFails, NativeRestore, At, PublishOther
  <1>2. /\ configLock = t
        /\ RuntimeInv /\ ~broken => Transaction(t)
        /\ RevisionInv /\ ~broken => shown = tasks[t].old
    BY <1>1, HolderFacts DEF TxPcs
  <1>3. RuntimeInv /\ ~broken => store = tasks[t].old /\ Matches(store)
    BY <1>1, <1>2 DEF Transaction
  <1>4. Data' /\ Grows
    BY <1>1, LockFacts, Unmoved
  <1>5. Matches(store)' <=> Matches(store)
    BY <1>1 DEF Matches, Loaded
  <1> QED
    BY <1>1, <1>2, <1>3, <1>4, <1>5, OverFacts, LockFacts, EndStep

-----------------------------------------------------------------------------
(* Every step, and the beginning *)

LEMMA NextKept ==
    ASSUME ConstantsOK, LockInv, [Next]_vars
    PROVE  Kept
  <1>1. ASSUME NEW t \in Tasks, Begin(t) PROVE Kept
    BY <1>1, ReloadsKept, ImportPlainKept, EditsKept, DeleteKept, ManualKept, PrepareKept,
       SyncControllerKept, EarlyEndsKept, VpnConfigHalfKept DEF Begin
  <1>2. ASSUME NEW t \in Tasks, Progress(t) PROVE Kept
    BY <1>2, ReloadOnKept, ReloadInstallKept, ReloadFailsKept, RollbacksKept, RollbackFailsKept,
       FinishKept, RemoveKept, RemoveFailsKept, ManualCommitKept, ManualEndsKept, SyncRouteKept,
       NativeRestartKept DEF Progress
  <1>3. ASSUME NEW t \in Tasks, NEW op \in Kinds, NEW p \in Profiles \cup {None}, Request(t, op, p)
        PROVE  Kept
    BY <1>3, RequestKept
  <1>4. ASSUME NEW t \in Tasks, PrepareFails(t) \/ TakeVpnLock(t) PROVE Kept
    BY <1>4, EarlyEndsKept, TakeVpnLockKept
  <1>5. CASE SyncTick
    BY <1>5, SyncTickKept
  <1>6. ASSUME NEW m \in Modes, SetMode(m) \/ ControlSync(m) PROVE Kept
    BY <1>6, CallsKept
  <1>7. CASE UpdateSubscription \/ ExternalPatch \/ DelayTestUnfixes \/ Disconnect
    <2>1. "rule" \in Modes
      BY DEF Modes
    <2> QED
      BY <1>7, <2>1, CallsKept
  <1>8. ASSUME NEW p \in Profiles, RestoreBackup(p) PROVE Kept
    BY <1>8, RestoreBackupKept
  <1>9. CASE UNCHANGED vars
    <2>1. UNCHANGED <<store, born, stamp, mode, engine, rev, shown, tasks, configLock, broken>>
      BY <1>9 DEF vars
    <2>2. Data' /\ Grows /\ SameEngine
      BY <2>1, LockFacts, Unmoved
    <2> QED
      BY <2>1, <2>2, StillStep
  <1> QED
    BY <1>1, <1>2, <1>3, <1>4, <1>5, <1>6, <1>7, <1>8, <1>9 DEF Next

LEMMA InitKept ==
    ASSUME ConstantsOK, Init
    PROVE  LockInv /\ RuntimeInv /\ RevisionInv /\ ModeInv
  <1>1. PICK S \in SUBSET Profiles :
          /\ \E a \in IF S = {} THEN {None} ELSE S :
               store = [contents |-> [p \in Profiles |-> IF p \in S THEN 1 ELSE 0], active |-> a]
          /\ born = S /\ stamp = 1 /\ mode = "rule" /\ engine = NoEngine /\ rev = 0
          /\ shown = store /\ tasks = [t \in Tasks |-> NoTask] /\ configLock = None
          /\ broken = FALSE
    BY DEF Init
  <1>2. PICK a \in IF S = {} THEN {None} ELSE S :
          store = [contents |-> [p \in Profiles |-> IF p \in S THEN 1 ELSE 0], active |-> a]
    BY <1>1
  <1>3. /\ a \in Profiles \cup {None} /\ None \notin Profiles
        /\ a # None => a \in S
    BY <1>2 DEF ConstantsOK
  <1> DEFINE contents == [p \in Profiles |-> IF p \in S THEN 1 ELSE 0]
  <1>4. contents \in [Profiles -> Nat] /\ \A q \in Profiles : contents[q] # 0 => q \in S
    OBVIOUS
  <1>5. store = [contents |-> contents, active |-> a]
    BY <1>2
  <1> HIDE DEF contents
  <1>6. store \in StoreRecs /\ Known(born, store)
    BY <1>1, <1>3, <1>4, <1>5 DEF StoreRecs, Known
  <1>7. NoEngine \in EngineRecs /\ mode \in Modes /\ ~Loaded
    BY <1>1 DEF NoEngine, EngineRecs, Modes, Loaded
  <1>8. Data
    BY <1>1, <1>6, <1>7 DEF Data
  <1>9. tasks \in [Tasks -> TaskRecs] /\ \A t \in Tasks : tasks[t] = NoTask
    BY <1>1, NoTaskFacts
  <1>10. Types
    BY <1>1, <1>8, <1>9, NoTaskFacts DEF Types
  <1>11. ASSUME NEW t \in Tasks PROVE Locked(t) /\ Seen(t) /\ tasks[t].pc = "idle"
    <2>1. /\ tasks[t].pc = "idle" /\ tasks[t].exp = 0 /\ ~tasks[t].undo /\ ~tasks[t].oldLoaded
          /\ configLock # t
      BY <1>1, <1>9, NoTaskFacts DEF ConstantsOK
    <2>2. Locked(t)
      BY <2>1 DEF Locked, TxPcs, Early, Reloading
    <2>3. Seen(t)
      BY <1>1, <2>1 DEF Seen
    <2> QED
      BY <2>1, <2>2, <2>3
  <1> QED
    BY <1>1, <1>7, <1>10, <1>11 DEF LockInv, RuntimeInv, RevisionInv, ModeInv, Matches

LEMMA LockAlways ==
    ASSUME ConstantsOK
    PROVE  Spec => []LockInv
  <1>1. Init => LockInv
    BY InitKept
  <1>2. LockInv /\ [Next]_vars => LockInv'
    BY NextKept DEF Kept
  <1> QED
    BY <1>1, <1>2, PTL DEF Spec

(* Whatever failed on the way - the build of a configuration, the          *)
(* controller, the native worker, a write of the store, a deletion - the   *)
(* engine that runs between transactions was built from what the store     *)
(* holds of the active profile, unless Core reported a failed rollback.    *)
(* The one failure set aside is the second commit of the VPN page, which   *)
(* returns its error over the first one (observations of the README).      *)
THEOREM EngineRunsTheStore ==
    ASSUME ConstantsOK, WholeCommits
    PROVE  Spec => []RuntimeMatchesStore
  <1> DEFINE IInv == LockInv /\ RuntimeInv
  <1>1. Init => IInv
    BY InitKept
  <1>2. IInv /\ [Next]_vars => IInv'
    BY NextKept DEF Kept
  <1>3. IInv => RuntimeMatchesStore
    BY DEF RuntimeInv, RuntimeMatchesStore, Settled, Matches
  <1> HIDE DEF IInv
  <1> QED
    BY <1>1, <1>2, <1>3, PTL DEF Spec

-----------------------------------------------------------------------------
(* What a revision stands for *)

LEMMA RevisionStep ==
    ASSUME ConstantsOK, NoSilentChange
    PROVE  /\ Init => LockInv /\ RuntimeInv /\ RevisionInv
           /\ LockInv /\ RuntimeInv /\ RevisionInv /\ [Next]_vars
                => (LockInv /\ RuntimeInv /\ RevisionInv)'
  <1>1. WholeCommits
    BY DEF NoSilentChange
  <1> QED
    BY <1>1, InitKept, NextKept DEF Kept

(* Between transactions config_revision stands for one configuration: the  *)
(* store holds what it held when that revision was published, through      *)
(* every commit, failed reload and rollback.  Set aside are the failures   *)
(* and the delay test that the observations of the README show to change   *)
(* the store or the revision out of turn.                                  *)
THEOREM RevisionStands ==
    ASSUME ConstantsOK, NoSilentChange
    PROVE  Spec => []RevisionIdentifiesConfig
  <1> DEFINE IInv == LockInv /\ RuntimeInv /\ RevisionInv
  <1>1. Init => IInv
    BY RevisionStep
  <1>2. IInv /\ [Next]_vars => IInv'
    BY RevisionStep
  <1>3. IInv => RevisionIdentifiesConfig
    BY DEF RevisionInv, RevisionIdentifiesConfig, Settled
  <1> HIDE DEF IInv
  <1> QED
    BY <1>1, <1>2, <1>3, PTL DEF Spec

(* The operations that name the revision they were made for.               *)
CheckedOps == {"import", "refresh", "refreshActivate", "activate", "delete", "rules",
               "storeEdit", "edit", "vpnConfig"}

LEMMA TakesTheLock ==
    ASSUME ConstantsOK, LockInv, [Next]_vars, NEW t \in Tasks, configLock = None, configLock' = t,
           tasks[t].op \in CheckedOps
    PROVE  tasks[t].pc = "wait" /\ tasks[t].exp = rev
  <1>1. t # None
    BY DEF ConstantsOK
  <1>2. ASSUME NEW u \in Tasks, Fail(u) \/ Return(u) PROVE FALSE
    BY <1>1, <1>2 DEF Fail, Return
  <1>3. configLock' # configLock
    BY <1>1
  <1>4. ASSUME NEW u \in Tasks, Begin(u)
        PROVE  u = t /\ tasks[u].pc = "wait" /\ tasks[u].exp = rev
    <2>1. CASE \/ ImportPlain(u) \/ Reject(u) \/ MarkFailed(u) \/ VpnConfigHalf(u)
               \/ SyncControllerFails(u)
      BY <1>2, <2>1 DEF ImportPlain, Reject, MarkFailed, VpnConfigHalf, SyncControllerFails
    <2>2. CASE BeginManual(u) \/ BeginPrepare(u) \/ SyncController(u)
      <3>1. tasks[u].op \notin CheckedOps /\ configLock' \in {configLock, u}
        BY <2>2 DEF BeginManual, BeginPrepare, SyncController, Enter, At, CheckedOps
      <3> QED
        BY <1>3, <3>1
    <2>3. CASE BeginEdit(u)
      <3>1. /\ configLock' = u /\ tasks[u].pc = "wait"
            /\ tasks[u].op # "restore" => tasks[u].exp = rev
        BY <2>3 DEF BeginEdit, BeginWith, Enter, At, RevisionCurrent
      <3> QED
        BY <3>1 DEF CheckedOps
    <2>4. CASE \/ BeginImport(u) \/ BeginRefreshActivate(u) \/ BeginRefresh(u)
               \/ BeginActivate(u) \/ BeginDelete(u) \/ BeginRules(u) \/ BeginStoreEdit(u)
      BY <2>4 DEF BeginImport, BeginRefreshActivate, BeginRefresh, BeginActivate, BeginDelete,
                  BeginRules, BeginStoreEdit, BeginWith, Enter, At, RevisionCurrent
    <2> QED
      BY <1>4, <2>1, <2>2, <2>3, <2>4 DEF Begin
  <1>5. ASSUME NEW u \in Tasks, Progress(u) PROVE FALSE
    <2>1. CASE ReloadRead(u) \/ ReloadTake(u) \/ ReloadInstall(u) \/ ReloadFails(u)
      BY <1>2, <1>3, <2>1 DEF ReloadRead, ReloadTake, ReloadInstall, AfterReload, ReloadFails
    <2>2. ASSUME NEW s, NEW target, UndoWith(u, s, target) PROVE FALSE
      BY <1>2, <1>3, <2>2 DEF UndoWith
    <2>3. CASE \/ RollbackProfile(u) \/ RollbackStore(u) \/ RollbackStoreEdit(u)
               \/ RollbackActivation(u) \/ RollbackImport(u) \/ RollbackActivate(u)
               \/ RollbackDelete(u)
      BY <2>2, <2>3 DEF RollbackProfile, RollbackStore, RollbackStoreEdit, RollbackActivation,
                        RollbackImport, RollbackActivate, RollbackDelete
    <2>4. CASE \/ RollbackFails(u) \/ Finish(u) \/ Remove(u) \/ RemoveFails(u)
               \/ ManualCommit(u) \/ ManualFails(u) \/ SyncRoute(u) \/ NativeRestart(u)
               \/ NativeRestore(u)
      BY <1>2, <1>3, <2>4 DEF RollbackFails, Finish, Remove, RemoveFails, ManualCommit,
           ManualFails, SyncRoute, NativeRestart, NativeRestore
    <2> QED
      BY <1>5, <2>1, <2>3, <2>4 DEF Progress
  <1>6. ASSUME NEW u \in Tasks, PrepareFails(u) \/ TakeVpnLock(u) PROVE FALSE
    BY <1>2, <1>3, <1>6 DEF PrepareFails, TakeVpnLock
  <1> QED
    BY <1>3, <1>4, <1>5, <1>6
       DEF Next, vars, Request, SyncTick, SetMode, ControlSync, UpdateSubscription,
           ExternalPatch, DelayTestUnfixes, Disconnect, RestoreBackup

(* A transaction that names a revision commits over the configuration its  *)
(* caller saw and over no other: ensure_config_revision_locked under       *)
(* config_reload_lock excludes a lost update, whatever ran meanwhile.      *)
THEOREM NoLostUpdate ==
    ASSUME ConstantsOK, NoSilentChange
    PROVE  Spec => CommitsOverWhatWasSeen
  <1> DEFINE IInv == LockInv /\ RuntimeInv /\ RevisionInv
  <1>1. Init => IInv
    BY RevisionStep
  <1>2. IInv /\ [Next]_vars => IInv'
    BY RevisionStep
  <1>3. ASSUME IInv, [Next]_vars
        PROVE  CommitSawStore
    <2>1. SUFFICES ASSUME NEW t \in Tasks, ~broken, configLock = None, configLock' = t,
                          tasks[t].op \in CheckedOps
                   PROVE  store = tasks[t].seen
      BY DEF CommitSawStore, CheckedOps
    <2>2. tasks[t].pc = "wait" /\ tasks[t].exp = rev
      BY <1>3, <2>1, TakesTheLock
    <2>3. tasks[t].seen = shown
      BY <1>3, <2>1, <2>2 DEF LockInv, Seen, CheckedOps
    <2> QED
      BY <1>3, <2>1, <2>3 DEF RevisionInv
  <1>4. IInv /\ [Next]_vars => [CommitSawStore]_vars
    BY <1>3
  <1> HIDE DEF IInv
  <1> QED
    BY <1>1, <1>2, <1>4, PTL DEF Spec, CommitsOverWhatWasSeen

-----------------------------------------------------------------------------
(* The mode *)

(* A configuration that is under way was built in the present mode, or was *)
(* under way before.                                                       *)
Fresh(u) ==
    tasks'[u].pc \in {"take", "install"} =>
        \/ tasks[u].pc \in {"take", "install"} /\ tasks'[u].snap = tasks[u].snap
        \/ tasks'[u].snap.mode = mode

LEMMA EndFresh ==
    ASSUME LockInv, NEW t \in Tasks, NEW u \in Tasks, Fail(t) \/ Return(t)
    PROVE  Fresh(u)
  <1>1. Types /\ Over(t)
    BY OverFacts DEF LockInv
  <1> QED
    BY <1>1, NoTaskFacts DEF Over, Only, Fresh

LEMMA GotoFresh ==
    ASSUME LockInv, NEW t \in Tasks, NEW u \in Tasks, NEW pc \in Pcs, Goto(t, pc),
           pc = "install" => tasks[t].pc = "take", pc # "take"
    PROVE  Fresh(u)
  <1>1. /\ Steps(t, pc, tasks[t].p, tasks[t].old, tasks[t].tgt, tasks[t].oldLoaded, tasks[t].undo)
        /\ tasks'[t].snap = tasks[t].snap
    BY GotoFacts DEF LockInv
  <1> QED
    BY <1>1 DEF Steps, Only, Fresh

LEMMA BeginFresh ==
    ASSUME ConstantsOK, LockInv, NEW t \in Tasks, Begin(t), NEW u \in Tasks
    PROVE  Fresh(u)
  <1>1. tasks \in [Tasks -> TaskRecs] /\ tasks[t] \in TaskRecs
    BY LockFacts
  <1>2. ASSUME NEW p, NEW s, NEW target, BeginWith(t, p, s, target) PROVE Fresh(u)
    BY <1>1, <1>2 DEF BeginWith, Fresh, TaskRecs
  <1>3. CASE \/ BeginImport(t) \/ BeginRefreshActivate(t) \/ BeginRefresh(t) \/ BeginActivate(t)
             \/ BeginRules(t) \/ BeginStoreEdit(t) \/ BeginEdit(t)
    BY <1>2, <1>3 DEF BeginImport, BeginRefreshActivate, BeginRefresh, BeginActivate, BeginRules,
                      BeginStoreEdit, BeginEdit
  <1>4. CASE \/ ImportPlain(t) \/ Reject(t) \/ MarkFailed(t) \/ VpnConfigHalf(t)
             \/ SyncControllerFails(t)
    BY <1>4, EndFresh DEF ImportPlain, Reject, MarkFailed, VpnConfigHalf, SyncControllerFails
  <1>5. CASE BeginDelete(t)
    BY <1>1, <1>5 DEF BeginDelete, Fresh, TaskRecs
  <1>6. CASE BeginManual(t)
    BY <1>1, <1>6 DEF BeginManual, Fresh, TaskRecs
  <1>7. CASE BeginPrepare(t)
    <2>1. CASE Goto(t, "finish")
      BY <2>1, GotoFresh DEF Pcs
    <2>2. CASE tasks' = [tasks EXCEPT ![t].old = store, ![t].tgt = store.active, ![t].pc = "read"]
      BY <1>1, <2>2 DEF Fresh, TaskRecs
    <2> QED
      BY <1>7, <2>1, <2>2 DEF BeginPrepare
  <1>8. CASE SyncController(t)
    BY <1>8, GotoFresh DEF SyncController, Pcs
  <1> QED
    BY <1>3, <1>4, <1>5, <1>6, <1>7, <1>8 DEF Begin

LEMMA ProgressFresh ==
    ASSUME ConstantsOK, LockInv, NEW t \in Tasks, Progress(t), NEW u \in Tasks
    PROVE  Fresh(u)
  <1>1. tasks \in [Tasks -> TaskRecs] /\ tasks[t] \in TaskRecs
    BY LockFacts
  <1>2. CASE ReloadRead(t)
    <2> DEFINE snap == [content |-> store.contents[tasks[t].tgt], mode |-> mode, rev |-> rev]
    <2>1. tasks' = [tasks EXCEPT ![t].pc = "take", ![t].snap = snap] /\ snap.mode = mode
      BY <1>2 DEF ReloadRead
    <2> HIDE DEF snap
    <2> QED
      BY <1>1, <2>1 DEF Fresh, TaskRecs
  <1>3. CASE ReloadTake(t)
    BY <1>3, GotoFresh DEF ReloadTake, Pcs
  <1>4. CASE ReloadInstall(t)
    <2>1. \/ Fail(t)
          \/ \E pc \in {"finish", "remove", "native", "nativeAgain"} : Goto(t, pc)
      BY <1>4 DEF ReloadInstall, AfterReload
    <2> QED
      BY <2>1, EndFresh, GotoFresh DEF Pcs
  <1>5. CASE ReloadFails(t) \/ RemoveFails(t)
    <2>1. Fail(t) \/ Return(t) \/ Goto(t, "rollback")
      BY <1>5 DEF ReloadFails, RemoveFails
    <2> QED
      BY <2>1, EndFresh, GotoFresh DEF Pcs
  <1>6. ASSUME NEW s, NEW target, UndoWith(t, s, target) PROVE Fresh(u)
    <2>1. CASE Fail(t)
      BY <2>1, EndFresh
    <2>2. CASE tasks' = [tasks EXCEPT ![t].undo = TRUE, ![t].tgt = target, ![t].pc = "read"]
      BY <1>1, <2>2 DEF Fresh, TaskRecs
    <2> QED
      BY <1>6, <2>1, <2>2 DEF UndoWith
  <1>7. CASE \/ RollbackProfile(t) \/ RollbackStore(t) \/ RollbackStoreEdit(t)
             \/ RollbackActivation(t) \/ RollbackImport(t) \/ RollbackActivate(t)
             \/ RollbackDelete(t)
    BY <1>6, <1>7 DEF RollbackProfile, RollbackStore, RollbackStoreEdit, RollbackActivation,
                      RollbackImport, RollbackActivate, RollbackDelete
  <1>8. CASE \/ RollbackFails(t) \/ Finish(t) \/ Remove(t) \/ ManualCommit(t) \/ ManualFails(t)
             \/ NativeRestore(t)
    BY <1>8, EndFresh DEF RollbackFails, Finish, Remove, ManualCommit, ManualFails, NativeRestore
  <1>9. CASE SyncRoute(t)
    <2>1. CASE Return(t)
      BY <2>1, EndFresh
    <2>2. CASE tasks' = [tasks EXCEPT ![t].p = store.active, ![t].old = store,
                                      ![t].tgt = store.active, ![t].pc = "read"]
      BY <1>1, <2>2 DEF Fresh, TaskRecs
    <2> QED
      BY <1>9, <2>1, <2>2 DEF SyncRoute
  <1>10. CASE NativeRestart(t)
    <2>1. CASE Goto(t, "finish")
      BY <2>1, GotoFresh DEF Pcs
    <2>2. CASE tasks' = [tasks EXCEPT ![t].pc = "rollback", ![t].oldLoaded = TRUE]
      BY <1>1, <2>2 DEF Fresh, TaskRecs
    <2> QED
      BY <1>10, <2>1, <2>2 DEF NativeRestart
  <1> QED
    BY <1>2, <1>3, <1>4, <1>5, <1>7, <1>8, <1>9, <1>10 DEF Progress

(* What touches neither the engine nor the mode.                           *)
LEMMA SameMode ==
    ASSUME ModeInv, UNCHANGED <<engine, mode>>, \A u \in Tasks : Fresh(u)
    PROVE  ModeInv'
  BY DEF ModeInv, Fresh, Loaded

LEMMA ModeStep ==
    ASSUME ConstantsOK, NoPeerMode, LockInv, ModeInv, [Next]_vars
    PROVE  ModeInv'
  <1>1. engine \in EngineRecs /\ tasks \in [Tasks -> TaskRecs]
    BY LockFacts
  <1>2. tasks' = tasks => \A u \in Tasks : Fresh(u)
    BY DEF Fresh
  <1>3. ASSUME NEW t \in Tasks, Begin(t) PROVE ModeInv'
    <2>1. UNCHANGED <<engine, mode>>
      BY <1>3 DEF Begin, BeginImport, ImportPlain, BeginRefreshActivate, BeginRefresh,
           BeginActivate, BeginDelete, BeginRules, BeginStoreEdit, BeginEdit, BeginManual,
           BeginPrepare, SyncController, Reject, MarkFailed, VpnConfigHalf, SyncControllerFails,
           BeginWith
    <2> QED
      BY <1>3, <2>1, BeginFresh, SameMode
  <1>4. ASSUME NEW t \in Tasks, Progress(t) PROVE ModeInv'
    <2>1. \A u \in Tasks : Fresh(u)
      BY <1>4, ProgressFresh
    <2>2. CASE ReloadInstall(t)
      <3>1. /\ engine'.mode = tasks[t].snap.mode /\ tasks[t].pc = "install" /\ mode' = mode
        BY <2>2 DEF ReloadInstall
      <3>2. engine'.mode = mode'
        BY <3>1 DEF ModeInv
      <3> QED
        BY <2>1, <3>1, <3>2 DEF ModeInv, Fresh
    <2>3. CASE SyncRoute(t)
      <3>1. engine' = engine /\ mode' = mode
        BY <2>3 DEF SyncRoute, LiveMode, ModeInv
      <3> QED
        BY <2>1, <3>1, SameMode
    <2>4. CASE Remove(t) \/ ManualCommit(t)
      <3>1. mode' = mode /\ (Loaded' => Loaded /\ engine'.mode = engine.mode)
        BY <1>1, <2>4 DEF Remove, ManualCommit, Loaded, NoEngine, EngineRecs
      <3> QED
        BY <2>1, <3>1 DEF ModeInv, Fresh
    <2>5. CASE ~(ReloadInstall(t) \/ SyncRoute(t) \/ Remove(t) \/ ManualCommit(t))
      <3>1. UNCHANGED <<engine, mode>>
        BY <1>4, <2>5 DEF Progress, ReloadRead, ReloadTake, ReloadFails, RollbackProfile,
             RollbackStore, RollbackStoreEdit, RollbackActivation, RollbackImport,
             RollbackActivate, RollbackDelete, UndoWith, RollbackFails, Finish, RemoveFails,
             ManualFails, NativeRestart, NativeRestore
      <3> QED
        BY <2>1, <3>1, SameMode
    <2> QED
      BY <2>2, <2>3, <2>4, <2>5
  <1>5. ASSUME NEW t \in Tasks, NEW op \in Kinds, NEW p \in Profiles \cup {None}, Request(t, op, p)
        PROVE  ModeInv'
    <2> DEFINE r == [NoTask EXCEPT !.op = op, !.p = p, !.exp = rev, !.seen = shown,
                                   !.content = stamp + 1,
                                   !.pc = IF op = "startVpn" THEN "vpnWait" ELSE "wait"]
    <2>1. tasks' = [tasks EXCEPT ![t] = r] /\ UNCHANGED <<engine, mode>>
      BY <1>5 DEF Request
    <2>2. r.pc \notin {"take", "install"}
      BY DEF NoTask
    <2> HIDE DEF r
    <2> QED
      BY <1>1, <2>1, <2>2, SameMode DEF Fresh
  <1>6. ASSUME NEW t \in Tasks, PrepareFails(t) \/ TakeVpnLock(t) PROVE ModeInv'
    <2>1. CASE PrepareFails(t)
      BY <2>1, EndFresh, SameMode DEF PrepareFails
    <2>2. CASE TakeVpnLock(t)
      BY <2>2, GotoFresh, SameMode DEF TakeVpnLock, Pcs
    <2> QED
      BY <1>6, <2>1, <2>2
  <1>7. CASE SyncTick
    <2>1. /\ tasks' = [tasks EXCEPT ![SyncLoop].op = "sync", ![SyncLoop].pc = "vpnWait"]
          /\ SyncLoop \in Tasks /\ UNCHANGED <<engine, mode>>
      BY <1>7 DEF SyncTick, ConstantsOK
    <2>2. \A u \in Tasks : Fresh(u)
      BY <1>1, <2>1 DEF Fresh, TaskRecs
    <2> QED
      BY <2>1, <2>2, SameMode
  <1>8. ASSUME NEW m \in Modes, SetMode(m) \/ ControlSync(m) PROVE ModeInv'
    <2>1. /\ configLock = None /\ tasks' = tasks /\ mode' = m
          /\ engine' = IF Loaded THEN [engine EXCEPT !.mode = m] ELSE engine
      BY <1>8 DEF SetMode, ControlSync, TryConfigTransaction, NoPeerMode
    <2>2. \A u \in Tasks : tasks'[u].pc \notin {"take", "install"}
      BY <2>1 DEF LockInv, Locked, TxPcs, ConstantsOK
    <2>3. Loaded' => engine'.mode = m
      BY <1>1, <2>1 DEF EngineRecs, Loaded
    <2> QED
      BY <2>1, <2>2, <2>3 DEF ModeInv
  <1>9. CASE \/ UpdateSubscription \/ ExternalPatch \/ DelayTestUnfixes \/ Disconnect
             \/ \E p \in Profiles : RestoreBackup(p)
    BY <1>2, <1>9, SameMode DEF UpdateSubscription, ExternalPatch, DelayTestUnfixes, Disconnect,
                                RestoreBackup
  <1>10. CASE UNCHANGED vars
    BY <1>2, <1>10, SameMode DEF vars
  <1> QED
    BY <1>3, <1>4, <1>5, <1>6, <1>7, <1>8, <1>9, <1>10 DEF Next

(* Between transactions the tunnel routes in the mode that Core reports: a *)
(* change of mode waits for the reload that is under way, and the reload   *)
(* installs the mode it was built in.  Set aside is the mode that a        *)
(* control frame of the peer applies in the middle of a reload             *)
(* (observations of the README).                                           *)
THEOREM ModeIsApplied ==
    ASSUME ConstantsOK, NoPeerMode
    PROVE  Spec => []ModeApplied
  <1> DEFINE IInv == LockInv /\ ModeInv
  <1>1. Init => IInv
    BY InitKept
  <1>2. IInv /\ [Next]_vars => IInv'
    BY NextKept, ModeStep DEF Kept
  <1>3. IInv => ModeApplied
    BY DEF ModeInv, ModeApplied
  <1> HIDE DEF IInv
  <1> QED
    BY <1>1, <1>2, <1>3, PTL DEF Spec

-----------------------------------------------------------------------------
(* Operations on proxies and providers.                                    *)

CONSTANTS Callers, Nodes, Providers, InlineProviders, RuleProviders, MaxCalls, MaxCommits,
          MaxTurns

VARIABLES config_revision, opActive, sequences, provider_refresh, opSaved,
          opController, opSystem, opLocked, opTask, opShown, opLeft

Ops == INSTANCE ResourceOperations WITH
    Tasks <- Callers, active <- opActive, saved <- opSaved, controller <- opController,
    system <- opSystem, locked <- opLocked, task <- opTask, shown <- opShown,
    left <- opLeft

OpRecs == [at : Ops!Places, op : Ops!Operations \cup {None},
           outer : Ops!Operations \cup {None}, batch : Ops!Batches \cup {"idle"},
           todo : SUBSET (Nodes \cup Providers), profile : Profiles \cup {None},
           seen : Nat, from : Nat]

OpData ==
    /\ config_revision \in Nat /\ opActive \in Profiles
    /\ opSaved \in [Profiles -> {"pinned", "auto"}]
    /\ sequences \in [Ops!Keys -> Nat]
    /\ opShown \in [Ops!Keys -> [seq : Nat, rev : Nat]]
    /\ opLocked \in Callers \cup {None}

(* An operation is live while its outcome may still be recorded.  Those    *)
(* that are going to reload or to save remember the profile.               *)
LivePlaces == Ops!Asking
Bearing == {"askingGroup", "inline", "unserved", "putting"} \cup Ops!Reloads
Live(t) == opTask[t].at \in LivePlaces

(* What holds of an operation by itself; of its profile: while no other    *)
(* configuration was committed it is the active one.                       *)
SoundIn(r, seqs, now, records, active) ==
    /\ r.at \in LivePlaces \cup Bearing =>
           /\ r.op \in Ops!Operations
           /\ r.op.seq <= seqs[r.op.key] /\ r.op.rev <= now
    /\ r.at \in LivePlaces => records[r.op.key].seq # r.op.seq
    /\ r.at \in Bearing =>
           /\ r.profile \in Profiles
           /\ r.op.rev = now => r.profile = active
    /\ r.at = "reloading" => r.seen = r.from

Sound(r) == SoundIn(r, sequences, config_revision, opShown, opActive)

OpInv ==
    /\ OpData /\ opTask \in [Callers -> OpRecs]
    /\ \A k \in Ops!Keys : opShown[k].seq <= sequences[k]
    /\ \A t \in Callers : Sound(opTask[t])
    /\ \A t, u \in Callers :
           t # u /\ Live(t) /\ Live(u) /\ opTask[t].op.key = opTask[u].op.key
               => opTask[t].op.seq # opTask[u].op.seq

(* What others do leaves an operation sound, unless they record its number.*)
LEMMA SoundStays ==
    ASSUME OpInv, NEW u \in Callers, config_revision' >= config_revision, OpData',
           opActive' = opActive \/ config_revision' > config_revision,
           \A k \in Ops!Keys : sequences'[k] >= sequences[k],
           Live(u) => opShown'[opTask[u].op.key].seq # opTask[u].op.seq
    PROVE  SoundIn(opTask[u], sequences', config_revision', opShown', opActive')
  <1>1. Sound(opTask[u])
    BY DEF OpInv
  <1>2. CASE opTask[u].at \in LivePlaces \cup Bearing
    <2>1. /\ opTask[u].op \in Ops!Operations /\ opTask[u].op.key \in Ops!Keys
          /\ opTask[u].op.seq \in Nat /\ opTask[u].op.rev \in Nat
      BY <1>1, <1>2 DEF Sound, SoundIn, Ops!Operations
    <2>2. opTask[u].op.seq <= sequences'[opTask[u].op.key]
      BY <1>1, <1>2, <2>1 DEF Sound, SoundIn, OpData, OpInv
    <2>3. opTask[u].op.rev <= config_revision'
      BY <1>1, <1>2, <2>1 DEF Sound, SoundIn, OpData, OpInv
    <2>4. opTask[u].op.rev = config_revision' => config_revision' = config_revision
      BY <1>1, <1>2, <2>1 DEF Sound, SoundIn, OpData, OpInv
    <2>5. opTask[u].at \in LivePlaces => opShown'[opTask[u].op.key].seq # opTask[u].op.seq
      BY DEF Live
    <2>6. config_revision' = config_revision => opActive' = opActive
      BY DEF OpInv, OpData
    <2> QED
      BY <1>1, <1>2, <2>1, <2>2, <2>3, <2>4, <2>5, <2>6
         DEF Sound, SoundIn, LivePlaces, Bearing
  <1>3. CASE opTask[u].at \notin LivePlaces \cup Bearing
    BY <1>1, <1>3 DEF Sound, SoundIn, Bearing, Ops!Reloads
  <1> QED
    BY <1>2, <1>3

(* A step of no task.                                                      *)
LEMMA OpBeside ==
    ASSUME OpInv, UNCHANGED <<opTask, opShown>>, OpData',
           config_revision' >= config_revision,
           opActive' = opActive \/ config_revision' > config_revision,
           \A k \in Ops!Keys : sequences'[k] >= sequences[k]
    PROVE  OpInv'
  <1>1. \A u \in Callers : Live(u) => opShown'[opTask[u].op.key].seq # opTask[u].op.seq
    BY DEF OpInv, Sound, SoundIn, Live
  <1>2. \A u \in Callers : Sound(opTask[u])'
    BY <1>1, SoundStays DEF Sound
  <1>3. \A k \in Ops!Keys : opShown'[k].seq <= sequences'[k]
    BY DEF OpInv, OpData
  <1> QED
    BY <1>2, <1>3 DEF OpInv, Live

(* A step of t, to the record r.                                           *)
LEMMA OpStep ==
    ASSUME OpInv, NEW t \in Callers, NEW r \in OpRecs,
           opTask' = [opTask EXCEPT ![t] = r], OpData',
           config_revision' >= config_revision,
           opActive' = opActive \/ config_revision' > config_revision,
           \A k \in Ops!Keys : sequences'[k] >= sequences[k] /\ opShown'[k].seq <= sequences'[k],
           \A u \in Callers : u # t /\ Live(u) => opShown'[opTask[u].op.key].seq # opTask[u].op.seq,
           SoundIn(r, sequences', config_revision', opShown', opActive'),
           \A u \in Callers : /\ u # t /\ Live(u) /\ r.at \in LivePlaces
                            /\ r.op.key = opTask[u].op.key
                            => r.op.seq # opTask[u].op.seq
    PROVE  OpInv'
  <1>1. /\ opTask \in [Callers -> OpRecs] /\ opTask' \in [Callers -> OpRecs]
        /\ opTask'[t] = r /\ \A u \in Callers : u # t => opTask'[u] = opTask[u]
    BY DEF OpInv
  <1>2. ASSUME NEW u \in Callers, u # t PROVE Sound(opTask[u])'
    BY <1>1, <1>2, SoundStays DEF Sound
  <1>3. ASSUME NEW u \in Callers, NEW v \in Callers, u # v, Live(u)', Live(v)',
               opTask'[u].op.key = opTask'[v].op.key
        PROVE  opTask'[u].op.seq # opTask'[v].op.seq
    BY <1>1, <1>3 DEF OpInv, Live
  <1> QED
    BY <1>1, <1>2, <1>3 DEF OpInv, OpData, Sound

(* t takes the next number of a key.                                       *)
LEMMA OpBegins ==
    ASSUME OpInv, NEW t \in Callers, NEW k \in Ops!Keys, NEW r \in OpRecs,
           opTask' = [opTask EXCEPT ![t] = r], Ops!Count(k),
           r.at \in LivePlaces, r.op = Ops!Taken(k), r.at \in Bearing => r.profile = opActive,
           UNCHANGED <<config_revision, opActive, opSaved, opLocked, opShown>>
    PROVE  OpInv'
  <1>1. /\ sequences \in [Ops!Keys -> Nat] /\ config_revision \in Nat
        /\ sequences' = [sequences EXCEPT ![k] = sequences[k] + 1]
        /\ r.op.key = k /\ r.op.seq = sequences[k] + 1 /\ r.op.rev = config_revision
        /\ r.op \in Ops!Operations
    BY DEF Ops!Count, Ops!Taken, OpInv, OpData, Ops!Operations
  <1>2. /\ sequences' \in [Ops!Keys -> Nat] /\ sequences'[k] = sequences[k] + 1
        /\ \A j \in Ops!Keys : sequences'[j] >= sequences[j]
    BY <1>1
  <1>3. \A j \in Ops!Keys : opShown[j].seq \in Nat /\ opShown[j].seq <= sequences[j]
    BY DEF OpInv, OpData
  <1>4. OpData'
    BY <1>2 DEF OpInv, OpData
  <1>5. \A u \in Callers : Live(u) => /\ opTask[u].op.key \in Ops!Keys /\ opTask[u].op.seq \in Nat
                                    /\ opTask[u].op.seq <= sequences[opTask[u].op.key]
                                    /\ opShown[opTask[u].op.key].seq # opTask[u].op.seq
    BY DEF OpInv, Sound, SoundIn, Live, Ops!Operations
  <1>6. \A u \in Callers : Live(u) /\ r.op.key = opTask[u].op.key => r.op.seq # opTask[u].op.seq
    BY <1>1, <1>5
  <1>7. r.at # "reloading"
    BY DEF LivePlaces, Ops!Asking
  <1>8. opShown[k].seq # sequences[k] + 1
    BY <1>1, <1>3
  <1>9. r.op.seq <= sequences'[r.op.key] /\ r.op.rev <= config_revision'
    BY <1>1, <1>2
  <1>a. opActive \in Profiles
    BY DEF OpInv, OpData
  <1>b. SoundIn(r, sequences', config_revision', opShown', opActive')
    BY <1>1, <1>7, <1>8, <1>9, <1>a DEF Sound, SoundIn
  <1>c. \A j \in Ops!Keys : opShown'[j].seq <= sequences'[j]
    BY <1>1, <1>2, <1>3
  <1>d. config_revision' >= config_revision /\ opActive' = opActive
    BY <1>1
  <1>e. \A u \in Callers : Live(u) => opShown'[opTask[u].op.key].seq # opTask[u].op.seq
    BY <1>5
  <1> QED
    BY <1>2, <1>4, <1>6, <1>b, <1>c, <1>d, <1>e, OpStep

(* The outcome of t is recorded, or nothing is.                            *)
Recorded(t) ==
    \/ UNCHANGED opShown
    \/ Live(t) /\ Ops!Current(opTask[t].op) /\ Ops!Record(opTask[t].op)

LEMMA RecordedFacts ==
    ASSUME OpInv, NEW t \in Callers, Recorded(t)
    PROVE  /\ opShown' \in [Ops!Keys -> [seq : Nat, rev : Nat]]
           /\ \A k \in Ops!Keys :
                  /\ opShown'[k].seq <= sequences[k]
                  /\ opShown'[k] # opShown[k] =>
                         /\ opShown'[k].seq > opShown[k].seq /\ opShown'[k].seq = sequences[k]
                         /\ opShown'[k].rev = config_revision
           /\ \A u \in Callers : u # t /\ Live(u)
                                   => opShown'[opTask[u].op.key].seq # opTask[u].op.seq
  <1>1. /\ opShown \in [Ops!Keys -> [seq : Nat, rev : Nat]] /\ sequences \in [Ops!Keys -> Nat]
        /\ \A k \in Ops!Keys : opShown[k].seq <= sequences[k] /\ opShown[k].seq \in Nat
        /\ \A u \in Callers : Live(u) => /\ opShown[opTask[u].op.key].seq # opTask[u].op.seq
                                       /\ opTask[u].op \in Ops!Operations
    BY DEF OpInv, OpData, Sound, SoundIn, Live
  <1>2. CASE UNCHANGED opShown
    BY <1>1, <1>2
  <1>3. CASE Live(t) /\ Ops!Current(opTask[t].op) /\ Ops!Record(opTask[t].op)
    <2> DEFINE op == opTask[t].op
               new == [seq |-> op.seq, rev |-> op.rev]
    <2>1. /\ op.key \in Ops!Keys /\ op.seq \in Nat /\ op.rev \in Nat
          /\ op.seq = sequences[op.key] /\ op.rev = config_revision
          /\ opShown[op.key].seq # op.seq
      BY <1>1, <1>3 DEF Ops!Operations, Ops!Current
    <2>2. new \in [seq : Nat, rev : Nat] /\ new.seq = op.seq /\ new.rev = op.rev
      BY <2>1
    <2>3. opShown' = [opShown EXCEPT ![op.key] = new]
      BY <1>3 DEF Ops!Record
    <2> HIDE DEF new
    <2>4. /\ opShown' \in [Ops!Keys -> [seq : Nat, rev : Nat]] /\ opShown'[op.key] = new
          /\ \A k \in Ops!Keys : k # op.key => opShown'[k] = opShown[k]
      BY <1>1, <2>1, <2>2, <2>3
    <2>5. opShown[op.key].seq < op.seq
      BY <1>1, <2>1
    <2>6. ASSUME NEW u \in Callers, u # t, Live(u)
          PROVE  opShown'[opTask[u].op.key].seq # opTask[u].op.seq
      <3>1. opTask[u].op.key = op.key => opTask[u].op.seq # op.seq
        BY <1>3, <2>6 DEF OpInv
      <3>2. opTask[u].op.key \in Ops!Keys
        BY <1>1, <2>6 DEF Ops!Operations
      <3> QED
        BY <1>1, <2>2, <2>4, <2>6, <3>1, <3>2
    <2>7. \A k \in Ops!Keys :
              /\ opShown'[k].seq <= sequences[k]
              /\ opShown'[k] # opShown[k] =>
                     /\ opShown'[k].seq > opShown[k].seq /\ opShown'[k].seq = sequences[k]
                     /\ opShown'[k].rev = config_revision
      BY <1>1, <2>1, <2>2, <2>4, <2>5
    <2> QED
      BY <2>4, <2>6, <2>7
  <1> QED
    BY <1>2, <1>3 DEF Recorded

(* The operation of t is over; the configuration may have changed.         *)
LEMMA OpEnds ==
    ASSUME OpInv, NEW t \in Callers, NEW r \in OpRecs,
           opTask' = [opTask EXCEPT ![t] = r], r.at \notin LivePlaces \cup Bearing,
           Recorded(t), UNCHANGED sequences,
           config_revision' \in Nat, config_revision' >= config_revision,
           opActive' \in Profiles, opActive' = opActive \/ config_revision' > config_revision,
           opSaved' \in [Profiles -> {"pinned", "auto"}], opLocked' \in Callers \cup {None}
    PROVE  OpInv'
  <1>1. sequences \in [Ops!Keys -> Nat]
    BY DEF OpInv, OpData
  <1>2. OpData'
    BY <1>1, RecordedFacts DEF OpData
  <1>3. SoundIn(r, sequences', config_revision', opShown', opActive')
    BY DEF Sound, SoundIn, LivePlaces, Bearing, Ops!Reloads
  <1>4. \A k \in Ops!Keys : sequences'[k] >= sequences[k] /\ opShown'[k].seq <= sequences'[k]
    BY <1>1, RecordedFacts
  <1>5. \A u \in Callers : u # t /\ Live(u) => opShown'[opTask[u].op.key].seq # opTask[u].op.seq
    BY RecordedFacts
  <1> QED
    BY <1>2, <1>3, <1>4, <1>5, OpStep

(* The operation of t goes on to a reload, or is probed locally.           *)
LEMMA OpMoves ==
    ASSUME OpInv, NEW t \in Callers, NEW r \in OpRecs,
           opTask' = [opTask EXCEPT ![t] = r],
           r.op = opTask[t].op, r.profile = opTask[t].profile,
           r.at = "local" => opTask[t].at = "asking" /\ UNCHANGED opShown,
           r.at # "local" => r.at \in Ops!Reloads /\ opTask[t].at \in Bearing,
           r.at = "reloading" => r.seen = r.from,
           Recorded(t), UNCHANGED <<config_revision, opActive, opSaved, sequences>>,
           opLocked' \in Callers \cup {None}
    PROVE  OpInv'
  <1>1. sequences \in [Ops!Keys -> Nat]
    BY DEF OpInv, OpData
  <1>2. OpData'
    BY <1>1, RecordedFacts DEF OpInv, OpData
  <1>3. Sound(opTask[t])
    BY DEF OpInv
  <1>r. /\ config_revision' >= config_revision /\ opActive' = opActive
        /\ \A k \in Ops!Keys : sequences'[k] >= sequences[k] /\ opShown'[k].seq <= sequences'[k]
        /\ \A u \in Callers : u # t /\ Live(u)
                                => opShown'[opTask[u].op.key].seq # opTask[u].op.seq
    BY <1>1, RecordedFacts DEF OpInv, OpData
  <1>4. CASE r.at = "local"
    <2>1. Live(t) /\ "local" \notin Bearing /\ "local" \in LivePlaces
      BY <1>4 DEF Live, LivePlaces, Ops!Asking, Bearing, Ops!Reloads
    <2>2. SoundIn(r, sequences', config_revision', opShown', opActive')
      BY <1>3, <1>4, <2>1 DEF Sound, SoundIn, Live
    <2>3. \A u \in Callers : u # t /\ Live(u) /\ r.op.key = opTask[u].op.key
                           => r.op.seq # opTask[u].op.seq
      BY <2>1 DEF OpInv
    <2> QED
      BY <1>2, <1>r, <2>2, <2>3, OpStep
  <1>5. CASE r.at # "local"
    <2>1. r.at \notin LivePlaces /\ r.at \in Bearing
      BY <1>5 DEF LivePlaces, Bearing, Ops!Asking, Ops!Reloads
    <2>2. SoundIn(r, sequences', config_revision', opShown', opActive')
      BY <1>3, <1>5, <2>1 DEF Sound, SoundIn
    <2> QED
      BY <1>2, <1>r, <2>1, <2>2, OpStep
  <1> QED
    BY <1>4, <1>5

(* The records that the steps leave.                                       *)
LEMMA EndedFacts ==
    ASSUME NEW k \in OpRecs
    PROVE  /\ Ops!Ended(k) \in OpRecs /\ Ops!Idle \in OpRecs
           /\ Ops!Ended(k).at \notin LivePlaces \cup Bearing
           /\ Ops!Idle.at \notin LivePlaces \cup Bearing
  BY DEF Ops!Ended, Ops!Idle, OpRecs, Ops!Places, Ops!Batches, Ops!Asking, Ops!Reloads,
         LivePlaces, Bearing

LEMMA TakenFacts ==
    ASSUME OpInv, NEW k \in Ops!Keys
    PROVE  Ops!Taken(k) \in Ops!Operations
  BY DEF Ops!Taken, Ops!Operations, OpInv, OpData

LEMMA KeyFacts ==
    /\ \A n \in Nodes : <<"delay", n>> \in Ops!Keys
    /\ <<"group", "all">> \in Ops!Keys
    /\ \A p \in Providers : /\ <<"health", p>> \in Ops!Keys /\ <<"member", p>> \in Ops!Keys
                            /\ <<"provider", p>> \in Ops!Keys
  BY DEF Ops!Keys

(* An operation ends where it was.                                         *)
LEMMA OpJustEnds ==
    ASSUME OpInv, NEW t \in Callers, Ops!End(t), Recorded(t),
           UNCHANGED <<config_revision, opActive, opSaved, sequences>>,
           opLocked' \in Callers \cup {None}
    PROVE  OpInv'
  <1>1. opTask' = [opTask EXCEPT ![t] = Ops!Ended(opTask[t])] /\ opTask[t] \in OpRecs
    BY DEF Ops!End, OpInv
  <1>2. /\ config_revision' \in Nat /\ config_revision' >= config_revision
        /\ opActive' \in Profiles /\ opActive' = opActive
        /\ opSaved' \in [Profiles -> {"pinned", "auto"}]
    BY DEF OpInv, OpData
  <1>3. Ops!Ended(opTask[t]) \in OpRecs /\ Ops!Ended(opTask[t]).at \notin LivePlaces \cup Bearing
    BY <1>1, EndedFacts
  <1> QED
    BY <1>1, <1>2, <1>3, OpEnds

LEMMA OpInitHolds == ASSUME Ops!ConstantsOK, Ops!Init PROVE OpInv
  <1>1. opTask \in [Callers -> OpRecs] /\ \A t \in Callers : opTask[t].at = "idle"
    BY DEF Ops!Init, Ops!Idle, OpRecs, Ops!Places, Ops!Batches
  <1>2. \A t \in Callers : Sound(opTask[t]) /\ ~Live(t)
    BY <1>1 DEF Sound, SoundIn, Live, LivePlaces, Bearing, Ops!Asking, Ops!Reloads
  <1>3. OpData
    BY DEF Ops!Init, OpData
  <1>4. \A k \in Ops!Keys : opShown[k].seq <= sequences[k]
    BY DEF Ops!Init
  <1> QED
    BY <1>1, <1>2, <1>3, <1>4 DEF OpInv

(* Steps that begin an operation.                                          *)
LEMMA OpStarts ==
    ASSUME OpInv, NEW t \in Callers,
           \/ \E n \in Nodes : Ops!StartDelayTest(t, n) \/ Ops!TestMember(t, n)
           \/ Ops!StartProbe(t) \/ Ops!StartGroupTest(t)
           \/ \E p \in Providers : \/ Ops!StartHealthCheck(t, p) \/ Ops!StartMemberCheck(t, p)
                                   \/ Ops!StartRefresh(t, p) \/ Ops!RefreshNext(t, p)
    PROVE  OpInv' /\ UNCHANGED <<opShown, opActive, opSaved>>
  <1> DEFINE same == UNCHANGED <<config_revision, opActive, opSaved, opLocked, opShown>>
  <1>0. opTask[t] \in OpRecs /\ opActive \in Profiles
    BY DEF OpInv, OpData
  <1>1. ASSUME NEW k \in Ops!Keys, NEW place \in {"system", "asking", "local", "probing",
                                                  "askingGroup", "checking", "checkingMember"},
               Ops!Begin(t, k, place), same
        PROVE  OpInv'
    <2> DEFINE r == [opTask[t] EXCEPT !.at = place, !.op = Ops!Taken(k), !.profile = opActive]
    <2>1. Ops!Count(k) /\ opTask' = [opTask EXCEPT ![t] = r]
      BY <1>1 DEF Ops!Begin
    <2>2. place \in Ops!Places /\ place \in LivePlaces
      BY DEF Ops!Places, Ops!Asking, LivePlaces
    <2>3. /\ r \in OpRecs /\ r.at = place /\ r.op = Ops!Taken(k) /\ r.profile = opActive
      BY <1>0, <2>2, TakenFacts DEF OpRecs
    <2> HIDE DEF r
    <2> QED
      BY <1>1, <2>1, <2>2, <2>3, OpBegins
  <1>2. ASSUME NEW k \in Ops!Keys, Ops!Count(k), UNCHANGED opTask, same PROVE OpInv'
    <2>1. sequences \in [Ops!Keys -> Nat] /\ config_revision \in Nat
      BY DEF OpInv, OpData
    <2>2. /\ sequences' \in [Ops!Keys -> Nat]
          /\ \A j \in Ops!Keys : sequences'[j] >= sequences[j]
      BY <1>2, <2>1 DEF Ops!Count
    <2>3. OpData'
      BY <1>2, <2>2 DEF OpInv, OpData
    <2> QED
      BY <1>2, <2>1, <2>2, <2>3, OpBeside
  <1>3. ASSUME NEW p \in Providers, NEW todo \in SUBSET (Nodes \cup Providers),
               NEW batch \in {"idle", "all"}, Ops!Refresh(t, p, todo, batch)
        PROVE  OpInv' /\ same
    <2> DEFINE place == IF p \in InlineProviders THEN "inline"
                        ELSE IF opController THEN "putting" ELSE "unserved"
               r == [opTask[t] EXCEPT !.at = place, !.op = Ops!Taken(<<"provider", p>>),
                                      !.todo = todo, !.batch = batch, !.profile = opActive]
    <2>1. /\ Ops!Count(<<"provider", p>>) /\ opTask' = [opTask EXCEPT ![t] = r] /\ same
      BY <1>3 DEF Ops!Refresh, Ops!config
    <2>2. place \in Ops!Places /\ place \in LivePlaces
      BY DEF Ops!Places, Ops!Asking, LivePlaces
    <2> HIDE DEF place
    <2>3. batch \in Ops!Batches \cup {"idle"}
      BY DEF Ops!Batches
    <2>4. Ops!Taken(<<"provider", p>>) \in Ops!Operations \cup {None}
      BY KeyFacts, TakenFacts
    <2>5. /\ r \in OpRecs /\ r.at = place /\ r.op = Ops!Taken(<<"provider", p>>)
          /\ r.profile = opActive
      BY <1>0, <2>2, <2>3, <2>4 DEF OpRecs
    <2> HIDE DEF r
    <2> QED
      BY <2>1, <2>2, <2>5, KeyFacts, OpBegins
  <1>4. CASE \E n \in Nodes : Ops!StartDelayTest(t, n)
    BY <1>1, <1>4, KeyFacts DEF Ops!StartDelayTest, Ops!config
  <1>5. ASSUME NEW n \in Nodes, Ops!TestMember(t, n) PROVE OpInv' /\ same
    <2> DEFINE r == [opTask[t] EXCEPT !.at = "probing", !.op = Ops!Taken(<<"delay", n>>),
                                      !.todo = opTask[t].todo \ {n}]
    <2>1. /\ Ops!Count(<<"delay", n>>) /\ opTask' = [opTask EXCEPT ![t] = r] /\ same
      BY <1>5 DEF Ops!TestMember, Ops!config
    <2>2. "probing" \in Ops!Places /\ "probing" \in LivePlaces /\ "probing" \notin Bearing
      BY DEF Ops!Places, Ops!Asking, LivePlaces, Bearing, Ops!Reloads
    <2>4. Ops!Taken(<<"delay", n>>) \in Ops!Operations \cup {None}
      BY KeyFacts, TakenFacts
    <2>5. /\ r \in OpRecs /\ r.at = "probing" /\ r.op = Ops!Taken(<<"delay", n>>)
      BY <1>0, <2>2, <2>4 DEF OpRecs
    <2> HIDE DEF r
    <2> QED
      BY <2>1, <2>2, <2>5, KeyFacts, OpBegins
  <1>6. CASE Ops!StartProbe(t)
    <2>1. opTask[t].op.key \in Ops!Keys
      BY <1>6 DEF Ops!StartProbe, Ops!At, OpInv, Sound, SoundIn, LivePlaces, Ops!Asking,
                  Ops!Operations
    <2> QED
      BY <1>1, <1>6, <2>1 DEF Ops!StartProbe, Ops!config
  <1>7. CASE Ops!StartGroupTest(t)
    BY <1>1, <1>7, KeyFacts DEF Ops!StartGroupTest, Ops!config
  <1>8. CASE \E p \in Providers : Ops!StartHealthCheck(t, p) \/ Ops!StartMemberCheck(t, p)
    BY <1>1, <1>2, <1>8, KeyFacts DEF Ops!StartHealthCheck, Ops!StartMemberCheck, Ops!config
  <1>9. CASE \E p \in Providers : Ops!StartRefresh(t, p)
    BY <1>3, <1>9 DEF Ops!StartRefresh, Ops!config
  <1>a. CASE \E p \in Providers : Ops!RefreshNext(t, p)
    <2>1. PICK p \in Providers : Ops!Refresh(t, p, opTask[t].todo \ {p}, "all")
      BY <1>a DEF Ops!RefreshNext, Ops!config
    <2>2. opTask[t].todo \ {p} \in SUBSET (Nodes \cup Providers)
      BY <1>0 DEF OpRecs
    <2> QED
      BY <1>3, <2>1, <2>2
  <1> QED
    BY <1>4, <1>5, <1>6, <1>7, <1>8, <1>9, <1>a

(* Steps that end one, and record what it found.                           *)
LEMMA OpFinishes ==
    ASSUME OpInv, NEW t \in Callers,
           \/ Ops!SystemProbeAnswers(t) \/ Ops!ControllerAnswersDelay(t) \/ Ops!ProbeAnswers(t)
           \/ Ops!GroupTestFails(t) \/ Ops!ProviderIsHealthChecked(t)
           \/ Ops!MemberIsHealthChecked(t) \/ Ops!InlineIsRefused(t)
           \/ Ops!ControllerRefusesRefresh(t)
    PROVE  OpInv' /\ Recorded(t) /\ UNCHANGED <<opActive, opSaved>>
  <1> DEFINE same == UNCHANGED <<config_revision, opActive, opSaved, opLocked, sequences>>
  <1>l. ASSUME same PROVE opLocked' \in Callers \cup {None}
    BY <1>l DEF OpInv, OpData
  <1>n. ASSUME Ops!NoAnswer(t) PROVE OpInv' /\ Recorded(t) /\ same
    <2>1. Ops!End(t) /\ same /\ Recorded(t)
      BY <1>n DEF Ops!NoAnswer, Ops!config, Ops!resources, Recorded
    <2> QED
      BY <1>l, <2>1, OpJustEnds
  <1>a. ASSUME Ops!Answer(t), Ops!End(t), Live(t),
               UNCHANGED <<config_revision, opActive, opSaved, opLocked>>
        PROVE  OpInv' /\ Recorded(t) /\ same
    <2>1. same /\ Recorded(t)
      BY <1>a DEF Ops!Answer, Recorded
    <2> QED
      BY <1>a, <1>l, <2>1, OpJustEnds
  <1>m. ASSUME NEW result, Ops!Mark(t, result), Ops!Current(opTask[t].op), Ops!End(t), Live(t),
               UNCHANGED <<config_revision, opActive, opSaved, opLocked>>
        PROVE  OpInv' /\ Recorded(t) /\ same
    <2>1. same /\ Recorded(t)
      BY <1>m DEF Ops!Mark, Recorded
    <2> QED
      BY <1>m, <1>l, <2>1, OpJustEnds
  <1>1. CASE Ops!SystemProbeAnswers(t)
    BY <1>1, <1>a, <1>n DEF Ops!SystemProbeAnswers, Ops!At, Live, LivePlaces, Ops!Asking, Ops!config
  <1>2. CASE Ops!ControllerAnswersDelay(t)
    BY <1>2, <1>a, <1>n DEF Ops!ControllerAnswersDelay, Ops!At, Live, LivePlaces, Ops!Asking,
                            Ops!config
  <1>3. CASE Ops!ProbeAnswers(t)
    BY <1>3, <1>a DEF Ops!ProbeAnswers, Ops!At, Live, LivePlaces, Ops!Asking, Ops!config
  <1>4. CASE Ops!GroupTestFails(t)
    BY <1>4, <1>n DEF Ops!GroupTestFails
  <1>5. CASE Ops!ProviderIsHealthChecked(t)
    BY <1>5, <1>a, <1>n DEF Ops!ProviderIsHealthChecked, Ops!At, Live, LivePlaces, Ops!Asking,
                            Ops!config
  <1>6. CASE Ops!MemberIsHealthChecked(t)
    BY <1>6, <1>a, <1>n DEF Ops!MemberIsHealthChecked, Ops!At, Live, LivePlaces, Ops!Asking,
                            Ops!config
  <1>7. CASE Ops!InlineIsRefused(t)
    BY <1>7, <1>m, <1>n DEF Ops!InlineIsRefused, Ops!OutOfDate, Ops!At, Live, LivePlaces,
                            Ops!Asking, Ops!config
  <1>8. CASE Ops!ControllerRefusesRefresh(t)
    BY <1>8, <1>m, <1>n DEF Ops!ControllerRefusesRefresh, Ops!OutOfDate, Ops!At, Live, LivePlaces,
                            Ops!Asking, Ops!config
  <1> QED
    BY <1>1, <1>2, <1>3, <1>4, <1>5, <1>6, <1>7, <1>8

(* The test of a group may free it: that is saved for the profile of the   *)
(* test, and is a change of the configuration.                             *)
LEMMA OpFrees ==
    ASSUME OpInv, NEW t \in Callers, Ops!ControllerAnswersGroup(t)
    PROVE  /\ OpInv' /\ Recorded(t) /\ UNCHANGED opActive
           /\ \A p \in Profiles : opSaved'[p] # opSaved[p]
                  => opTask[t].at = "askingGroup" /\ opTask[t].profile = p
  <1>1. /\ opTask[t].at = "askingGroup" /\ Ops!Answer(t) /\ Ops!End(t)
        /\ UNCHANGED <<opActive, opLocked, sequences>>
        /\ \/ UNCHANGED <<opSaved, config_revision>>
           \/ /\ Ops!Current(opTask[t].op)
              /\ opSaved' = [opSaved EXCEPT ![opActive] = "auto"]
              /\ config_revision' = config_revision + 1
    BY DEF Ops!ControllerAnswersGroup, Ops!At, Ops!Answer
  <1>2. Live(t) /\ opTask[t].at \in Bearing
    BY <1>1 DEF Live, LivePlaces, Ops!Asking, Bearing
  <1>3. Recorded(t)
    BY <1>1, <1>2 DEF Ops!Answer, Recorded
  <1>4. /\ config_revision \in Nat /\ opActive \in Profiles
        /\ opSaved \in [Profiles -> {"pinned", "auto"}] /\ opLocked \in Callers \cup {None}
        /\ opTask[t] \in OpRecs
    BY DEF OpInv, OpData
  <1>5. Ops!Current(opTask[t].op) => opTask[t].profile = opActive
    BY <1>2 DEF OpInv, Sound, SoundIn, Ops!Current
  <1>6. \A p \in Profiles : opSaved'[p] # opSaved[p] => opTask[t].profile = p
    BY <1>1, <1>4, <1>5
  <1>7. /\ config_revision' \in Nat /\ config_revision' >= config_revision
        /\ opSaved' \in [Profiles -> {"pinned", "auto"}]
    BY <1>1, <1>4
  <1>8. opTask' = [opTask EXCEPT ![t] = Ops!Ended(opTask[t])]
    BY <1>1 DEF Ops!End
  <1>9. Ops!Ended(opTask[t]) \in OpRecs /\ Ops!Ended(opTask[t]).at \notin LivePlaces \cup Bearing
    BY <1>4, EndedFacts
  <1>a. opActive' \in Profiles /\ opActive' = opActive /\ opLocked' \in Callers \cup {None}
    BY <1>1, <1>4
  <1>b. UNCHANGED sequences
    BY <1>1
  <1>c. OpInv'
    BY <1>3, <1>7, <1>8, <1>9, <1>a, <1>b, OpEnds
  <1> QED
    BY <1>1, <1>3, <1>6, <1>c

(* Steps that hand the operation on.                                       *)
LEMMA OpGoesOn ==
    ASSUME OpInv, NEW t \in Callers,
           \/ Ops!ControllerRefusesDelay(t) \/ Ops!RefreshByReload(t) \/ Ops!ControllerRefreshes(t)
           \/ Ops!ReadRevision(t) \/ Ops!TakeLock(t)
    PROVE  OpInv' /\ Recorded(t) /\ UNCHANGED <<opActive, opSaved>>
  <1> DEFINE same == UNCHANGED <<config_revision, opActive, opSaved, sequences>>
  <1>0. opTask[t] \in OpRecs /\ opLocked \in Callers \cup {None} /\ config_revision \in Nat
    BY DEF OpInv, OpData
  <1>n. ASSUME Ops!NoAnswer(t) PROVE OpInv' /\ Recorded(t) /\ same
    <2>1. Ops!End(t) /\ same /\ UNCHANGED <<opLocked, opShown>>
      BY <1>n DEF Ops!NoAnswer, Ops!config, Ops!resources
    <2>2. Recorded(t)
      BY <2>1 DEF Recorded
    <2> QED
      BY <1>0, <2>1, <2>2, OpJustEnds
  <1>m. ASSUME NEW place \in {"local", "reload"}, Ops!Move(t, place), Recorded(t), same,
               UNCHANGED opLocked,
               place = "local" => opTask[t].at = "asking" /\ UNCHANGED opShown,
               place = "reload" => opTask[t].at \in Bearing
        PROVE  OpInv'
    <2> DEFINE r == [opTask[t] EXCEPT !.at = place]
    <2>1. opTask' = [opTask EXCEPT ![t] = r]
      BY <1>m DEF Ops!Move
    <2>2. place \in Ops!Places /\ (place = "reload" => place \in Ops!Reloads)
      BY DEF Ops!Places, Ops!Asking, Ops!Reloads
    <2>3. /\ r \in OpRecs /\ r.at = place /\ r.op = opTask[t].op
          /\ r.profile = opTask[t].profile
      BY <1>0, <2>2 DEF OpRecs
    <2> HIDE DEF r
    <2>4. opLocked' \in Callers \cup {None}
      BY <1>0, <1>m
    <2> QED
      BY <1>m, <2>1, <2>2, <2>3, <2>4, OpMoves
  <1>1. CASE Ops!ControllerRefusesDelay(t)
    <2>1. /\ opTask[t].at = "asking" /\ Ops!Move(t, "local") /\ same
          /\ UNCHANGED <<opLocked, opShown>>
      BY <1>1 DEF Ops!ControllerRefusesDelay, Ops!At, Ops!config, Ops!resources
    <2>2. Recorded(t)
      BY <2>1 DEF Recorded
    <2> QED
      BY <1>m, <2>1, <2>2
  <1>2. CASE Ops!RefreshByReload(t)
    <2>1. CASE Ops!NoAnswer(t)
      BY <1>n, <2>1
    <2>2. CASE ~Ops!NoAnswer(t)
      <3>1. /\ opTask[t].at = "unserved" /\ Ops!Move(t, "reload") /\ same
            /\ UNCHANGED <<opLocked, opShown>>
        BY <1>2, <2>2 DEF Ops!RefreshByReload, Ops!OutOfDate, Ops!At, Ops!config, Ops!resources
      <3>2. Recorded(t) /\ opTask[t].at \in Bearing
        BY <3>1 DEF Recorded, Bearing
      <3> QED
        BY <1>m, <3>1, <3>2
    <2> QED
      BY <2>1, <2>2
  <1>3. CASE Ops!ControllerRefreshes(t)
    <2>1. CASE Ops!NoAnswer(t)
      BY <1>n, <2>1
    <2>2. CASE ~Ops!NoAnswer(t)
      <3>1. /\ opTask[t].at = "putting" /\ same /\ UNCHANGED opLocked
            /\ Ops!Current(opTask[t].op) /\ Ops!Record(opTask[t].op)
            /\ Ops!Move(t, "reload") \/ Ops!End(t)
        BY <1>3, <2>2 DEF Ops!ControllerRefreshes, Ops!OutOfDate, Ops!At, Ops!config, Ops!Mark
      <3>2. Live(t) /\ opTask[t].at \in Bearing
        BY <3>1 DEF Live, LivePlaces, Ops!Asking, Bearing
      <3>3. Recorded(t)
        BY <3>1, <3>2 DEF Recorded
      <3>4. opLocked' \in Callers \cup {None}
        BY <1>0, <3>1
      <3> QED
        BY <1>m, <3>1, <3>2, <3>3, <3>4, OpJustEnds
    <2> QED
      BY <2>1, <2>2
  <1>4. CASE Ops!ReadRevision(t)
    <2> DEFINE r == [opTask[t] EXCEPT !.at = "waiting", !.seen = config_revision]
    <2>1. /\ opTask[t].at = "reload" /\ opTask' = [opTask EXCEPT ![t] = r] /\ same
          /\ UNCHANGED <<opLocked, opShown>>
      BY <1>4 DEF Ops!ReadRevision, Ops!At, Ops!config, Ops!resources
    <2>2. /\ "waiting" \in Ops!Places /\ "waiting" \in Ops!Reloads
          /\ opTask[t].at \in Bearing
      BY <2>1 DEF Ops!Places, Ops!Reloads, Bearing
    <2>3. /\ r \in OpRecs /\ r.at = "waiting" /\ r.op = opTask[t].op
          /\ r.profile = opTask[t].profile
      BY <1>0, <2>2 DEF OpRecs
    <2> HIDE DEF r
    <2>4. opLocked' \in Callers \cup {None} /\ Recorded(t)
      BY <1>0, <2>1 DEF Recorded
    <2> QED
      BY <2>1, <2>2, <2>3, <2>4, OpMoves
  <1>5. CASE Ops!TakeLock(t)
    <2>1. /\ opTask[t].at = "waiting" /\ same /\ UNCHANGED opShown
          /\ \/ /\ opTask[t].seen = config_revision /\ opLocked' = t
                /\ opTask' = [opTask EXCEPT ![t] = [opTask[t] EXCEPT !.at = "reloading",
                                                                     !.from = config_revision]]
             \/ Ops!End(t) /\ UNCHANGED opLocked
      BY <1>5 DEF Ops!TakeLock, Ops!At, Ops!resources
    <2>2. opLocked' \in Callers \cup {None} /\ Recorded(t)
      BY <1>0, <2>1 DEF Recorded
    <2>3. CASE Ops!End(t)
      BY <2>1, <2>2, <2>3, OpJustEnds
    <2>4. CASE ~Ops!End(t)
      <3> DEFINE r == [opTask[t] EXCEPT !.at = "reloading", !.from = config_revision]
      <3>1. opTask' = [opTask EXCEPT ![t] = r] /\ opTask[t].seen = config_revision
        BY <2>1, <2>4
      <3>2. /\ "reloading" \in Ops!Places /\ "reloading" \in Ops!Reloads
            /\ opTask[t].at \in Bearing
        BY <2>1 DEF Ops!Places, Ops!Reloads, Bearing
      <3>3. /\ r \in OpRecs /\ r.at = "reloading" /\ r.op = opTask[t].op
            /\ r.profile = opTask[t].profile /\ r.seen = r.from
        BY <1>0, <3>1, <3>2 DEF OpRecs
      <3> HIDE DEF r
      <3> QED
        BY <2>1, <2>2, <3>1, <3>2, <3>3, OpMoves
    <2> QED
      BY <2>1, <2>2, <2>3, <2>4
  <1> QED
    BY <1>1, <1>2, <1>3, <1>4, <1>5

(* Group tests and refreshes of all that begin or end, and the end of a    *)
(* reload.                                                                 *)
LEMMA OpBatches ==
    ASSUME OpInv, NEW t \in Callers,
           \/ Ops!TestMembers(t) \/ Ops!EndGroupTest(t)
           \/ Ops!StartRefreshAll(t) \/ Ops!EndRefreshAll(t)
    PROVE  OpInv' /\ Recorded(t) /\ UNCHANGED <<opActive, opSaved>>
  <1>0. /\ opTask[t] \in OpRecs /\ opLocked \in Callers \cup {None} /\ config_revision \in Nat
        /\ opActive \in Profiles /\ opSaved \in [Profiles -> {"pinned", "auto"}]
    BY DEF OpInv, OpData
  <1>1. /\ UNCHANGED <<config_revision, opActive, opSaved, opLocked, sequences, opShown>>
        /\ \E r \in OpRecs : /\ opTask' = [opTask EXCEPT ![t] = r]
                             /\ r.at \notin LivePlaces \cup Bearing
    <2> USE DEF Ops!config, Ops!resources
    <2>1. CASE Ops!TestMembers(t)
      <3> DEFINE r == [opTask[t] EXCEPT !.at = "members", !.batch = "members",
                                        !.outer = opTask[t].op, !.op = None, !.todo = Nodes]
      <3>1. "members" \in Ops!Places /\ "members" \in Ops!Batches
            /\ "members" \notin LivePlaces \cup Bearing
        BY DEF Ops!Places, Ops!Batches, LivePlaces, Bearing, Ops!Asking, Ops!Reloads
      <3>2. r \in OpRecs /\ r.at = "members"
        BY <1>0, <3>1 DEF OpRecs
      <3>3. opTask' = [opTask EXCEPT ![t] = r]
        BY <2>1 DEF Ops!TestMembers
      <3> HIDE DEF r
      <3> QED
        BY <2>1, <3>1, <3>2, <3>3 DEF Ops!TestMembers
    <2>2. CASE Ops!StartRefreshAll(t)
      <3> DEFINE r == [opTask[t] EXCEPT !.at = "all", !.batch = "all",
                                        !.todo = Providers \ InlineProviders]
      <3>1. "all" \in Ops!Places /\ "all" \in Ops!Batches /\ "all" \notin LivePlaces \cup Bearing
        BY DEF Ops!Places, Ops!Batches, LivePlaces, Bearing, Ops!Asking, Ops!Reloads
      <3>2. r \in OpRecs /\ r.at = "all"
        BY <1>0, <3>1 DEF OpRecs
      <3>3. opTask' = [opTask EXCEPT ![t] = r]
        BY <2>2 DEF Ops!StartRefreshAll
      <3> HIDE DEF r
      <3> QED
        BY <2>2, <3>1, <3>2, <3>3 DEF Ops!StartRefreshAll
    <2>3. CASE Ops!EndGroupTest(t) \/ Ops!EndRefreshAll(t)
      BY <1>0, <2>3, EndedFacts DEF Ops!EndGroupTest, Ops!EndRefreshAll
    <2> QED
      BY <2>1, <2>2, <2>3
  <1>2. PICK r \in OpRecs : /\ opTask' = [opTask EXCEPT ![t] = r]
                            /\ r.at \notin LivePlaces \cup Bearing
    BY <1>1
  <1>3. Recorded(t)
    BY <1>1 DEF Recorded
  <1>4. /\ config_revision' \in Nat /\ config_revision' >= config_revision
        /\ opActive' \in Profiles /\ opActive' = opActive /\ opLocked' \in Callers \cup {None}
        /\ opSaved' \in [Profiles -> {"pinned", "auto"}]
    BY <1>0, <1>1
  <1>5. UNCHANGED sequences
    BY <1>1
  <1>6. OpInv'
    BY <1>2, <1>3, <1>4, <1>5, OpEnds
  <1> QED
    BY <1>1, <1>3, <1>6

(* A reload activates the profile of the operation; another one only if    *)
(* that was left before the revision was read.                             *)
LEMMA OpReloads ==
    ASSUME OpInv, NEW t \in Callers, Ops!Reload(t) \/ Ops!ReloadFails(t)
    PROVE  /\ OpInv' /\ Recorded(t) /\ UNCHANGED opSaved
           /\ opTask[t].at = "reloading"
           /\ opActive' # opActive => opTask[t].seen # opTask[t].op.rev
  <1>0. /\ opTask[t] \in OpRecs /\ config_revision \in Nat /\ opActive \in Profiles
        /\ opSaved \in [Profiles -> {"pinned", "auto"}]
    BY DEF OpInv, OpData
  <1>1. /\ opTask[t].at = "reloading" /\ Ops!End(t) /\ opLocked' = None
        /\ UNCHANGED <<opSaved, sequences, opShown>>
        /\ \/ UNCHANGED <<config_revision, opActive>>
           \/ /\ opTask[t].from = config_revision /\ opActive' = opTask[t].profile
              /\ config_revision' = IF opTask[t].profile = opActive THEN config_revision
                                    ELSE config_revision + 1
    BY DEF Ops!Reload, Ops!ReloadFails, Ops!At
  <1>2. /\ opTask[t].seen = opTask[t].from /\ opTask[t].profile \in Profiles
        /\ opTask[t].op.rev = config_revision => opTask[t].profile = opActive
    BY <1>1 DEF OpInv, Sound, SoundIn, Bearing, Ops!Reloads
  <1>3. /\ config_revision' \in Nat /\ config_revision' >= config_revision
        /\ opActive' \in Profiles
        /\ opActive' = opActive \/ config_revision' > config_revision
    BY <1>0, <1>1, <1>2
  <1>4. opActive' # opActive => opTask[t].seen # opTask[t].op.rev
    BY <1>1, <1>2
  <1>5. Recorded(t) /\ opLocked' \in Callers \cup {None} /\ UNCHANGED sequences
    BY <1>1 DEF Recorded
  <1>6. opTask' = [opTask EXCEPT ![t] = Ops!Ended(opTask[t])]
    BY <1>1 DEF Ops!End
  <1>7. Ops!Ended(opTask[t]) \in OpRecs /\ Ops!Ended(opTask[t]).at \notin LivePlaces \cup Bearing
    BY <1>0, EndedFacts
  <1>8. opSaved' \in [Profiles -> {"pinned", "auto"}]
    BY <1>0, <1>1
  <1>9. OpInv'
    BY <1>3, <1>5, <1>6, <1>7, <1>8, OpEnds
  <1> QED
    BY <1>1, <1>4, <1>5, <1>9

(* A step of one caller.                                                   *)
LEMMA OpCallerSteps ==
    ASSUME OpInv, NEW t \in Callers, Ops!Step(t)
    PROVE  OpInv' /\ Ops!NewestIsShown /\ Ops!ProfileIsKept /\ Ops!TestedProfileIsSaved
  <1> DEFINE kept == opActive' # opActive =>
                     /\ opTask[t].at = "reloading" /\ opTask[t].seen # opTask[t].op.rev
                     /\ \A u \in Callers : u # t => opTask'[u] = opTask[u]
             tested == \A p \in Profiles : opSaved'[p] # opSaved[p]
                           => opTask[t].at = "askingGroup" /\ opTask[t].profile = p
  <1>1. OpInv' /\ Recorded(t) /\ kept /\ tested
    <2>1. CASE \/ \E n \in Nodes : Ops!StartDelayTest(t, n) \/ Ops!TestMember(t, n)
               \/ Ops!StartProbe(t) \/ Ops!StartGroupTest(t)
               \/ \E p \in Providers : \/ Ops!StartHealthCheck(t, p) \/ Ops!StartMemberCheck(t, p)
                                       \/ Ops!StartRefresh(t, p) \/ Ops!RefreshNext(t, p)
      BY <2>1, OpStarts DEF Recorded
    <2>2. CASE \/ Ops!SystemProbeAnswers(t) \/ Ops!ControllerAnswersDelay(t)
               \/ Ops!ProbeAnswers(t) \/ Ops!GroupTestFails(t)
               \/ Ops!ProviderIsHealthChecked(t) \/ Ops!MemberIsHealthChecked(t)
               \/ Ops!InlineIsRefused(t) \/ Ops!ControllerRefusesRefresh(t)
      <3>1. OpInv' /\ Recorded(t) /\ UNCHANGED <<opActive, opSaved>>
        BY <2>2, OpFinishes
      <3> QED
        BY <3>1
    <2>3. CASE Ops!ControllerAnswersGroup(t)
      BY <2>3, OpFrees
    <2>4. CASE \/ Ops!ControllerRefusesDelay(t) \/ Ops!RefreshByReload(t)
               \/ Ops!ControllerRefreshes(t) \/ Ops!ReadRevision(t) \/ Ops!TakeLock(t)
      <3>1. OpInv' /\ Recorded(t) /\ UNCHANGED <<opActive, opSaved>>
        BY <2>4, OpGoesOn
      <3> QED
        BY <3>1
    <2>5. CASE \/ Ops!TestMembers(t) \/ Ops!EndGroupTest(t)
               \/ Ops!StartRefreshAll(t) \/ Ops!EndRefreshAll(t)
      <3>1. OpInv' /\ Recorded(t) /\ UNCHANGED <<opActive, opSaved>>
        BY <2>5, OpBatches
      <3> QED
        BY <3>1
    <2>6. CASE Ops!Reload(t) \/ Ops!ReloadFails(t)
      <3>1. /\ OpInv' /\ Recorded(t) /\ UNCHANGED opSaved /\ opTask[t].at = "reloading"
            /\ opActive' # opActive => opTask[t].seen # opTask[t].op.rev
        BY <2>6, OpReloads
      <3>2. Ops!End(t)
        BY <2>6 DEF Ops!Reload, Ops!ReloadFails
      <3>3. \A u \in Callers : u # t => opTask'[u] = opTask[u]
        BY <3>2 DEF Ops!End, OpInv
      <3> QED
        BY <3>1, <3>3
    <2> QED
      BY <2>1, <2>2, <2>3, <2>4, <2>5, <2>6 DEF Ops!Step
  <1>2. Ops!NewestIsShown
    BY <1>1, RecordedFacts DEF Ops!NewestIsShown
  <1>3. Ops!ProfileIsKept
    BY <1>1 DEF Ops!ProfileIsKept
  <1>4. Ops!TestedProfileIsSaved
    BY <1>1 DEF Ops!TestedProfileIsSaved
  <1> QED
    BY <1>1, <1>2, <1>3, <1>4

(* A step beside the callers: another transaction, a controller that comes *)
(* or goes.                                                                *)
LEMMA OpOtherSteps ==
    ASSUME OpInv, \/ \E p \in Profiles : Ops!Commit(p)
                  \/ Ops!ServingChanges \/ UNCHANGED Ops!vars
    PROVE  OpInv' /\ UNCHANGED <<opTask, opShown, opSaved>>
  <1>0. /\ config_revision \in Nat /\ opActive \in Profiles
        /\ sequences \in [Ops!Keys -> Nat]
    BY DEF OpInv, OpData
  <1>1. /\ UNCHANGED <<opTask, opShown, opSaved, sequences, opLocked>>
        /\ \/ UNCHANGED <<config_revision, opActive>>
           \/ opActive' \in Profiles /\ config_revision' = config_revision + 1
    BY DEF Ops!Commit, Ops!ServingChanges, Ops!vars, Ops!config, Ops!resources
  <1>2. /\ config_revision' \in Nat /\ config_revision' >= config_revision
        /\ opActive' \in Profiles
        /\ opActive' = opActive \/ config_revision' > config_revision
    BY <1>0, <1>1
  <1>3. OpData'
    BY <1>1, <1>2 DEF OpInv, OpData
  <1>4. \A k \in Ops!Keys : sequences'[k] >= sequences[k]
    BY <1>0, <1>1
  <1>5. OpInv'
    BY <1>1, <1>2, <1>3, <1>4, OpBeside
  <1> QED
    BY <1>1, <1>5

(* Whatever order the callers, their answers and other transactions come   *)
(* in: what is recorded never goes back to an earlier operation or an      *)
(* older configuration, a refresh undoes a change of the profile only if   *)
(* that came between its check and the reading of the revision, and a      *)
(* group test saves for the profile that it tested.                        *)
THEOREM OutcomesAreNewest == ASSUME Ops!ConstantsOK PROVE Ops!Spec => Ops!Steps
  <1>1. ASSUME Ops!Init PROVE OpInv
    BY <1>1, OpInitHolds
  <1>2. ASSUME OpInv, [Ops!Next]_(Ops!vars)
        PROVE  /\ OpInv'
               /\ [Ops!NewestIsShown /\ Ops!ProfileIsKept /\ Ops!TestedProfileIsSaved]_(Ops!vars)
    <2>1. CASE \E t \in Callers : Ops!Step(t)
      BY <1>2, <2>1, OpCallerSteps
    <2>2. CASE (\E p \in Profiles : Ops!Commit(p)) \/ Ops!ServingChanges \/ UNCHANGED Ops!vars
      <3>1. OpInv' /\ UNCHANGED <<opTask, opShown, opSaved>>
        BY <1>2, <2>2, OpOtherSteps
      <3>2. Ops!NewestIsShown /\ Ops!ProfileIsKept /\ Ops!TestedProfileIsSaved
        BY <3>1 DEF Ops!NewestIsShown, Ops!ProfileIsKept, Ops!TestedProfileIsSaved
      <3> QED
        BY <3>1, <3>2
    <2> QED
      BY <1>2, <2>1, <2>2 DEF Ops!Next
  <1> QED
    BY <1>1, <1>2, PTL DEF Ops!Spec, Ops!Steps

-----------------------------------------------------------------------------
(* Choosing the proxy of a group.                                          *)

CONSTANTS Unfixed, Proxies, FrameFails, SyncFails, MaxClicks, MaxOthers

VARIABLES selPending, selOp, selDone, selClean, selTunnel, selGroups,
          selSaved, selFrame, selFresh, selVpn, selBest, selRevision,
          selOther, selServing, selLeft

Select == INSTANCE ProxySelection WITH
    pending <- selPending, op <- selOp, done <- selDone, clean <- selClean,
    tunnel <- selTunnel, groups <- selGroups, saved <- selSaved, frame <-
    selFrame, fresh <- selFresh, vpn <- selVpn, best <- selBest, revision <-
    selRevision, other <- selOther, serving <- selServing, left <- selLeft

SelTypes ==
    /\ selTunnel \in [n : Nat, set : Select!Choices]
    /\ selGroups \in Select!Choices /\ selSaved \in Select!Choices
    /\ selFrame \in Select!Choices /\ selRevision \in Nat
    /\ selOp \in Select!Picks \cup {None}
    /\ selOther \in [does : {"edit", "reload", "reloading", "sync"},
                     with : Select!Choices] \cup {None}

Agree == selTunnel.set = selSaved /\ selGroups = selSaved /\ selFrame = selSaved

(* No choice is between setting the group and recording it.                *)
Quiet ==
    \/ selOp = None
    \/ selOp.at \in {"begin", "checked", "put", "closing"}
    \/ selOp.at = "ended" /\ selOp.ok

(* A choice that may still be recorded is what the tunnel is set to, for a *)
(* reload that replaced the tunnel has raised the revision.                *)
PickStands ==
    /\ selPending = None => selOp = None
    /\ selOp # None => selOp.revision <= selRevision
    /\ Select!At("setting") /\ selOp.revision = selRevision => selOp.tunnel = selTunnel.n
    /\ Select!At("record") /\ selOp.revision = selRevision => selTunnel.set = selOp.want

(* A reload makes the next tunnel with the choice that is saved.           *)
ReloadReadsSaved ==
    Select!Does("reload") \/ Select!Does("reloading") => selOther.with = selSaved

SelInv ==
    SelTypes /\ PickStands /\ ReloadReadsSaved /\ (selClean /\ Quiet => Agree)

(* At first every group is given back to itself.                           *)
LEMMA SelectInit == ASSUME Select!ConstantsOK, Select!Init PROVE SelInv
  BY DEF Select!ConstantsOK, Select!Init, SelInv, SelTypes, PickStands, ReloadReadsSaved,
         Agree, Quiet, Select!At, Select!Does, Select!Choices

(* A click begins a choice, and its result ends it (select_proxy).         *)
LEMMA ClickKeeps ==
    ASSUME Select!ConstantsOK, SelInv,
           (\E want \in Select!Choices : Select!Click(want)) \/ Select!Delivered
    PROVE  SelInv'
  <1>1. CASE Select!Delivered
    BY <1>1 DEF SelInv, SelTypes, PickStands, ReloadReadsSaved, Agree, Quiet, Select!At,
                Select!Does, Select!Delivered, Select!rest
  <1>2. ASSUME NEW want \in Select!Choices, Select!Click(want) PROVE SelInv'
    <2>1. selOp' \in Select!Picks /\ selOp'.at = "begin" /\ selOp'.revision = 0
      <3> DEFINE pick == [want |-> want, at |-> "begin", revision |-> 0, tunnel |-> 0,
                          direct |-> FALSE, ok |-> FALSE]
      <3>1. pick \in Select!Picks /\ pick.at = "begin" /\ pick.revision = 0
        BY ONLY want \in Select!Choices DEF pick, Select!Picks
      <3> QED
        BY <1>2, <3>1 DEF Select!Click
    <2>2. selOp = None /\ selPending' = want /\ want # None
      BY <1>2 DEF Select!Click, Select!ConstantsOK, Select!Choices, SelInv, PickStands
    <2> QED
      BY <1>2, <2>1, <2>2 DEF SelInv, SelTypes, PickStands, ReloadReadsSaved, Agree, Quiet,
                              Select!At, Select!Does, Select!Click
  <1> QED
    BY <1>1, <1>2

(* A choice that goes on is still that choice (select_proxy_via_controller).*)
LEMMA PickGoesOn ==
    ASSUME Select!ConstantsOK, SelTypes, selOp # None,
           NEW s \in {"begin", "checked", "put", "local", "setting", "record", "closing"},
           Select!GoTo(s)
    PROVE  /\ selOp' \in Select!Picks /\ selOp' # None /\ selOp'.at = s
           /\ selOp'.want = selOp.want /\ selOp'.revision = selOp.revision
           /\ selOp'.tunnel = selOp.tunnel
  BY DEF Select!ConstantsOK, SelTypes, Select!GoTo, Select!Picks

(* So is a choice that ends, with its result (select_proxy_via_controller). *)
LEMMA PickEnds ==
    ASSUME Select!ConstantsOK, SelTypes, selOp # None, NEW ok \in BOOLEAN, Select!End(ok)
    PROVE  /\ selOp' \in Select!Picks /\ selOp' # None /\ selOp'.at = "ended"
           /\ selOp'.ok = ok /\ selOp'.revision = selOp.revision
  BY DEF Select!ConstantsOK, SelTypes, Select!End, Select!Picks

(* What the groups say is selected already ends a choice; otherwise it     *)
(* reads the controller and the revision (select_proxy_via_controller).    *)
LEMMA CheckKeeps ==
    ASSUME Select!ConstantsOK, SelInv, Select!Check \/ Select!ReadController
    PROVE  SelInv'
  <1> USE DEF SelInv, SelTypes, PickStands, ReloadReadsSaved, Agree, Quiet, Select!At,
              Select!Does, Select!rest
  <1>1. CASE Select!Check /\ Select!End(TRUE)
    <2>1. selOp'.at = "ended" /\ selOp' \in Select!Picks /\ selOp'.revision = selOp.revision
      BY <1>1, PickEnds DEF Select!Check
    <2> QED
      BY <1>1, <2>1 DEF Select!Check
  <1>2. CASE Select!Check /\ Select!GoTo("checked")
    <2>1. selOp'.at = "checked" /\ selOp' \in Select!Picks /\ selOp'.revision = selOp.revision
      BY <1>2, PickGoesOn DEF Select!Check
    <2> QED
      BY <1>2, <2>1 DEF Select!Check
  <1>3. CASE Select!ReadController
    <2>1. /\ selOp' \in Select!Picks /\ selOp'.at \in {"put", "local"}
          /\ selOp'.revision = selRevision
      BY <1>3 DEF Select!ReadController, Select!Picks
    <2> QED
      BY <1>3, <2>1 DEF Select!ReadController
  <1> QED
    BY <1>1, <1>2, <1>3 DEF Select!Check

(* The group of the tunnel is set by the controller, or by Core when that  *)
(* fails (select_proxy_at_revision).                                       *)
LEMMA SetKeeps ==
    ASSUME Select!ConstantsOK, SelInv,
           \/ Select!ControllerSets \/ Select!ControllerFails
           \/ Select!LocalReads \/ Select!LocalSets
    PROVE  SelInv'
  <1> USE DEF SelInv, SelTypes, PickStands, ReloadReadsSaved, Select!At, Select!Does,
              Select!rest
  <1>1. selOp.want \in Select!Choices /\ selTunnel \in [n : Nat, set : Select!Choices]
    BY DEF Select!ControllerSets, Select!ControllerFails, Select!LocalReads,
           Select!LocalSets, Select!Picks
  <1>2. CASE Select!ControllerSets
    <2>1. /\ selOp' \in Select!Picks /\ selOp' # None
          /\ selOp'.at = "record" /\ selOp'.want = selOp.want
          /\ selOp'.revision = selOp.revision
      BY <1>2, PickGoesOn DEF Select!ControllerSets
    <2>2. selTunnel' \in [n : Nat, set : Select!Choices] /\ selTunnel'.set = selOp.want
      BY <1>1, <1>2 DEF Select!ControllerSets
    <2>3. ~Quiet'
      BY <2>1 DEF Quiet
    <2> QED
      BY <1>2, <2>1, <2>2, <2>3 DEF Select!ControllerSets
  <1>3. CASE Select!ControllerFails
    <2>1. /\ selOp' \in Select!Picks /\ selOp' # None
          /\ selOp'.at = "local" /\ selOp'.revision = selOp.revision
      BY <1>3, PickGoesOn DEF Select!ControllerFails
    <2>2. selTunnel' \in [n : Nat, set : Select!Choices]
      BY <1>1, <1>3 DEF Select!ControllerFails
    <2>3. ~Quiet'
      BY <2>1 DEF Quiet
    <2> QED
      BY <1>3, <2>1, <2>2, <2>3 DEF Select!ControllerFails
  <1>4. CASE Select!LocalReads /\ selOp.revision # selRevision
    <2>1. /\ selOp' \in Select!Picks /\ selOp' # None
          /\ selOp'.at = "ended" /\ selOp'.ok = FALSE
          /\ selOp'.revision = selOp.revision
      BY <1>4, PickEnds DEF Select!LocalReads
    <2>2. ~Quiet'
      BY <2>1 DEF Quiet
    <2> QED
      BY <1>4, <2>1, <2>2 DEF Select!LocalReads
  <1>5. CASE Select!LocalReads /\ selOp.revision = selRevision
    <2>1. /\ selOp' \in Select!Picks /\ selOp' # None /\ selOp'.at = "setting"
          /\ selOp'.tunnel = selTunnel.n /\ selOp'.revision = selOp.revision
      <3> DEFINE put == [selOp EXCEPT !.at = "setting", !.tunnel = selTunnel.n,
                                      !.direct = TRUE]
      <3>1. selOp \in Select!Picks /\ selTunnel.n \in Nat
        BY <1>1, <1>5 DEF Select!LocalReads
      <3>2. put \in Select!Picks /\ put.at = "setting" /\ put.tunnel = selTunnel.n
            /\ put.revision = selOp.revision
        BY ONLY <3>1 DEF put, Select!Picks
      <3>3. selOp' = put
        BY <1>5 DEF Select!LocalReads
      <3> QED
        BY <3>2, <3>3 DEF Select!ConstantsOK
    <2>2. ~Quiet'
      BY <2>1 DEF Quiet
    <2> QED
      BY <1>5, <2>1, <2>2 DEF Select!LocalReads
  <1>6. CASE Select!LocalSets
    <2>1. /\ selOp' \in Select!Picks /\ selOp' # None
          /\ selOp'.at = "record" /\ selOp'.want = selOp.want
          /\ selOp'.revision = selOp.revision
      BY <1>6, PickGoesOn DEF Select!LocalSets
    <2>2. /\ selTunnel' \in [n : Nat, set : Select!Choices]
          /\ selOp.tunnel = selTunnel.n => selTunnel'.set = selOp.want
      BY <1>1, <1>6 DEF Select!LocalSets
    <2>3. ~Quiet'
      BY <2>1 DEF Quiet
    <2> QED
      BY <1>6, <2>1, <2>2, <2>3 DEF Select!LocalSets
  <1> QED
    BY <1>2, <1>3, <1>4, <1>5, <1>6

(* A choice is recorded over the configuration it began with, or not at    *)
(* all, and then its connections are closed (record_proxy_selection).      *)
LEMMA RecordKeeps ==
    ASSUME Select!ConstantsOK, SelInv,
           Select!RecordRefused \/ Select!SaveFails \/ Select!Record \/ Select!CloseAll
    PROVE  SelInv'
  <1> USE DEF SelInv, SelTypes, PickStands, ReloadReadsSaved, Select!At, Select!Does,
              Select!rest
  <1>1. selOp \in Select!Picks /\ selOp # None /\ selOp.want \in Select!Choices
    BY DEF Select!RecordRefused, Select!SaveFails, Select!Record, Select!CloseAll,
           Select!Picks
  <1>2. CASE Select!RecordRefused \/ Select!SaveFails
    <2>1. /\ selOp' \in Select!Picks /\ selOp' # None
          /\ selOp'.at = "ended" /\ selOp'.ok = FALSE
          /\ selOp'.revision = selOp.revision
      BY <1>1, <1>2, PickEnds DEF Select!RecordRefused, Select!SaveFails
    <2>2. ~Quiet'
      BY <2>1 DEF Quiet
    <2> QED
      BY <1>2, <2>1, <2>2 DEF Select!RecordRefused, Select!SaveFails
  <1>3. CASE Select!Record
    <2>1. /\ selTunnel.set = selOp.want /\ selSaved' = selOp.want
          /\ selGroups' = selOp.want /\ selTunnel' = selTunnel
      BY <1>3 DEF Select!Record
    <2>2. CASE Select!End(FALSE) /\ UNCHANGED <<selClean, selFrame, selFresh, selRevision>>
      <3>1. /\ selOp' \in Select!Picks /\ selOp' # None
            /\ selOp'.at = "ended" /\ selOp'.ok = FALSE
            /\ selOp'.revision = selOp.revision
        BY <1>1, <2>2, PickEnds
      <3>2. ~Quiet'
        BY <3>1 DEF Quiet
      <3> QED
        BY <1>1, <1>3, <2>1, <2>2, <3>1, <3>2 DEF Select!Record
    <2>3. CASE /\ selFrame' = selSaved' /\ selRevision' = selRevision + 1
               /\ Select!End(TRUE) \/ Select!GoTo("closing")
      <3>1. /\ selOp' \in Select!Picks /\ selOp' # None
            /\ selOp'.at \in {"ended", "closing"} /\ selOp'.revision = selOp.revision
        BY <1>1, <2>3, PickEnds, PickGoesOn
      <3> QED
        BY <1>1, <1>3, <2>1, <2>3, <3>1 DEF Select!Record, Agree
    <2> QED
      BY <1>3, <2>2, <2>3 DEF Select!Record
  <1>4. CASE Select!CloseAll
    <2>1. /\ selOp' \in Select!Picks /\ selOp' # None /\ selOp'.at = "ended"
          /\ selOp'.revision = selOp.revision
      BY <1>1, <1>4, PickEnds DEF Select!CloseAll
    <2> QED
      BY <1>4, <2>1 DEF Select!CloseAll, Agree, Quiet
  <1> QED
    BY <1>2, <1>3, <1>4

(* Other transactions, reloads, ticks, delay tests and the process of the  *)
(* VPN leave what agrees in agreement (sync_live_controller_route).        *)
LEMMA BesideKeeps ==
    ASSUME Select!ConstantsOK, SelInv,
           \/ Select!OtherBegins \/ Select!ReloadStops \/ Select!ReloadInstalls
           \/ Select!EditEnds \/ Select!DelayTest \/ Select!SyncBegins \/ Select!SyncEnds
           \/ Select!VpnSync \/ Select!VpnTests
    PROVE  SelInv'
  <1> USE DEF SelInv, SelTypes, PickStands, ReloadReadsSaved, Agree, Quiet, Select!At,
              Select!Does
  <1>1. CASE Select!OtherBegins
    BY <1>1 DEF Select!OtherBegins
  <1>2. CASE Select!ReloadStops
    <2>1. /\ selOther' \in [does : {"reloading"}, with : Select!Choices]
          /\ selOther'.with = selOther.with
      BY <1>2 DEF Select!ReloadStops
    <2> QED
      BY <1>2, <2>1 DEF Select!ReloadStops
  <1>3. CASE Select!ReloadInstalls
    <2>1. /\ selTunnel' \in [n : Nat, set : Select!Choices] /\ selTunnel'.set = selSaved
          /\ selGroups' = selSaved
      BY <1>3 DEF Select!ReloadInstalls
    <2>2. selOp # None => selOp.revision \in Nat /\ selOp.revision # selRevision'
      BY <1>3 DEF Select!ReloadInstalls, Select!Picks
    <2> QED
      BY <1>3, <2>1, <2>2 DEF Select!ReloadInstalls, Select!Picks
  <1>4. CASE Select!EditEnds
    BY <1>4 DEF Select!EditEnds, Select!Picks
  <1>5. CASE Select!DelayTest
    BY <1>5 DEF Select!DelayTest
  <1>6. CASE Select!SyncBegins
    BY <1>6 DEF Select!SyncBegins
  <1>7. CASE Select!SyncEnds
    BY <1>7 DEF Select!SyncEnds
  <1>8. CASE Select!VpnSync \/ Select!VpnTests
    BY <1>8 DEF Select!VpnSync, Select!VpnTests
  <1> QED
    BY <1>1, <1>2, <1>3, <1>4, <1>5, <1>6, <1>7, <1>8

(* Between choices, and unless one has failed since, what the tunnel is    *)
(* set to, what the UI is shown, what is saved and what the VPN is told    *)
(* agree, for any choices, transactions and ticks (select_proxy,           *)
(* record_proxy_selection, sync_live_controller_route).                    *)
THEOREM ChoiceIsEverywhere ==
    ASSUME Select!ConstantsOK
    PROVE  Select!Spec => []Select!AllAgree
  <1>1. Select!Init => SelInv
    BY SelectInit
  <1>2. SelInv /\ [Select!Next]_(Select!vars) => SelInv'
    <2> SUFFICES ASSUME SelInv, [Select!Next]_(Select!vars) PROVE SelInv'
      OBVIOUS
    <2>1. CASE UNCHANGED Select!vars
      BY <2>1 DEF Select!vars, Select!rest, SelInv, SelTypes, PickStands, ReloadReadsSaved,
                  Agree, Quiet, Select!At, Select!Does
    <2>2. CASE Select!Next
      BY <2>2, ClickKeeps, CheckKeeps, SetKeeps, RecordKeeps, BesideKeeps
         DEF Select!Next, Select!Working
    <2> QED
      BY <2>1, <2>2
  <1>3. SelInv => Select!AllAgree
    BY DEF SelInv, Agree, Quiet, Select!AllAgree
  <1> QED
    BY <1>1, <1>2, <1>3, PTL DEF Select!Spec
=============================================================================
