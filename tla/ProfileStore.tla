---------------------------- MODULE ProfileStore ----------------------------
(***************************************************************************)
(* The profile store on disk (crates/paws_profile/src/lib.rs, backup.rs):  *)
(* an index profiles.json, a YAML file and a backup for each profile, and  *)
(* in every process that opened the store a copy of the index, from which  *)
(* the next index is written.                                              *)
(*                                                                         *)
(* A call stages a copy of the index, writes or moves files one by one,    *)
(* replaces the index by rename, and only then replaces the copy in        *)
(* memory; each of these is an action here, so that it may fail and the    *)
(* process may die before and after it.  Within a process calls are        *)
(* serialised by the state lock of Core.  Nothing serialises two processes.*)
(*                                                                         *)
(* Contents and settings are stamps; 0 is "absent".  The caches below      *)
(* runtime/ and providers/ are rebuilt from these files and left out.      *)
(***************************************************************************)
EXTENDS Naturals, Sequences, FiniteSets, SequencesExt, FiniteSetsExt

CONSTANTS
  Procs,     \* the processes that open the store: UI and VPN Extension
  Profiles,  \* profile ids: natural numbers, later ids are greater
  None,      \* no active profile, no call
  Kinds,     \* per process: the calls that it makes
  Faults,    \* what goes wrong, see AllFaults
  MaxOps     \* bound: calls in a behaviour

AllKinds == {"import", "copies", "replace", "update", "backup", "delete",
             "meta", "traffic", "rules", "active"}

AllFaults == {"io",       \* a step fails
              "undoIo",   \* so does putting a file back
              "reload",   \* the engine refuses what was stored
              "crash"}    \* the process dies

ConstantsOK ==
  /\ Profiles \subseteq Nat /\ None \notin Profiles
  /\ Kinds \in [Procs -> SUBSET AllKinds] /\ Faults \subseteq AllFaults
  /\ MaxOps \in Nat

VARIABLES
  index,    \* profiles.json, or Missing
  raw,      \* profiles/<id>.yaml
  backup,   \* backups/<id>.yaml
  mem,      \* per process: the store in memory, Missing if it is not open
  txn,      \* per process: the call it is in
  undo,     \* per process: what Core keeps to undo the call before
  given,    \* profile ids that have been given out
  stamp,    \* the last stamp given out
  broken    \* a rollback failed, and the caller was told so

vars == <<index, raw, backup, mem, txn, undo, given, stamp, broken>>

-----------------------------------------------------------------------------
(* Data *)

Stamps == 0..MaxOps
NoFiles == [p \in Profiles |-> 0]
Indexes == [docs : [Profiles -> Stamps], rules : [Profiles -> Stamps],
            traffic : [Profiles -> Stamps], active : Profiles \cup {None}]
Missing == None
EmptyIndex == [docs |-> NoFiles, rules |-> NoFiles, traffic |-> NoFiles,
               active |-> None]
Ids(s) == {p \in Profiles : s # Missing /\ s.docs[p] # 0}

\* A file to write: which of the two files of which profile, and its content.
W(file, p, c) == [file |-> file, p |-> p, c |-> c]
FileOf(w) == IF w.file = "raw" THEN raw[w.p] ELSE backup[w.p]

NoTxn == [kind |-> None, pc |-> "idle", p |-> None, staged |-> EmptyIndex,
          writes |-> <<>>, originals |-> <<>>, done |-> 0]
NoUndo == [kind |-> None, p |-> None, prev |-> EmptyIndex, raw |-> 0, backup |-> 0]

Fresh == stamp + 1
Idle(q) == txn[q].pc = "idle"
Open(q) == mem[q] # Missing

Init ==
  /\ index = Missing /\ raw = NoFiles /\ backup = NoFiles
  /\ mem = [q \in Procs |-> Missing]
  /\ txn = [q \in Procs |-> NoTxn]
  /\ undo = [q \in Procs |-> NoUndo]
  /\ given = {} /\ stamp = 0 /\ broken = FALSE

-----------------------------------------------------------------------------
(* Opening *)

\* validate_store_index: files of every profile are there, the active profile
\* exists, and every rule belongs to a profile.
ValidateStoreIndex ==
  /\ \A p \in Ids(index) : raw[p] # 0 /\ backup[p] # 0
  /\ index.active # None => index.active \in Ids(index)
  /\ \A p \in Profiles : index.rules[p] # 0 => p \in Ids(index)

HasProfileArtifacts == \E p \in Profiles : raw[p] # 0 \/ backup[p] # 0

\* ProfileStore::open succeeds
CanOpen == IF index = Missing THEN ~HasProfileArtifacts ELSE ValidateStoreIndex

OpenStore(q) ==
  /\ ~Open(q) /\ CanOpen
  /\ index' = IF index = Missing THEN EmptyIndex ELSE index
  /\ mem' = [mem EXCEPT ![q] = index']
  /\ UNCHANGED <<raw, backup, txn, undo, given, stamp, broken>>

-----------------------------------------------------------------------------
(* The calls: each stages an index and lists the files to write.             *)

\* The call of kind on p begins: the originals of the files are read.
\* Core keeps what undoes it if it means to reload the engine afterwards.
Begin(q, kind, p, staged, writes, undoable) ==
  /\ kind \in Kinds[q] /\ Idle(q) /\ Open(q) /\ stamp < MaxOps
  /\ stamp' = Fresh
  /\ txn' = [txn EXCEPT ![q] =
       [kind |-> kind, p |-> p, staged |-> staged, writes |-> writes,
        originals |-> [i \in DOMAIN writes |-> FileOf(writes[i])], done |-> 0,
        pc |-> IF kind = "delete" THEN "move" ELSE "write"]]
  /\ \E keep \in IF undoable THEN BOOLEAN ELSE {FALSE} :
       IF keep
       THEN /\ undo[q].kind = None
            /\ undo' = [undo EXCEPT ![q] =
                 [kind |-> kind, p |-> p, prev |-> mem[q],
                  raw |-> IF p \in Profiles THEN raw[p] ELSE 0,
                  backup |-> IF p \in Profiles THEN backup[p] ELSE 0]]
       ELSE /\ kind # "traffic" => undo[q].kind = None
            /\ UNCHANGED undo
  /\ UNCHANGED <<index, raw, backup, mem, broken>>

\* import_profile_content_with_subscription_metadata
ImportProfileContent(q) ==
  \E p \in Profiles \ given :
    /\ \A o \in Profiles \ given : p <= o
    /\ given' = given \cup {p}
    /\ Begin(q, "import", p,
             [mem[q] EXCEPT !.docs[p] = Fresh,
                            !.active = IF @ = None THEN p ELSE @],
             <<W("raw", p, Fresh), W("backup", p, Fresh)>>, TRUE)

\* restore_portable_backup: copies of the archived profiles; the active profile
\* stays, even if there is none
RestorePortableBackup(q) ==
  \E ps \in SUBSET (Profiles \ given) :
    /\ ps # {}
    /\ given' = given \cup ps
    /\ Begin(q, "copies", None,
             [mem[q] EXCEPT !.docs = [p \in Profiles |-> IF p \in ps THEN Fresh ELSE @[p]]],
             FlattenSeq([i \in 1..Cardinality(ps) |->
               LET p == SetToSeq(ps)[i]
               IN <<W("raw", p, Fresh), W("backup", p, Fresh)>>]), FALSE)

\* replace_profile_content_and_subscription_metadata
ReplaceProfileContent(q) ==
  \E p \in Ids(mem[q]) :
    /\ Begin(q, "replace", p, [mem[q] EXCEPT !.docs[p] = Fresh],
             <<W("raw", p, Fresh), W("backup", p, Fresh)>>, TRUE)
    /\ UNCHANGED given

\* update_profile_content
UpdateProfileContent(q) ==
  \E p \in Ids(mem[q]) :
    /\ Begin(q, "update", p, [mem[q] EXCEPT !.docs[p] = Fresh],
             <<W("raw", p, Fresh)>>, TRUE)
    /\ UNCHANGED given

\* restore_profile_backup; it fails if the backup cannot be read
RestoreProfileBackup(q) ==
  \E p \in Ids(mem[q]) :
    /\ backup[p] # 0
    /\ Begin(q, "backup", p, [mem[q] EXCEPT !.docs[p] = Fresh],
             <<W("raw", p, backup[p])>>, TRUE)
    /\ UNCHANGED given

\* Settings, subscription, selections, a failed refresh: only the index.
\* set_profile_dns_config, ..._vpn_config, ..._network_config,
\* update_profile_subscription, mark_profile_refresh_failed, set_selected_proxy
ChangeDocument(q) ==
  \E p \in Ids(mem[q]) :
    /\ Begin(q, "meta", p, [mem[q] EXCEPT !.docs[p] = Fresh], <<>>, TRUE)
    /\ UNCHANGED given

\* add_profile_traffic, by the sampler: beside any transaction of Core
AddProfileTraffic(q) ==
  \E p \in Ids(mem[q]) :
    /\ Begin(q, "traffic", p, [mem[q] EXCEPT !.traffic[p] = @ + 1], <<>>, FALSE)
    /\ UNCHANGED given

\* import_rules_for_profile, stage_manual_rule with persist, set_rule_enabled,
\* reorder_rules, delete_rule
ChangeRules(q) ==
  \E p \in Ids(mem[q]) :
    /\ Begin(q, "rules", p, [mem[q] EXCEPT !.rules[p] = Fresh], <<>>, TRUE)
    /\ UNCHANGED given

\* set_active
SetActive(q) ==
  \E p \in Ids(mem[q]) :
    /\ p # mem[q].active
    /\ Begin(q, "active", p, [mem[q] EXCEPT !.active = p], <<>>, FALSE)
    /\ UNCHANGED given

\* delete_profile: the rules go too, and the first remaining profile is active
DeleteProfile(q) ==
  \E p \in Ids(mem[q]) :
    LET rest == Ids(mem[q]) \ {p}
    IN /\ Begin(q, "delete", p,
                [mem[q] EXCEPT !.docs[p] = 0, !.rules[p] = 0, !.traffic[p] = 0,
                               !.active = IF @ # p THEN @
                                          ELSE IF rest = {} THEN None ELSE Min(rest)],
                <<W("raw", p, 0), W("backup", p, 0)>>, FALSE)
       /\ UNCHANGED given

-----------------------------------------------------------------------------
(* Undoing a call whose configuration the engine refused                     *)

\* Core accepts what it stored.
Keep(q) ==
  /\ Idle(q) /\ undo[q].kind # None
  /\ undo' = [undo EXCEPT ![q] = NoUndo]
  /\ UNCHANGED <<index, raw, backup, mem, txn, given, stamp, broken>>

\* A rollback is a transaction of its own.
BeginUndo(q, kind, staged, writes, pc) ==
  /\ "reload" \in Faults /\ Idle(q) /\ Open(q) /\ undo[q].kind # None
  /\ txn' = [txn EXCEPT ![q] =
       [kind |-> kind, p |-> undo[q].p, staged |-> staged, writes |-> writes, pc |-> pc,
        originals |-> [i \in DOMAIN writes |-> FileOf(writes[i])], done |-> 0]]
  /\ undo' = [undo EXCEPT ![q] = NoUndo]
  /\ UNCHANGED <<index, raw, backup, mem, given, stamp, broken>>

\* restore_profile_checkpoint: the document and both files as they were
RestoreProfileCheckpoint(q) ==
  LET u == undo[q] IN
  /\ u.kind \in {"replace", "update", "backup", "meta"}
  /\ BeginUndo(q, "checkpoint",
               [mem[q] EXCEPT !.docs[u.p] = u.prev.docs[u.p],
                              !.traffic[u.p] = u.prev.traffic[u.p]],
               <<W("raw", u.p, u.raw), W("backup", u.p, u.backup)>>, "write")

\* rollback_profile_import: the index from before, the files moved away
RollbackProfileImport(q) ==
  LET u == undo[q] IN
  /\ u.kind = "import" /\ u.p \in Ids(mem[q])
  /\ BeginUndo(q, "delete", u.prev, <<W("raw", u.p, 0), W("backup", u.p, 0)>>, "move")

\* rollback_profile_store_after_failure: persist the index from before
PersistPrevious(q) ==
  /\ undo[q].kind = "rules"
  /\ BeginUndo(q, "previous", undo[q].prev, <<>>, "write")

-----------------------------------------------------------------------------
(* The steps of a transaction                                                *)

\* atomic_write, or a rename into or out of the deletion directory
PutFile(w, c) ==
  /\ raw' = IF w.file = "raw" THEN [raw EXCEPT ![w.p] = c] ELSE raw
  /\ backup' = IF w.file = "backup" THEN [backup EXCEPT ![w.p] = c] ELSE backup

\* The next file of commit_staged_with_files is written, or the next one of
\* commit_staged_delete is moved away.
PutNext(q) ==
  LET t == txn[q] IN
  /\ t.pc \in {"write", "move"} /\ t.done < Len(t.writes)
  /\ PutFile(t.writes[t.done + 1], t.writes[t.done + 1].c)
  /\ txn' = [txn EXCEPT ![q].done = t.done + 1]
  /\ UNCHANGED <<index, mem, undo, given, stamp, broken>>

\* A file cannot be written or moved, or the index cannot be saved: undo the
\* files that were done.
Fails(q) ==
  /\ "io" \in Faults /\ txn[q].pc \in {"write", "move"}
  /\ txn' = [txn EXCEPT ![q].pc = "rollback"]
  /\ UNCHANGED <<index, raw, backup, mem, undo, given, stamp, broken>>

\* rollback_file_writes and restore_moved_paths: in reverse order; a file that
\* cannot be restored is reported, and the next one is tried
RollbackFile(q) ==
  LET t == txn[q] IN
  /\ t.pc = "rollback" /\ t.done > 0
  /\ \/ PutFile(t.writes[t.done], t.originals[t.done]) /\ UNCHANGED broken
     \/ /\ "undoIo" \in Faults
        /\ broken' = TRUE /\ UNCHANGED <<raw, backup>>
  /\ txn' = [txn EXCEPT ![q].done = t.done - 1]
  /\ UNCHANGED <<index, mem, undo, given, stamp>>

\* Mutant of ReturnError: the staged store is kept in memory.
ReturnErrorStaged(q) ==
  /\ txn[q].pc = "rollback" /\ txn[q].done = 0
  /\ mem' = [mem EXCEPT ![q] = txn[q].staged]
  /\ txn' = [txn EXCEPT ![q] = NoTxn]
  /\ undo' = [undo EXCEPT ![q] = NoUndo]
  /\ UNCHANGED <<index, raw, backup, given, stamp, broken>>

\* combine_transaction_errors: the call returns its error.
ReturnError(q) ==
  /\ txn[q].pc = "rollback" /\ txn[q].done = 0
  /\ txn' = [txn EXCEPT ![q] = NoTxn]
  /\ undo' = [undo EXCEPT ![q] = IF undo[q].kind = txn[q].kind THEN NoUndo ELSE @]
  /\ UNCHANGED <<index, raw, backup, mem, given, stamp, broken>>

\* save: the index is replaced by rename, then the copy in memory
Save(q) ==
  LET t == txn[q] IN
  /\ t.pc \in {"write", "move"} /\ t.done = Len(t.writes)
  /\ index' = t.staged /\ mem' = [mem EXCEPT ![q] = t.staged]
  /\ txn' = [txn EXCEPT ![q] = NoTxn]
  /\ UNCHANGED <<raw, backup, undo, given, stamp, broken>>

\* The process dies, in the middle of anything.
Crash(q) ==
  /\ "crash" \in Faults /\ Open(q)
  /\ mem' = [mem EXCEPT ![q] = Missing]
  /\ txn' = [txn EXCEPT ![q] = NoTxn]
  /\ undo' = [undo EXCEPT ![q] = NoUndo]
  /\ UNCHANGED <<index, raw, backup, given, stamp, broken>>

-----------------------------------------------------------------------------
Next ==
  \E q \in Procs :
    \/ OpenStore(q)
    \/ ImportProfileContent(q) \/ RestorePortableBackup(q)
    \/ ReplaceProfileContent(q) \/ UpdateProfileContent(q)
    \/ RestoreProfileBackup(q) \/ ChangeDocument(q) \/ AddProfileTraffic(q)
    \/ ChangeRules(q) \/ SetActive(q) \/ DeleteProfile(q)
    \/ Keep(q) \/ RestoreProfileCheckpoint(q) \/ RollbackProfileImport(q)
    \/ PersistPrevious(q)
    \/ PutNext(q) \/ Fails(q) \/ RollbackFile(q) \/ ReturnError(q) \/ Save(q)
    \/ Crash(q)

Spec == Init /\ [][Next]_vars

-----------------------------------------------------------------------------
(* Properties *)

\* Every store, staged, in memory or on disk, is well formed, and no counter
\* passes its bound.
TypeOK ==
  /\ index \in Indexes \cup {Missing}
  /\ raw \in [Profiles -> Stamps] /\ backup \in [Profiles -> Stamps]
  /\ \A q \in Procs : mem[q] \in Indexes \cup {Missing} /\ txn[q].staged \in Indexes
  /\ given \subseteq Profiles /\ stamp \in Stamps /\ broken \in BOOLEAN

\* No transaction has touched files without saving the index yet.
Quiet == \A q \in Procs : Idle(q)

\* While every rollback succeeds, between calls a process that starts can open
\* the store: validate_store_index finds each file the index names.
OpensBetweenCalls == ~broken /\ Quiet => CanOpen

\* Processes may die in any step: when none is left, the next one can open what
\* they left on disk.  A store that cannot be opened disables every call.
NobodyIsLockedOut == (\A q \in Procs : ~Open(q)) => CanOpen

\* Between calls the copy in memory is the index on disk, also after failures,
\* so that the next save loses nothing.
MemoryIsIndex ==
  \A q \in Procs : Idle(q) /\ Open(q) => mem[q] = index

\* A save changes what its own call is about and nothing else: no call undoes
\* what another one stored.
SaveKeepsOthers ==
  \A q \in Procs, o \in Profiles :
    /\ index # Missing /\ txn[q].pc \in {"write", "move"} /\ index' # index
    /\ txn[q].p \in Profiles \ {o}
    => index'.docs[o] = index.docs[o] /\ index'.rules[o] = index.rules[o]

\* That, of every step.
SavesOnlyItsOwn == [][SaveKeepsOthers]_vars

\* What the sampler has added to a profile's traffic stays added while the
\* profile exists.
\* It does not hold: see the observations in the README.
TrafficIsKept ==
  [][index # Missing =>
       \A p \in Ids(index) : p \in Ids(index') => index'.traffic[p] >= index.traffic[p]]_vars

\* The store as its callers see it: while files are being written or put back,
\* the state before the call.
Visible ==
  LET busy == {q \in Procs : ~Idle(q)}
      s == IF index = Missing THEN EmptyIndex ELSE index
      Seen(file, f) == [p \in Profiles |->
        IF p \notin Ids(s) THEN 0
        ELSE IF \E q \in busy : \E i \in 1..txn[q].done :
                  txn[q].writes[i].p = p /\ txn[q].writes[i].file = file
             THEN LET q == CHOOSE q \in busy : TRUE
                      i == CHOOSE i \in 1..txn[q].done :
                             txn[q].writes[i].p = p /\ txn[q].writes[i].file = file
                  IN txn[q].originals[i]
             ELSE f[p]]
  IN [docs |-> s.docs, rules |-> s.rules, active |-> s.active,
      raw |-> Seen("raw", raw), backup |-> Seen("backup", backup)]

Atomic == INSTANCE AtomicStore WITH st <- Visible, Stamps <- Stamps

\* commit_staged_with_files and commit_staged_delete are atomic: to a caller
\* every transaction happens at once, or fails and changes nothing.
TransactionsAreAtomic == Atomic!Spec

\* The same of one step.
AtomicStep == Visible' = Visible \/ Atomic!Next
=============================================================================
