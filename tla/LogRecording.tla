---------------------------- MODULE LogRecording -----------------------------
(***************************************************************************)
(* Log recording.  A marker file holds the id of the session that is being *)
(* recorded, the wall clock when it was switched on.  Each of the two      *)
(* processes has two buffers that follow the marker and append to the same *)
(* archive: the log of Core (RecordedLogBuffer), written as it is pushed,  *)
(* and the log of the engine (RuntimeLogBuffer), captured by any thread    *)
(* and written by the one-second sampler.  Only the UI process switches    *)
(* recording on and off, deletes the archive and clears the logs.          *)
(*                                                                         *)
(* The archive is that of one day; the lines the Core log appends are not  *)
(* kept apart, as nothing reads them back.  The clock moves at every event *)
(* that reads it: two readings are never equal.                            *)
(***************************************************************************)
EXTENDS Naturals, Sequences, FiniteSets

CONSTANTS
    None,        \* Option::None: no marker, no session, no error
    Failed,      \* a marker that could not be read
    Procs,       \* the processes that run Core, "ui" among them
    Loggers,     \* the processes whose engine logs anything
    MaxMemory,   \* MAX_IN_MEMORY_LOGS
    MaxPending,  \* MAX_PENDING_RUNTIME_LOGS
    MaxCaptures, \* bound on engine log entries of a process
    MaxPushes,   \* bound on Core log entries
    MaxToggles,  \* bound on taps of the recording switch
    MaxDeletes,  \* bound on deletions and exports of the archive
    MaxClears,   \* bound on clear_logs
    MaxFaults,   \* bound on file operations that fail
    MaxRestarts  \* bound on processes that die and start again

ConstantsOK ==
    /\ "ui" \in Procs /\ Loggers \subseteq Procs
    /\ {MaxMemory, MaxPending, MaxCaptures, MaxPushes, MaxToggles, MaxDeletes,
        MaxClears, MaxFaults, MaxRestarts} \subseteq Nat
    /\ 0 < MaxPending

VARIABLES
    marker,   \* .recording: the session that is recorded, or None
    clock,    \* the wall clock
    file,     \* the archive of the day: whether it is linked, and its inode
    archive,  \* the engine entries in it
    rec,      \* RecordedLogBuffer of each process
    run,      \* RuntimeLogBuffer of each process
    step,     \* where the holder of the state lock of a process stands
    ui,       \* the logs page: shown status, switch and archive operation
    captured, \* for each entry, the session recorded when it was captured
    dropped,  \* entries given up before they reached the archive (history)
    left      \* what is left of the bounds

vars == <<marker, clock, file, archive, rec, run, step, ui, captured, dropped,
          left>>

Sources == {"Control", "Session", "Writer"}

TypeOK ==
    /\ marker \in 1..clock \cup {None}
    /\ clock \in Nat
    /\ file \in [linked : BOOLEAN, inode : 1..MaxDeletes + 1]
    /\ archive \in Seq([proc : Procs, n : 1..MaxCaptures, session : 1..clock])
    /\ rec \in [Procs -> [session : 1..clock \cup {None},
                          app : 0..file.inode, err : Sources \cup {None},
                          bad : BOOLEAN]]
    /\ \A p \in Procs :
         /\ run[p].session \in 1..clock \cup {None}
         /\ run[p].app \in 0..file.inode
         /\ run[p].q \in Seq([seq : Nat, at : 1..clock, n : 1..MaxCaptures])
         /\ Len(run[p].q) <= MaxPending
         /\ run[p].persisted < run[p].next
         /\ run[p].err \in BOOLEAN
    /\ step \in [Procs -> [at : {"idle", "synced", "read", "enable"},
                           read : 1..clock \cup {None}]]
    /\ ui \in [shown : BOOLEAN, want : BOOLEAN,
               toggle : {"no", "asked", "ok", "err"},
               files : {"no", "export", "delete", "ok", "err"},
               got : BOOLEAN, listed : BOOLEAN]
    /\ captured \in [Procs -> Seq([session : 1..clock \cup {None},
                                   sure : BOOLEAN])]
    /\ dropped \subseteq Procs \X (1..MaxCaptures)
    /\ left \in [pushes : 0..MaxPushes, toggles : 0..MaxToggles,
                 deletes : 0..MaxDeletes, clears : 0..MaxClears,
                 faults : 0..MaxFaults, restarts : 0..MaxRestarts]

Spend(bound) == left[bound] > 0 /\ left' = [left EXCEPT ![bound] = @ - 1]

\* The file operations of a step that fail.
Failing(points) == {f \in SUBSET points : Cardinality(f) <= left.faults}

Faulty(f) == left' = [left EXCEPT !.faults = @ - Cardinality(f)]

FreshRecorded == [session |-> None, app |-> 0, err |-> None, bad |-> FALSE]

FreshRuntime == [session |-> None, app |-> 0, q |-> <<>>, next |-> 1,
                 persisted |-> 0, err |-> FALSE]

Idle == [at |-> "idle", read |-> None]

\* ui_store: the logs store of a new root takes log_recording_status.
FreshUi == [shown |-> marker # None, want |-> FALSE, toggle |-> "no",
            files |-> "no", got |-> FALSE, listed |-> FALSE]

Init ==
    /\ marker = None /\ clock = 0
    /\ file = [linked |-> FALSE, inode |-> 1] /\ archive = <<>>
    /\ rec = [p \in Procs |-> FreshRecorded]
    /\ run = [p \in Procs |-> FreshRuntime]
    /\ step = [p \in Procs |-> Idle]
    /\ ui = FreshUi
    /\ captured = [p \in Procs |-> <<>>] /\ dropped = {}
    /\ left = [pushes |-> MaxPushes, toggles |-> MaxToggles,
               deletes |-> MaxDeletes, clears |-> MaxClears,
               faults |-> MaxFaults, restarts |-> MaxRestarts]

-----------------------------------------------------------------------------
(* RecordedLogBuffer.                                                      *)

SetError(b, source) == [b EXCEPT !.err = source]

ClearErrorFrom(b, source) == IF b.err = source THEN [b EXCEPT !.err = None] ELSE b

\* record_writer_result, and what the writer itself knows of its last try.
WriterResult(b, ok) ==
    LET c == [b EXCEPT !.bad = ~ok] IN
    IF ok THEN ClearErrorFrom(c, "Writer") ELSE SetError(c, "Writer")

\* active_session_id
ReadMarker(f) == IF "read" \in f THEN Failed ELSE marker

\* sync_session after it read r; the appender opens the archive of the day.
SyncSession(b, r, f) ==
    IF r = Failed THEN SetError(b, "Session")
    ELSE LET known == ClearErrorFrom(b, "Session")
             turned == IF r = known.session THEN known
                       ELSE ClearErrorFrom([known EXCEPT !.session = r,
                                              !.app = 0, !.bad = FALSE], "Writer")
         IN IF turned.session = None \/ turned.app # 0 THEN turned
            ELSE IF "build" \in f THEN WriterResult(turned, FALSE)
            ELSE WriterResult([turned EXCEPT !.app = file.inode], TRUE)

\* push: the entry is written at once and not again when that fails.
PushEntry(b, r, f) ==
    LET synced == SyncSession(b, r, f) IN
    IF synced.session = None \/ synced.app = 0 THEN synced
    ELSE WriterResult(synced, "write" \notin f)

\* A writer that opens the archive creates it.
Opened(before, after) ==
    IF after.app # 0 /\ before.app # after.app
    THEN [file EXCEPT !.linked = TRUE] ELSE file

\* Core logs something while it holds the state lock.
Push(p) ==
    /\ step[p].at = "idle" /\ left.pushes > 0
    /\ \E f \in Failing({"read", "build", "write"}) :
         /\ left' = [left EXCEPT !.pushes = @ - 1, !.faults = @ - Cardinality(f)]
         /\ rec' = [rec EXCEPT ![p] = PushEntry(@, ReadMarker(f), f)]
         /\ file' = Opened(rec[p], rec'[p])
    /\ UNCHANGED <<marker, clock, archive, run, step, ui, captured, dropped>>

-----------------------------------------------------------------------------
(* RuntimeLogBuffer.                                                       *)

\* The lines a thread logs now belong to the session of the marker; while
\* recording is being switched on they may or may not.
Recorded ==
    IF step["ui"].at = "enable" THEN [session |-> step["ui"].read, sure |-> FALSE]
    ELSE [session |-> marker, sure |-> marker # None]

\* capture, by any thread, unless the sampler holds the buffer
Capture(p) ==
    /\ p \in Loggers /\ Len(captured[p]) < MaxCaptures
    /\ step[p].at # "read"
    /\ LET full == Len(run[p].q) >= MaxPending
           kept == IF full THEN Tail(run[p].q) ELSE run[p].q
           n == Len(captured[p]) + 1
       IN /\ run' = [run EXCEPT ![p].q = Append(kept, [seq |-> run[p].next,
                                                at |-> clock + 1, n |-> n]),
                                ![p].next = @ + 1]
          /\ dropped' = IF full THEN dropped \cup {<<p, Head(run[p].q).n>>}
                        ELSE dropped
    /\ captured' = [captured EXCEPT ![p] = Append(@, Recorded)]
    /\ clock' = clock + 1
    /\ UNCHANGED <<marker, file, archive, rec, step, ui, left>>

\* refresh_telemetry: the sampler takes the state lock, and the Core log
\* follows the marker.
SampleBegins(p) ==
    /\ step[p].at = "idle"
    /\ \E f \in Failing({"read", "build"}) :
         /\ Faulty(f)
         /\ rec' = [rec EXCEPT ![p] = SyncSession(@, ReadMarker(f), f)]
         /\ file' = Opened(rec[p], rec'[p])
    /\ step' = [step EXCEPT ![p] = [at |-> "synced", read |-> None]]
    /\ UNCHANGED <<marker, clock, archive, run, ui, captured, dropped>>

\* sync: it takes the buffer and reads the marker.
RuntimeReads(p) ==
    /\ step[p].at = "synced"
    /\ \E f \in Failing({"read"}) :
         /\ Faulty(f)
         /\ IF f = {}
            THEN /\ step' = [step EXCEPT ![p] = [at |-> "read", read |-> marker]]
                 /\ UNCHANGED run
            ELSE /\ step' = [step EXCEPT ![p] = Idle]
                 /\ run' = [run EXCEPT ![p].err = TRUE]
    /\ UNCHANGED <<marker, clock, file, archive, rec, ui, captured, dropped>>

\* Another session: what was captured before it is forgotten.
Turned(b, r) ==
    IF r = b.session THEN b
    ELSE [b EXCEPT !.q = IF r = None THEN <<>>
                         ELSE SelectSeq(@, LAMBDA e : e.at >= r),
                   !.persisted = 0, !.app = 0, !.session = r, !.err = FALSE]

Unwritten(b) == SelectSeq(b.q, LAMBDA e : e.seq > b.persisted)

\* The oldest go while there are too many, as far as they were written.
Trimmed(q, persisted) ==
    LET over == IF Len(q) > MaxMemory THEN Len(q) - MaxMemory ELSE 0
        gone == CHOOSE k \in 0..over :
                  /\ \A i \in 1..k : q[i].seq <= persisted
                  /\ k < over => q[k + 1].seq > persisted
    IN SubSeq(q, gone + 1, Len(q))

\* Mutant: the position is kept from before the writes.
PersistedNone(b, k) == b.persisted

\* The last entry of the first k that were written.
Persisted(b, k) == IF k = 0 THEN b.persisted ELSE Unwritten(b)[k].seq

\* What the writer puts into the archive: nothing into a deleted one.
Landed(p, b, k) ==
    IF b.app # file.inode THEN <<>>
    ELSE [i \in 1..k |-> [proc |-> p, n |-> Unwritten(b)[i].n,
                          session |-> b.session]]

\* sync, after the read: it opens the archive and appends in order what was
\* not written yet, up to the first entry that fails.
RuntimeWrites(p) ==
    /\ step[p].at = "read"
    /\ step' = [step EXCEPT ![p] = Idle]
    /\ LET b == Turned(run[p], step[p].read) IN
       IF b.session = None
       THEN /\ run' = [run EXCEPT ![p] = [b EXCEPT !.q = <<>>, !.persisted = 0,
                                                   !.app = 0, !.err = FALSE]]
            /\ UNCHANGED <<file, archive, left>>
       ELSE \E f \in Failing({"build", "write"}) :
              LET closed == b.app = 0
                  c == IF ~closed THEN b
                       ELSE IF "build" \in f THEN [b EXCEPT !.err = TRUE]
                       ELSE [b EXCEPT !.app = file.inode, !.err = FALSE]
                  all == Len(Unwritten(c))
              IN /\ "build" \in f => closed /\ "write" \notin f
                 /\ "write" \in f => all > 0
                 /\ Faulty(f)
                 /\ file' = Opened(b, c)
                 /\ IF c.app = 0
                    THEN run' = [run EXCEPT ![p] = c] /\ UNCHANGED archive
                    ELSE \E k \in IF "write" \in f THEN 0..all - 1 ELSE {all} :
                           /\ archive' = archive \o Landed(p, c, k)
                           /\ run' = [run EXCEPT ![p] =
                                [c EXCEPT !.q = Trimmed(@, Persisted(c, k)),
                                          !.persisted = Persisted(c, k),
                                          !.err = \/ "write" \in f
                                                  \/ all = 0 /\ c.err]]
    /\ UNCHANGED <<marker, clock, rec, ui, captured, dropped>>

-----------------------------------------------------------------------------
(* The logs page and the operations of Core in the UI process.             *)

TapToggle ==
    /\ ui.toggle = "no" /\ Spend("toggles")
    /\ ui' = [ui EXCEPT !.toggle = "asked", !.want = ~ui.shown]
    /\ UNCHANGED <<marker, clock, file, archive, rec, run, step, captured, dropped>>

Asked == ui.toggle = "asked" /\ step["ui"].at = "idle"

\* The result of set_log_recording_enabled: an error is also kept as the
\* error of the control.
Refuse == ui' = [ui EXCEPT !.toggle = "err"]

Accept == ui' = [ui EXCEPT !.toggle = "ok", !.got = marker' # None]

\* The status cannot be read, or says what is asked for already.
SetNothing ==
    /\ Asked
    /\ \E f \in Failing({"read"}) :
         /\ Faulty(f)
         /\ f = {} => ui.want = (marker # None)
         /\ rec' = [rec EXCEPT !["ui"] = IF f = {} THEN ClearErrorFrom(@, "Control")
                                         ELSE SetError(@, "Control")]
         /\ UNCHANGED marker
         /\ IF f = {} THEN Accept ELSE Refuse
    /\ UNCHANGED <<clock, file, archive, run, step, captured, dropped>>

\* RuntimeLogBuffer::clear
Cleared(b) == [b EXCEPT !.q = <<>>, !.persisted = 0]

\* The logs are cleared, the archive is opened and the session is named.
EnableBegins ==
    /\ Asked /\ ui.want /\ marker = None
    /\ run' = [run EXCEPT !["ui"] = Cleared(@)]
    /\ \E f \in Failing({"build"}) :
         /\ Faulty(f)
         /\ IF f = {}
            THEN /\ file' = [file EXCEPT !.linked = TRUE]
                 /\ clock' = clock + 1
                 /\ step' = [step EXCEPT !["ui"] = [at |-> "enable", read |-> clock + 1]]
                 /\ UNCHANGED <<rec, ui>>
            ELSE /\ rec' = [rec EXCEPT !["ui"] = SetError(@, "Control")]
                 /\ Refuse
                 /\ UNCHANGED <<file, clock, step>>
    /\ UNCHANGED <<marker, archive, captured, dropped>>

\* The end of a change that was made: the control error is cleared, and set
\* again when the status cannot be read.
Finish(b, f) ==
    /\ rec' = [rec EXCEPT !["ui"] =
                 LET c == ClearErrorFrom(b, "Control")
                 IN IF "status" \in f THEN SetError(c, "Control") ELSE c]
    /\ IF "status" \in f THEN Refuse ELSE Accept

\* The marker is renamed into place and the Core log follows it.
EnableEnds ==
    /\ step["ui"].at = "enable"
    /\ step' = [step EXCEPT !["ui"] = Idle]
    /\ \E f \in Failing({"rename", "read", "build", "write", "status"}) :
         /\ Faulty(f)
         /\ IF "rename" \in f
            THEN /\ f = {"rename"}
                 /\ rec' = [rec EXCEPT !["ui"] = SetError(@, "Control")]
                 /\ Refuse
                 /\ UNCHANGED <<marker, file>>
            ELSE /\ marker' = step["ui"].read
                 /\ Finish(PushEntry(rec["ui"],
                              IF "read" \in f THEN Failed ELSE marker', f), f)
                 /\ file' = Opened(rec["ui"], rec'["ui"])
    /\ UNCHANGED <<clock, archive, run, captured, dropped>>

\* A last entry, the marker is removed, and both logs of the process end.
Disable ==
    /\ Asked /\ ~ui.want /\ marker # None
    /\ \E f \in Failing({"read", "build", "write", "remove", "again", "status"}) :
         LET pushed == PushEntry(rec["ui"], ReadMarker(f), f) IN
         /\ Faulty(f)
         /\ file' = Opened(rec["ui"], pushed)
         /\ IF "remove" \in f
            THEN /\ rec' = [rec EXCEPT !["ui"] = SetError(pushed, "Control")]
                 /\ Refuse
                 /\ UNCHANGED <<marker, run>>
            ELSE /\ marker' = None
                 /\ run' = [run EXCEPT !["ui"] = Cleared(@)]
                 /\ Finish(SyncSession(pushed,
                             IF "again" \in f THEN Failed ELSE None, f), f)
    /\ UNCHANGED <<clock, archive, step, captured, dropped>>

ToggleCallback ==
    /\ ui.toggle \in {"ok", "err"}
    /\ ui' = [ui EXCEPT !.toggle = "no",
                        !.shown = IF ui.toggle = "ok" THEN ui.got ELSE @]
    /\ UNCHANGED <<marker, clock, file, archive, rec, run, step, captured,
                   dropped, left>>

\* clear_logs, which also forgets what was not written yet
ClearLogs ==
    /\ step["ui"].at = "idle" /\ Spend("clears")
    /\ run' = [run EXCEPT !["ui"] = Cleared(@)]
    /\ dropped' = dropped \cup {<<"ui", run["ui"].q[i].n>> : i \in DOMAIN run["ui"].q}
    /\ UNCHANGED <<marker, clock, file, archive, rec, step, ui, captured>>

\* export_log_archive and delete_log_archive wait for one another; the page
\* does not offer to delete the archive it shows as active.
TapArchive(what) ==
    /\ ui.files = "no"
    /\ what = "delete" => ~ui.shown
    /\ Spend("deletes")
    /\ ui' = [ui EXCEPT !.files = what]
    /\ UNCHANGED <<marker, clock, file, archive, rec, run, step, captured, dropped>>

Export ==
    /\ ui.files = "export" /\ step["ui"].at = "idle"
    /\ ui' = [ui EXCEPT !.files = "err"]
    /\ UNCHANGED <<marker, clock, file, archive, rec, run, step, captured,
                   dropped, left>>

\* delete_log_archive: refused while recording is on.
Delete ==
    /\ ui.files = "delete" /\ step["ui"].at = "idle"
    /\ \E f \in Failing({"read", "remove"}) :
         /\ Faulty(f)
         /\ IF f # {} \/ marker # None \/ ~file.linked
            THEN /\ ui' = [ui EXCEPT !.files = "err"]
                 /\ UNCHANGED <<file, archive>>
            ELSE /\ file' = [linked |-> FALSE, inode |-> file.inode + 1]
                 /\ archive' = <<>>
                 /\ ui' = [ui EXCEPT !.files = "ok", !.listed = FALSE]
    /\ UNCHANGED <<marker, clock, rec, run, step, captured, dropped>>

ArchiveCallback ==
    /\ ui.files \in {"ok", "err"}
    /\ ui' = [ui EXCEPT !.files = "no",
                        !.shown = IF ui.files = "ok" THEN ui.listed ELSE @]
    /\ UNCHANGED <<marker, clock, file, archive, rec, run, step, captured,
                   dropped, left>>

\* A process dies anywhere and starts again with empty buffers.
Restart(p) ==
    /\ Spend("restarts")
    /\ rec' = [rec EXCEPT ![p] = FreshRecorded]
    /\ run' = [run EXCEPT ![p] = FreshRuntime]
    /\ step' = [step EXCEPT ![p] = Idle]
    /\ dropped' = dropped \cup {<<p, run[p].q[i].n>> : i \in DOMAIN run[p].q}
    /\ ui' = IF p = "ui" THEN FreshUi ELSE ui
    /\ UNCHANGED <<marker, clock, file, archive, captured>>

-----------------------------------------------------------------------------

Sample(p) == SampleBegins(p) \/ RuntimeReads(p) \/ RuntimeWrites(p)

Switch == SetNothing \/ EnableBegins \/ EnableEnds \/ Disable

Next ==
    \/ \E p \in Procs : Push(p) \/ Capture(p) \/ Sample(p) \/ Restart(p)
    \/ Switch
    \/ TapToggle \/ ToggleCallback \/ ClearLogs
    \/ TapArchive("export") \/ TapArchive("delete")
    \/ Export \/ Delete \/ ArchiveCallback

Spec == Init /\ [][Next]_vars

\* The sampler runs once a second, and a task on Tokio ends.
Fair(n) ==
    \/ n = 1 /\ \E p \in Procs : Sample(p)
    \/ n = 2 /\ Switch

FairSpec == Spec /\ \A n \in 1..2 : WF_vars(Fair(n))

-----------------------------------------------------------------------------

Archived(p, n) == \E i \in DOMAIN archive : archive[i].proc = p /\ archive[i].n = n

Pending(p, n) ==
    \E i \in DOMAIN run[p].q : /\ run[p].q[i].n = n
                               /\ run[p].q[i].seq > run[p].persisted

\* Each engine entry is in the archive once and in the order it was logged,
\* whatever writes failed, were tried again, or crossed a change of session
\* (RuntimeLogBuffer::sync).
OnceInOrder ==
    \A i, j \in DOMAIN archive :
        i < j /\ archive[i].proc = archive[j].proc => archive[i].n < archive[j].n

\* What is in the archive was logged while recording was on or being switched
\* on, and was written for that very session: a process that notices late
\* that recording was off in between does not archive what it logged then.
OnlyWhileOn ==
    \A i \in DOMAIN archive :
        captured[archive[i].proc][archive[i].n].session = archive[i].session

\* Nothing logged in the session that is recorded goes missing: it is in the
\* archive or still to be written, unless it was one too many, cleared by the
\* user, or in a process that died.
NothingLost ==
    \A p \in Procs : \A n \in DOMAIN captured[p] :
        LET c == captured[p][n] IN
        c.sure /\ c.session = marker
            => Archived(p, n) \/ Pending(p, n) \/ <<p, n>> \in dropped

Waiting(p, n) ==
    /\ n \in DOMAIN captured[p] /\ Pending(p, n)
    /\ captured[p][n].sure /\ captured[p][n].session = marker

\* What is still to be written is written while recording stays on, though
\* writes fail: no entry waits forever (NothingLost says where it went).
PendingIsArchived ==
    \A p \in Loggers : \A n \in 1..MaxCaptures : []<>~Waiting(p, n)

\* A writer of the Core log that failed shows an error until it recovers or
\* its session ends (recorded_log_write_failure_is_visible_until_that_writer_
\* recovers).
\* It does not hold: see the observations in the README.
WriterErrorVisible == \A p \in Procs : rec[p].bad => rec[p].err # None

=============================================================================
