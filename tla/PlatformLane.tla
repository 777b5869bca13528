---------------------------- MODULE PlatformLane ----------------------------
(***************************************************************************)
(* One lane of the shared memory between the UI and the VPN Extension      *)
(* (crates/paws_core/src/platform_ipc.rs): two slots, written in turn by   *)
(* threads of one process, read by the other process without a lock.       *)
(*                                                                         *)
(* A publication updates the envelope of its binding and copies it under   *)
(* one mutex, takes a generation, writes the copy into slot generation % 2 *)
(* and then that slot's header.  A reader tries each slot three times and  *)
(* takes the valid frame of the greatest generation.  A body has two       *)
(* halves, so that a copy that overlaps a write can be torn; a header in   *)
(* the middle of being written is Torn.  A checksum identifies a body.     *)
(***************************************************************************)
EXTENDS Integers, FiniteSets, FiniteSetsExt

CONSTANTS
  Publishers,       \* threads: "state", "control" or "telemetry"
  Locked,           \* those that hold Core's state lock while they publish
  BigFrames,        \* publishers whose envelope may exceed a slot
  None, Torn,
  MaxPublications,  \* bound: publications of the bound process
  MaxAcks,          \* bound: acknowledgements through a binding of their own
  MaxRebinds,       \* bound: deaths of the writing process
  MaxClockBack      \* bound: times the wall clock is set back

Envelopes == [state : [ver : Nat, stamp : Nat], other : Nat]
Headers == [gen : Nat, sum : Envelopes]
Frames == [gen : Nat, env : Envelopes]

Tries == 3            \* read_frame
SlotCount == 2
Slots == 0..(SlotCount - 1)
Threads == Publishers \cup {"ack"}

ConstantsOK ==
  /\ Locked \subseteq Publishers /\ Publishers \subseteq {"state", "control", "telemetry"}
  /\ {MaxPublications, MaxAcks, MaxRebinds, MaxClockBack} \subseteq Nat
  /\ {None, Torn} \cap (Threads \cup Headers \cup Frames) = {}

Binding(t) == IF t = "ack" THEN "ack" ELSE "live"

VARIABLES
  slot,       \* per slot its header and the two halves of its body
  next,       \* next_generation of each binding
  published,  \* the envelope of each binding
  lock,       \* the thread that holds Core's state lock, or None
  mem,        \* per binding the thread inside write_memory, or None
  job,        \* per thread its publication: phase, envelope, generation
  clock,      \* SystemTime
  stamp,      \* platform_vpn_state_updated_at of the process
  version,    \* ghost: number of the latest state published in the lane
  frames,     \* ghost: the frames that have been written
  reader,     \* the call of read_lane in the other process
  seen,       \* ghost: the frame the last finished read returned, and when
  applied,    \* the state the reader applied last
  counts      \* publications, acks, rebinds and clock changes so far

vars == <<slot, next, published, lock, mem, job, clock, stamp, version,
          frames, reader, seen, applied, counts>>

NoState == [ver |-> 0, stamp |-> 0]
Empty == [state |-> NoState, other |-> 0]
Idle == [at |-> "idle", env |-> Empty, gen |-> 0]
Resting == [at |-> "idle", slot |-> 0, try |-> 1, first |-> None,
            half |-> Empty, rest |-> Empty, best |-> None, floor |-> 0, laps |-> 0]

Init ==
  /\ slot = [i \in Slots |-> [header |-> None, body |-> <<Empty, Empty>>]]
  /\ next = [live |-> 1, ack |-> 0]
  /\ published = [live |-> Empty, ack |-> Empty]
  /\ lock = None /\ mem = [live |-> None, ack |-> None]
  /\ job = [t \in Threads |-> Idle]
  /\ clock = 1 /\ stamp = 0 /\ version = 0
  /\ frames = {}
  /\ reader = Resting
  /\ seen = [best |-> None, floor |-> 0, laps |-> 0, asOf |-> 0]
  /\ applied = NoState
  /\ counts = [pub |-> 0, ack |-> 0, rebind |-> 0, back |-> 0]

-----------------------------------------------------------------------------
(* Publishing *)

Valid(h) == h \notin {None, Torn}

\* latest_generation: headers only
LatestGeneration == Max({0} \cup {slot[i].header.gen : i \in {j \in Slots : Valid(slot[j].header)}})

\* persist_platform_vpn_state_locked: strictly newer than what this process
\* stamped before
NextStamp == Max({clock, stamp + 1})

\* publish_state, publish_control, publish_telemetry: update and copy the
\* envelope.  Core's state lock is held by Locked callers until they return.
Update(t) ==
  LET n == counts.pub + 1
      new == IF t = "state"
             THEN [published["live"] EXCEPT !.state = [ver |-> n, stamp |-> NextStamp]]
             ELSE [published["live"] EXCEPT !.other = n]
  IN
  /\ t # "ack" /\ job[t] = Idle /\ counts.pub < MaxPublications
  /\ t \in Locked => lock = None
  /\ lock' = IF t \in Locked THEN t ELSE lock
  /\ stamp' = IF t = "state" THEN NextStamp ELSE stamp
  /\ clock' = clock + 1
  /\ published' = [published EXCEPT !["live"] = new]
  /\ job' = [job EXCEPT ![t] = [at |-> "number", env |-> new, gen |-> 0]]
  /\ counts' = [counts EXCEPT !.pub = n]
  /\ UNCHANGED <<slot, next, mem, version, frames, reader, seen, applied>>

\* acknowledge_terminal_platform_vpn_start_delivery: a binding of its own, with
\* an empty envelope and the generation after the latest.  It publishes a copy
\* of the reader's own state, newer than what the reader has applied.
AttachAck ==
  LET new == [state |-> [ver |-> applied.ver, stamp |-> clock], other |-> 0]
  IN
  /\ job["ack"] = Idle /\ counts.ack < MaxAcks
  /\ counts' = [counts EXCEPT !.ack = @ + 1]
  /\ clock' = clock + 1
  /\ next' = [next EXCEPT !["ack"] = LatestGeneration + 1]
  /\ published' = [published EXCEPT !["ack"] = new]
  /\ job' = [job EXCEPT !["ack"] = [at |-> "number", env |-> new, gen |-> 0]]
  /\ UNCHANGED <<slot, lock, mem, stamp, version, frames, reader, seen, applied>>

Unlocked(t) == IF lock = t THEN None ELSE lock

\* publish: the generation is taken after the envelope was copied
Number(t) ==
  /\ job[t].at = "number"
  /\ next' = [next EXCEPT ![Binding(t)] = @ + 1]
  /\ \/ /\ job' = [job EXCEPT ![t].at = "body", ![t].gen = next[Binding(t)]]
        /\ UNCHANGED lock
     \/ \* FrameTooLarge
        /\ t \in BigFrames
        /\ job' = [job EXCEPT ![t] = Idle]
        /\ lock' = Unlocked(t)
  /\ UNCHANGED <<slot, published, mem, clock, stamp, version, frames, reader,
                 seen, applied, counts>>

\* The writes of write_frame, each half under the mutex of the binding.
EnterMemory(t) == mem[Binding(t)] = None /\ mem' = [mem EXCEPT ![Binding(t)] = t]
LeaveMemory(t) == mem' = [mem EXCEPT ![Binding(t)] = None]

\* write_frame
SlotOf(t) == job[t].gen % SlotCount

BodyFirst(t) ==
  /\ job[t].at = "body" /\ EnterMemory(t)
  /\ slot' = [slot EXCEPT ![SlotOf(t)].body[1] = job[t].env]
  /\ job' = [job EXCEPT ![t].at = "rest"]
  /\ reader' = [reader EXCEPT !.laps = IF reader.at = "idle" THEN @ ELSE @ + 1]
  /\ UNCHANGED <<next, published, lock, clock, stamp, version, frames, seen,
                 applied, counts>>

BodyRest(t) ==
  /\ job[t].at = "rest" /\ LeaveMemory(t)
  /\ slot' = [slot EXCEPT ![SlotOf(t)].body[2] = job[t].env]
  /\ job' = [job EXCEPT ![t].at = "header"]
  /\ UNCHANGED <<next, published, lock, clock, stamp, version, frames, reader,
                 seen, applied, counts>>

HeaderFirst(t) ==
  /\ job[t].at = "header" /\ EnterMemory(t)
  /\ slot' = [slot EXCEPT ![SlotOf(t)].header = Torn]
  /\ job' = [job EXCEPT ![t].at = "commit"]
  /\ UNCHANGED <<next, published, lock, clock, stamp, version, frames, reader,
                 seen, applied, counts>>

\* The header is complete: the frame is the lane's, and publish returns.
HeaderRest(t) ==
  /\ job[t].at = "commit" /\ LeaveMemory(t)
  /\ slot' = [slot EXCEPT ![SlotOf(t)].header = [gen |-> job[t].gen, sum |-> job[t].env]]
  /\ frames' = frames \cup {[gen |-> job[t].gen, env |-> job[t].env]}
  /\ version' = IF t = "state" THEN job[t].env.state.ver ELSE version
  /\ job' = [job EXCEPT ![t] = Idle]
  /\ lock' = Unlocked(t)
  /\ UNCHANGED <<next, published, clock, stamp, reader, seen, applied, counts>>

\* The writing process dies, whatever its threads are doing, and another one
\* attaches to the same memory: attach_vpn_raw, seed_next_generation.
Rebind ==
  /\ counts.rebind < MaxRebinds
  /\ counts' = [counts EXCEPT !.rebind = @ + 1]
  /\ job' = [t \in Threads |-> Idle] /\ lock' = None
  /\ mem' = [live |-> None, ack |-> None]
  /\ published' = [published EXCEPT !["live"] = Empty]
  /\ next' = [next EXCEPT !["live"] = LatestGeneration + 1]
  /\ stamp' = 0
  /\ UNCHANGED <<slot, clock, version, frames, reader, seen, applied>>

SetClockBack ==
  /\ counts.back < MaxClockBack
  /\ counts' = [counts EXCEPT !.back = @ + 1]
  /\ clock' = 1
  /\ UNCHANGED <<slot, next, published, lock, mem, job, stamp, version, frames,
                 reader, seen, applied>>

-----------------------------------------------------------------------------
(* Reading *)

Writing == {t \in Threads : job[t].at \in {"rest", "header", "commit"}}
Unread == <<slot, next, published, lock, mem, job, clock, stamp, version, frames, counts>>

\* read_remote, on a notification or by the sampler of the process
StartRead ==
  /\ reader.at = "idle" /\ frames # {}
  /\ reader' = [Resting EXCEPT !.at = "header", !.floor = LatestGeneration,
                               !.laps = Cardinality(Writing)]
  /\ UNCHANGED <<Unread, seen, applied>>

\* This slot is done, with its frame or without.
NextSlot(r) == [r EXCEPT !.at = "header", !.slot = @ + 1, !.try = 1]

\* read_frame: three tries, then the slot counts as empty
Retry(r) == IF r.try = Tries THEN NextSlot(r) ELSE [r EXCEPT !.at = "header", !.try = @ + 1]
Reading == reader.slot \in Slots

ReadHeader ==
  /\ Reading /\ reader.at = "header"
  /\ reader' = LET h == slot[reader.slot].header
               IN IF Valid(h) THEN [reader EXCEPT !.at = "body", !.first = h]
                  ELSE Retry(reader)
  /\ UNCHANGED <<Unread, seen, applied>>

ReadBody ==
  /\ Reading /\ reader.at \in {"body", "rest"}
  /\ reader' = IF reader.at = "body"
               THEN [reader EXCEPT !.at = "rest", !.half = slot[reader.slot].body[1]]
               ELSE [reader EXCEPT !.at = "again", !.rest = slot[reader.slot].body[2]]
  /\ UNCHANGED <<Unread, seen, applied>>

\* A body whose checksum is that of the header
ChecksumHolds(r) == r.half = r.first.sum /\ r.rest = r.first.sum

\* Mutant of ReadAgain: an unchanged header is taken as proof.
ReadAgainUnchecked ==
  /\ Reading /\ reader.at = "again"
  /\ reader' = IF slot[reader.slot].header = reader.first
               THEN NextSlot([reader EXCEPT !.best =
                      IF @ = None \/ reader.first.gen > @.gen
                      THEN [gen |-> reader.first.gen,
                            env |-> [state |-> reader.half.state, other |-> reader.rest.other]]
                      ELSE @])
               ELSE Retry(reader)
  /\ UNCHANGED <<Unread, seen, applied>>

\* read_frame: the same header again, and the checksum; read_lane: the greatest
\* generation
ReadAgain ==
  /\ Reading /\ reader.at = "again"
  /\ reader' = IF slot[reader.slot].header = reader.first /\ ChecksumHolds(reader)
               THEN NextSlot([reader EXCEPT !.best =
                      IF @ = None \/ reader.first.gen > @.gen
                      THEN [gen |-> reader.first.gen, env |-> reader.half]
                      ELSE @])
               ELSE Retry(reader)
  /\ UNCHANGED <<Unread, seen, applied>>

\* apply_platform_envelope_locked: only a strictly newer state is applied
FinishRead ==
  /\ reader.at = "header" /\ ~Reading
  /\ applied' = IF reader.best # None /\ reader.best.env.state.stamp > applied.stamp
                THEN reader.best.env.state ELSE applied
  /\ seen' = [best |-> reader.best, floor |-> reader.floor, laps |-> reader.laps,
              asOf |-> version]
  /\ reader' = Resting
  /\ UNCHANGED Unread

Next ==
  \/ \E t \in Publishers : Update(t)
  \/ AttachAck
  \/ \E t \in Threads : Number(t) \/ BodyFirst(t) \/ BodyRest(t)
                          \/ HeaderFirst(t) \/ HeaderRest(t)
  \/ Rebind \/ SetClockBack
  \/ StartRead \/ ReadHeader \/ ReadBody \/ ReadAgain \/ FinishRead

Spec == Init /\ [][Next]_vars

\* The reader's sampler reads every second; a thread in write_frame goes on.
Fair(n) ==
  \/ n = 1 /\ (StartRead \/ ReadHeader \/ ReadBody \/ ReadAgain \/ FinishRead)
  \/ n = 2 /\ \E t \in Threads :
       Number(t) \/ BodyFirst(t) \/ BodyRest(t) \/ HeaderFirst(t) \/ HeaderRest(t)

FairSpec == Spec /\ \A n \in 1..2 : WF_vars(Fair(n))

-----------------------------------------------------------------------------
(* Properties *)

TypeOK ==
  /\ reader.slot \in 0..SlotCount /\ reader.try \in 1..Tries
  /\ \A i \in Slots : slot[i].header \in {None, Torn} \/ slot[i].header.gen % SlotCount = i
  /\ \A b \in DOMAIN mem : mem[b] \in Threads \cup {None}
  /\ lock \in Locked \cup {None}

\* What a read returns was published, as a whole and under that generation:
\* never parts of two frames, however often writers lap the reader.
NoTornFrame == seen.best # None => seen.best \in frames

\* A read that one publication at most overlaps returns a frame at least as new
\* as the one that was the latest when it began: the second slot is enough.
ReadIsRegular ==
  seen.laps <= 1 /\ seen.floor > 0 => seen.best # None /\ seen.best.gen >= seen.floor

\* When nobody is publishing, the frame that a reader takes carries the newest
\* state.
Quiet == \A t \in Threads : job[t] = Idle
Frame == CHOOSE i \in Slots : Valid(slot[i].header) /\ slot[i].header.gen = LatestGeneration
LaneIsCurrent ==
  Quiet /\ LatestGeneration > 0 => slot[Frame].header.sum.state.ver >= version

\* The reader ends up with the newest state that was published.
NewestStateIsApplied == <>[](applied.ver = version)
=============================================================================
